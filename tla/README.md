# sss: a TLA+ model of the handoff relay

sss is a store-and-forward relay: a sender uploads files to a server, the server
verifies and publishes them and answers with a short code, and anyone holding the
code fetches the payload until it expires. This directory holds TLA+ modules for
the server's transfer lifecycle, for how it takes uploads in, and for the sending
and the receiving client; TLC instances that check them; and TLAPS proofs of the
results that do not depend on an instance.

`PROJECT.json` lists components, runs, findings, hazards, theorems and, for every
definition, the source lines it models.

    cd tla
    tlc -workers 2 -config Simple.cfg MCServer      # one run
    tlapm Store_proofs.tla                          # one proof module

## 1. Inventory

| Component (source under `internal/`) | State | Operations | Interacts with |
|---|---|---|---|
| Transfer store, `store/sqlite` | rows of transfers, segments, claims, idempotency keys | create, set state, fail, note and TTL, publish (code), progress, claim, renew, complete, expire due, list stale, list unpinned, purge, remember and complete a key | everything on the server; one writer connection, each write a transaction |
| Payload layout, `store/files` | `staging/`, `live/`, `trash/` directories | prepare, write manifest, publish (rename), to trash, empty trash, list | uploads, publication, janitor, reconciliation |
| Publication, `transfer/publish.go` | none of its own | mark VERIFYING, record TTL, write manifest, rename to live, allocate code, cache the manifest; complete an interrupted one | store, layout, manifest cache |
| Simple upload, `transfer/simple.go` | a session per request | begin, add file, commit, abort | publication, admission, keys |
| Resumable upload, `transfer/advanced.go` | rows and segment files | create, PATCH, commit (verify, materialize, publish) | publication, admission, `materialize` |
| Admission, `admission` | reserved bytes of the rows, the disk | admit and reserve, check while streaming, release | creation, commit, purge |
| Idempotency keys, `api/public` and `store/sqlite` | one row per key | begin, replay, refuse, complete, forget, age out | the upload handlers, purge |
| Claims and downloads, `transfer/service.go`, `archive` | claim rows, download slots, manifest cache | look a code up, claim, serve a segment and renew, complete, local path, stream an archive | store, layout |
| Janitor, `janitor` | lists local to a sweep | expire, abandon stale uploads, delete unpinned, empty trash | store, layout; a ticker and `POST /local/cleanup` both start it |
| Reconciliation, `reconcile` | local lists | one pass over rows, live and staging directories, before the server is ready | store, layout, publication |
| Server process, `app/serve.go` | readiness | start, reconcile, serve, tick, stop | all of the above |
| Sending client, `client/send.go`, `pack` | session file, pack files | scan, resume or create, build packs, upload pool, commit, print | HTTP API |
| Receiving client, `client/recv.go` | `.dest.sss-partial/`, destination | claim, download pool, materialize, verify, rename, clean up | HTTP API, `materialize` |
| Auth, middleware, protocol types, integrity, platform, config, CLI | see `PROJECT.json` | | |

What is hard here: a handler reads a row, does slow I/O and then writes the row
without looking again; the janitor works from lists; directories and rows are two
stores that a crash can leave apart; a client's disconnection cancels the SQL of
the handler but not its renames; senders repeat requests, with and without a key;
descriptors outlive renames; and both clients resume from files that a killed run
left. Section 6 lists where this bites.

What makes each part correct: the store keeps codes unique, stable and present;
a code that resolves leads to the whole payload; an answered code resolves until
it expires; a lease keeps the payload; acknowledged bytes are kept; a key makes one
handoff; uploads together do not fill the disk; reconciliation leaves nothing
half done and loses nothing that was published; everything occupied is given back;
a code stands for what the sender scanned, and is not lost with the answer; a
destination appears whole or not at all.

## 2. Modules

| Module | Models | State and actions |
|---|---|---|
| `Transfers` | constants shared by all | transfers, segments, the length of a segment |
| `Store` | `store/sqlite` | one variable per column; one action per statement that writes; `StoreSpec` is also an abstract specification of the server |
| `Layout` | `store/files` | directories as records of inodes, files as byte sequences (authentic or hole) |
| `Service` | lookup of a code, the clock | |
| `ManifestCache` | `manifestCache` | the transfers it holds, oldest first |
| `Publication` | `publish`, `Abort`, request bookkeeping | one step per SQL statement, rename or file write |
| `Uploads` | simple uploads, create, PATCH | the same granularity |
| `Commit` | resumable commit and materialization | the same granularity |
| `Janitor` | `Sweep` | any number of sweeps at once; renames may fail |
| `Claims` | claims, segment requests, local paths, downloads | the manifest is looked up, read and cached in separate steps; an archive is opened entry by entry |
| `Reconcile` | `reconcile.Run`, `CompleteInterruptedPublish` | the three loops, a step per statement; `Crash` |
| `Recovery` | `Reconcile` alone, from any rows and directories | the specification the recovery proofs are about |
| `Handoff` | nothing: an abstract specification | what the holder of a code may rely on: hidden, then whole, then ended on time, and never back |
| `Server` | all of them around one store and one disk | handlers, sweeps, clock, crash, restart |
| `Idempotency`, `Admission` | the key table; reservations, watermark and streaming guard | one operator per statement or check |
| `Intake` | both, around the upload handlers | begin, check, insert, stream, PATCH within the upload slots, publish, answer, abort, sweep, crash, reconcile |
| `Send` | `client/send.go` with `pack` | the run, its upload pool, the session and pack files, the server's API, late requests |
| `Receive` | `client/recv.go`, `materialize` on the client | several runs of the command around one destination |
| `Store_proofs`, `Recovery_proofs`, `Server_proofs`, `Payload_proofs`, `Delivery_proofs`, `Intake_proofs`, `Send_proofs`, `Receive_proofs` | | inductive invariants and theorems (section 4) |
| `MCRecovery`, `MCServer`, `MCIntake`, `MCSend`, `MCReceive` | | instances |

`Server` composes its components by conjunction: each action of a component
changes the shared rows and directories and its own local state, and `Server`
says that the local state of the others stays.

`Server` implements two abstract specifications. `StoreSpec`: whatever the
handlers, sweeps and restarts do, the rows change only as single statements of the
store change them. `Handoff`, under the mapping `ShownNow`: of a transfer the world
sees nothing, then the whole payload, then a refusal from the promised moment on,
whatever happens in between (`KeepsPromise`). While the process is down the mapping
goes by rows and directories: what was published must still be there when the
process is back.

### Abstractions

- Payload bytes are authentic or not (on the client: whose they are). Digests and
  group proofs tell the difference, sizes do not.
- Every SQL write is atomic, as the store's single-writer transactions are. Each
  read, write, rename, truncate or unlink of a handler is a step of its own.
- A disconnected client cancels its request's context: from then on the handler's
  SQL fails, its file operations do not.
- Crashes are deaths of the process. The disk stays as it is; power loss, and so
  fsync, is not modelled. Graceful shutdown behaves like some crash.
- Other SQL errors, and failing renames during reconciliation, are not modelled;
  a failing rename to trash in a sweep is (`MaxFaults`).
- On the server packs and raw files are both "a segment becomes a payload file".
  On the client they differ (a rename against an exclusive create).
- `Serial` in `Publication` says whether a sender waits until the server is done
  with its last request before it repeats it. The code does nothing to ensure it;
  the passing runs with repeated requests assume it and the violation runs do not.
- `publish` puts the manifest into the cache in the step that allocates the code.
  What a late put can do after an invalidation is covered by the put of a reader
  (`Claims`, `ManifestPut`), which is a step of its own.
- A download of a single file is an archive of one entry.
- `Intake` reduces staging, publication and the sweep, which `Server` has step by
  step, to their effect on rows, keys and bytes; a sweep lists and deletes in one
  step. The unit of bytes is `admissionCheckInterval`, what a simple upload writes
  between two checks. PATCHes of one transfer are only counted, since they hold upload
  slots and differ in nothing else; one that has passed a check writes a unit and takes
  the next check in the same step, because what others write between the two might as
  well have been written before both. Nothing else keeps uploads apart. A file that is
  still open in a deleted directory counts as gone. `Slow` says whether a handler may
  outlast the lifetime of its key or of its staging directory.
- `Slow` in `Server` says whether a transfer may reach its staging timeout while a
  handler works on it. The code does not prevent it.
- `Send` takes the server as what its API promises: HEAD answers while there is a
  row, PATCH appends at the exact offset, a commit can be repeated. A byte is the
  version of the source it was read from. Runs of the command follow one another.
- In `Receive`, opening and sizing a segment file is one step and verification is
  one step. Between runs that do not overlap nothing could come in between;
  with overlapping runs this leaves out behaviours and adds none.
- `Receive` models an explicit destination. With the default one a second receive
  that finds the destination there picks another name instead of failing.
- Operators introduced as "Seeded fault" are not part of any specification. Each
  is a plausible mistake in the operator that follows it, used to confirm that the
  properties notice it.

## 3. Runs

Passing runs, with the distinct states TLC finds:

| Run | Configuration | States | What it shows |
|---|---|---|---|
| `recovery` | `Recovery.cfg` | 2.65 M | from any disk and rows, those knocked back after their publication included, with crashes: readiness means clean, nothing published is lost, codes are unique, stable and present, a withdrawn commit is final, and readiness is reached |
| `simple` | `Simple.cfg` | 1.76 M | a simple upload from request to deletion, with a claim, a download without lease, the manifest cache and failing renames; leases hold, what is served is whole, an archive that ends properly is complete; `StoreSpec` and `Handoff` are implemented |
| `retries` | `Retries.cfg` | 1.99 M | two segments, PATCH and commit repeated one at a time, across disconnections and a crash: acknowledged bytes stay, a repeated commit gives the same code, the code leads to the whole payload; `Handoff` is implemented |
| `sweeps` | `Sweeps.cfg` | 403 k | two sweeps at once with the staging timeout inside the clock: leases hold, and everything is reclaimed, published or abandoned (liveness) |
| `intake` | `Intake.cfg` | 1.06 M | two simple uploads with one key beside a resumable one that reserves: a key makes one handoff, answers no stranger's code and is released in the end (liveness); what uploads are sent passes the watermark by no more than they write between two checks |
| `send` | `Send.cfg` | 380 k | the command killed, cut off, resumed, its sources edited: a code stands for what was scanned, a published handoff is found again, the command succeeds in the end (liveness) |
| `receive` | `Receive.cfg` | 232 k | killed, failed and repeated receives publish whole payloads; resuming trusts only proved bytes and refetches no proved group; every run ends (liveness) |

Runs that exhibit a disagreement between code and documentation (`findings` in
`PROJECT.json` quotes the documents):

| Run | Property violated | In short |
|---|---|---|
| `two_commits` | `AnsweredCodeResolves` | a concurrent second commit fails the transfer the first published |
| `late_claim` | `LeasePins` | a claim opened between a sweep's list and its deletion |
| `receive_overlap` | `DestWhole` | two receives share one working directory |
| `send_packs` | `SourceChangedOnlyIfChanged` | a resumed send deletes the packs it is about to upload and reports changed sources |
| `overcommit` | `NoOvercommit` | two creations are both admitted before either has reserved |

Some passing runs depend on a constant that keeps another race out, and one violation
has a second cause. Changing the constants shows both:

| Change | Property then violated | In short |
|---|---|---|
| `Retries.cfg`: `Serial = FALSE` | `AckedBytesKept` | an overlapping repeat of a PATCH truncates acknowledged bytes (`advanced.go:183`) |
| the same, `NoCodeToIncomplete` alone | `NoCodeToIncomplete` | a PATCH that outlives the commit truncates the published file through its descriptor |
| `Retries.cfg`: `StagingTTL = 0`, `MaxTime = 1`, `Slow = FALSE` | `AckedBytesKept`, and without it `AnsweredCodeResolves` | a PATCH or commit starts on a transfer that a sweep has listed as stale and not yet deleted (`janitor.go:67`) |
| `Sweeps.cfg`: `Slow = TRUE` | `AnsweredCodeResolves`, and without it `LiveHasRow` | the staging timeout strikes during publication (`janitor.go:67`, `publish.go:26`) |
| `Sweeps.cfg`: `MaxFaults = 1` | `Reclaimed` | a failed rename to trash is not retried before a restart (`janitor.go:85`) |
| `Overcommit.cfg`: `Transfer = {a1, b1}`, `SimpleT = {a1}`, `Limit = 2` | `NoOvercommit` | a streaming upload takes what the only resumable one has reserved (`admission.go:102`) |
| `Intake.cfg`: `Slow = TRUE` | `OneHandoffPerKey` | a request that outlives its key is repeated while it is still publishing (`api.go:600`) |

### Bounds

One transfer is enough for what handlers, sweeps and receivers can do to one
transfer; transfers share only the code space, keys, disk space and the loops of
reconciliation and of the janitor (two transfers in `recovery`, three in `intake`). `simple` and `retries` have two segments: an archive of two entries, and
two PATCHes that run concurrently. Segments of the server are one byte, so that a
truncation loses all of it; `Recovery` starts from every content. The clock runs
past publication, expiry and the end of a lease; `MCHorizon` bounds expiries and
leases written near its end. Crashes are bounded by 1 in `Server` and `Intake`
(`Recovery` has no bound on them), failing renames by 1. `StagingTTL` lies past the
clock in `simple` and `retries`; in `sweeps` and `intake` it lies within the clock,
with `Slow = FALSE`. Segments are interchangeable in `simple` (symmetry, no
liveness).

In `intake` each upload has three units and `Limit = 6`: the resumable upload's
reservation fits exactly, while the three uploads together may be sent nine, past the
watermark, so that checks refuse. What they are sent gets to seven, where
`BoundedOvershoot` allows eight; with `Keyed = {}` the two simple uploads overlap more
freely and it gets to eight, so the bound is exact (5.9 M states). One upload slot makes
two PATCHes compete. Two codes for three transfers make codes come back after
a purge. `overcommit` has two resumable uploads of one unit and room for the
reservation of one.

In `send` a raw file of two units and a pack of one, three transfers, two versions
of every source and three faults (losses, kills, edits, expiries together) let a
run lose its transfer, its session or its packs and be edited on the way. One worker
is enough for what segments do to one another; the same properties also held with
two workers, and with three segments, at smaller fault bounds.

In `receive` a segment has 3 bytes and a group 2: a whole group and a short last
one. Two runs and one kill give every leftover a second run can meet. One of the
two segments is a pack.

### Fairness

`ServerFairSpec`: the Go scheduler runs every goroutine that can run, the ticker
keeps starting sweeps, time passes, and a dead process is restarted (weak fairness
on each). No client is obliged to send, to continue a body, to disconnect or to
fetch, so handlers that wait for their client have no fairness.
`IntakeFairSpec`: the same for the server's steps and the clock as one action; a
handler is a finite run of steps, so none starves another.
`RecoveryFairSpec`: reconciliation keeps executing; `RecoveryCompletes` assumes
that crashes stop. `SendSpec`: the command keeps executing and is run again until it
prints a code, and sweeps go on; faults are bounded. `ReceiveFairSpec`: the main
goroutine of a run and each of its downloads keep executing; nobody has to start a
run. Network requests end because the client has time-outs; which way they end is
free.

`Reclaimed` and `KeysReleased` are cut off where a deadline lies beyond the modelled
clock, or where a client that neither sends nor leaves holds that clock back.
Deadlock is checked in all runs of the server and of the intake; in `Send` and
`Receive` it is not, since commands end, and `RerunSucceeds` and `ReceiveEnds` say
that they do.

## 4. Proofs

The theorems hold for every value of the constants that the named assumptions
admit: any number of transfers, segments, requests, sweeps, receivers, runs and
crashes. `theorems` in `PROJECT.json` lists them.

### The store

`Store_proofs`, of `StoreSpec`: `StoreTypeOK`, `CodesUnique`, `CommittedHasCode`,
`CodeStable` and `NeverCommittedTwice`. The inductive invariant `StoreInv` adds that a
code, a segment or a claim belongs to an existing row, as the schema's foreign keys
ensure of the last two: without that a purged and re-created row could carry an old
code. Each statement of the store has a lemma.

### Reconciliation

`Recovery_proofs`, of `RecoverySpec`, from any rows the store can hold and any
directories whatever, with any number of crashes: `ReadyResolvesValid`,
`ReadyNoGarbage`, `ReadyNoHalfCommit` and `KeepsPublished`. `RecoveryInv` says what
the first loop has made of the transfers it is done with (`Settled`), what it knows
of the one in hand between two statements (`InHand`), and what the two later loops
have left. The promises of readiness are not inductive: they say nothing before the
end. A crash re-enters at the start, where `RecoveryInv` asks for nothing but types
and the store's own guarantees. Assumed: `CodesNeverRunOut`, a free code exists.
With 32^8 codes that is the normal case; without it an interrupted publication is
refused and `ReadyNoHalfCommit` fails.

`StartupIsLinear` is the ranking argument behind `RecoveryCompletes`, and says how long
startup takes: `StepsLeft` counts five statements for a row, three for a live directory
without one, one for a staging directory and one at the end of each loop, nine for each
transfer and five more in all. Every statement lowers it, refused publications included;
it is zero exactly at readiness; only a crash sets it back. That the next statement can
always be executed, which liveness also needs, is left to TLC.

### The server

| Module | Theorems | Rests on |
|---|---|---|
| `Server_proofs` | `ServerTypeOK`; `ServerSpec` implements `StoreSpec`; so the store's theorems hold of the running server | `ServerTypes`, with `FilesOK`: directories refer to inodes that exist and files are no longer than declared |
| `Payload_proofs` | (lemmas) | `Base`, below |
| `Delivery_proofs` | `NoCodeToIncomplete`, `ServedWhole`, `ArchiveWhole`, `AnsweredCodeResolves`, `LeaseHolds`, `ExpiryAsRequested`, `KeepsPromise` (`ServerSpec` implements `Handoff`), `LiveHasRow`, `AckedBytesKept` | `Base` and an addition for each |

`Base` says what connects the two stores, rows and directories. A row that is
committed has a live directory; a live directory is whole and its row takes no more
bytes; a request between two statements may rely on the state it set (`RequestOK`);
what stands on a sweep's list can only be on its way out (`SweepOK`); nothing runs
before readiness; reconciliation acts on what rows and directories still say.
`NoCodeToIncomplete` alone is not inductive: the whole payload has to be traced back
from the code through the rename and the manifest to the files as they were added.
The additions: `Lifetimes` (which request's lifetime a row carries), `Faces` (the
state of `Handoff` a transfer shows at each statement), `LiveKept` (when a live
directory may be without a committed row), `BytesKept` (acknowledged bytes, recorded
progress and the descriptor of the PATCH at work).

These theorems are of the form `ServerSpec /\ []Calm => ...`. `Calm` says that of one
upload no two requests which a sender sends one after the other are at work at once
(`Alone`), and that no sweep abandons a transfer a request is working on
(`Undisturbed`). The code does not enforce either: the run `two_commits`, and
`Retries.cfg` and `Sweeps.cfg` with the changes of section 3, show the promises broken
without them.

`Calm` looks into the janitor, and an operator cannot tell whether it holds.
`TimelyIsCalm` traces it to what senders and clocks do: senders wait for their own
requests (`Patient`), and no request is at work on an unpublished transfer that has
outlived the staging lifetime (`Timely`). The step in between is `ListedStale`: what a
sweep has on its list to abandon was past that lifetime when it was listed, still is, and
so cannot be the target of a timely request, however long the sweep takes. It is not
enough that a request which starts in time ends in time (`Slow = FALSE`): one that starts
late meets a sweep that has listed its transfer (section 3). `OrderlyIsCalm` is the
corollary for the settings of the passing runs: no staging timeout within the clock, or
uploads in one request with `~Slow`; so the hypothesis is satisfied there. With a staging
timeout within the clock `Timely` still leaves abandoned uploads and publications after
the timeout possible.

Further assumptions: the clock stays within what the store takes for times
(`ServiceAssumption`); `Owned` for `KeepsPromise`: every transfer identifier is that of
some upload session, without which the abstract state of an unused identifier is a
matter of convention; `EnoughCodes` for `LiveHasRow`: with fewer codes than transfers a
refused publication leaves its directory (section 5).

### Admission and keys

`Intake_proofs`, of `IntakeSpec`: `IntakeTypeOK`, which includes that no transfer
occupies more than twice its declared size, and that `IntakeSpec` implements `StoreSpec`; with
`~Slow` also `OneHandoffPerKey` and `AnswersOwnCode`; for finitely many transfers also
`BoundedOvershoot`, of handlers of any length. `KeysInv` says that a row which may
still be published keeps its key until the key ends (`KeyHeld`), that a request under way
owns the row of its key (`PendingOwns`), that two transfers of one key never both promise
a handoff within its lifetime (`Apart`), and that a recorded result is of the transfer it
names (`ResultOK`). `~Slow` excludes handlers that outlast their key; the code has no such
bound (section 3).

`OvershootBounded` proves `BoundedOvershoot` for any finite number of transfers, any
sizes, limits and upload slots. That the disk is never overcommitted is false (run
`overcommit`): reservations are made after they are checked, and streaming uploads do not
look at them. What the checks of `CheckStreaming` do ensure is proved instead: what
uploads are sent passes the watermark by less than one unit for each upload slot and each
simple upload. `BytesInv` gives each transfer a weight (`Weight`): a resumable one what it
was sent and a unit for each PATCH that goes on; a simple one what it was sent less one
unit, and a unit more while its body goes on. The weights together stay below the
watermark and the upload slots. A step either eases the weight of its transfer (`Eases`),
also when the transfer is abandoned or deleted meanwhile, or has just passed a check; and
then the disk is below the watermark and the slots are not all taken, so the weights are
low enough. What a commit extracts weighs nothing: no check looks at it.
The properties are sums over sets, whose fold is defined by recursion; the lemmas about it
(`SumCounts` to `SumOfOnes`) turn the sum into the size of a set of units, for which the
library has theorems, by taking a smallest subset on which the two differ. A statement
then changes the weight of one transfer, and what it does to the sum follows from that.

### The clients

`Send_proofs`, of `SendSpec`: `SendTypeOK`, `SentIsScanned` and `CodeRecoverable`.
`SendInv` ties a transfer to one plan through the session file, the run in memory and
commits still on their way (`OwnerInv`), says that a late commit declares what was
scanned (`LateInv`), and that whatever is or may yet be committed is known to the next
run or was given up (`CoverInv`). Requests that arrive after the run has died are why
memory and file are not enough.

`Receive_proofs`, of `ReceiveSpec`: `ReceiveTypeOK`, also for runs that overlap; with
`~Overlap` `DestWhole`, for any mixture of handoffs; with `~Overlap` and all runs
receiving one handoff (`OneHandoff`) `FetchedAuthentic` and `KeepsGroups`. `DestInv` says
that one run works at a time, that from verification to the rename nothing touches the
payload, and that once a destination exists nothing runs but the removal of the working
directory. `FetchInv` says that every segment file is a beginning of the segment, and
where each download stands in it: the offset is the length of the file, except between
opening it and cutting it at a group boundary. Nothing in the code keeps two runs out of
one working directory (run `receive_overlap`), and with leftovers of another handoff a
segment file need not be a beginning of this one; `DestWhole` survives that because the
payload is hashed again. Thirteen actions of a download are first reduced to seven
effects on the disk (`JobMoves`), and the invariants are proved of those.

`DownloadsAdvance` and `RunsAdvance` are the ranking arguments behind `ReceiveEnds`.
`JobRank` orders what is left of a download: in `fetchVerified` bytes first, then
attempts, then statements of a round, because a group that is written resets the
attempts; in `fetchSegment` attempts first, because a round that fails starts from
whatever is on disk. Each statement lowers it and only the start of a run raises it, also
when runs overlap. It needs that a group is read, repaired and written only where the
segment is incomplete (`Unfinished`), so that every group brings a byte. `RankAt` orders
the places of a run, with the files still to place and the entries still to remove; with
`~Overlap` no other run adds to them.

### What the proofs changed

Two definitions did not say what they were meant to. `LeaseHolds` counted a transfer as
doomed while it is on the list of a sweep that picks its next one, but not while that
sweep is in the middle of deleting another; it now does. `Handoff` let one transfer
change per step, but a crash ends all uploads that have left no row at once; it now says
what may become of each transfer. And the assumption that a handoff has at least one file
had to be parenthesised to mean it.

### Only model-checked

- Liveness (`RecoveryCompletes`, `Reclaimed`, `KeysReleased`, `RerunSucceeds`,
  `ReceiveEnds`): fairness and ENABLED are out of the prover's reach. Of
  `RecoveryCompletes` and `ReceiveEnds` the ranking is proved, so what TLC adds is that
  some step is always enabled; of the other three nothing is.
- The properties of the violation runs, where TLC finds the counterexample.

## 5. Known gaps that are not findings

- When codes run out, `Publish` refuses after the rename; `Abort` purges the row
  and the live directory stays until a restart.
- `Commit`'s `MkdirAll` can re-create a staging directory that a sweep has just
  removed; it stays until a restart.
- A receive killed while extracting a pack leaves a file that makes the next
  receive fail once (exclusive create) and clear the working directory.
- `GET /r/{code}` streams without a lease: a sweep can cut an archive off, and the
  client can tell (`ArchiveWhole`).
- `fetchSegment`, the path without a verification tree, writes bytes before they
  are proved, and `fetchVerified` in a later run takes what it finds up to a group
  boundary for proved, against its own comment (`recv.go:192`). `FetchedAuthentic`
  therefore speaks of behaviours in which no unproved byte was written
  (`unproved`); `DestWhole` holds in all of them because materialization hashes
  every file again.
- When `repairGroup` fails, the stream stays one group ahead of the offset, so every
  later group of that stream needs a side request (`recv.go:254` says the stream is
  positioned correctly). `ReceiveEnds` and `FetchedAuthentic` are not affected.
- A payload file that an interrupted receive of another handoff placed for the same
  destination is published together with the new payload: `materialize.Run` keeps
  the directory and verifies declared files only.
- A staging timeout that strikes during a PATCH removes the directory, and the PATCH
  may then set the abandoned row back to UPLOADING; a later sweep takes it again.
- `Send` removes the session before the code is printed; a kill in between loses the
  code for good (`CodeRecoverable` counts such a transfer as given up).
- The session file is written with `os.WriteFile`, which is not atomic. A torn file
  is read as no session, and the send starts over.
- A create whose answer is lost leaves a transfer and its reservation until the
  staging timeout: the client sends no key.
- The fingerprint of a keyed simple upload does not cover the body, so a repeat with
  other bytes replays the first result.
- `Scan` accepts plans that the server refuses when it validates the manifest at
  creation or commit: trees of directories only, directories that differ in case,
  and modification times before 1970.
- Two sends of the same sources at once share session and packs and can take them
  from each other.

## 6. Hazards

`hazards` in `PROJECT.json` lists them at their lines with the properties that
cover them. Without a property: leftovers of another handoff in the working
directory (`materialize.go:47`), a request that outlives its key (`api.go:600`) and
two sends at once (`send.go:98`); each entry says why. Two more have no passing run
because they do happen: a staging timeout during publication (`janitor.go:66`) and an
overlapping repeat of a PATCH (`advanced.go:183`); the last table of section 3 shows
them. The overlap of two commits (`advanced.go:370`), the claim after the list
(`service.go:466`) and the admission race (`advanced.go:70`) are shown by violation runs.
A failed rename in a sweep (`janitor.go:85`) is made good by the next start
(`ReadyNoGarbage`), and by nothing before it.

## 7. Plan

Done in this order: `Store`, `Layout`, `Reconcile` and `Recovery` with proofs,
`Publication`, `Uploads`, `Commit`, `Janitor`, `Claims`, `Server`, `Receive`; then the
manifest cache and downloads, `Handoff` and its refinement, `Idempotency`, `Admission`,
`Intake` and `Send`; then the proofs of `Send`, `Server` with both refinements, `Intake`
and `Receive`; last the watermark, what `Calm` rests on, and the rankings of
reconciliation and of the receiver.

Two things that were planned turned out otherwise. That `~Slow` alone gives `Calm` for
resumable uploads is false (the `StagingTTL = 0` row of section 3); `TimelyIsCalm` took
its place. And that admission keeps uploads together below the watermark is false as
well; the bound on what they are sent took its place, for any number of uploads, since
the sum itself could be reasoned about.

Open, and not attempted:

1. `DestWhole` for overlapping runs up to the first one that verifies, to say how much
   of the promise the missing lock costs.
2. Rankings for the sender (`RerunSucceeds`) and for the sweeps (`Reclaimed`).
3. Pure algorithms: code normalisation, TTL parsing, manifest validation and pack
   planning, against reference definitions over bounded inputs.

Not modelled, and not planned: authentication, middleware, configuration and logging
keep no transfer state; BLAKE3 and its trees are taken as perfect;
fsync matters only under power loss, which the file system and not this code
decides.
