# A formal model of Attachment Gate

Attachment Gate is a Go command line tool. `attachment-gate scan` takes a batch of uploads from
a quarantine directory, decides every file by a policy (type, archive rules, malware scan) and
publishes the approved files with a manifest by renaming a staging directory. This directory
holds TLA+ modules of that program, TLC configurations that check them, and proofs for TLAPS.
Paths such as `scan.go:312` are below `src/internal/...`.

## Inventory

| Component | State | Operations | Interacts with | Correct when |
| --- | --- | --- | --- | --- |
| scan orchestration, `app/scan.go` | the batch, record counter, records, bytes extracted, files found in archives, `approved/`, work files | load, snapshot, detect, preflight, malware scan, extract, validate, copy, publish | calls every other component, one goroutine | every file has one record; what is approved is what was checked; limits hold over the whole scan; one bad file costs only itself |
| type policy, `app/policy.go` | none | warnings and rejections by type | scan orchestration | every risky type is rejected or flagged on every path |
| result staging, `output/staging.go` | temporary directory, published path, modes, what is fsynced | `New`, `CopyContext`, `WriteManifest`, `PublishContext`, `Abort` | the file system, other scans with the same output path | a result appears whole, durably, once; a failure leaves nothing |
| archive reader, `archive/zip.go` | maps of names seen, the destination directory, bytes extracted | `Preflight`, `Extract` | scan orchestration, the file system, `archive/zip` | names that collide are refused, limits hold whatever the headers say, failures clean up |
| batch loader, `batch/input.go` | snapshots of the batch's directory entries | `LoadContext` | the writer of the batch | what it returns existed at one moment |
| clamd client, `malware/clamd.go` | one connection with deadlines | `Ping`, `Version`, `ScanReader` | clamd | a verdict belongs to the bytes sent; timeouts are told from errors |
| type detector, `detect/*.go` | none beyond a call | `Detect` (libmagic, containers, image probes, text checks) | `file`, `python3`, the archive reader | a type does not depend on the order of entries; an error ends the file, or the batch by policy |
| configuration, `config/config.go` | none | parse, validate, `ParseByteSize` | everything | limits are positive and do not overflow |
| file naming, `app/names.go` | none | output names | scan orchestration | names are unique and bounded |
| manifest, `manifest/manifest.go` | none | schema, summary | scan orchestration | the summary agrees with the records |
| doctor, `app/doctor.go` | none | version and ping queries | detector, clamd | - |
| command line, `cmd/attachment-gate/main.go` | the signal context | argument parsing, exit codes | scan orchestration | exit codes as documented |

What is hard in this code:

* **Interleaving.** Two scans may be given one output path. A writer may still change the
  quarantine while a scan reads it. A signal or a timeout falls between any two steps.
* **Partial failure.** Nearly every step of staging is a system call that can fail after others
  succeeded, and `Abort` has to undo whichever of them happened. A file's failure may end that
  file, or the batch, depending on where and on the policy.
* **Crashes.** The result must survive a power loss whole or not at all.
* **Accounts kept far from where they are used.** The byte limit and the room for records are
  computed at a container's preflight and used after its malware scan and extraction.
* **Lying inputs.** Archive headers disagree with the streams; names collide on some volumes only.

`PROJECT.json` lists each of these as a hazard at its line, with the property that covers it.

## Modules

| Module | Models | Proofs |
| --- | --- | --- |
| `AtomicPublish` | what an observer of the results root may see; abstract | |
| `Staging`, `MCStaging` | `output/staging.go` in the order `Scan` drives it, several scans | `StagingProofs` |
| `Scan`, `MCScan` | `app/scan.go`, `app/policy.go`: one scan from the loaded batch to publication | `ScanProofs`, `ScanLedgerProofs` |
| `Extract`, `MCExtract` | `archive/zip.go`: one extraction, preflight included | `ExtractProofs` |
| `BatchLoad`, `MCBatchLoad` | `batch/input.go`: one load against a writer | `BatchLoadProofs` |
| `Clamd`, `MCClamd` | `malware/clamd.go` and its callers: one conversation with clamd | `ClamdProofs` |
| `Detect`, `MCDetect` | `detect/detector.go` after libmagic has answered, and `detectorFailure` of `scan.go` | `DetectProofs` |
| `Limits` | the arithmetic of limits in `config.go`, `input.go`, `detector.go`, `zip.go`; pure | `LimitsProofs` |

The modules meet in the calls between the components. `Scan` treats a publication as one step
that succeeds or fails; `Staging` opens that step up and treats each upload as one snapshot and
perhaps one file copied. `Scan` takes the outcome of an archive (refused, fails while inflating,
bytes, entries) from its document; `Extract` derives that outcome from the archive's entries.
`Scan` relies on two facts about the archive reader and `Extract` checks them: an extraction
accounts at most the limit it was given (`BudgetKept`), and it finds as many files as the
preflight counted (`CountsAgree`). `Scan` starts from a loaded batch; `BatchLoad` is that load.
`Scan` takes a verdict of clamd and of the detector as one step with the outcomes it may have;
`Clamd` and `Detect` are those steps, up to the exit code or the reason recorded. `BatchLoad` and
`Detect` use the comparisons of `Limits`.

### Staging

A state has, for every scan, its control point, `Staging.Path`, its exit code, its context and
the files it has recorded, and for the directory it made the entries in it, their modes and what
is not yet fsynced. `final` says whose directory has the output path for name, `anchored`
whether that name is durable. There is one action per group of system calls between which
another scan or a fault can be observed: `NewLstat`, `MakeTemp`, `Snapshot`, `CopyWrite`,
`CopySync`, `Unscratch`, `WriteTmp`, `RenameManifest`, `PublishCheck`, `ChmodFiles`,
`SyncApproved`, `SyncRoot`, `LstatFinal`, `RenameFinal`, `SyncParent`, and `AbortChmod`,
`RemoveEntry`, `RemoveRoot` for the deferred `Abort`. `rename(2)` replaces an empty directory, as
it does on POSIX systems; Go's `os.Rename` looks at the target before, so a gap remains
(`LstatFinal` and `RenameFinal`). Faults are a constant: I/O errors, a failing sync of the
results root, failing removals, an error of clean-up that another error masks, cancellation,
`SIGKILL`, power loss.

A power loss keeps what was fsynced and loses any subset of the rest. Not modelled: file modes
after a power loss (they are changed after the last fsync of a file), the durability of a removal,
and subdirectories of `approved/`.

### Scan

A document stands for the bytes of a file together with all that the detector, the archive
reader and clamd would say of them: kind, excluded name, size class, mismatch of extension and
type, infection, a defect and the entries. So equal documents mean equal digests, and a document
that a writer puts in a blob's place has verdicts of its own. One upload or entry is in hand
(`cur`) and passes through `detect`, `preflight`, `malware`, `extract`, `validate` and `copy`;
each way out of the loop in the code is a disjunct. `Decided` says where the loop goes on, which
differs between uploads and entries. `Stop` is every check of the context; `IOFails` merges the
file operations that end the scan with exit code 5; `DetectFails` and `MalwareFails` follow the
policy (`reject` or `reject_batch`). Names are numbers: an output path is the upload's index,
with the entry's record number below an archive.

### Extract

A path is a sequence of spellings; `NFC` and `CaseFold` are functions on spellings, so two
spellings can be the same name on a volume. `Admit` is a round of the preflight loop with its
three maps of names (`nodes` stands for all three), `MakeDir`, `Open` and `Copy` fill the
destination, `Cleanup` is the deferred removal. An entry has a declared size, an actual size and
a checksum that is right or not. What `archive/zip` returns when these disagree is external and
modelled from how the code treats it: a chunk beyond the declared size is dropped and reported
as `ErrFormat`, a short stream as an unexpected end. The volume folds names, which is the
strictest case: an archive accepted here fits everywhere. The layout of the central directory, the
syntax of a path and directories with a compressed body are flaws of the archive or an entry.
Only of the lexical order of directories the part that matters is kept: parents first.

### BatchLoad

A state has two directories that compete for the batch's path (each node with inode and time of
its last change), the loader's control point, the `FileInfo`s it keeps (`info`, `snapshots`), the
file it has open, and a clock that every change advances. There is one action per group of calls
between which the writer can come: `CollectRoot`, `OpenUpload`, `ReadUpload`, `CollectBlobs`,
`OpenBlob`, `HashBlob`, `RecheckRoot`, `RecheckUpload`, `RecollectRoot`, `RecollectBlobs`,
`RecheckBlob`, and `Return` and `Report` for what `Scan` does next. The writer rewrites a file in
place (also the one that is open, or one in the directory that is not visible), renames a file or
a link over another, removes one, adds an undeclared entry, replaces `blobs` or exchanges the whole
directory. A file that was written since it was opened reads as anything between two contents.

Assumed of the file system: an inode is not used again, and every change of a file or of a
directory's names shows in its modification time. A coarse clock, `utimes` and hard links are thus
excluded; for them the digests of the snapshots that `Scan` takes later remain (`ApprovedIsDeclared`).
Lstat, open and fstat of one path are one step, `OpenRaced` stands for a change between them, and a
directory is listed in the same step. Permission bits, the checks of the quarantine root before the
first reading (`input.go:58-79`) and the syntax of declarations are left out or are `malformed`.

`LoadedAtOneMoment` says that what was loaded was, whole, what the path named at one moment. It is
claimed for up to two exchanges of the directory. That bound is the code's: each of the final
comparisons looks its path up anew, so a writer that exchanges the directory between two of them,
three times or more in all, can have the upload of one directory accepted with blobs of the other.
(TLC finds this with `MaxChanges = 3` and the bound dropped.) The digests agree with the
declarations even then.

### Clamd

A state has the client's control point and how far it has read the file, the socket with what clamd
has not read yet, what clamd took and answered, and the timers. The connection's deadline is
the context's, so after `Deadline` three things may happen in any order: `ConnTimer` (the poller),
`CtxTimer` (the context), `Interrupt` (the function registered with the context). A cancellation
of the batch ends the file's context too. clamd may refuse, fail, answer nonsense, close or stall at
any message, and answers a stream beyond its limit without waiting for its end. `Receive`,
`Examine` and `Classify` are the error handling of client and caller, which look at the contexts one
after the other; a timer may fire between. A message is one step: the framing of chunks and
of answers (`readNUL`) is abstracted to `garbage`. clamd is external.

Two results that the code's order of checks gives and `FailureHasCause` allows on purpose: under
`reject_batch` a file that cannot be read in the middle of its stream ends the batch with 4, the exit
code of a failing dependency, although clamd did nothing wrong (`app/scan.go:551-562`, whereas one that
cannot be opened is 5); and a deadline that has passed while the file's context does not say so
yet is charged like an error (see `clamd_timeout` under Findings).

### Detect

A document is what libmagic, the archive reader and the image decoders would say of it: a class of
MIME types, entries by directory and role, text by units, dimensions. `InspectEntry` is one round of
`inspectZIP`, `TextUnit` one of the UTF-8 or UTF-16 loop; `Stop`, `Timeout` and `Cancel` come between
any two. `Failure` is `detectorFailure` with the order of its tests. Two content types entries in one
container do not occur, because the preflight refuses equal names. The header of a lossless WebP
(`VP8L`) is computed from its bytes; the dimensions of other formats are numbers of the document.
Not modelled: `zip.OpenReader` failing after the preflight has read the same file, and the
temporary file the detector's snapshot is read from.

## Runs

| Run | Instance | Shows |
| --- | --- | --- |
| `staging` | 2 scans, 1 file, 2 uploads, every fault | the safety properties below, over every interleaving |
| `staging_atomic` | 2 scans, 1 file, 1 upload; I/O errors, cancellation, kill, power loss | `Staging` implements `AtomicPublish`; a started scan ends |
| `staging_retract` | 1 scan, only a failing sync of the results root | counterexample, see findings |
| `scan` | 43 batches of 2 or 3 uploads, strict policy, every fault, writer | what records and `approved/` may contain |
| `scan_local` | all 361 pairs of 19 documents, 30 triples that exhaust the limits, lenient policy, detector and clamd fail | limits hold, every batch is published |
| `scan_policy` | 2 batches, the shipped profile | counterexample, see findings |
| `extract` | about 18 000 archives of up to 4 entries, every fault | names, limits, completeness, clean-up |
| `batch_load` | 7 batches of 2 blobs, 2 others to exchange with, any 2 changes, I/O errors, cancellation | what is loaded existed, and a load fails for a reason |
| `clamd` | 4 files up to one chunk beyond the limit, both policies, every fault | verdicts are true; each exit code and verdict of a failure is charged to a cause that happened and may be charged with it; no conversation hangs |
| `clamd_timeout` | 1 file, a clamd that stalls, a deadline | counterexample, see findings |
| `clamd_limit` | 1 file of three chunks, a limit of one, no fault | counterexample, see findings |
| `detect` | containers of up to 3 entries, texts of up to 5 units, pictures around the pixel limit, every event | types do not depend on order, errors end what they should |

Properties of `Staging`: `PublishedWhole`, `SuccessIsPublished`, `FailureLeavesNothing`,
`PublishedReadOnly`, `ResultIsStable`, `CanceledStaysHidden`, `ScanEnds`, and the refinement
`PublishesAtomically`. Of `Scan`: `Ledger`, `ApprovedIsDeclared`, `OnlyPassedFiles`,
`RiskIsFlagged`, `BudgetHeld`, `DiscoveredBounded`, `BatchCompletes`. Of `Extract`:
`CollisionsAreExact`, `IOOnlyFromFaults`, `FailureRemoves`, `ResultIsComplete`, `BudgetKept`,
`CountsAgree`. Of `BatchLoad`: `LoadedAtOneMoment`, `FailsForAReason`. Of `Clamd`: `VerdictIsTrue`,
`FailureHasCause`, `DialogueEnds`. Of `Detect`: `ContainerTypeIsExact`, `TextIsWellFormed`,
`ImagesFit`, `FailureStaysWithFile`. Each has a type invariant as well. The comment above a property says what it
claims of the code.

For every property there is a mutant in `PROJECT.json`: an operator, marked "Mutant" in its
module, that stands for a plausible mistake in the code and makes the run fail.

### Bounds, and why they are enough

* Two scans: the protocol has no state shared by more than the winner and one loser, and a third
  scan meets the same `final`. Symmetry is used only without liveness properties.
* One file and up to two uploads: a result with the file, without it, and a scan interrupted
  before, between and after uploads. Entries of one directory are treated alike by the code.
* Pairs of uploads: the loop carries only the accounts, the record counter and the archive in
  hand from one upload to the next; all pairs show each document after each other, and
  `Exhausting` puts a third where the limits have been nearly used up.
  `MaxDiscovered` (6 or 8) and `MaxExtracted` (6) lie between what one and two containers need.
* Archives: all pairs of 60 named entries (paths of one or two components over four spellings,
  three kinds) and triples over fewer names, because a conflict is between two entries and the
  maps need a third to be wrong about a directory that two share. Sizes 0 to 3 around a file
  limit of 2, a total of 3 and a declared total of 4, so each limit is met, passed by one, and
  met by two entries together.
* Loads: two blobs, because the final loop compares them one by one in any order; uploads that
  agree with the blobs, that do not, that name a blob twice, that pass the total or do not parse.
  Two changes let a file or a directory be changed and changed back, or one be changed in each of
  two directories. Contents of one or two blocks, so that two of one size differ.
* Conversations: a socket of two messages fills while the client still writes; a limit of two
  chunks lies between the files. The moment of the deadline comes at any point or never.
* Containers: three entries of every role show each sign before, after and without another, both
  `android` with `dex` and apart. Texts: five units hold a pair between two others; the share of
  NULs is one in three instead of one in a hundred, so that it is met and passed. Pictures: all
  sides up to 8 around a limit of 15 pixels, and header bytes around each border of the bit fields.
* Deadlock is not checked: a scan that has exited takes no step, and `Staging` may end with
  every scan dead. That a scan does not get stuck is what `ScanEnds` and `BatchCompletes` say.

### Fairness

`Staging!FairSpec` has weak fairness of each scan's own steps once the scan was started: a process
that runs is scheduled, and every system call returns. No fault, cancellation or start is
assumed to happen. `Scan!FairSpec` has weak fairness of `Step`, which leaves out faults, the writer
and cancellation; `BatchCompletes` is checked without faults that end a batch.

`Clamd!Spec` has weak fairness of the client, of clamd's `Handle` unless it has stalled, and of
the two timers and the context's function once they are due. It does not assume that the deadline
passes: `DialogueEnds` therefore allows the client to wait as long as clamd stalls, no deadline has
passed and nobody cancels, and nothing else.

## Theorems

Every invariant and every action property that a run checks is also proved, for all values of the
constants: any batch, archive, text or file, any policy, limit, number of scans, uploads and
changes, and any choice of faults. `PROJECT.json` lists which theorem states which property.

The assumptions on the constants say what the code has seen to before a module starts:

* `ScanAssumption`: limits are natural numbers; documents have the shape the module gives them; a
  batch was accepted by the loader, so it is not longer than `MaxDiscovered` and its uploads are
  regular files (`validateBlobEntries`, `input.go:283`): only entries of archives are links.
* `ExtractAssumption`: limits are positive, as `validateLimits` demands; normalizing twice is
  normalizing once; a path has at least one component, as `safeName` demands.
* `BatchAssumption`: contents are not empty sequences, because the empty one stands for a link.
* `StagingAssumption`: `None` is no scan, and the names of a result's files are not those of the
  manifest and the directories.
* `DetectAssumption`: a text in UTF-8 has no surrogates (its decoder yields none), and the share of
  NULs divides by a positive number.
* `ClamdAssumption`: the socket holds at least one message; a command asks for the dependency
  dialogue or for a scan.

Each module's proofs rest on one inductive invariant; the arguments are these.

**Scan** (`ScanProofs`, then `ScanLedgerProofs`).

* `TypeCorrect`: the type invariant is inductive once it says that an upload is in hand while one
  is processed.
* `BudgetRespected`: `Spec => []BudgetHeld`. The bound alone is not inductive: between preflight
  and extraction the limit sits in a variable. `Reserved` adds that while a preflighted container
  is in hand, its size is within that limit and the limit is still left of the total, because
  nothing else is inflated in between.
* `DiscoveredRespected`: `Spec => []DiscoveredBounded`. Room is checked once for an archive and
  used record by record. `Accounted` adds that records plus undecided entries equal the uploads
  reached plus the files found in archives, and that all uploads plus these files fit.
* `LedgerKept`, `ApprovedAlwaysDeclared`, `OnlyPassedAlways`, `RiskAlwaysFlagged`. `Numbered` ties
  the counter to the manifest's length, `InHand` says which declared document the file in hand is
  and which checks it has passed at each control point, `Opened` that the records of an open
  archive are its first entries and `members` the rest, `Families` and `Sorted` that everything
  before is complete and in order. The steps fall into classes (`StepKinds`): a step
  idles, moves the file in hand on, ends the scan, takes up an upload or an entry, or decides a
  record, and a few actions stand alone; each part of the invariant is carried over the classes. The proof
  showed that a nested archive is copied with its defects unseen, since nothing inflates it;
  `OnlyPassedFiles` says so.

**Extract** (`ExtractProofs`).

* `BudgetTheorem`: `Spec => []BudgetKept`. `Within` adds that a copy is at an entry; `CopiesIs` and
  `InterruptedIs` say that a copy, however it ends, accounts at most `Allowed`.
* `CollisionsAreAlwaysExact`: `Mapped` says what the maps hold of the entries passed: every level of
  their paths, as a file or a directory, and whether an entry of its own names it. From this
  `ConflictIs` shows that a refused entry meets one that no volume can hold beside it, and that an
  admitted one meets none (`Checks`, `AllCoexist`).
* `IOErrorsAreFaults`, `FailureAlwaysRemoves`: `Stores` says what is on disk after each entry, so
  that `O_EXCL` never meets a name and no directory is missing; `Ending` what a failure leaves.
* `ResultIsAlwaysComplete`, `CountsAlwaysAgree`: `Results` says which files and which rejections the
  first n entries gave. Sums over entries are stated by a function that exists (`Sums`) instead of
  a fold, and the k-th rejection by counting the links before it.

**Staging** (`StagingProofs`). `IInv` has, for each scan, six parts: `Names` (which name its directory
has), `Exits` (when the exit code is decided), `Holds` and `Sealed` (what the directory holds, what of
it is durable and read-only at each point on the way to the rename), `Visible` (what is at the output
path is whole until its owner takes it back) and `Leaves` (what is left to remove). So the rename can
only show a whole tree. A step of one scan leaves the others' records and directories
alone (`Bystanders`); what it may do to the output path of another, the rename over a directory that
its owner has emptied and the removal of such a directory, is `Others`. One lemma per action does the
rest. `ResultIsAlwaysStable` and `CanceledAlwaysStaysHidden` are action properties from
the same invariant. `PublicationIsAtomic` is the refinement of `AtomicPublish`: initial states map to
initial states, every step to a step of it or a stutter. Its assumption, that the sync of the
results root does not fail, cannot be dropped: with it the code takes back what is visible
(`staging_retract`). `Untouched` adds what the refinement needs: nobody takes a visible result back.

**BatchLoad** (`BatchLoadProofs`).

* `AlwaysLoadedAtOneMoment`: `Spec => []LoadedAtOneMoment`. `IInv` is built in the order the loader
  works. `Inodes`: nothing is from the future and the two directories share no inode, so what the
  writer makes is told from all that was seen. `Reading` and `Known`: a node with the inode and
  time first seen has the content that was read. `Exchanges`: whoever passes the first comparison
  was exchanged back, so after at most two exchanges the rest compares the first directory.
  `Moment`: from the comparison of `upload.json` on there is a view that agrees with what was read
  wherever it has been compared (`Fits`), namely the view at that comparison; a later change of a
  compared node no longer matters, one of a node yet to be compared makes the load fail. `Evolution`
  sums up what any step of the writer does, so that each part is shown to survive it once.
* `TypeCorrect`: as many digests as blobs counted needs that no name is declared twice, and that the
  total is exact needs the running sum, a recursive function (`Sums`) whose existence and
  monotony are shown by a least counterexample.
* `AlwaysFailsForAReason`: `Spec => []FailsForAReason`. While nothing has happened (`Calm`) every
  `FileInfo` kept is that of the node still there (`Found`), so each comparison succeeds;
  `CalmIs` shows that a directory which is consistent as a whole passes each of the loader's partial
  checks, and that neither sum ever exceeds the limit before the end.

**Clamd** (`ClamdProofs`). `VerdictIsAlwaysTrue`, `FailureAlwaysHasCause`. `IInv` adds what connects both
ends: `Conversation` says that clamd has a prefix of the file and that, while it reads, the socket holds
exactly the messages between what it handled and what was sent, so the terminator follows the last chunk;
`Answers` that an answer is true when it is given; `Blame` that a closed connection, an ended context and
each failure on its way have left their cause. `VerdictIsTrue` asks for the whole file, within the stream
limit, only of a clean verdict; one of malware needs something bad in what clamd received. `FailureHasCause`
separates who is charged: the dependency check fails only for a fault of clamd or the deadline, the scan of a
file for an error clamd reports or a `Cause` while the file's time is not up, and a timeout only when it is.
clamd stalling is no `Cause`: only the deadline is. `TypeCorrect` adds `Bounds`: a write waits for room, and
clamd cannot have taken more than was sent.

**Detect** (`DetectProofs`).

* `ContainersExact`: `Seen` says that the flags, bits and the count of content types are functions of
  the set of entries read so far, each flag and each of the three bits by itself.
* `TextExact`: `Read` counts characters and NULs as cardinalities of sets of positions and says that the
  surrogates so far are paired, apart from one that may be pending. `FewNuls` is then a division shown
  exact.
* `PicturesFit`: by `ProductIsExact` the comparison by division is that of the product, and the
  bytes of a `VP8L` header, shifted and masked as the code does it, are the two 14-bit fields of RFC
  9649 (digits in base 16384 are unique).
* `FailureContained`: `Causes` and `Way` say where each error can have come from when `Failure` tests it.

**Limits** (`LimitsProofs`). `ExceedsIsExact`, `ProductIsExact`, `ByteSizeIsExact`, `RatioIsExact`: the
comparisons, computed with subtraction and division only, decide what they should for all natural numbers.
A difference from a limit that is kept lies between 0 and the limit, a quotient is no larger than what is
divided, and `ByteSize` multiplies only when the product fits; so none of these checks can be passed by
an overflow.
`ConfiguredLimitsAreUsable`: what the configuration accepts, the archive reader accepts. Minima of sets
(`LeastOf`) come from well-founded inclusion of finite sets, in place of an induction.

Only model-checked: the liveness properties `ScanEnds`, `BatchCompletes` and `DialogueEnds`, because the
prover has neither fairness nor ENABLED; and the four counterexamples under Findings.

## Findings

* `staging_retract`: the README says the result is published by atomic rename. If the sync of the
  results root fails after the rename, the scan reports an error and `Abort` takes the visible
  result apart entry by entry (`output/staging.go:193`, `:50-60`).
* `scan_policy`: the README says the shipped profile rejects macro-enabled documents, other
  archive formats, nested archives and unknown data; the code approves them with a warning
  (`app/scan.go:213`, `:433`, `app/policy.go:23-39`).

* `clamd_timeout`: the README gives a timeout exit code 6 and a failing dependency 4. Connection and
  context have one deadline (`malware/clamd.go:153`); when the connection's timer fires first,
  `scanMalware` looks at the context before it has ended (`app/scan.go:555`) and the scan exits with
  4, or records `malware_scan_error` in place of `malware_scan_timeout`.
* `clamd_limit`: a stream beyond clamd's limit is meant to reject the file only (`app/scan.go:572`,
  `app/scan_test.go:380`). clamd answers and closes early; if the client is still writing, the
  write fails, the answer is not read (`malware/clamd.go:101`) and under `reject_batch` the batch ends
  with exit code 4.

## Not modelled

* The manifest's encoding and summary, the parsing of arguments and of YAML, the age of the virus
  database and the probing of directories: sequential, without state. What matters of them is an
  input of the modules.
* Naming of outputs: pure functions on strings. `numberedName` puts the index of the upload or entry before the
  name, so names under one directory differ whatever truncation leaves.
* The syntax of a declaration and of an archive path, the bytes of the ZIP directory and of the
  formats of pictures other than `VP8L`: parsing without interleaving, flaws in the modules.
* libmagic, Pillow, clamd and `archive/zip` themselves: external.

## Plan

Done: `AtomicPublish` and `Staging` with `StagingProofs`, `Scan` with `ScanProofs` and `ScanLedgerProofs`,
`Extract` with `ExtractProofs`, `BatchLoad` with `BatchLoadProofs`, `Clamd` with `ClamdProofs`, `Detect` with
`DetectProofs`, `Limits` with `LimitsProofs`.

1. An abstract specification of extraction, of which `Extract` is an implementation and the extracting
   step of `Scan` an instance, so that `BudgetKept` and `CountsAgree` are used where `Scan` relies on them.
2. Leads-to by invariants where it is possible: that no state short of an exit is without a step.
