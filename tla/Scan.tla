-------------------------------- MODULE Scan --------------------------------
(***************************************************************************)
(* internal/app/scan.go: one `scan` command, from the loaded batch to the  *)
(* published result.  The command is one goroutine; around it, the context *)
(* ends, the detector and clamd fail or time out, file operations fail and *)
(* a writer that did not stop rewrites blobs in the quarantine.            *)
(*                                                                         *)
(* A document stands for the bytes of a file and for everything the        *)
(* detector, the archive reader and the scanner would say of them, so two  *)
(* files have the same digest exactly when they are the same document.     *)
(***************************************************************************)
EXTENDS Integers, Sequences

CONSTANTS Batches,         \* the batches to scan: sequences of documents
          Swaps,           \* documents the writer may put in a blob's place
          Policy,          \* the effective configuration
          MaxDiscovered,   \* limits.max_discovered_files
          MaxExtracted,    \* limits.max_extracted_total_size
          Faults           \* which faults may happen, a subset of FaultKinds

FaultKinds == {"cancel", "writer", "io", "masked", "detector", "clamd"}

Kinds == {"plain", "ooxml", "zip", "rar", "executable", "macro", "legacy", "unknown",
          "symlink"}

\* What distinguishes one file from another. `members` are the entries of a
\* container that are not directories, in path order; a symlink exists only
\* there. `defect` is what is wrong with the bytes: an image too large, a
\* container every preflight refuses, or one that fails while it is inflated.
Bytes(M) == [kind : Kinds, big : BOOLEAN, excluded : BOOLEAN, mismatch : BOOLEAN,
             infected : BOOLEAN, defect : {"none", "image", "preflight", "inflate"},
             size : Nat, members : M]
Entry == Bytes({<<>>})
Document == Bytes(Seq(Entry))

NoDocument == [kind |-> "plain", big |-> FALSE, excluded |-> FALSE, mismatch |-> FALSE,
               infected |-> FALSE, defect |-> "none", size |-> 0, members |-> <<>>]

Policies == [executable : {"warn", "reject"}, mismatch : {"warn", "reject"},
             detector : {"reject", "reject_batch"}, malware : {"reject", "reject_batch"},
             zip : BOOLEAN, allowed : SUBSET Kinds]

ASSUME ScanAssumption == /\ MaxDiscovered \in Nat
                         /\ MaxExtracted \in Nat
                         /\ Faults \subseteq FaultKinds
                         /\ Policy \in Policies
                         /\ Batches \subseteq Seq(Document)
                         /\ \A b \in Batches :
                              /\ Len(b) <= MaxDiscovered
                              /\ \A i \in DOMAIN b : b[i].kind # "symlink"
                         /\ Swaps \subseteq Document

VARIABLES pc,           \* control point
          batch,        \* the uploads as upload.json declared them
          blob,         \* what the quarantine holds for each of them now
          next,         \* index of the upload being processed
          cur,          \* the file being decided
          members,      \* entries of the current archive not yet decided
          parent,       \* ID of the current archive's record
          nextID,       \* scanner.nextID
          files,        \* scanner.files: the manifest's records, in order
          extracted,    \* scanner.extractedBytes
          archiveFiles, \* scanner.archiveFiles
          limit,        \* the byte limit preflightContainer computed
          approved,     \* what is in approved/
          scratch,      \* snapshots and work directories beside it
          ctx,          \* the batch context has ended
          exit          \* exit code, Running until decided

input == <<batch, blob, next>>
archive == <<members, parent>>
account == <<extracted, archiveFiles, limit>>
staged == <<approved, scratch>>
vars == <<pc, batch, blob, next, cur, members, parent, nextID, files, extracted,
          archiveFiles, limit, approved, scratch, ctx, exit>>

Running == 1    \* no exit code of the program
Ok == 0
Input == 3
Dependency == 4
Filesystem == 5
Canceled == 6

\* A file being decided: its record's fields so far, and the bytes on disk.
File(id, par, doc, content, path) ==
    [id |-> id, parent |-> par, doc |-> doc, content |-> content, path |-> path,
     warnings |-> {}]

Init == /\ batch \in Batches
        /\ pc = "upload" /\ next = 1
        /\ blob = batch
        /\ cur = File(0, 0, NoDocument, NoDocument, <<>>)
        /\ members = <<>> /\ parent = 0
        /\ nextID = 0 /\ files = <<>>
        /\ extracted = 0 /\ archiveFiles = 0 /\ limit = 0
        /\ approved = {} /\ scratch = {}
        /\ ctx = FALSE /\ exit = Running

\* ------------------------------------------------------------ decisions

Record(f, decision, action, reason) ==
    [id |-> f.id, parent |-> f.parent, doc |-> f.doc, path |-> f.path,
     warnings |-> f.warnings, decision |-> decision, action |-> action,
     reason |-> reason]

\* scanner.reject and scanner.approve: the record is final once it is appended.
Reject(f, reason) == files' = Append(files, Record(f, "rejected", "omitted", reason))
Approve(f, action) == files' = Append(files, Record(f, "approved", action, "none"))

\* Mutant: the quarantined blob is copied, not the snapshot that was checked.
OutputLive(action) ==
    [path |-> cur.path, action |-> action,
     content |-> IF cur.parent = 0 THEN blob[next] ELSE cur.content]

\* What the file in hand becomes in approved/: a copy of the bytes, or a
\* directory for the members of the container.
Output(action) == [path |-> cur.path, action |-> action, content |-> cur.content]

\* Where control goes once the file in hand is decided.
Decided == pc' = IF cur.parent = 0 THEN "cleanup" ELSE "members"

\* Scan returns; on an error the deferred Abort removes the staging directory.
End(code) == /\ pc' = "exited" /\ exit' = code
             /\ IF code = Ok THEN UNCHANGED staged ELSE approved' = {} /\ scratch' = {}
             /\ UNCHANGED <<input, cur, archive, files, account, ctx>>

\* The file in hand is rejected and nothing else changes.
Refuse(reason) == /\ Reject(cur, reason) /\ Decided
                  /\ UNCHANGED <<input, cur, archive, nextID, account, staged, ctx, exit>>

\* ------------------------------------------------------------ uploads

UploadReason(d) == IF d.big THEN "file_too_large"
                   ELSE IF d.excluded THEN "secret_file_not_allowed" ELSE "none"

Upload == File(nextID + 1, 0, batch[next], blob[next], <<next>>)

\* An upload its declaration alone rules out is recorded and skipped.
RefuseUpload ==
    /\ pc = "upload" /\ next <= Len(batch) /\ ~ctx
    /\ UploadReason(batch[next]) # "none"
    /\ nextID' = nextID + 1
    /\ Reject(Upload, UploadReason(batch[next]))
    /\ next' = next + 1
    /\ UNCHANGED <<pc, batch, blob, cur, archive, account, staged, ctx, exit>>

\* The snapshot has the declared size and digest.
Unchanged(d, b) == d = b

\* snapshotInput copies the blob into the staging directory and checks the copy.
TakeUpload ==
    /\ pc = "upload" /\ next <= Len(batch) /\ ~ctx
    /\ UploadReason(batch[next]) = "none"
    /\ nextID' = nextID + 1
    /\ IF Unchanged(batch[next], blob[next])
          THEN /\ pc' = "detect" /\ cur' = Upload
               /\ scratch' = scratch \cup {<<"input", next>>}
               /\ UNCHANGED <<input, archive, files, account, approved, ctx, exit>>
          ELSE End(Input)

\* Mutant: the loop skips the upload after one it processed.
CleanupSkips ==
    /\ pc = "cleanup"
    /\ pc' = "upload" /\ next' = next + 2
    /\ scratch' = scratch \ {<<"input", next>>}
    /\ UNCHANGED <<batch, blob, cur, archive, nextID, files, account, approved, ctx, exit>>

\* The upload is decided: its snapshot is removed.
Cleanup ==
    /\ pc = "cleanup"
    /\ pc' = "upload" /\ next' = next + 1
    /\ scratch' = scratch \ {<<"input", next>>}
    /\ UNCHANGED <<batch, blob, cur, archive, nextID, files, account, approved, ctx, exit>>

\* ------------------------------------------------------------ type and policy

\* An image beyond max_image_pixels, or a ZIP the detector's preflight refuses.
BadImage(d) == d.defect = "image"
BadArchive(d) == /\ d.kind \in {"zip", "ooxml", "macro"}
                 /\ d.defect = "preflight" \/ d.size > MaxExtracted

IsArchive(f) == f.content.kind = "zip" /\ f.parent = 0

\* A type with expected extensions, under another one.
Mismatched(d) == d.mismatch /\ d.kind \in {"plain", "ooxml", "zip"}

\* What the policy says of a detected type; only executables are refused by it.
TypeReason(f) ==
    IF IsArchive(f) /\ ~Policy.zip THEN "archive_unsupported"
    ELSE IF f.content.kind = "executable" /\ Policy.executable = "reject"
         THEN "executable_not_allowed"
    ELSE IF Mismatched(f.content) /\ Policy.mismatch = "reject" THEN "extension_mismatch"
    ELSE "none"

\* Mutant: warningFor knows no macros.
TypeWarningNoMacro(kind) ==
    CASE kind = "executable" -> {"executable_found"}
      [] kind = "legacy" -> {"legacy_office_found"}
      [] kind \in {"unknown", "rar"} -> {"unknown_type"}
      [] OTHER -> {}

TypeWarning(kind) ==
    CASE kind = "executable" -> {"executable_found"}
      [] kind = "macro" -> {"office_macro_found"}
      [] kind = "legacy" -> {"legacy_office_found"}
      [] kind \in {"unknown", "rar"} -> {"unknown_type"}
      [] OTHER -> IF kind \in Policy.allowed THEN {} ELSE {"type_not_allowed"}

Warnings(f) ==
    (IF Mismatched(f.content) THEN {"extension_mismatch"} ELSE {})
    \cup (IF IsArchive(f) THEN {} ELSE TypeWarning(f.content.kind))
    \cup (IF f.parent # 0 /\ f.content.kind \in {"zip", "rar"}
          THEN {"nested_archive_not_allowed"} ELSE {})
    \cup (IF f.parent = 0 /\ f.content.kind = "rar" THEN {"archive_unsupported"} ELSE {})

\* The type is detected and the policy that depends on it alone is applied.
Detect ==
    /\ pc = "detect" /\ ~ctx
    /\ ~BadImage(cur.content) /\ ~BadArchive(cur.content)
    /\ IF TypeReason(cur) # "none" THEN Refuse(TypeReason(cur))
       ELSE /\ cur' = [cur EXCEPT !.warnings = Warnings(cur)]
            /\ pc' = IF cur.content.kind = "ooxml" \/ IsArchive(cur)
                     THEN "preflight" ELSE "malware"
            /\ UNCHANGED <<input, archive, nextID, files, account, staged, ctx, exit>>

\* detectorFailure for what the bytes themselves provoke.
DetectRefuses ==
    /\ pc = "detect" /\ ~ctx
    /\ \/ BadArchive(cur.content) /\ Refuse("archive_invalid")
       \/ /\ BadImage(cur.content)
          /\ IF Policy.detector = "reject_batch" THEN End(Dependency) /\ UNCHANGED nextID
             ELSE Refuse("image_dimensions_exceeded")

\* detectorFailure for a detector that fails or exceeds file_scan_timeout.
DetectFails ==
    /\ "detector" \in Faults /\ pc = "detect" /\ ~ctx
    /\ IF Policy.detector = "reject_batch"
          THEN End(Dependency) \/ End(Canceled)
          ELSE Refuse("type_detector_error")
    /\ UNCHANGED nextID

\* ------------------------------------------------------------ containers

\* Mutant: every container gets the whole of max_extracted_total_size.
RemainingAlwaysAll == MaxExtracted

\* What is left of max_extracted_total_size.
Remaining == MaxExtracted - extracted

\* Mutant: entries found in earlier archives are not counted.
RoomIgnoringArchives(d) == Len(d.members) <= MaxDiscovered - Len(batch)

\* An archive's entries fit under max_discovered_files with everything found.
Room(d) == Len(d.members) <= MaxDiscovered - Len(batch) - archiveFiles

\* preflightContainer: a limit for the extraction, or a rejection. Only an archive
\* whose entries become records is counted.
Preflight ==
    /\ pc = "preflight" /\ ~ctx
    /\ LET d == cur.content IN
       IF \/ Remaining <= 0
          \/ d.defect = "preflight" \/ d.size > Remaining
          \/ IsArchive(cur) /\ ~Room(d)
       THEN Refuse("archive_limit_exceeded")
       ELSE /\ limit' = Remaining /\ pc' = "malware"
            /\ UNCHANGED <<input, cur, archive, nextID, files, extracted, archiveFiles,
                          staged, ctx, exit>>

\* Extract stops at an error, having inflated at most the limit and nothing
\* beyond it; the container is rejected. If its cleanup fails too, the work
\* directory stays and the rejection hides it.
InflateFails ==
    /\ pc \in {"extract", "validate"} /\ ~ctx
    /\ cur.content.defect = "inflate"
    /\ \E n \in 0..limit : extracted' = extracted + n
    /\ scratch' \in {scratch} \cup (IF "masked" \in Faults
                                   THEN {scratch \cup {<<"work", cur.id>>}} ELSE {})
    /\ Reject(cur, "archive_invalid") /\ Decided
    /\ UNCHANGED <<input, cur, archive, nextID, archiveFiles, limit, approved, ctx, exit>>

\* An archive is expanded: the bytes and entries count, its directory and its
\* record come before those of its members.
Expand ==
    /\ pc = "extract" /\ ~ctx
    /\ cur.content.defect # "inflate"
    /\ extracted' = extracted + cur.content.size
    /\ archiveFiles' = archiveFiles + Len(cur.content.members)
    /\ approved' = approved \cup {Output("expanded")}
    /\ scratch' = scratch \cup {<<"work", cur.id>>}
    /\ Approve(cur, "expanded")
    /\ members' = cur.content.members /\ parent' = cur.id
    /\ pc' = "members"
    /\ UNCHANGED <<input, cur, nextID, limit, ctx, exit>>

\* validateOOXML inflates the document to check it, and keeps nothing of it.
Validate ==
    /\ pc = "validate" /\ ~ctx
    /\ cur.content.defect # "inflate"
    /\ extracted' = extracted + cur.content.size
    /\ IF \E i \in DOMAIN cur.content.members : cur.content.members[i].kind = "symlink"
          THEN Reject(cur, "archive_symlink") /\ Decided
          ELSE pc' = "copy" /\ UNCHANGED files
    /\ UNCHANGED <<input, cur, archive, nextID, archiveFiles, limit, staged, ctx, exit>>

\* ------------------------------------------------------------ malware and copy

\* Mutant: clamd is given the quarantined blob, not the snapshot.
ScannedLive == IF cur.parent = 0 THEN blob[next] ELSE cur.content

\* The bytes clamd is sent.
Scanned == cur.content

\* clamd answers.
Malware ==
    /\ pc = "malware" /\ ~ctx
    /\ IF Scanned.infected THEN Refuse("malware_found")
       ELSE /\ pc' = CASE IsArchive(cur) -> "extract"
                       [] cur.content.kind = "ooxml" -> "validate"
                       [] OTHER -> "copy"
            /\ UNCHANGED <<input, cur, archive, nextID, files, account, staged, ctx, exit>>

\* clamd fails, answers with an error, refuses the size or exceeds
\* file_scan_timeout. Its stream limit rejects the file under either policy.
MalwareFails ==
    /\ "clamd" \in Faults /\ pc = "malware" /\ ~ctx
    /\ \/ Refuse("malware_scan_error")
       \/ Policy.malware = "reject" /\ Refuse("malware_scan_timeout")
       \/ Policy.malware = "reject_batch" /\ (End(Dependency) \/ End(Canceled))
    /\ UNCHANGED nextID

\* The file is copied into approved/; a copy that differs from the recorded
\* digest ends the scan.
Copy ==
    /\ pc = "copy" /\ ~ctx
    /\ IF cur.content = cur.doc
          THEN /\ approved' = approved \cup {Output("copied")}
               /\ Approve(cur, "copied") /\ Decided
               /\ UNCHANGED <<input, cur, archive, nextID, account, scratch, ctx, exit>>
          ELSE /\ End(IF cur.parent = 0 THEN Input ELSE Filesystem)
               /\ UNCHANGED nextID

\* ------------------------------------------------------------ archive members

\* Mutant: entries that the extraction refused get no record.
TakeMemberSkips ==
    /\ pc = "members" /\ members # <<>> /\ ~ctx
    /\ LET d == Head(members) IN
       IF d.kind = "symlink" \/ d.excluded THEN UNCHANGED <<pc, cur, nextID>>
       ELSE /\ pc' = "detect" /\ nextID' = nextID + 1
            /\ cur' = File(nextID + 1, parent, d, d, <<next, nextID + 1>>)
    /\ members' = Tail(members)
    /\ UNCHANGED <<input, parent, files, account, staged, ctx, exit>>

\* The next entry gets an ID. One that was not extracted or has an excluded path
\* is recorded as rejected, the others go through the same checks as an upload.
TakeMember ==
    /\ pc = "members" /\ members # <<>> /\ ~ctx
    /\ LET d == Head(members)
           f == File(nextID + 1, parent, d, d, <<next, nextID + 1>>) IN
       IF d.kind = "symlink" \/ d.excluded
       THEN /\ Reject(f, IF d.kind = "symlink" THEN "archive_symlink" ELSE "excluded_path")
            /\ UNCHANGED <<pc, cur>>
       ELSE pc' = "detect" /\ cur' = f /\ UNCHANGED files
    /\ nextID' = nextID + 1
    /\ members' = Tail(members)
    /\ UNCHANGED <<input, parent, account, staged, ctx, exit>>

\* Mutant: the work directory of an archive stays.
CloseArchiveKeeps ==
    /\ pc = "members" /\ members = <<>>
    /\ pc' = "cleanup"
    /\ UNCHANGED <<input, cur, archive, nextID, files, account, staged, ctx, exit>>

\* Every entry is decided: the work directory is removed.
CloseArchive ==
    /\ pc = "members" /\ members = <<>>
    /\ pc' = "cleanup"
    /\ scratch' = scratch \ {<<"work", parent>>}
    /\ UNCHANGED <<input, cur, archive, nextID, files, account, approved, ctx, exit>>

\* ------------------------------------------------------------ the end

\* The manifest is written and the staging directory published, unless it holds
\* anything beside approved/ and the manifest.
Publish ==
    /\ pc = "upload" /\ next > Len(batch) /\ ~ctx
    /\ End(IF scratch = {} THEN Ok ELSE Filesystem)
    /\ UNCHANGED nextID

\* The context has ended: the next check of it, or the next operation that
\* takes it, ends the scan.
Stop ==
    /\ ctx /\ pc \in {"upload", "detect", "preflight", "malware", "extract", "validate",
                     "copy", "members"}
    /\ End(Canceled)
    /\ UNCHANGED nextID

\* A file operation fails: the snapshot, opening a file for clamd, an extraction,
\* a directory, a copy, a removal, the manifest or the publication.
IOFails ==
    /\ "io" \in Faults
    /\ pc \in {"upload", "malware", "extract", "validate", "copy", "members", "cleanup"}
    /\ End(Filesystem)
    /\ UNCHANGED nextID

\* A signal or batch_timeout.
Cancel ==
    /\ "cancel" \in Faults /\ pc # "exited" /\ ~ctx
    /\ ctx' = TRUE
    /\ UNCHANGED <<pc, input, cur, archive, nextID, files, account, staged, exit>>

\* A writer that was not stopped replaces a blob.
Write ==
    /\ "writer" \in Faults /\ pc # "exited"
    /\ \E i \in DOMAIN blob, d \in Swaps : blob' = [blob EXCEPT ![i] = d]
    /\ UNCHANGED <<pc, batch, next, cur, archive, nextID, files, account, staged, ctx, exit>>

Step == \/ RefuseUpload \/ TakeUpload \/ Cleanup
        \/ Detect \/ DetectRefuses \/ Preflight \/ Malware
        \/ InflateFails \/ Expand \/ Validate \/ Copy
        \/ TakeMember \/ CloseArchive \/ Publish \/ Stop

Next == Step \/ DetectFails \/ MalwareFails \/ IOFails \/ Cancel \/ Write

Spec == Init /\ [][Next]_vars

\* The one goroutine is scheduled; nothing is assumed of faults or the writer.
FairSpec == Spec /\ WF_vars(Step)

\* ------------------------------------------------------------ properties

WarningCodes == {"executable_found", "office_macro_found", "legacy_office_found",
                 "unknown_type", "type_not_allowed", "extension_mismatch",
                 "nested_archive_not_allowed", "archive_unsupported"}

Reasons == {"none", "file_too_large", "secret_file_not_allowed", "excluded_path",
            "archive_unsupported", "archive_invalid", "archive_limit_exceeded",
            "archive_symlink", "executable_not_allowed", "extension_mismatch",
            "type_detector_error", "image_dimensions_exceeded", "malware_found",
            "malware_scan_error", "malware_scan_timeout"}

Files == [id : Nat, parent : Nat, doc : Document, content : Document, path : Seq(Nat),
          warnings : SUBSET WarningCodes]

Records == [id : Nat, parent : Nat, doc : Document, path : Seq(Nat),
            warnings : SUBSET WarningCodes, decision : {"approved", "rejected"},
            action : {"copied", "expanded", "omitted"}, reason : Reasons]

Outputs == [path : Seq(Nat), action : {"copied", "expanded"}, content : Document]

\* The shape of the state.
TypeOK ==
    /\ pc \in {"upload", "detect", "preflight", "malware", "extract", "validate", "copy",
               "members", "cleanup", "exited"}
    /\ batch \in Seq(Document) /\ blob \in [DOMAIN batch -> Document]
    /\ next \in 1..(Len(batch) + 1)
    /\ pc \notin {"upload", "exited"} => next <= Len(batch)
    /\ cur \in Files
    /\ members \in Seq(Entry) /\ parent \in Nat
    /\ nextID \in Nat /\ files \in Seq(Records)
    /\ extracted \in Nat /\ archiveFiles \in Nat /\ limit \in Nat
    /\ approved \subseteq Outputs
    /\ ctx \in BOOLEAN
    /\ exit \in {Running, Ok, Input, Dependency, Filesystem, Canceled}

\* The manifest never lists more files than max_discovered_files, uploads and
\* entries of all archives together, rejected ones included (the check happens
\* when an archive is preflighted, the records come one by one later).
DiscoveredBounded == Len(files) <= MaxDiscovered

\* All extractions of a scan together, failed ones and validated documents
\* included, inflate no more than max_extracted_total_size (the limit is computed
\* before the malware scan and used after it).
BudgetHeld == extracted <= MaxExtracted

\* The file in hand is being decided; it is an entry of an archive.
Deciding == pc \in {"detect", "preflight", "malware", "extract", "validate", "copy"}
InMember == Deciding /\ cur.parent # 0

\* The container in hand passed its preflight.
Preflighted == \/ pc \in {"extract", "validate"}
               \/ pc = "malware" /\ (IsArchive(cur) \/ cur.content.kind = "ooxml")

\* Why BudgetHeld is inductive: from its preflight to its extraction nothing else
\* is inflated, so the limit of the container in hand is still left.
Reserved ==
    /\ BudgetHeld
    /\ Preflighted => cur.content.size <= limit /\ limit + extracted <= MaxExtracted

\* Why DiscoveredBounded is inductive: records and undecided entries together are
\* the uploads reached and the entries found, and the archive in hand has room.
Accounted ==
    /\ Len(batch) + archiveFiles <= MaxDiscovered
    /\ Len(files) <= Len(batch) + archiveFiles
    /\ pc # "exited" =>
         Len(files) + Len(members) + (IF InMember THEN 1 ELSE 0)
           = archiveFiles + (IF pc \in {"members", "cleanup"} \/ InMember
                             THEN next ELSE next - 1)
    /\ pc \in {"members", "exited"} \/ InMember \/ members = <<>>
    /\ pc = "members" \/ InMember => parent # 0
    /\ Deciding => cur.id # 0
    /\ pc = "extract" => IsArchive(cur)
    /\ Preflighted /\ IsArchive(cur) => Room(cur.content)

\* The records with record i as their parent; of 0, the records of uploads.
ChildrenOf(i) == {j \in DOMAIN files : files[j].parent = i}

\* The records without a parent are those of the first n uploads, in their order.
InOrder(n) ==
    \E place \in [1..n -> DOMAIN files] :
        /\ \A k \in 1..n : files[place[k]].doc = batch[k]
        /\ \A k, l \in 1..n : k < l => place[k] < place[l]
        /\ ChildrenOf(0) = {place[k] : k \in 1..n}

\* An expanded archive is followed by one record for each of its entries, in their
\* order, and nothing else has a parent.
Complete(i) ==
    IF files[i].action = "expanded"
    THEN LET inside == files[i].doc.members IN
         /\ ChildrenOf(i) = (i + 1)..(i + Len(inside))
         /\ \A k \in DOMAIN inside : files[i + k].doc = inside[k]
    ELSE ChildrenOf(i) = {}

\* The manifest is a ledger: record i has ID i, and a published one has exactly
\* one record for every upload and for every entry of an expanded archive.
Ledger ==
    /\ \A i \in DOMAIN files : files[i].id = i /\ files[i].parent < i
    /\ exit = Ok => InOrder(Len(batch)) /\ \A i \in DOMAIN files : Complete(i)

\* What is in approved/ at any moment is what the records approve, and each file
\* holds the bytes that were declared for its upload, or the entry with its
\* number of the archive that was declared, whatever the writer did meanwhile.
ApprovedIsDeclared ==
    exit \in {Running, Ok} =>
    /\ {o.path : o \in approved} =
         {files[i].path : i \in {j \in DOMAIN files : files[j].decision = "approved"}}
    /\ \A o \in approved :
         LET up == batch[o.path[1]] IN
         IF Len(o.path) = 1 THEN o.content = up
         ELSE \E i \in DOMAIN files :
                /\ files[i].path = <<o.path[1]>>
                /\ o.path[2] - i \in DOMAIN up.members
                /\ o.content = up.members[o.path[2] - i]

\* Nothing is ever in approved/, even before publication, that clamd would find,
\* that has an excluded name, that could not be inspected, or that the policy
\* rejects. What the scan inflates has inflated without an error: an archive that
\* fails does not get a directory.
OnlyPassedFiles ==
    \A o \in approved :
        /\ ~o.content.infected /\ ~o.content.excluded /\ o.content.kind # "symlink"
        /\ ~BadImage(o.content) /\ ~BadArchive(o.content)
        /\ o.action = "expanded" \/ o.content.kind = "ooxml" => o.content.defect = "none"
        /\ Policy.executable = "reject" => o.content.kind # "executable"
        /\ Policy.mismatch = "reject" => ~Mismatched(o.content)

\* A file of a type that is not allowed, or an archive in an archive, is in the
\* result only with a warning in its record.
RiskIsFlagged ==
    \A i \in DOMAIN files :
        /\ files[i].action = "copied"
        /\ \/ files[i].doc.kind \notin Policy.allowed
           \/ files[i].parent # 0 /\ files[i].doc.kind = "zip"
        => files[i].warnings \ {"extension_mismatch"} # {}

\* Without file system faults, cancellation and writers every batch is published:
\* no content of a file and no failure of the detector or of clamd on one file
\* costs the other files their result, unless the policy says reject_batch.
BatchCompletes == <>(exit = Ok)

\* README.md, "v1 policy": the profile rejects archives other than ZIP, legacy or
\* macro-enabled office files, unknown binary data and nested archives.
ProfileRejects ==
    \A i \in DOMAIN files :
        \/ files[i].doc.kind \in {"rar", "legacy", "macro", "unknown"}
        \/ files[i].parent # 0 /\ files[i].doc.kind = "zip"
        => files[i].decision = "rejected"
=============================================================================
