------------------------------ MODULE Staging ------------------------------
(***************************************************************************)
(* Package internal/output: the staging directory of a scan and its        *)
(* publication by rename, driven in the order app.Scan drives it, by       *)
(* several scans that were given the same output path.  Every operation on *)
(* the file system is a step, so the scans interleave between them; I/O    *)
(* errors, cancellation, a killed process and a power loss are steps too.  *)
(***************************************************************************)
EXTENDS Naturals, FiniteSets

CONSTANTS Scans,      \* concurrent `scan` commands with the same --output
          Files,      \* files a scan may copy into approved/
          Uploads,    \* uploads in the batch, a number
          Faults,     \* which faults may happen, a subset of FaultKinds
          None        \* no scan

FaultKinds == {"io", "parentsync", "remove", "masked", "cancel", "kill", "power"}

\* What a staging directory may hold beside the copied files.
Fixed == {"approved", "manifest.json", "manifest.json.tmp", "scratch", "leftover"}
Entries == Files \cup Fixed
Dirs == {".", "approved"}

ASSUME StagingAssumption == /\ None \notin Scans
                            /\ None \notin [owner : Scans, whole : BOOLEAN]
                            /\ Uploads \in Nat
                            /\ Faults \subseteq FaultKinds
                            /\ Files \cap (Fixed \cup Dirs) = {}

VARIABLES
    sc,       \* [Scans -> the state of the command]:
              \*   pc    its control point
              \*   path  Staging.Path: "none", "tmp" (as made) or "final"
              \*   exit  its exit code, Running until it is decided
              \*   ctx   whether its context has ended
              \*   left  how many uploads it has not yet started
              \*   rec   the files it has recorded as approved
    dir,      \* [Scans -> the directory the command made]:
              \*   tmp    its temporary name exists
              \*   tree   the entries in it, under whichever name
              \*   ro     those that have their published mode
              \*   data   files whose bytes are not fsynced
              \*   names  entries whose directory is not fsynced
    final,    \* the scan whose directory has the output path for name, or None
    anchored  \* that name is fsynced in the results root

place == <<final, anchored>>
vars == <<sc, dir, final, anchored>>

Running == 1    \* no exit code of the program
Ok == 0
Filesystem == 5
Canceled == 6

Ended(p) == sc[p].pc \in {"exited", "leaked", "dead"}
Active(p) == sc[p].pc # "idle" /\ ~Ended(p)

Init == /\ sc = [p \in Scans |-> [pc |-> "idle", path |-> "none", exit |-> Running,
                                  ctx |-> FALSE, left |-> Uploads, rec |-> {}]]
        /\ dir = [p \in Scans |-> [tmp |-> FALSE, tree |-> {}, ro |-> {},
                                   data |-> {}, names |-> {}]]
        /\ final = None
        /\ anchored = TRUE

At(p, l) == sc[p].pc = l
Goto(p, l) == sc' = [sc EXCEPT ![p].pc = l]
Code(p) == IF sc[p].ctx THEN Canceled ELSE Filesystem

\* Scan returns an error; the deferred Abort runs before the process ends.
Fail(p, code) == sc' = [sc EXCEPT ![p] = [@ EXCEPT !.pc = "abort", !.exit = code]]

\* The directory `d` gets the entries `es`; they are not durable yet.
Create(d, es) == [d EXCEPT !.tree = @ \cup es, !.names = @ \cup es]

\* It gets a file whose bytes are not durable either.
CreateFile(d, f) == [Create(d, {f}) EXCEPT !.data = @ \cup {f}]

\* A durable file in it changes its name.
RenameFile(d, old, new) ==
    [Create(d, {new}) EXCEPT !.tree = @ \ {old}, !.names = @ \ {old}, !.data = @ \ {old}]

\* ------------------------------------------------------------ New

\* New looks at the output path; an existing one ends the scan at once.
NewLstat(p) ==
    /\ At(p, "idle")
    /\ IF final = None THEN Goto(p, "mktemp")
       ELSE sc' = [sc EXCEPT ![p] = [@ EXCEPT !.pc = "exited", !.exit = Filesystem]]
    /\ UNCHANGED <<dir, place>>

\* MkdirTemp, chmod and mkdir approved.
MakeTemp(p) ==
    /\ At(p, "mktemp")
    /\ sc' = [sc EXCEPT ![p] = [@ EXCEPT !.pc = "open", !.path = "tmp"]]
    /\ dir' = [dir EXCEPT ![p] = [Create(@, {"approved"}) EXCEPT !.tmp = TRUE]]
    /\ UNCHANGED place

\* One of the three fails: New removes what it made and returns.
MakeTempFails(p) ==
    /\ "io" \in Faults /\ At(p, "mktemp")
    /\ sc' = [sc EXCEPT ![p] = [@ EXCEPT !.pc = "exited", !.exit = Filesystem]]
    /\ UNCHANGED <<dir, place>>

\* ------------------------------------------------------------ the upload loop

\* Mutant: the loop runs past the last upload.
SnapshotPastEnd(p) ==
    /\ At(p, "open") /\ ~sc[p].ctx
    /\ sc' = [sc EXCEPT ![p].pc = "item", ![p].left = @ - 1]
    /\ dir' = [dir EXCEPT ![p] = Create(@, {"scratch"})]
    /\ UNCHANGED place

\* Mutant: the loop starts the same upload again.
SnapshotAgain(p) ==
    /\ At(p, "open") /\ sc[p].left > 0 /\ ~sc[p].ctx
    /\ Goto(p, "item")
    /\ dir' = [dir EXCEPT ![p] = Create(@, {"scratch"})]
    /\ UNCHANGED place

\* The loop's context check, then snapshotInput or Extract makes a scratch
\* entry beside approved/.
Snapshot(p) ==
    /\ At(p, "open") /\ sc[p].left > 0 /\ ~sc[p].ctx
    /\ sc' = [sc EXCEPT ![p].pc = "item", ![p].left = @ - 1]
    /\ dir' = [dir EXCEPT ![p] = Create(@, {"scratch"})]
    /\ UNCHANGED place

\* CopyContext creates the destination and writes it.
CopyWrite(p, f) ==
    /\ At(p, "item") /\ f \notin dir[p].tree /\ ~sc[p].ctx
    /\ Goto(p, "copying")
    /\ dir' = [dir EXCEPT ![p] = CreateFile(@, f)]
    /\ UNCHANGED place

\* CopyContext syncs and closes it; the scan records the file as approved.
CopySync(p) ==
    /\ At(p, "copying")
    /\ sc' = [sc EXCEPT ![p] = [@ EXCEPT !.pc = "item", !.rec = dir[p].tree \cap Files]]
    /\ dir' = [dir EXCEPT ![p].data = {}]
    /\ UNCHANGED place

\* The item is decided and its scratch entry removed.
Unscratch(p) ==
    /\ At(p, "item")
    /\ Goto(p, "open")
    /\ dir' = [dir EXCEPT ![p].tree = @ \ {"scratch"}]
    /\ UNCHANGED place

\* Extract rejects the archive and its own cleanup fails: the joined error
\* shows the archive's code first, the file is rejected and the scan goes on
\* with a work directory left behind.
UnscratchMasked(p) ==
    /\ "masked" \in Faults /\ At(p, "item")
    /\ Goto(p, "open")
    /\ dir' = [dir EXCEPT ![p].tree = (@ \ {"scratch"}) \cup {"leftover"}]
    /\ UNCHANGED place

\* One of the checks of the context in Scan and PublishContext finds it done.
Stop(p) ==
    /\ sc[p].pc \in {"open", "item", "manifest", "walk", "approved", "root", "lstat"}
    /\ sc[p].ctx
    /\ Fail(p, Canceled)
    /\ UNCHANGED <<dir, place>>

\* ------------------------------------------------------------ WriteManifest

WriteTmp(p) ==
    /\ At(p, "open") /\ sc[p].left = 0 /\ ~sc[p].ctx
    /\ Goto(p, "wrote")
    /\ dir' = [dir EXCEPT ![p] = CreateFile(@, "manifest.json.tmp")]
    /\ UNCHANGED place

\* Sync, close, and rename to manifest.json inside the staging directory.
RenameManifest(p) ==
    /\ At(p, "wrote")
    /\ Goto(p, "manifest")
    /\ dir' = [dir EXCEPT ![p] = RenameFile(@, "manifest.json.tmp", "manifest.json")]
    /\ UNCHANGED place

\* ------------------------------------------------------------ PublishContext

\* Mutant: ReadDir need only find the two entries among others.
ExpectedAmongOthers(p) == {"approved", "manifest.json"} \subseteq dir[p].tree

\* ReadDir finds exactly approved/ and manifest.json.
Expected(p) == dir[p].tree \ Files = {"approved", "manifest.json"}

\* The context checks around WriteManifest and the listing of the directory.
PublishCheck(p) ==
    /\ At(p, "manifest") /\ ~sc[p].ctx
    /\ IF Expected(p) THEN Goto(p, "walk") ELSE Fail(p, Filesystem)
    /\ UNCHANGED <<dir, place>>

\* Mutant: the walk covers approved/ only.
ChmodApprovedOnly(p) ==
    /\ At(p, "walk")
    /\ Goto(p, "approved")
    /\ dir' = [dir EXCEPT ![p].ro = dir[p].tree \cap Files]
    /\ UNCHANGED place

\* The walk gives every regular file its published mode.
ChmodFiles(p) ==
    /\ At(p, "walk")
    /\ Goto(p, "approved")
    /\ dir' = [dir EXCEPT ![p].ro = dir[p].tree \ Dirs]
    /\ UNCHANGED place

\* Mutant: the directories get their mode but are not synced.
InsideUnsynced(p, d) == {}

\* The entries that the fsync of a directory makes durable.
Inside(p, d) == IF d = "approved" THEN Files ELSE Fixed

\* chmod and fsync of one directory, the deepest first, the root last.
SyncDir(p, d, from, to) ==
    /\ At(p, from)
    /\ Goto(p, to)
    /\ dir' = [dir EXCEPT ![p].ro = @ \cup {d}, ![p].names = @ \ Inside(p, d)]
    /\ UNCHANGED place

SyncApproved(p) == SyncDir(p, "approved", "approved", "root")
SyncRoot(p) == SyncDir(p, ".", "root", "lstat")

\* Mutant: no context check after the loop over the directories.
LstatFinalUnchecked(p) ==
    /\ At(p, "lstat")
    /\ IF final = None THEN Goto(p, "rename") ELSE Fail(p, Filesystem)
    /\ UNCHANGED <<dir, place>>

\* The last context check; os.Rename refuses an existing directory.
LstatFinal(p) ==
    /\ At(p, "lstat") /\ ~sc[p].ctx
    /\ IF final = None THEN Goto(p, "rename") ELSE Fail(p, Filesystem)
    /\ UNCHANGED <<dir, place>>

\* rename(2) itself replaces nothing but an empty directory.
Replaceable == \A q \in Scans : final = q => dir[q].tree = {}

\* Mutant: Path still names the staging directory after the rename.
RenameKeepsPath(p) ==
    /\ At(p, "rename") /\ Replaceable
    /\ Goto(p, "parent")
    /\ dir' = [dir EXCEPT ![p].tmp = FALSE]
    /\ final' = p
    /\ anchored' = FALSE

\* The rename, and Path = Final.
RenameFinal(p) ==
    /\ At(p, "rename") /\ Replaceable
    /\ sc' = [sc EXCEPT ![p] = [@ EXCEPT !.pc = "parent", !.path = "final"]]
    /\ dir' = [dir EXCEPT ![p].tmp = FALSE]
    /\ final' = p
    /\ anchored' = FALSE

\* Another scan published since the lstat: rename(2) fails.
RenameFails(p) ==
    /\ At(p, "rename") /\ ~Replaceable
    /\ Fail(p, Code(p))
    /\ UNCHANGED <<dir, place>>

\* Mutant: success is reported without syncing the parent.
SyncParentSkipped(p) ==
    /\ At(p, "parent")
    /\ sc' = [sc EXCEPT ![p] = [@ EXCEPT !.pc = "exited", !.exit = Ok]]
    /\ UNCHANGED <<dir, place>>

\* The parent directory is synced: done is set and the scan reports success.
SyncParent(p) ==
    /\ At(p, "parent")
    /\ sc' = [sc EXCEPT ![p] = [@ EXCEPT !.pc = "exited", !.exit = Ok]]
    /\ anchored' = TRUE
    /\ UNCHANGED <<dir, final>>

\* Opening or syncing the parent fails after the rename: done stays false and
\* Path already names the output, so Abort will remove the visible result.
SyncParentFails(p) ==
    /\ "parentsync" \in Faults /\ At(p, "parent")
    /\ Fail(p, Code(p))
    /\ UNCHANGED <<dir, place>>

\* ------------------------------------------------------------ errors before the rename

\* What CopyContext and WriteManifest remove when they fail.
Unfinished(p) == (Files \ sc[p].rec) \cup {"manifest.json.tmp"}

\* A write, sync, close, chmod, listing, removal or rename fails, or a copy's reader
\* sees the context done. The scan ends with 6 if its context has ended, and
\* with 5 if not; a scratch entry that cannot be removed or a manifest that
\* cannot be written gives 5 in either case.
IOFails(p) ==
    /\ \/ /\ "io" \in Faults
          /\ sc[p].pc \in {"item", "copying", "wrote", "walk", "approved", "root", "rename"}
       \/ At(p, "copying") /\ sc[p].ctx
    /\ Fail(p, IF sc[p].pc \in {"item", "wrote"} THEN Filesystem ELSE Code(p))
    /\ dir' = [dir EXCEPT ![p].tree = @ \ Unfinished(p)]
    /\ UNCHANGED place

\* ------------------------------------------------------------ Abort

\* Abort makes the directories writable again...
AbortChmod(p) ==
    /\ At(p, "abort")
    /\ Goto(p, "remove")
    /\ dir' = [dir EXCEPT ![p].ro = @ \ Dirs]
    /\ UNCHANGED place

\* The entries RemoveAll(s.Path) can unlink: those of the directory that Path
\* names, emptied bottom-up, in directories the process may write.
Removable(p) ==
    IF sc[p].path = "tmp" /\ ~dir[p].tmp THEN {}
    ELSE {e \in dir[p].tree :
            /\ (IF e \in Files THEN "approved" ELSE ".") \notin dir[p].ro
            /\ e = "approved" => dir[p].tree \cap Files = {}}

\* ...and RemoveAll takes the tree apart one entry at a time,
RemoveEntry(p) ==
    /\ At(p, "remove")
    /\ \E e \in Removable(p) : dir' = [dir EXCEPT ![p].tree = @ \ {e}]
    /\ UNCHANGED <<sc, place>>

\* Mutant: Abort removes the output path too, whoever published it.
RemoveRootAndFinal(p) ==
    /\ At(p, "remove") /\ Removable(p) = {}
    /\ Goto(p, "exited")
    /\ dir' = [dir EXCEPT ![p].tmp = FALSE]
    /\ final' = None
    /\ UNCHANGED anchored

\* the directory at Path last. A rename over the emptied directory may have put
\* another scan's result there: rmdir leaves that alone.
RemoveRoot(p) ==
    /\ At(p, "remove") /\ Removable(p) = {}
    /\ Goto(p, "exited")
    /\ dir' = [dir EXCEPT ![p].tmp = @ /\ (sc[p].path # "tmp" \/ dir[p].tree # {})]
    /\ final' = IF sc[p].path = "final" /\ Replaceable THEN None ELSE final
    /\ UNCHANGED anchored

\* A removal fails; Abort ignores the error.
RemoveFails(p) ==
    /\ "remove" \in Faults /\ sc[p].pc \in {"abort", "remove"}
    /\ Goto(p, "leaked")
    /\ UNCHANGED <<dir, place>>

\* ------------------------------------------------------------ environment

\* A signal or the batch timeout ends the context.
Cancel(p) ==
    /\ "cancel" \in Faults /\ Active(p) /\ ~sc[p].ctx
    /\ sc' = [sc EXCEPT ![p].ctx = TRUE]
    /\ UNCHANGED <<dir, place>>

\* The process is killed: no deferred call runs.
Kill(p) ==
    /\ "kill" \in Faults /\ Active(p)
    /\ Goto(p, "dead")
    /\ UNCHANGED <<dir, place>>

\* The machine stops: every running scan dies, the directory at the output path
\* keeps only what was fsynced for certain, and a rename whose parent was not
\* synced may be undone.
PowerLoss ==
    /\ "power" \in Faults
    /\ ~anchored \/ \E p \in Scans : Active(p)
    /\ sc' = [p \in Scans |-> IF Active(p) THEN [sc[p] EXCEPT !.pc = "dead"] ELSE sc[p]]
    /\ anchored' = TRUE
    /\ final' \in {final} \cup (IF anchored THEN {} ELSE {None})
    /\ IF final = None THEN UNCHANGED dir
       ELSE \E lost \in SUBSET (dir[final].data \cup dir[final].names) :
              dir' = [dir EXCEPT ![final].tree = @ \ lost, ![final].data = {},
                                 ![final].names = {}, ![final].tmp = (final' = None)]

\* ------------------------------------------------------------ specification

\* The steps a scan takes by itself.
Step(p) ==
    \/ NewLstat(p) \/ MakeTemp(p) \/ Snapshot(p)
    \/ (\E f \in Files : CopyWrite(p, f)) \/ CopySync(p) \/ Unscratch(p)
    \/ Stop(p) \/ WriteTmp(p) \/ RenameManifest(p) \/ PublishCheck(p)
    \/ ChmodFiles(p) \/ SyncApproved(p) \/ SyncRoot(p) \/ LstatFinal(p)
    \/ RenameFinal(p) \/ RenameFails(p) \/ SyncParent(p)
    \/ AbortChmod(p) \/ RemoveEntry(p) \/ RemoveRoot(p)

\* What can go wrong in the scan's own calls.
Fault(p) ==
    \/ MakeTempFails(p) \/ UnscratchMasked(p) \/ IOFails(p)
    \/ SyncParentFails(p) \/ RemoveFails(p)

Next == (\E p \in Scans : Step(p) \/ Fault(p) \/ Cancel(p) \/ Kill(p)) \/ PowerLoss

Spec == Init /\ [][Next]_vars

\* A running process is scheduled; no fault and no cancellation is assumed. A
\* scan that was never started need not start.
Fairness == \A p \in Scans : WF_vars(~At(p, "idle") /\ Step(p))

FairSpec == Spec /\ Fairness

\* ------------------------------------------------------------ properties

ScanState == [pc : {"idle", "mktemp", "open", "item", "copying", "wrote", "manifest",
                    "walk", "approved", "root", "lstat", "rename", "parent",
                    "abort", "remove", "exited", "leaked", "dead"},
              path : {"none", "tmp", "final"},
              exit : {Running, Ok, Filesystem, Canceled},
              ctx : BOOLEAN, left : 0..Uploads, rec : SUBSET Files]

Directory == [tmp : BOOLEAN, tree : SUBSET Entries, ro : SUBSET (Entries \cup Dirs),
              data : SUBSET Entries, names : SUBSET Entries]

\* The shape of the state.
TypeOK == /\ sc \in [Scans -> ScanState]
          /\ dir \in [Scans -> Directory]
          /\ final \in Scans \cup {None}
          /\ anchored \in BOOLEAN

\* What a published directory holds: approved/, its files and the manifest.
Whole(p) == {"approved", "manifest.json"} \cup sc[p].rec

\* A scan that has failed and is taking its own result back.
Retracting(p) == sc[p].exit \notin {Running, Ok}

\* What stands at the output path is one scan's complete result: approved/ with
\* exactly the files its manifest records as approved, and the manifest; no
\* snapshot, work directory or temporary manifest, also after a power loss. A
\* result being taken back holds nothing beyond that (PublishContext, Abort).
PublishedWhole ==
    \A p \in Scans : final = p =>
        IF Retracting(p) THEN dir[p].tree \subseteq Whole(p) ELSE dir[p].tree = Whole(p)

\* Exit 0 and the result at the output path are the same thing: a scan that
\* reported success is the one published, durably, so at most one of the
\* scans racing for a path reports it, and no power loss takes it back.
SuccessIsPublished ==
    \A p \in Scans : sc[p].exit = Ok => final = p /\ anchored

\* Unless a removal itself fails, a scan that ends with an error leaves neither
\* its staging directory nor a result (the deferred Abort, whatever Path names
\* and whatever modes the publication had already set).
FailureLeavesNothing ==
    \A p \in Scans : At(p, "exited") /\ sc[p].exit # Ok => ~dir[p].tmp /\ final # p

\* A published result is read-only: every file and directory has its published
\* mode from the moment it is visible until it is taken back.
PublishedReadOnly ==
    \A p \in Scans :
        final = p /\ ~Retracting(p) => dir[p].tree \cup Dirs \subseteq dir[p].ro

\* Nobody but the scan that made it touches a visible result: it changes, or
\* gives way to another, only while its own scan is taking it back or when a
\* power loss undoes a rename that no scan has reported.
ResultIsStable ==
    [][\A p \in Scans : final = p /\ ~Retracting(p) =>
         \/ final' = p /\ dir'[p].tree = dir[p].tree
         \/ ~anchored /\ sc[p].exit # Ok /\ final' = None]_vars

\* A scan whose context ended before its last check never publishes: it neither
\* gets to the rename nor becomes visible in another way.
CanceledStaysHidden ==
    [][\A p \in Scans : sc[p].ctx /\ ~At(p, "rename") =>
         sc'[p].pc # "rename" /\ (final # p => final' # p)]_vars

\* Every scan that was started ends, whatever fails on the way.
ScanEnds == \A p \in Scans : ~At(p, "idle") ~> Ended(p)

\* What an observer of the results root sees, for the abstract specification.
Shown == INSTANCE AtomicPublish WITH
            Nothing <- None,
            result <- IF final = None THEN None
                      ELSE [owner |-> final, whole |-> dir[final].tree = Whole(final)],
            reported <- \E p \in Scans : sc[p].exit = Ok

\* The result directory appears whole in one step and, once reported, stays.
PublishesAtomically == Shown!Spec
=============================================================================
