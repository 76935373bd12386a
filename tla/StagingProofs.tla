--------------------------- MODULE StagingProofs ---------------------------
(***************************************************************************)
(* Proofs about Staging, for any number of scans, uploads and files and    *)
(* any choice of faults: the type invariant, the four safety invariants    *)
(* and the two action properties, all from one inductive invariant         *)
(* (IInv), and the refinement of AtomicPublish when the sync of the parent *)
(* directory does not fail.                                                *)
(*                                                                         *)
(* IInv says for each scan what its directory holds at each point on the   *)
(* way to the rename, so that the rename itself can only show a whole,     *)
(* durable and read-only tree. Others and Bystanders carry it over steps   *)
(* of other scans; there is one lemma per action for the scan that moves.  *)
(***************************************************************************)
EXTENDS Staging, TLAPS

\* Control points before there is a staging directory, and while it is filled.
Unmade == {"idle", "mktemp"}
Filling == {"open", "item", "copying", "wrote", "manifest"}
Sealing == {"walk", "approved", "root", "lstat", "rename"}

\* Which name the directory has, and who may still be named by the output path.
Names(p) ==
    /\ sc[p].pc \in Unmade => sc[p].path = "none"
    /\ sc[p].pc \in Filling \cup Sealing => sc[p].path = "tmp"
    /\ sc[p].pc \in {"abort", "remove"} => sc[p].path # "none"
    /\ sc[p].path = "none" => ~dir[p].tmp
    /\ sc[p].path = "final" /\ sc[p].pc \notin {"leaked", "dead"} => ~dir[p].tmp
    /\ At(p, "parent") => final = p
    /\ final = p => sc[p].path = "final"

\* The exit code is decided when the scan starts to end.
Exits(p) ==
    /\ sc[p].pc \in Unmade \cup Filling \cup Sealing \cup {"parent"} => sc[p].exit = Running
    /\ sc[p].pc \in {"abort", "remove"} => sc[p].exit \notin {Running, Ok}
    /\ At(p, "exited") => sc[p].exit # Running
    /\ sc[p].exit = Ok => At(p, "exited") /\ final = p /\ anchored

\* What the directory holds at each point on the way to the rename.
Holds(p) ==
    /\ sc[p].pc \in Unmade \cup {"open", "item", "wrote", "manifest"} =>
         dir[p].tree \cap Files = sc[p].rec
    /\ sc[p].pc \in Unmade \cup {"open", "item", "manifest"} \cup Sealing => dir[p].data = {}
    /\ At(p, "wrote") => dir[p].data \subseteq {"manifest.json.tmp"}
    /\ sc[p].pc \in Sealing => dir[p].tree = Whole(p)

\* What is read-only and durable by then.
Sealed(p) ==
    /\ sc[p].pc \in {"approved", "root", "lstat", "rename"} =>
         dir[p].tree \ Dirs \subseteq dir[p].ro
    /\ sc[p].pc \in {"root", "lstat", "rename"} =>
         "approved" \in dir[p].ro /\ dir[p].names \cap Files = {}
    /\ sc[p].pc \in {"lstat", "rename"} => "." \in dir[p].ro /\ dir[p].names = {}

\* What the output path shows.
Visible(p) ==
    final = p =>
    /\ dir[p].data = {} /\ dir[p].names = {}
    /\ dir[p].tree \subseteq Whole(p)
    /\ ~Retracting(p) => dir[p].tree = Whole(p) /\ dir[p].tree \cup Dirs \subseteq dir[p].ro

\* What is left to take apart.
Leaves(p) ==
    /\ At(p, "remove") => dir[p].ro \cap Dirs = {}
    /\ At(p, "exited") /\ sc[p].exit # Ok => ~dir[p].tmp /\ final # p

\* All of it, for one scan...
Scanned(p) == Names(p) /\ Exits(p) /\ Holds(p) /\ Sealed(p) /\ Visible(p) /\ Leaves(p)

\* ...and for every scan.
IInv == TypeOK /\ \A p \in Scans : Scanned(p)

\* Every scan's record and directory have their types.
LEMMA Whose ==
  ASSUME TypeOK, NEW p \in Scans
  PROVE  sc[p] \in ScanState /\ dir[p] \in Directory
PROOF BY DEF TypeOK

\* A scan goes on to the point l.
Goes(p, l) ==
    /\ sc'[p].pc = l /\ sc'[p].path = sc[p].path
    /\ sc'[p].exit = sc[p].exit /\ sc'[p].rec = sc[p].rec

\* It begins to end with an error.
Fails(p) ==
    /\ sc'[p].pc = "abort" /\ sc'[p].path = sc[p].path
    /\ sc'[p].exit \in {Filesystem, Canceled} /\ sc'[p].rec = sc[p].rec

\* Goto moves the control point and nothing else.
LEMMA GotoIs ==
  ASSUME TypeOK, NEW p \in Scans, NEW l, Goto(p, l)
  PROVE  Goes(p, l)
PROOF BY Whose DEF Goto, Goes, TypeOK, ScanState

\* Fail begins the cleanup with an error code.
LEMMA FailIs ==
  ASSUME TypeOK, NEW p \in Scans, NEW code \in {Filesystem, Canceled}, Fail(p, code)
  PROVE  Fails(p)
PROOF BY Whose DEF Fail, Fails, TypeOK, ScanState

\* What becomes of the scans that do not move.
LEMMA Others ==
  ASSUME IInv, NEW q \in Scans, sc'[q] = sc[q], dir'[q] = dir[q],
         final' = q => final = q,
         final' # q /\ final = q => ~At(q, "parent"),
         sc[q].exit = Ok => final' = q /\ anchored'
  PROVE  Scanned(q)'
PROOF
<1>1. Scanned(q) BY DEF IInv
<1>2. Names(q)' BY <1>1 DEF Scanned, Names, At
<1>3. Exits(q)' BY <1>1 DEF Scanned, Exits, At
<1>4. Holds(q)' BY <1>1 DEF Scanned, Holds, At, Whole
<1>5. Sealed(q)' BY <1>1 DEF Scanned, Sealed
<1>6. Visible(q)' BY <1>1 DEF Scanned, Visible, Retracting, Whole
<1>7. Leaves(q)' BY <1>1 DEF Scanned, Leaves, At
<1> QED BY <1>2, <1>3, <1>4, <1>5, <1>6, <1>7 DEF Scanned

\* Before the rename the output path shows something else.
LEMMA Hidden ==
  ASSUME IInv, NEW p \in Scans, sc[p].pc \in Unmade \cup Filling \cup Sealing
  PROVE  final # p
PROOF BY DEF IInv, Scanned, Names, Unmade, Filling, Sealing

\* A scan that begins to end keeps the invariant, whatever it had published.
LEMMA FailStep ==
  ASSUME IInv, NEW p \in Scans, Fails(p), sc[p].pc \in Filling \cup Sealing \cup {"parent"},
         dir'[p].tmp = dir[p].tmp, UNCHANGED final,
         sc[p].pc = "parent" => dir'[p] = dir[p]
  PROVE  Scanned(p)'
PROOF
<1>1. Scanned(p) BY DEF IInv
<1>2. sc'[p].exit \notin {Running, Ok} BY DEF Fails, Running, Ok, Filesystem, Canceled
<1>3. Names(p)' BY <1>1 DEF Scanned, Names, Fails, At, Unmade, Filling, Sealing
<1>4. Exits(p)' BY <1>2 DEF Exits, Fails, At, Unmade, Filling, Sealing
<1>5. Holds(p)' /\ Sealed(p)' /\ Leaves(p)'
  BY DEF Holds, Sealed, Leaves, Fails, At, Unmade, Sealing
<1>6. Visible(p)'
  <2>1. CASE sc[p].pc = "parent"
    BY <1>1, <1>2, <2>1 DEF Scanned, Visible, Retracting, Whole, Fails
  <2>2. CASE sc[p].pc # "parent" BY <2>2, Hidden DEF Visible
  <2> QED BY <2>1, <2>2
<1> QED BY <1>3, <1>4, <1>5, <1>6 DEF Scanned

\* The staging directory is made.
LEMMA MakeTempStep ==
  ASSUME IInv, NEW p \in Scans, MakeTemp(p)
  PROVE  Scanned(p)'
PROOF
<1>1. Scanned(p) /\ TypeOK /\ sc[p] \in ScanState /\ dir[p] \in Directory BY Whose DEF IInv
<1>2. /\ sc[p].pc = "mktemp" /\ sc'[p].pc = "open" /\ sc'[p].path = "tmp"
      /\ sc'[p].exit = sc[p].exit /\ sc'[p].rec = sc[p].rec
      /\ dir'[p].tree = dir[p].tree \cup {"approved"} /\ dir'[p].data = dir[p].data
      /\ UNCHANGED <<final, anchored>>
  BY <1>1, GotoIs
  DEF MakeTemp, At, TypeOK, ScanState, Directory, Create, CreateFile, RenameFile, place
<1>3. Names(p)' BY <1>1, <1>2 DEF Scanned, Names, Goes, At, Unmade, Filling, Sealing
<1>4. Exits(p)' BY <1>1, <1>2 DEF Scanned, Exits, Goes, At, Unmade, Filling, Sealing
<1>5. Holds(p)'
  BY <1>1, <1>2, StagingAssumption DEF Scanned, Holds, Goes, At, Unmade, Sealing, Fixed, Dirs
<1>6. Sealed(p)'
  BY <1>1, <1>2 DEF Sealed, Goes
<1>7. Visible(p)' BY <1>2, Hidden DEF Visible, Unmade, Filling, Sealing
<1>8. Leaves(p)' BY <1>2 DEF Leaves, Goes, At
<1> QED BY <1>3, <1>4, <1>5, <1>6, <1>7, <1>8 DEF Scanned

\* An upload begins: a scratch entry.
LEMMA SnapshotStep ==
  ASSUME IInv, NEW p \in Scans, Snapshot(p)
  PROVE  Scanned(p)'
PROOF
<1>1. Scanned(p) /\ TypeOK /\ sc[p] \in ScanState /\ dir[p] \in Directory BY Whose DEF IInv
<1>2. /\ sc[p].pc = "open" /\ Goes(p, "item")
      /\ dir'[p].tree = dir[p].tree \cup {"scratch"} /\ dir'[p].data = dir[p].data
      /\ dir'[p].tmp = dir[p].tmp /\ UNCHANGED <<final, anchored>>
  BY <1>1, GotoIs
  DEF Snapshot, At, Goes, TypeOK, ScanState, Directory, Create, CreateFile, RenameFile, place
<1>3. Names(p)' BY <1>1, <1>2 DEF Scanned, Names, Goes, At, Unmade, Filling, Sealing
<1>4. Exits(p)' BY <1>1, <1>2 DEF Scanned, Exits, Goes, At, Unmade, Filling, Sealing
<1>5. Holds(p)'
  BY <1>1, <1>2, StagingAssumption DEF Scanned, Holds, Goes, At, Unmade, Sealing, Fixed, Dirs
<1>6. Sealed(p)'
  BY <1>1, <1>2 DEF Sealed, Goes
<1>7. Visible(p)' BY <1>2, Hidden DEF Visible, Unmade, Filling, Sealing
<1>8. Leaves(p)' BY <1>2 DEF Leaves, Goes, At
<1> QED BY <1>3, <1>4, <1>5, <1>6, <1>7, <1>8 DEF Scanned

\* A copied file is complete and recorded.
LEMMA CopySyncStep ==
  ASSUME IInv, NEW p \in Scans, CopySync(p)
  PROVE  Scanned(p)'
PROOF
<1>1. Scanned(p) /\ TypeOK /\ sc[p] \in ScanState /\ dir[p] \in Directory BY Whose DEF IInv
<1>2. /\ sc[p].pc = "copying" /\ sc'[p].pc = "item" /\ sc'[p].path = sc[p].path
      /\ sc'[p].exit = sc[p].exit /\ sc'[p].rec = dir[p].tree \cap Files
      /\ dir'[p].tree = dir[p].tree /\ dir'[p].data = {}
      /\ dir'[p].tmp = dir[p].tmp /\ UNCHANGED <<final, anchored>>
  BY <1>1, GotoIs
  DEF CopySync, At, TypeOK, ScanState, Directory, Create, CreateFile, RenameFile, place
<1>3. Names(p)' BY <1>1, <1>2 DEF Scanned, Names, Goes, At, Unmade, Filling, Sealing
<1>4. Exits(p)' BY <1>1, <1>2 DEF Scanned, Exits, Goes, At, Unmade, Filling, Sealing
<1>5. Holds(p)'
  BY <1>1, <1>2 DEF Scanned, Holds, Goes, At, Unmade, Sealing
<1>6. Sealed(p)'
  BY <1>1, <1>2 DEF Sealed, Goes
<1>7. Visible(p)' BY <1>2, Hidden DEF Visible, Unmade, Filling, Sealing
<1>8. Leaves(p)' BY <1>2 DEF Leaves, Goes, At
<1> QED BY <1>3, <1>4, <1>5, <1>6, <1>7, <1>8 DEF Scanned

\* An upload is decided.
LEMMA UnscratchStep ==
  ASSUME IInv, NEW p \in Scans, Unscratch(p)
  PROVE  Scanned(p)'
PROOF
<1>1. Scanned(p) /\ TypeOK /\ sc[p] \in ScanState /\ dir[p] \in Directory BY Whose DEF IInv
<1>2. /\ sc[p].pc = "item" /\ Goes(p, "open")
      /\ dir'[p].tree \cap Files = dir[p].tree \cap Files /\ dir'[p].data = dir[p].data
      /\ dir'[p].tmp = dir[p].tmp /\ UNCHANGED <<final, anchored>>
  BY <1>1, GotoIs, StagingAssumption
  DEF Unscratch, At, TypeOK, ScanState, Directory, Create, CreateFile, RenameFile, place, Fixed
<1>3. Names(p)' BY <1>1, <1>2 DEF Scanned, Names, Goes, At, Unmade, Filling, Sealing
<1>4. Exits(p)' BY <1>1, <1>2 DEF Scanned, Exits, Goes, At, Unmade, Filling, Sealing
<1>5. Holds(p)'
  BY <1>1, <1>2, StagingAssumption DEF Scanned, Holds, Goes, At, Unmade, Sealing, Fixed, Dirs
<1>6. Sealed(p)'
  BY <1>1, <1>2 DEF Sealed, Goes
<1>7. Visible(p)' BY <1>2, Hidden DEF Visible, Unmade, Filling, Sealing
<1>8. Leaves(p)' BY <1>2 DEF Leaves, Goes, At
<1> QED BY <1>3, <1>4, <1>5, <1>6, <1>7, <1>8 DEF Scanned

\* An upload is decided, its work directory stays.
LEMMA UnscratchMaskedStep ==
  ASSUME IInv, NEW p \in Scans, UnscratchMasked(p)
  PROVE  Scanned(p)'
PROOF
<1>1. Scanned(p) /\ TypeOK /\ sc[p] \in ScanState /\ dir[p] \in Directory BY Whose DEF IInv
<1>2. /\ sc[p].pc = "item" /\ Goes(p, "open")
      /\ dir'[p].tree \cap Files = dir[p].tree \cap Files /\ dir'[p].data = dir[p].data
      /\ dir'[p].tmp = dir[p].tmp /\ UNCHANGED <<final, anchored>>
  BY <1>1, GotoIs, StagingAssumption
  DEF UnscratchMasked, At, TypeOK, ScanState, Directory, Create, CreateFile, RenameFile, place,
      Fixed
<1>3. Names(p)' BY <1>1, <1>2 DEF Scanned, Names, Goes, At, Unmade, Filling, Sealing
<1>4. Exits(p)' BY <1>1, <1>2 DEF Scanned, Exits, Goes, At, Unmade, Filling, Sealing
<1>5. Holds(p)'
  BY <1>1, <1>2, StagingAssumption DEF Scanned, Holds, Goes, At, Unmade, Sealing, Fixed, Dirs
<1>6. Sealed(p)'
  BY <1>1, <1>2 DEF Sealed, Goes
<1>7. Visible(p)' BY <1>2, Hidden DEF Visible, Unmade, Filling, Sealing
<1>8. Leaves(p)' BY <1>2 DEF Leaves, Goes, At
<1> QED BY <1>3, <1>4, <1>5, <1>6, <1>7, <1>8 DEF Scanned

\* The manifest is written under its temporary name.
LEMMA WriteTmpStep ==
  ASSUME IInv, NEW p \in Scans, WriteTmp(p)
  PROVE  Scanned(p)'
PROOF
<1>1. Scanned(p) /\ TypeOK /\ sc[p] \in ScanState /\ dir[p] \in Directory BY Whose DEF IInv
<1>2. /\ sc[p].pc = "open" /\ Goes(p, "wrote")
      /\ dir'[p].tree = dir[p].tree \cup {"manifest.json.tmp"}
      /\ dir'[p].data = dir[p].data \cup {"manifest.json.tmp"}
      /\ dir'[p].tmp = dir[p].tmp /\ UNCHANGED <<final, anchored>>
  <2>1. /\ sc[p].pc = "open" /\ Goes(p, "wrote") BY <1>1, GotoIs DEF WriteTmp, At
  <2>2. /\ dir'[p].tree = dir[p].tree \cup {"manifest.json.tmp"}
        /\ dir'[p].data = dir[p].data \cup {"manifest.json.tmp"}
        /\ dir'[p].tmp = dir[p].tmp /\ UNCHANGED <<final, anchored>>
    BY <1>1 DEF WriteTmp, TypeOK, ScanState, Directory, Create, CreateFile, RenameFile, place
  <2> QED BY <2>1, <2>2
<1>3. Names(p)' BY <1>1, <1>2 DEF Scanned, Names, Goes, At, Unmade, Filling, Sealing
<1>4. Exits(p)' BY <1>1, <1>2 DEF Scanned, Exits, Goes, At, Unmade, Filling, Sealing
<1>5. Holds(p)'
  BY <1>1, <1>2, StagingAssumption DEF Scanned, Holds, Goes, At, Unmade, Sealing, Fixed, Dirs
<1>6. Sealed(p)'
  BY <1>1, <1>2 DEF Sealed, Goes
<1>7. Visible(p)' BY <1>2, Hidden DEF Visible, Unmade, Filling, Sealing
<1>8. Leaves(p)' BY <1>2 DEF Leaves, Goes, At
<1> QED BY <1>3, <1>4, <1>5, <1>6, <1>7, <1>8 DEF Scanned

\* The manifest gets its name.
LEMMA RenameManifestStep ==
  ASSUME IInv, NEW p \in Scans, RenameManifest(p)
  PROVE  Scanned(p)'
PROOF
<1>1. Scanned(p) /\ TypeOK /\ sc[p] \in ScanState /\ dir[p] \in Directory BY Whose DEF IInv
<1>2. /\ sc[p].pc = "wrote" /\ Goes(p, "manifest")
      /\ dir'[p].tree = (dir[p].tree \cup {"manifest.json"}) \ {"manifest.json.tmp"}
      /\ dir'[p].data = dir[p].data \ {"manifest.json.tmp"}
      /\ dir'[p].tmp = dir[p].tmp /\ UNCHANGED <<final, anchored>>
  <2>1. /\ sc[p].pc = "wrote" /\ Goes(p, "manifest") BY <1>1, GotoIs DEF RenameManifest, At
  <2>2. /\ dir'[p].tree = (dir[p].tree \cup {"manifest.json"}) \ {"manifest.json.tmp"}
        /\ dir'[p].data = dir[p].data \ {"manifest.json.tmp"}
        /\ dir'[p].tmp = dir[p].tmp /\ UNCHANGED <<final, anchored>>
    BY <1>1 DEF RenameManifest, TypeOK, ScanState, Directory, Create, CreateFile, RenameFile, place
  <2> QED BY <2>1, <2>2
<1>3. Names(p)' BY <1>1, <1>2 DEF Scanned, Names, Goes, At, Unmade, Filling, Sealing
<1>4. Exits(p)' BY <1>1, <1>2 DEF Scanned, Exits, Goes, At, Unmade, Filling, Sealing
<1>5. Holds(p)'
  BY <1>1, <1>2, StagingAssumption DEF Scanned, Holds, Goes, At, Unmade, Sealing, Fixed, Dirs
<1>6. Sealed(p)'
  BY <1>1, <1>2 DEF Sealed, Goes
<1>7. Visible(p)' BY <1>2, Hidden DEF Visible, Unmade, Filling, Sealing
<1>8. Leaves(p)' BY <1>2 DEF Leaves, Goes, At
<1> QED BY <1>3, <1>4, <1>5, <1>6, <1>7, <1>8 DEF Scanned

\* Every file gets its published mode.
LEMMA ChmodFilesStep ==
  ASSUME IInv, NEW p \in Scans, ChmodFiles(p)
  PROVE  Scanned(p)'
PROOF
<1>1. Scanned(p) /\ TypeOK /\ sc[p] \in ScanState /\ dir[p] \in Directory BY Whose DEF IInv
<1>2. /\ sc[p].pc = "walk" /\ Goes(p, "approved")
      /\ dir'[p].tree = dir[p].tree /\ dir'[p].data = dir[p].data
      /\ dir'[p].ro = dir[p].tree \ Dirs /\ dir'[p].tmp = dir[p].tmp
      /\ UNCHANGED <<final, anchored>>
  BY <1>1, GotoIs
  DEF ChmodFiles, At, TypeOK, ScanState, Directory, Create, CreateFile, RenameFile, place
<1>3. Names(p)' BY <1>1, <1>2 DEF Scanned, Names, Goes, At, Unmade, Filling, Sealing
<1>4. Exits(p)' BY <1>1, <1>2 DEF Scanned, Exits, Goes, At, Unmade, Filling, Sealing
<1>5. Holds(p)'
  BY <1>1, <1>2 DEF Scanned, Holds, Goes, At, Unmade, Sealing, Whole
<1>6. Sealed(p)'
  BY <1>1, <1>2 DEF Sealed, Goes
<1>7. Visible(p)' BY <1>2, Hidden DEF Visible, Unmade, Filling, Sealing
<1>8. Leaves(p)' BY <1>2 DEF Leaves, Goes, At
<1> QED BY <1>3, <1>4, <1>5, <1>6, <1>7, <1>8 DEF Scanned

\* approved/ gets its mode and is durable.
LEMMA SyncApprovedStep ==
  ASSUME IInv, NEW p \in Scans, SyncApproved(p)
  PROVE  Scanned(p)'
PROOF
<1>1. Scanned(p) /\ TypeOK /\ sc[p] \in ScanState /\ dir[p] \in Directory BY Whose DEF IInv
<1>2. /\ sc[p].pc = "approved" /\ Goes(p, "root")
      /\ dir'[p].tree = dir[p].tree /\ dir'[p].data = dir[p].data
      /\ dir'[p].ro = dir[p].ro \cup {"approved"}
      /\ dir'[p].names = dir[p].names \ Inside(p, "approved")
      /\ dir'[p].tmp = dir[p].tmp /\ UNCHANGED <<final, anchored>>
  <2>1. /\ sc[p].pc = "approved" /\ Goes(p, "root") BY <1>1, GotoIs DEF SyncApproved, At, SyncDir
  <2>2. /\ dir'[p].tree = dir[p].tree /\ dir'[p].data = dir[p].data
        /\ dir'[p].ro = dir[p].ro \cup {"approved"}
        /\ dir'[p].names = dir[p].names \ Inside(p, "approved")
        /\ dir'[p].tmp = dir[p].tmp /\ UNCHANGED <<final, anchored>>
    BY <1>1
    DEF SyncApproved, SyncDir, TypeOK, ScanState, Directory, Create, CreateFile, RenameFile, place
  <2> QED BY <2>1, <2>2
<1>3. Names(p)' BY <1>1, <1>2 DEF Scanned, Names, Goes, At, Unmade, Filling, Sealing
<1>4. Exits(p)' BY <1>1, <1>2 DEF Scanned, Exits, Goes, At, Unmade, Filling, Sealing
<1>5. Holds(p)'
  BY <1>1, <1>2 DEF Scanned, Holds, Goes, At, Unmade, Sealing, Whole
<1>6. Sealed(p)'
  BY <1>1, <1>2, StagingAssumption DEF Scanned, Sealed, Goes, Inside, Directory, Entries
<1>7. Visible(p)' BY <1>2, Hidden DEF Visible, Unmade, Filling, Sealing
<1>8. Leaves(p)' BY <1>2 DEF Leaves, Goes, At
<1> QED BY <1>3, <1>4, <1>5, <1>6, <1>7, <1>8 DEF Scanned

\* So does the directory itself.
LEMMA SyncRootStep ==
  ASSUME IInv, NEW p \in Scans, SyncRoot(p)
  PROVE  Scanned(p)'
PROOF
<1>1. Scanned(p) /\ TypeOK /\ sc[p] \in ScanState /\ dir[p] \in Directory BY Whose DEF IInv
<1>2. /\ sc[p].pc = "root" /\ Goes(p, "lstat")
      /\ dir'[p].tree = dir[p].tree /\ dir'[p].data = dir[p].data
      /\ dir'[p].ro = dir[p].ro \cup {"."} /\ dir'[p].names = dir[p].names \ Inside(p, ".")
      /\ dir'[p].tmp = dir[p].tmp /\ UNCHANGED <<final, anchored>>
  <2>1. /\ sc[p].pc = "root" /\ Goes(p, "lstat") BY <1>1, GotoIs DEF SyncRoot, At, SyncDir
  <2>2. /\ dir'[p].tree = dir[p].tree /\ dir'[p].data = dir[p].data
        /\ dir'[p].ro = dir[p].ro \cup {"."} /\ dir'[p].names = dir[p].names \ Inside(p, ".")
        /\ dir'[p].tmp = dir[p].tmp /\ UNCHANGED <<final, anchored>>
    BY <1>1
    DEF SyncRoot, SyncDir, TypeOK, ScanState, Directory, Create, CreateFile, RenameFile, place
  <2> QED BY <2>1, <2>2
<1>3. Names(p)' BY <1>1, <1>2 DEF Scanned, Names, Goes, At, Unmade, Filling, Sealing
<1>4. Exits(p)' BY <1>1, <1>2 DEF Scanned, Exits, Goes, At, Unmade, Filling, Sealing
<1>5. Holds(p)'
  BY <1>1, <1>2 DEF Scanned, Holds, Goes, At, Unmade, Sealing, Whole
<1>6. Sealed(p)'
  BY <1>1, <1>2, StagingAssumption DEF Scanned, Sealed, Goes, Inside, Directory, Entries
<1>7. Visible(p)' BY <1>2, Hidden DEF Visible, Unmade, Filling, Sealing
<1>8. Leaves(p)' BY <1>2 DEF Leaves, Goes, At
<1> QED BY <1>3, <1>4, <1>5, <1>6, <1>7, <1>8 DEF Scanned

\* A copy begins: its bytes are not durable.
LEMMA CopyWriteStep ==
  ASSUME IInv, NEW p \in Scans, NEW f \in Files, CopyWrite(p, f)
  PROVE  Scanned(p)'
PROOF
<1>1. Scanned(p) /\ TypeOK BY DEF IInv
<1>2. /\ sc[p].pc = "item" /\ Goes(p, "copying")
      /\ dir'[p].tmp = dir[p].tmp /\ UNCHANGED <<final, anchored>>
  <2>1. sc[p].pc = "item" /\ Goes(p, "copying") BY <1>1, GotoIs DEF CopyWrite, At
  <2>2. dir'[p].tmp = dir[p].tmp /\ UNCHANGED <<final, anchored>>
    BY <1>1 DEF CopyWrite, TypeOK, Directory, Create, CreateFile, place
  <2> QED BY <2>1, <2>2
<1>3. Names(p)' BY <1>1, <1>2 DEF Scanned, Names, Goes, At, Unmade, Filling, Sealing
<1>4. Exits(p)' BY <1>1, <1>2 DEF Scanned, Exits, Goes, At, Unmade, Filling, Sealing
<1>5. Holds(p)' /\ Sealed(p)' /\ Leaves(p)'
  BY <1>2 DEF Holds, Sealed, Leaves, Goes, At, Unmade, Sealing
<1>6. Visible(p)' BY <1>2, Hidden DEF Visible, Unmade, Filling, Sealing
<1> QED BY <1>3, <1>4, <1>5, <1>6 DEF Scanned

\* New finds the output path free, or the scan is over.
LEMMA NewLstatStep ==
  ASSUME IInv, NEW p \in Scans, NewLstat(p)
  PROVE  Scanned(p)'
PROOF
<1>1. Scanned(p) /\ TypeOK BY DEF IInv
<1>2. /\ sc[p].pc = "idle" /\ sc'[p].path = sc[p].path /\ sc'[p].rec = sc[p].rec
      /\ \/ sc'[p].pc = "mktemp" /\ sc'[p].exit = sc[p].exit
         \/ sc'[p].pc = "exited" /\ sc'[p].exit = Filesystem
      /\ dir'[p] = dir[p] /\ UNCHANGED <<final, anchored>>
  <2>1. CASE final = None BY <1>1, <2>1, GotoIs DEF NewLstat, Goes, At, place
  <2>2. CASE final # None
    <3>1. sc' = [sc EXCEPT ![p] = [@ EXCEPT !.pc = "exited", !.exit = Filesystem]]
      BY <2>2 DEF NewLstat
    <3> QED BY <1>1, <2>2, <3>1, Whose DEF NewLstat, At, TypeOK, ScanState, place
  <2> QED BY <2>1, <2>2
<1>3. Names(p)' BY <1>1, <1>2 DEF Scanned, Names, At, Unmade, Filling, Sealing
<1>4. Exits(p)'
  BY <1>1, <1>2 DEF Scanned, Exits, At, Unmade, Filling, Sealing, Running, Ok, Filesystem
<1>5. Holds(p)' BY <1>1, <1>2 DEF Scanned, Holds, At, Unmade, Sealing
<1>6. Sealed(p)' BY <1>2 DEF Sealed
<1>7. Visible(p)' BY <1>2, Hidden DEF Visible, Unmade
<1>8. Leaves(p)' BY <1>1, <1>2, Hidden DEF Scanned, Names, Leaves, At, Unmade
<1> QED BY <1>3, <1>4, <1>5, <1>6, <1>7, <1>8 DEF Scanned

\* New fails: there is no directory.
LEMMA MakeTempFailsStep ==
  ASSUME IInv, NEW p \in Scans, MakeTempFails(p)
  PROVE  Scanned(p)'
PROOF
<1>1. Scanned(p) /\ TypeOK BY DEF IInv
<1>2. /\ sc[p].pc = "mktemp" /\ sc'[p].pc = "exited" /\ sc'[p].path = sc[p].path
      /\ sc'[p].exit = Filesystem
      /\ dir'[p] = dir[p] /\ UNCHANGED <<final, anchored>>
  BY <1>1, Whose DEF MakeTempFails, At, TypeOK, ScanState, place
<1>3. Names(p)' BY <1>1, <1>2 DEF Scanned, Names, At, Unmade, Filling, Sealing
<1>4. Exits(p)' BY <1>2 DEF Exits, At, Unmade, Filling, Sealing, Running, Ok, Filesystem
<1>5. Holds(p)' /\ Sealed(p)' BY <1>2 DEF Holds, Sealed, At, Unmade, Sealing
<1>6. Visible(p)' BY <1>2, Hidden DEF Visible, Unmade
<1>7. Leaves(p)' BY <1>1, <1>2, Hidden DEF Scanned, Names, Leaves, At, Unmade
<1> QED BY <1>3, <1>4, <1>5, <1>6, <1>7 DEF Scanned

\* Exactly the expected entries are there, or the scan fails.
LEMMA PublishCheckStep ==
  ASSUME IInv, NEW p \in Scans, PublishCheck(p)
  PROVE  Scanned(p)'
PROOF
<1>1. Scanned(p) /\ TypeOK BY DEF IInv
<1>2. sc[p].pc = "manifest" /\ dir' = dir /\ UNCHANGED <<final, anchored>>
  BY DEF PublishCheck, At, place
<1>3. CASE Expected(p)
  <2>1. Goes(p, "walk") BY <1>1, <1>3, GotoIs DEF PublishCheck
  <2>2. Names(p)' BY <1>1, <1>2, <2>1 DEF Scanned, Names, Goes, At, Unmade, Filling, Sealing
  <2>3. Exits(p)' BY <1>1, <1>2, <2>1 DEF Scanned, Exits, Goes, At, Unmade, Filling, Sealing
  <2>4. dir[p].tree = Whole(p)
    BY <1>1, <1>2, <1>3 DEF Scanned, Holds, Expected, Whole
  <2>5. Holds(p)'
    BY <1>1, <1>2, <2>1, <2>4 DEF Scanned, Holds, Whole, Goes, At, Unmade, Sealing
  <2>6. Visible(p)' BY <1>2, Hidden DEF Visible, Filling
  <2>7. Sealed(p)' /\ Leaves(p)' BY <2>1 DEF Sealed, Leaves, Goes, At
  <2> QED BY <2>2, <2>3, <2>5, <2>6, <2>7 DEF Scanned
<1>4. CASE ~Expected(p)
  <2>1. Fails(p) BY <1>1, <1>4, FailIs DEF PublishCheck
  <2> QED BY <1>2, <2>1, FailStep DEF Filling
<1> QED BY <1>3, <1>4

\* The output path is free just before the rename, or the scan fails.
LEMMA LstatFinalStep ==
  ASSUME IInv, NEW p \in Scans, LstatFinal(p)
  PROVE  Scanned(p)'
PROOF
<1>1. Scanned(p) /\ TypeOK BY DEF IInv
<1>2. sc[p].pc = "lstat" /\ dir' = dir /\ UNCHANGED <<final, anchored>>
  BY DEF LstatFinal, At, place
<1>3. CASE final = None
  <2>1. Goes(p, "rename") BY <1>1, <1>3, GotoIs DEF LstatFinal
  <2>2. Names(p)' BY <1>1, <1>2, <2>1 DEF Scanned, Names, Goes, At, Unmade, Filling, Sealing
  <2>3. Exits(p)' BY <1>1, <1>2, <2>1 DEF Scanned, Exits, Goes, At, Unmade, Filling, Sealing
  <2>4. Holds(p)' BY <1>1, <1>2, <2>1 DEF Scanned, Holds, Whole, Goes, At, Unmade, Sealing
  <2>5. Sealed(p)' BY <1>1, <1>2, <2>1 DEF Scanned, Sealed, Goes
  <2>6. Visible(p)' BY <1>2, Hidden DEF Visible, Sealing
  <2>7. Leaves(p)' BY <2>1 DEF Leaves, Goes, At
  <2> QED BY <2>2, <2>3, <2>4, <2>5, <2>6, <2>7 DEF Scanned
<1>4. CASE final # None
  <2>1. Fails(p) BY <1>1, <1>4, FailIs DEF LstatFinal
  <2> QED BY <1>2, <2>1, FailStep DEF Sealing
<1> QED BY <1>3, <1>4

\* The errors that leave the directory alone.
LEMMA PlainFailureStep ==
  ASSUME IInv, NEW p \in Scans, Stop(p) \/ RenameFails(p) \/ SyncParentFails(p)
  PROVE  Scanned(p)'
PROOF
<1>1. TypeOK BY DEF IInv
<1>2. dir' = dir /\ UNCHANGED final BY DEF Stop, RenameFails, SyncParentFails, place
<1>3. sc[p].pc \in Filling \cup Sealing \cup {"parent"}
  BY DEF Stop, RenameFails, SyncParentFails, At, Filling, Sealing
<1>4. Fails(p) BY <1>1, FailIs DEF Stop, RenameFails, SyncParentFails, Code
<1> QED BY <1>2, <1>3, <1>4, FailStep

\* An I/O error before the rename.
LEMMA IOFailsStep ==
  ASSUME IInv, NEW p \in Scans, IOFails(p)
  PROVE  Scanned(p)'
PROOF
<1>1. TypeOK BY DEF IInv
<1>2. UNCHANGED final BY DEF IOFails, place
<1>3. sc[p].pc \in Filling \cup Sealing BY DEF IOFails, At, Filling, Sealing
<1>4. Fails(p) BY <1>1, FailIs DEF IOFails, Code
<1>5. dir'[p].tmp = dir[p].tmp BY <1>1 DEF IOFails, TypeOK, Directory
<1> QED BY <1>2, <1>3, <1>4, <1>5, FailStep DEF Filling, Sealing

\* The output path can be taken only if no whole result is there.
LEMMA ReplaceableIs ==
  ASSUME IInv, Replaceable, NEW q \in Scans, final = q
  PROVE  sc[q].exit \notin {Running, Ok} /\ sc[q].pc # "parent" /\ dir[q].tree = {}
PROOF
<1>1. Scanned(q) BY DEF IInv
<1>2. dir[q].tree = {} BY DEF Replaceable
<1>3. Whole(q) # {} BY DEF Whole
<1>4. Retracting(q) BY <1>1, <1>2, <1>3 DEF Scanned, Visible
<1> QED BY <1>1, <1>2, <1>4 DEF Scanned, Exits, Retracting

\* The rename: what was sealed becomes visible.
LEMMA RenameFinalStep ==
  ASSUME IInv, NEW p \in Scans, RenameFinal(p)
  PROVE  \A q \in Scans : Scanned(q)'
PROOF
<1>1. Scanned(p) /\ TypeOK BY DEF IInv
<1>2. /\ sc[p].pc = "rename" /\ Replaceable /\ final' = p
      /\ sc'[p].pc = "parent" /\ sc'[p].path = "final"
      /\ sc'[p].exit = sc[p].exit /\ sc'[p].rec = sc[p].rec
      /\ ~dir'[p].tmp /\ dir'[p].tree = dir[p].tree /\ dir'[p].ro = dir[p].ro
      /\ dir'[p].data = dir[p].data /\ dir'[p].names = dir[p].names
  BY <1>1, Whose DEF RenameFinal, At, TypeOK, ScanState, Directory
<1>3. ASSUME NEW q \in Scans, q # p PROVE Scanned(q)'
  <2>1. sc'[q] = sc[q] /\ dir'[q] = dir[q] BY <1>1, <1>3 DEF RenameFinal, TypeOK
  <2>2. final = q => sc[q].exit # Ok /\ sc[q].pc # "parent" BY <1>2, ReplaceableIs
  <2>3. sc[q].exit = Ok => final = q BY DEF IInv, Scanned, Exits
  <2> QED BY <1>2, <1>3, <2>1, <2>2, <2>3, Others DEF At
<1>4. Scanned(p)'
  <2>1. sc[p].exit = Running BY <1>1, <1>2 DEF Scanned, Exits, Sealing
  <2>2. dir[p].tree = Whole(p) /\ dir[p].data = {} /\ dir[p].names = {}
    BY <1>1, <1>2 DEF Scanned, Holds, Sealed, Sealing
  <2>3. dir[p].tree \cup Dirs \subseteq dir[p].ro BY <1>1, <1>2 DEF Scanned, Sealed, Dirs
  <2>4. Names(p)' BY <1>2 DEF Names, At, Unmade, Filling, Sealing
  <2>5. Exits(p)' BY <1>2, <2>1 DEF Exits, At, Running, Ok
  <2>6. Holds(p)' /\ Sealed(p)' /\ Leaves(p)'
    BY <1>2 DEF Holds, Sealed, Leaves, At, Unmade, Sealing
  <2>7. Visible(p)' BY <1>2, <2>2, <2>3 DEF Visible, Whole
  <2> QED BY <2>4, <2>5, <2>6, <2>7 DEF Scanned
<1> QED BY <1>3, <1>4

\* The parent is synced: the scan reports success.
LEMMA SyncParentStep ==
  ASSUME IInv, NEW p \in Scans, SyncParent(p)
  PROVE  Scanned(p)'
PROOF
<1>1. Scanned(p) /\ TypeOK BY DEF IInv
<1>2. /\ sc[p].pc = "parent" /\ sc'[p].pc = "exited" /\ sc'[p].exit = Ok
      /\ sc'[p].path = sc[p].path /\ sc'[p].rec = sc[p].rec
      /\ dir' = dir /\ final' = final /\ anchored'
  BY <1>1, Whose DEF SyncParent, At, TypeOK, ScanState
<1>3. final = p /\ sc[p].path = "final" /\ sc[p].exit = Running
  BY <1>1, <1>2 DEF Scanned, Names, Exits, At
<1>4. Names(p)' BY <1>1, <1>2, <1>3 DEF Scanned, Names, At, Unmade, Filling, Sealing
<1>5. Exits(p)' BY <1>2, <1>3 DEF Exits, At, Unmade, Filling, Sealing, Running, Ok
<1>6. Holds(p)' /\ Sealed(p)' BY <1>2 DEF Holds, Sealed, At, Unmade, Sealing
<1>7. Visible(p)' BY <1>1, <1>2, <1>3 DEF Scanned, Visible, Retracting, Whole
<1>8. Leaves(p)' BY <1>2 DEF Leaves, At
<1> QED BY <1>4, <1>5, <1>6, <1>7, <1>8 DEF Scanned

\* Abort makes the directories writable, and then takes the tree apart.
LEMMA TakeApartStep ==
  ASSUME IInv, NEW p \in Scans, AbortChmod(p) \/ RemoveEntry(p)
  PROVE  Scanned(p)'
PROOF
<1>1. Scanned(p) /\ TypeOK BY DEF IInv
<1>2. /\ sc[p].pc \in {"abort", "remove"} /\ Goes(p, "remove")
      /\ dir'[p].tree \subseteq dir[p].tree /\ dir'[p].tmp = dir[p].tmp
      /\ dir'[p].data = dir[p].data /\ dir'[p].names = dir[p].names
      /\ sc[p].pc = "abort" => dir'[p].ro = dir[p].ro \ Dirs
      /\ sc[p].pc = "remove" => dir'[p].ro = dir[p].ro
      /\ UNCHANGED <<final, anchored>>
  <2>1. CASE AbortChmod(p)
    <3>1. sc[p].pc = "abort" /\ Goes(p, "remove") BY <1>1, <2>1, GotoIs DEF AbortChmod, At
    <3>2. dir' = [dir EXCEPT ![p].ro = @ \ Dirs] /\ UNCHANGED <<final, anchored>>
      BY <2>1 DEF AbortChmod, place
    <3> QED BY <1>1, <3>1, <3>2 DEF TypeOK, Directory
  <2>2. CASE RemoveEntry(p)
    <3>1. sc[p].pc = "remove" /\ Goes(p, "remove") /\ UNCHANGED <<final, anchored>>
      BY <2>2 DEF RemoveEntry, At, Goes, place
    <3>2. PICK e : dir' = [dir EXCEPT ![p].tree = @ \ {e}] BY <2>2 DEF RemoveEntry
    <3> QED BY <1>1, <3>1, <3>2 DEF TypeOK, Directory
  <2> QED BY <2>1, <2>2
<1>3. sc[p].exit \notin {Running, Ok} BY <1>1, <1>2 DEF Scanned, Exits
<1>4. Names(p)' BY <1>1, <1>2 DEF Scanned, Names, Goes, At, Unmade, Filling, Sealing
<1>5. Exits(p)' BY <1>2, <1>3 DEF Exits, Goes, At, Unmade, Filling, Sealing
<1>6. Holds(p)' /\ Sealed(p)' BY <1>2 DEF Holds, Sealed, Goes, At, Unmade, Sealing
<1>7. Visible(p)' BY <1>1, <1>2, <1>3 DEF Scanned, Visible, Retracting, Whole, Goes
<1>8. Leaves(p)' BY <1>1, <1>2 DEF Scanned, Leaves, Goes, At
<1> QED BY <1>4, <1>5, <1>6, <1>7, <1>8 DEF Scanned

\* Nothing is left once nothing can be removed.
LEMMA RemovedIs ==
  ASSUME IInv, NEW p \in Scans, At(p, "remove"), Removable(p) = {},
         sc[p].path # "tmp" \/ dir[p].tmp
  PROVE  dir[p].tree = {}
PROOF
<1>1. Scanned(p) /\ dir[p] \in Directory BY Whose DEF IInv
<1>2. "." \notin dir[p].ro /\ "approved" \notin dir[p].ro
  BY <1>1 DEF Scanned, Leaves, Dirs
<1>3. \A e \in dir[p].tree : e = "approved" /\ dir[p].tree \cap Files # {}
  BY <1>2 DEF Removable
<1>4. "approved" \notin Files BY StagingAssumption DEF Fixed
<1> QED BY <1>3, <1>4

\* The directory itself goes; what another scan has put at the path stays.
LEMMA RemoveRootStep ==
  ASSUME IInv, NEW p \in Scans, RemoveRoot(p)
  PROVE  \A q \in Scans : Scanned(q)'
PROOF
<1>1. Scanned(p) /\ TypeOK BY DEF IInv
<1>2. At(p, "remove") /\ Removable(p) = {} /\ UNCHANGED anchored /\ Goto(p, "exited")
  BY DEF RemoveRoot
<1>3. sc[p].pc = "remove" /\ Goes(p, "exited") BY <1>1, <1>2, GotoIs DEF At
<1>4. final' = IF sc[p].path = "final" /\ Replaceable THEN None ELSE final BY DEF RemoveRoot
<1>5. ASSUME NEW q \in Scans, q # p PROVE Scanned(q)'
  <2>1. sc'[q] = sc[q] /\ dir'[q] = dir[q] BY <1>1, <1>2, <1>5 DEF RemoveRoot, Goto, TypeOK
  <2>2. None # q BY StagingAssumption
  <2>3. final' # q /\ final = q => sc[q].exit # Ok /\ ~At(q, "parent")
    BY <1>4, ReplaceableIs DEF At
  <2>4. sc[q].exit = Ok => final = q /\ anchored BY DEF IInv, Scanned, Exits
  <2> QED BY <1>2, <1>4, <2>1, <2>2, <2>3, <2>4, Others
<1>6. Scanned(p)'
  <2>1. sc[p].exit \notin {Running, Ok} BY <1>1, <1>3 DEF Scanned, Exits
  <2>2. final' # p /\ ~dir'[p].tmp
    <3>1. /\ dir'[p].tmp = (dir[p].tmp /\ (sc[p].path # "tmp" \/ dir[p].tree # {}))
          /\ dir'[p].tree = dir[p].tree
      BY <1>1 DEF RemoveRoot, TypeOK, Directory
    <3>2. CASE sc[p].path = "tmp"
      <4>1. ~dir'[p].tmp BY <1>2, <3>1, <3>2, RemovedIs
      <4>2. final # p BY <1>1, <3>2 DEF Scanned, Names
      <4> QED BY <1>4, <3>2, <4>1, <4>2
    <3>3. CASE sc[p].path = "final"
      <4>1. ~dir[p].tmp BY <1>1, <1>3, <3>3 DEF Scanned, Names
      <4>2. dir[p].tree = {} BY <1>2, <3>3, RemovedIs
      <4>3. final = p => Replaceable BY <4>2 DEF Replaceable
      <4> QED BY <1>4, <3>1, <3>3, <4>1, <4>3, StagingAssumption
    <3> QED BY <1>1, <1>3, <3>2, <3>3, Whose DEF Scanned, Names, ScanState
  <2>3. Names(p)' BY <1>3, <2>2 DEF Names, Goes, At, Unmade, Filling, Sealing
  <2>4. Exits(p)' BY <1>3, <2>1 DEF Exits, Goes, At, Unmade, Filling, Sealing
  <2>5. Holds(p)' /\ Sealed(p)' BY <1>3 DEF Holds, Sealed, Goes, At, Unmade, Sealing
  <2>6. Visible(p)' /\ Leaves(p)' BY <1>3, <2>2 DEF Visible, Leaves, Goes, At
  <2> QED BY <2>3, <2>4, <2>5, <2>6 DEF Scanned
<1> QED BY <1>5, <1>6

\* A removal fails, or the process is killed: everything stays as it is.
LEMMA EndStep ==
  ASSUME IInv, NEW p \in Scans, RemoveFails(p) \/ Kill(p)
  PROVE  Scanned(p)'
PROOF
<1>1. Scanned(p) /\ TypeOK BY DEF IInv
<1>2. dir' = dir /\ UNCHANGED <<final, anchored>> BY DEF RemoveFails, Kill, place
<1>3. Goes(p, "leaked") \/ Goes(p, "dead") BY <1>1, GotoIs DEF RemoveFails, Kill
<1>4. sc[p].pc # "exited" BY DEF RemoveFails, Kill, Active, Ended
<1>5. sc[p].exit # Ok BY <1>1, <1>4 DEF Scanned, Exits, At
<1>6. Names(p)' BY <1>1, <1>2, <1>3 DEF Scanned, Names, Goes, At, Unmade, Filling, Sealing
<1>7. Exits(p)' BY <1>3, <1>5 DEF Exits, Goes, At, Unmade, Filling, Sealing
<1>8. Holds(p)' /\ Sealed(p)' /\ Leaves(p)'
  BY <1>3 DEF Holds, Sealed, Leaves, Goes, At, Unmade, Sealing
<1>9. Visible(p)' BY <1>1, <1>2, <1>3 DEF Scanned, Visible, Retracting, Whole, Goes
<1> QED BY <1>6, <1>7, <1>8, <1>9 DEF Scanned

\* The context ends: what the scan has done is not touched.
LEMMA CancelStep ==
  ASSUME IInv, NEW p \in Scans, Cancel(p)
  PROVE  Scanned(p)'
PROOF
<1>1. Scanned(p) /\ TypeOK BY DEF IInv
<1>2. Goes(p, sc[p].pc) /\ dir' = dir /\ UNCHANGED <<final, anchored>>
  BY <1>1, Whose DEF Cancel, Goes, TypeOK, ScanState, place
<1>3. Names(p)' /\ Exits(p)' BY <1>1, <1>2 DEF Scanned, Names, Exits, Goes, At
<1>4. Holds(p)' /\ Sealed(p)' BY <1>1, <1>2 DEF Scanned, Holds, Sealed, Whole, Goes, At
<1>5. Visible(p)' BY <1>1, <1>2 DEF Scanned, Visible, Retracting, Whole, Goes
<1>6. Leaves(p)' BY <1>1, <1>2 DEF Scanned, Leaves, Goes, At
<1> QED BY <1>3, <1>4, <1>5, <1>6 DEF Scanned

\* The power goes: running scans are dead, and the result at the output path, durable in
\* itself, stays whole or is gone under that name.
LEMMA PowerLossStep ==
  ASSUME IInv, NEW p \in Scans, PowerLoss
  PROVE  Scanned(p)'
PROOF
<1>1. Scanned(p) /\ TypeOK /\ sc[p] \in ScanState BY Whose DEF IInv
<1>2. /\ sc'[p].path = sc[p].path /\ sc'[p].exit = sc[p].exit /\ sc'[p].rec = sc[p].rec
      /\ sc'[p].pc = IF Active(p) THEN "dead" ELSE sc[p].pc
  BY <1>1 DEF PowerLoss, ScanState
<1>3. anchored' /\ final' \in {final, None} /\ (anchored => final' = final) BY DEF PowerLoss
<1>4. None # p BY StagingAssumption
<1>5. /\ sc'[p].pc \in {"idle", "exited", "leaked", "dead"}
      /\ (sc'[p].pc # "dead" => sc'[p].pc = sc[p].pc)
  BY <1>2 DEF Active, Ended
<1>6. /\ dir'[p].tree = dir[p].tree /\ dir'[p].ro = dir[p].ro
      /\ dir'[p].data \subseteq dir[p].data /\ dir'[p].names \subseteq dir[p].names
      /\ final # p => dir'[p].tmp = dir[p].tmp
      /\ final = p => dir'[p].tmp = (final' = None)
  <2>1. CASE final = None BY <1>4, <2>1 DEF PowerLoss
  <2>2. CASE final # None
    <3>1. PICK lost \in SUBSET (dir[final].data \cup dir[final].names) :
            dir' = [dir EXCEPT ![final].tree = @ \ lost, ![final].data = {},
                               ![final].names = {}, ![final].tmp = (final' = None)]
      BY <2>2 DEF PowerLoss
    <3>2. CASE final = p
      <4>1. lost = {} BY <1>1, <3>1, <3>2 DEF Scanned, Visible
      <4> QED BY <1>1, <3>1, <3>2, <4>1 DEF TypeOK, Directory
    <3>3. CASE final # p BY <1>1, <3>1, <3>3 DEF TypeOK
    <3> QED BY <3>2, <3>3
  <2> QED BY <2>1, <2>2
<1>7. sc[p].exit = Ok => sc[p].pc = "exited" /\ final = p /\ anchored
  BY <1>1 DEF Scanned, Exits, At
<1>8. Names(p)'
  BY <1>1, <1>2, <1>3, <1>4, <1>5, <1>6, <1>7
  DEF Scanned, Names, Leaves, At, Unmade, Filling, Sealing
<1>9. Exits(p)'
  BY <1>1, <1>2, <1>3, <1>5, <1>7 DEF Scanned, Exits, At, Active, Ended, Unmade, Filling, Sealing
<1>10. Holds(p)' BY <1>1, <1>2, <1>5, <1>6 DEF Scanned, Holds, At, Unmade, Sealing
<1>11. Sealed(p)' BY <1>5 DEF Sealed
<1>12. Visible(p)' BY <1>1, <1>2, <1>3, <1>4, <1>6 DEF Scanned, Visible, Retracting, Whole
<1>13. Leaves(p)' BY <1>1, <1>2, <1>3, <1>4, <1>5, <1>6 DEF Scanned, Leaves, At
<1> QED BY <1>8, <1>9, <1>10, <1>11, <1>12, <1>13 DEF Scanned

\* ------------------------------------------------------------ all steps

\* The scans other than the one that moves, when it does not touch the output path.
LEMMA Bystanders ==
  ASSUME IInv, NEW p \in Scans, Scanned(p)', UNCHANGED final, anchored => anchored',
         \A q \in Scans \ {p} : sc'[q] = sc[q] /\ dir'[q] = dir[q]
  PROVE  \A q \in Scans : Scanned(q)'
PROOF
<1>1. ASSUME NEW q \in Scans, q # p PROVE Scanned(q)'
  <2>1. sc[q].exit = Ok => final = q /\ anchored BY DEF IInv, Scanned, Exits
  <2> QED BY <1>1, <2>1, Others
<1> QED BY <1>1

\* A step of one scan keeps the types, and changes that scan and its directory only.
LocalScan(p) == sc' \in [Scans -> ScanState] /\ \A q \in Scans \ {p} : sc'[q] = sc[q]
LocalDir(p) == dir' \in [Scans -> Directory] /\ \A q \in Scans \ {p} : dir'[q] = dir[q]

\* A whole new record of the right type for p changes p only.
LEMMA ScanIs ==
  ASSUME TypeOK, NEW p \in Scans, NEW s \in ScanState, sc' = [sc EXCEPT ![p] = s]
  PROVE  LocalScan(p)
PROOF BY DEF TypeOK, LocalScan

\* So does a whole new directory.
LEMMA DirIs ==
  ASSUME TypeOK, NEW p \in Scans, NEW d \in Directory, dir' = [dir EXCEPT ![p] = d]
  PROVE  LocalDir(p)
PROOF BY DEF TypeOK, LocalDir

\* All control points.
Points == {"idle", "mktemp", "open", "item", "copying", "wrote", "manifest", "walk", "approved",
           "root", "lstat", "rename", "parent", "abort", "remove", "exited", "leaked", "dead"}

\* Goto changes the scan that moves only.
LEMMA GotoIsLocal ==
  ASSUME TypeOK, NEW p \in Scans, NEW l \in Points, Goto(p, l)
  PROVE  LocalScan(p)
PROOF BY DEF TypeOK, LocalScan, Goto, ScanState, Points

\* So does Fail.
LEMMA FailIsLocal ==
  ASSUME TypeOK, NEW p \in Scans, NEW code \in {Filesystem, Canceled}, Fail(p, code)
  PROVE  LocalScan(p)
PROOF
<1>1. [sc[p] EXCEPT !.pc = "abort", !.exit = code] \in ScanState BY Whose DEF ScanState
<1> QED BY <1>1, ScanIs DEF Fail

\* A record that goes to another point with an exit code is still one.
LEMMA ExitIsTyped ==
  ASSUME TypeOK, NEW p \in Scans, NEW l \in Points, NEW code \in {Ok, Filesystem}
  PROVE  [sc[p] EXCEPT !.pc = l, !.exit = code] \in ScanState
PROOF BY Whose DEF ScanState, Points

\* New entries for p's directory change p's directory only.
LEMMA TreeIsLocal ==
  ASSUME TypeOK, NEW p \in Scans, NEW es \in SUBSET Entries, dir' = [dir EXCEPT ![p].tree = es]
  PROVE  LocalDir(p)
PROOF BY DEF TypeOK, LocalDir, Directory

\* So do new modes.
LEMMA ModesAreLocal ==
  ASSUME TypeOK, NEW p \in Scans, NEW es \in SUBSET (Entries \cup Dirs),
         dir' = [dir EXCEPT ![p].ro = es]
  PROVE  LocalDir(p)
PROOF BY DEF TypeOK, LocalDir, Directory

\* What Create makes of a directory is one.
LEMMA CreateIsTyped ==
  ASSUME NEW d \in Directory, NEW es \in SUBSET Entries
  PROVE  Create(d, es) \in Directory
PROOF BY DEF Directory, Create

\* So is what CreateFile makes of it,
LEMMA CreateFileIsTyped ==
  ASSUME NEW d \in Directory, NEW f \in Entries
  PROVE  CreateFile(d, f) \in Directory
PROOF BY CreateIsTyped DEF Directory, CreateFile

\* and what a rename inside it makes of it.
LEMMA RenameFileIsTyped ==
  ASSUME NEW d \in Directory, NEW old, NEW new \in Entries
  PROVE  RenameFile(d, old, new) \in Directory
PROOF BY CreateIsTyped, ZenonT(30) DEF Directory, RenameFile

\* Every step of a scan changes the record of that scan only.
LEMMA StepOfScan ==
  ASSUME TypeOK, NEW p \in Scans, Step(p) \/ Fault(p) \/ Cancel(p) \/ Kill(p)
  PROVE  LocalScan(p)
PROOF
<1> DEFINE Going == \E l \in Points : Goto(p, l)
           Failing == \E code \in {Filesystem, Canceled} : Fail(p, code)
           Becomes == \E s \in ScanState : sc' = [sc EXCEPT ![p] = s]
<1>1. CASE Going BY <1>1, GotoIsLocal
<1>2. CASE Failing BY <1>2, FailIsLocal
<1>3. CASE Becomes BY <1>3, ScanIs
<1>4. CASE MakeTemp(p)
  <2>1. [sc[p] EXCEPT !.pc = "open", !.path = "tmp"] \in ScanState BY Whose DEF ScanState
  <2> QED BY <1>4, <2>1, ScanIs DEF MakeTemp
<1>5. CASE Snapshot(p)
  <2>1. sc[p].left \in 0..Uploads /\ sc[p].left > 0 BY <1>5, Whose DEF Snapshot, ScanState
  <2>2. sc[p].left - 1 \in 0..Uploads BY <2>1, StagingAssumption
  <2>3. sc' = [sc EXCEPT ![p].pc = "item", ![p].left = @ - 1] BY <1>5 DEF Snapshot
  <2> QED BY <2>2, <2>3 DEF TypeOK, LocalScan, ScanState
<1>6. CASE CopySync(p)
  <2>1. [sc[p] EXCEPT !.pc = "item", !.rec = dir[p].tree \cap Files] \in ScanState
    BY Whose DEF ScanState
  <2> QED BY <1>6, <2>1, ScanIs DEF CopySync
<1>7. CASE RenameFinal(p)
  <2>1. [sc[p] EXCEPT !.pc = "parent", !.path = "final"] \in ScanState
    BY Whose DEF ScanState
  <2>2. sc' = [sc EXCEPT ![p] = [@ EXCEPT !.pc = "parent", !.path = "final"]]
    BY <1>7 DEF RenameFinal
  <2> QED BY <2>1, <2>2, ScanIs
<1>8. CASE Cancel(p)
  <2>1. [sc[p] EXCEPT !.ctx = TRUE] \in ScanState BY Whose DEF ScanState
  <2>2. sc' = [sc EXCEPT ![p] = [sc[p] EXCEPT !.ctx = TRUE]] BY <1>8 DEF Cancel
  <2> QED BY <2>1, <2>2, ScanIs
<1>9. CASE RemoveEntry(p) BY <1>9 DEF RemoveEntry, TypeOK, LocalScan
<1>10. NewLstat(p) => Going \/ Becomes BY ExitIsTyped DEF NewLstat, Points
<1>11. PublishCheck(p) \/ LstatFinal(p) => Going \/ Failing
  BY DEF PublishCheck, LstatFinal, Points
<1>12. Stop(p) \/ RenameFails(p) \/ IOFails(p) \/ SyncParentFails(p) => Failing
  BY DEF Stop, RenameFails, IOFails, SyncParentFails, Code
<1>13. SyncParent(p) \/ MakeTempFails(p) => Becomes
  BY ExitIsTyped DEF SyncParent, MakeTempFails, Points
<1>14. (\E f \in Files : CopyWrite(p, f)) \/ Unscratch(p) \/ UnscratchMasked(p) \/ WriteTmp(p)
         \/ RenameManifest(p) => Going
  BY DEF CopyWrite, Unscratch, UnscratchMasked, WriteTmp, RenameManifest, Points
<1>15. ChmodFiles(p) \/ SyncApproved(p) \/ SyncRoot(p) => Going
  BY DEF ChmodFiles, SyncApproved, SyncRoot, SyncDir, Points
<1>16. AbortChmod(p) \/ RemoveRoot(p) \/ RemoveFails(p) \/ Kill(p) => Going
  BY DEF AbortChmod, RemoveRoot, RemoveFails, Kill, Points
<1> QED
  BY <1>1, <1>2, <1>3, <1>4, <1>5, <1>6, <1>7, <1>8, <1>9, <1>10, <1>11, <1>12, <1>13, <1>14,
     <1>15, <1>16
  DEF Step, Fault

\* It changes the directory of that scan only.
LEMMA StepOfDir ==
  ASSUME TypeOK, NEW p \in Scans, Step(p) \/ Fault(p) \/ Cancel(p) \/ Kill(p)
  PROVE  LocalDir(p)
PROOF
<1> DEFINE Trees == \E es \in SUBSET Entries : dir' = [dir EXCEPT ![p].tree = es]
           Modes == \E es \in SUBSET (Entries \cup Dirs) : dir' = [dir EXCEPT ![p].ro = es]
           Gets == \E d \in Directory : dir' = [dir EXCEPT ![p] = d]
<1>1. dir[p] \in Directory BY Whose
<1>2. Fixed \subseteq Entries /\ Files \subseteq Entries BY DEF Entries
<1>3. CASE UNCHANGED dir BY <1>3 DEF TypeOK, LocalDir
<1>4. CASE Trees BY <1>4, TreeIsLocal
<1>5. CASE Modes BY <1>5, ModesAreLocal
<1>6. CASE Gets BY <1>6, DirIs
<1>7. CASE CopySync(p) BY <1>7 DEF CopySync, TypeOK, LocalDir, Directory
<1>8. CASE SyncApproved(p) \/ SyncRoot(p)
  BY <1>8 DEF SyncApproved, SyncRoot, SyncDir, TypeOK, LocalDir, Directory, Dirs
<1>9. CASE RenameFinal(p) BY <1>9 DEF RenameFinal, TypeOK, LocalDir, Directory
<1>10. CASE RemoveRoot(p) BY <1>10, ZenonT(30) DEF RemoveRoot, TypeOK, LocalDir, Directory
<1>11. CASE MakeTemp(p)
  <2>1. Create(dir[p], {"approved"}) \in Directory BY <1>1, <1>2, CreateIsTyped DEF Fixed
  <2>2. [Create(dir[p], {"approved"}) EXCEPT !.tmp = TRUE] \in Directory BY <2>1 DEF Directory
  <2> QED BY <1>6, <1>11, <2>2 DEF MakeTemp
<1>12. CASE Snapshot(p)
  <2>1. Create(dir[p], {"scratch"}) \in Directory BY <1>1, <1>2, CreateIsTyped DEF Fixed
  <2> QED BY <1>6, <1>12, <2>1 DEF Snapshot
<1>13. CASE \E f \in Files : CopyWrite(p, f)
  <2>1. \A f \in Files : CreateFile(dir[p], f) \in Directory BY <1>1, <1>2, CreateFileIsTyped
  <2> QED BY <1>6, <1>13, <2>1 DEF CopyWrite
<1>14. CASE WriteTmp(p)
  <2>1. CreateFile(dir[p], "manifest.json.tmp") \in Directory
    BY <1>1, <1>2, CreateFileIsTyped DEF Fixed
  <2> QED BY <1>6, <1>14, <2>1 DEF WriteTmp
<1>15. CASE RenameManifest(p)
  <2>1. RenameFile(dir[p], "manifest.json.tmp", "manifest.json") \in Directory
    BY <1>1, <1>2, RenameFileIsTyped DEF Fixed
  <2> QED BY <1>6, <1>15, <2>1 DEF RenameManifest
<1>16. Unscratch(p) \/ UnscratchMasked(p) \/ IOFails(p) \/ RemoveEntry(p) => Trees
  <2>1. dir[p].tree \in SUBSET Entries BY <1>1 DEF Directory
  <2> QED BY <1>2, <2>1 DEF Unscratch, UnscratchMasked, IOFails, RemoveEntry, Fixed
<1>17. ChmodFiles(p) \/ AbortChmod(p) => Modes
  <2>1. dir[p].tree \in SUBSET Entries /\ dir[p].ro \in SUBSET (Entries \cup Dirs)
    BY <1>1 DEF Directory
  <2> QED BY <2>1 DEF ChmodFiles, AbortChmod
<1>18. NewLstat(p) \/ Stop(p) \/ PublishCheck(p) \/ LstatFinal(p) \/ RenameFails(p)
         \/ SyncParent(p) => UNCHANGED dir
  BY DEF NewLstat, Stop, PublishCheck, LstatFinal, RenameFails, SyncParent
<1>19. MakeTempFails(p) \/ SyncParentFails(p) \/ RemoveFails(p) \/ Cancel(p) \/ Kill(p)
         => UNCHANGED dir
  BY DEF MakeTempFails, SyncParentFails, RemoveFails, Cancel, Kill
<1> QED
  BY <1>3, <1>4, <1>5, <1>7, <1>8, <1>9, <1>10, <1>11, <1>12, <1>13, <1>14, <1>15, <1>16, <1>17,
     <1>18, <1>19
  DEF Step, Fault

\* Both together.
LEMMA StepIsLocal ==
  ASSUME TypeOK, NEW p \in Scans, Step(p) \/ Fault(p) \/ Cancel(p) \/ Kill(p)
  PROVE  LocalScan(p) /\ LocalDir(p)
PROOF BY StepOfScan, StepOfDir

\* Every step of a scan keeps the invariant of all scans.
LEMMA ActionStep ==
  ASSUME IInv, NEW p \in Scans, Step(p) \/ Fault(p) \/ Cancel(p) \/ Kill(p)
  PROVE  \A q \in Scans : Scanned(q)'
PROOF
<1>1. CASE RenameFinal(p) BY <1>1, RenameFinalStep
<1>2. CASE RemoveRoot(p) BY <1>2, RemoveRootStep
<1>3. CASE ~RenameFinal(p) /\ ~RemoveRoot(p)
  <2>1. UNCHANGED final /\ (anchored => anchored')
    BY <1>3 DEF Step, Fault, place, NewLstat, MakeTemp, Snapshot, CopyWrite, CopySync,
       Unscratch, Stop, WriteTmp, RenameManifest, PublishCheck, ChmodFiles, SyncApproved,
       SyncRoot, SyncDir, LstatFinal, RenameFails, SyncParent, AbortChmod, RemoveEntry,
       MakeTempFails, UnscratchMasked, IOFails, SyncParentFails, RemoveFails, Cancel, Kill
  <2>2. Scanned(p)'
    BY <1>3, NewLstatStep, MakeTempStep, SnapshotStep, CopyWriteStep, CopySyncStep,
       UnscratchStep, UnscratchMaskedStep, WriteTmpStep, RenameManifestStep,
       PublishCheckStep, ChmodFilesStep, SyncApprovedStep, SyncRootStep, LstatFinalStep,
       PlainFailureStep, SyncParentStep, TakeApartStep, MakeTempFailsStep, IOFailsStep,
       EndStep, CancelStep
    DEF Step, Fault
  <2>3. \A q \in Scans \ {p} : sc'[q] = sc[q] /\ dir'[q] = dir[q]
    BY StepIsLocal DEF IInv, LocalScan, LocalDir
  <2> QED BY <2>1, <2>2, <2>3, Bystanders
<1> QED BY <1>1, <1>2, <1>3

\* Types, step by step.
LEMMA TypeStep == TypeOK /\ [Next]_vars => TypeOK'
PROOF
<1> SUFFICES ASSUME TypeOK, [Next]_vars PROVE TypeOK' OBVIOUS
<1>1. CASE UNCHANGED vars BY <1>1 DEF TypeOK, vars
<1>2. CASE PowerLoss
  <2>1. sc' \in [Scans -> ScanState]
    <3>1. \A p \in Scans : [sc[p] EXCEPT !.pc = "dead"] \in ScanState BY Whose DEF ScanState
    <3> QED BY <1>2, <3>1 DEF TypeOK, PowerLoss
  <2>2. dir' \in [Scans -> Directory]
    <3>1. CASE final = None BY <1>2, <3>1 DEF TypeOK, PowerLoss
    <3>2. CASE final # None
      <4>1. PICK lost : dir' = [dir EXCEPT ![final].tree = @ \ lost, ![final].data = {},
                                           ![final].names = {}, ![final].tmp = (final' = None)]
        BY <1>2, <3>2 DEF PowerLoss
      <4>2. final \in Scans /\ dir \in [Scans -> Directory] BY <3>2 DEF TypeOK
      <4>3. dir[final].tree \ lost \in SUBSET Entries BY <4>2 DEF Directory
      <4>4. ASSUME NEW q \in Scans PROVE dir'[q] \in Directory
        BY <4>1, <4>2, <4>3, ZenonT(30) DEF Directory
      <4> QED BY <4>1, <4>2, <4>4
    <3> QED BY <3>1, <3>2
  <2>3. final' \in Scans \cup {None} /\ anchored' \in BOOLEAN BY <1>2 DEF TypeOK, PowerLoss
  <2> QED BY <2>1, <2>2, <2>3 DEF TypeOK
<1>3. ASSUME NEW p \in Scans, Step(p) \/ Fault(p) \/ Cancel(p) \/ Kill(p) PROVE TypeOK'
  <2>1. final' \in Scans \cup {None} /\ anchored' \in BOOLEAN
    BY <1>3 DEF TypeOK, Step, Fault, place, NewLstat, MakeTemp, Snapshot, CopyWrite, CopySync,
       Unscratch, Stop, WriteTmp, RenameManifest, PublishCheck, ChmodFiles, SyncApproved,
       SyncRoot, SyncDir, LstatFinal, RenameFinal, RenameFails, SyncParent, AbortChmod,
       RemoveEntry, RemoveRoot, MakeTempFails, UnscratchMasked, IOFails, SyncParentFails,
       RemoveFails, Cancel, Kill
  <2> QED BY <1>3, <2>1, StepIsLocal DEF LocalScan, LocalDir, TypeOK
<1> QED BY <1>1, <1>2, <1>3 DEF Next

\* Before anything happens no scan has a directory.
LEMMA Start == Init => IInv
PROOF
<1> SUFFICES ASSUME Init PROVE IInv OBVIOUS
<1>1. TypeOK
  BY StagingAssumption DEF Init, TypeOK, ScanState, Directory
<1>2. ASSUME NEW p \in Scans PROVE Scanned(p)
  <2>1. /\ sc[p].pc = "idle" /\ sc[p].path = "none" /\ sc[p].exit = Running /\ sc[p].rec = {}
        /\ dir[p].tree = {} /\ dir[p].data = {} /\ ~dir[p].tmp /\ final # p
    BY StagingAssumption DEF Init
  <2>2. Names(p) BY <2>1 DEF Names, At, Unmade, Filling, Sealing
  <2>3. Exits(p) BY <2>1 DEF Exits, At, Running, Ok
  <2>4. Holds(p) /\ Sealed(p) BY <2>1 DEF Holds, Sealed, At, Unmade, Sealing
  <2>5. Visible(p) /\ Leaves(p) BY <2>1 DEF Visible, Leaves, At
  <2> QED BY <2>2, <2>3, <2>4, <2>5 DEF Scanned
<1> QED BY <1>1, <1>2 DEF IInv

\* The invariant is inductive.
LEMMA Induction == IInv /\ [Next]_vars => IInv'
PROOF
<1> SUFFICES ASSUME IInv, [Next]_vars PROVE IInv' OBVIOUS
<1>1. TypeOK' BY TypeStep DEF IInv
<1>2. \A q \in Scans : Scanned(q)'
  <2>1. CASE UNCHANGED vars
    <3>1. ASSUME NEW q \in Scans PROVE Scanned(q)'
      <4>1. sc[q].exit = Ok => final = q /\ anchored BY DEF IInv, Scanned, Exits
      <4> QED BY <2>1, <4>1, Others DEF vars
    <3> QED BY <3>1
  <2>2. CASE PowerLoss BY <2>2, PowerLossStep
  <2>3. CASE \E p \in Scans : Step(p) \/ Fault(p) \/ Cancel(p) \/ Kill(p) BY <2>3, ActionStep
  <2> QED BY <2>1, <2>2, <2>3 DEF Next
<1> QED BY <1>1, <1>2 DEF IInv

\* It holds in every reachable state.
LEMMA Invariant == Spec => []IInv
PROOF BY Start, Induction, PTL DEF Spec

\* Every reachable state has the declared shape.
THEOREM TypeCorrect == Spec => []TypeOK
PROOF
<1>1. IInv => TypeOK BY DEF IInv
<1> QED BY <1>1, Invariant, PTL

\* The output path only ever shows a complete result, or what is left of one that its own
\* scan is taking back (PublishContext, Abort).
THEOREM AlwaysPublishedWhole == Spec => []PublishedWhole
PROOF
<1>1. IInv => PublishedWhole BY DEF IInv, Scanned, Visible, PublishedWhole
<1> QED BY <1>1, Invariant, PTL

\* Of any number of scans that race for a path at most one reports success, and what it
\* published stays there durably (PublishContext: the rename and the sync of the parent).
THEOREM AlwaysSuccessIsPublished == Spec => []SuccessIsPublished
PROOF
<1>1. IInv => SuccessIsPublished BY DEF IInv, Scanned, Exits, SuccessIsPublished
<1> QED BY <1>1, Invariant, PTL

\* A scan that ends with an error has removed all it made, unless a removal failed (Abort).
THEOREM AlwaysFailureLeavesNothing == Spec => []FailureLeavesNothing
PROOF
<1>1. IInv => FailureLeavesNothing BY DEF IInv, Scanned, Leaves, FailureLeavesNothing
<1> QED BY <1>1, Invariant, PTL

\* A visible result is read-only until it is taken back (PublishContext's walk).
THEOREM AlwaysPublishedReadOnly == Spec => []PublishedReadOnly
PROOF
<1>1. IInv => PublishedReadOnly BY DEF IInv, Scanned, Visible, PublishedReadOnly
<1> QED BY <1>1, Invariant, PTL

\* Who changes the output path while a result stands there.
LEMMA ResultStep ==
  ASSUME IInv, [Next]_vars, NEW p \in Scans, final = p, ~Retracting(p)
  PROVE  \/ final' = p /\ dir'[p].tree = dir[p].tree
         \/ ~anchored /\ sc[p].exit # Ok /\ final' = None
PROOF
<1>1. Scanned(p) /\ TypeOK BY DEF IInv
<1>2. dir[p].tree = Whole(p) /\ dir[p].data = {} /\ dir[p].names = {}
  BY <1>1 DEF Scanned, Visible
<1>3. ~Replaceable BY <1>2 DEF Replaceable, Whole
<1>4. sc[p].pc \notin Unmade \cup Filling \cup Sealing \cup {"abort", "remove"}
  BY <1>1 DEF Scanned, Names, Exits, Unmade, Filling, Sealing, Retracting
<1>5. CASE UNCHANGED vars BY <1>5 DEF vars
<1>6. CASE PowerLoss
  <2>1. final # None BY StagingAssumption
  <2>2. PICK lost \in SUBSET (dir[final].data \cup dir[final].names) :
          dir' = [dir EXCEPT ![final].tree = @ \ lost, ![final].data = {},
                             ![final].names = {}, ![final].tmp = (final' = None)]
    BY <1>6, <2>1 DEF PowerLoss
  <2>3. lost = {} BY <1>2, <2>2
  <2>4. dir'[p].tree = dir[p].tree BY <1>1, <2>2, <2>3 DEF TypeOK, Directory
  <2>5. final' = p \/ (final' = None /\ ~anchored) BY <1>6 DEF PowerLoss
  <2>6. sc[p].exit = Ok => anchored BY <1>1 DEF Scanned, Exits
  <2> QED BY <2>4, <2>5, <2>6
<1>7. ASSUME NEW q \in Scans, Step(q) \/ Fault(q) \/ Cancel(q) \/ Kill(q)
      PROVE  final' = p /\ dir'[p].tree = dir[p].tree
  <2>1. final' = p
    BY <1>3, <1>7
    DEF Step, Fault, place, NewLstat, MakeTemp, Snapshot, CopyWrite, CopySync,
       Unscratch, Stop, WriteTmp, RenameManifest, PublishCheck, ChmodFiles, SyncApproved,
       SyncRoot, SyncDir, LstatFinal, RenameFinal, RenameFails, SyncParent, AbortChmod,
       RemoveEntry, RemoveRoot, MakeTempFails, UnscratchMasked, IOFails, SyncParentFails,
       RemoveFails, Cancel, Kill
  <2>2. CASE q # p BY <1>1, <1>7, <2>1, <2>2, StepIsLocal DEF LocalDir
  <2>3. CASE q = p
    <3>1. UNCHANGED dir
      BY <1>4, <1>7, <2>3
      DEF Step, Fault, At, NewLstat, MakeTemp, Snapshot, CopyWrite, CopySync, Unscratch,
         Stop, WriteTmp, RenameManifest, PublishCheck, ChmodFiles, SyncApproved, SyncRoot,
         SyncDir, LstatFinal, RenameFinal, RenameFails, SyncParent, AbortChmod, RemoveEntry,
         RemoveRoot, MakeTempFails, UnscratchMasked, IOFails, SyncParentFails, RemoveFails,
         Cancel, Kill, Unmade, Filling, Sealing
    <3> QED BY <2>1, <3>1
  <2> QED BY <2>1, <2>2, <2>3
<1> QED BY <1>5, <1>6, <1>7 DEF Next

\* Nobody but its own scan, taking it back, and a power loss before anybody was told of
\* it touches a result (RenameFinal is rename(2); Abort removes what Path names).
THEOREM ResultIsAlwaysStable == Spec => ResultIsStable
PROOF
<1> DEFINE Stable == \A p \in Scans : final = p /\ ~Retracting(p) =>
                       \/ final' = p /\ dir'[p].tree = dir[p].tree
                       \/ ~anchored /\ sc[p].exit # Ok /\ final' = None
<1>1. IInv /\ [Next]_vars => Stable BY ResultStep
<1>2. IInv /\ [Next]_vars => [Stable]_vars BY <1>1
<1> QED BY <1>2, Invariant, PTL DEF Spec, ResultIsStable

\* How a step may change the control point, the exit code and the path of its scan.
LEMMA Fate ==
  ASSUME TypeOK, NEW p \in Scans, Step(p) \/ Fault(p) \/ Cancel(p) \/ Kill(p)
  PROVE  /\ sc'[p].pc = "rename" => sc[p].pc = "rename" \/ ~sc[p].ctx
         /\ \/ sc'[p].exit \in {sc[p].exit, Ok}
            \/ sc[p].pc \in Unmade \cup Filling \cup Sealing
            \/ SyncParentFails(p)
         /\ \/ sc'[p].path \in {sc[p].path, "tmp"}
            \/ sc[p].pc = "rename" /\ sc'[p].exit = sc[p].exit
PROOF
<1> DEFINE Going == \E l \in Points \ {"rename"} : Goto(p, l)
           Failing == \E code \in {Filesystem, Canceled} : Fail(p, code)
<1>1. CASE Going BY <1>1, GotoIs DEF Goes
<1>2. CASE Failing /\ (sc[p].pc \in Filling \cup Sealing \/ SyncParentFails(p))
  BY <1>2, FailIs DEF Fails
<1>3. CASE MakeTemp(p) BY <1>3, Whose DEF MakeTemp, TypeOK, ScanState
<1>4. CASE Snapshot(p) BY <1>4, Whose DEF Snapshot, TypeOK, ScanState
<1>5. CASE CopySync(p) BY <1>5, Whose DEF CopySync, TypeOK, ScanState
<1>6. CASE RenameFinal(p) BY <1>6, Whose DEF RenameFinal, At, TypeOK, ScanState
<1>7. CASE Cancel(p) BY <1>7, Whose DEF Cancel, TypeOK, ScanState
<1>8. CASE RemoveEntry(p) BY <1>8 DEF RemoveEntry, At
<1>9. CASE SyncParent(p) BY <1>9, Whose DEF SyncParent, TypeOK, ScanState
<1>10. CASE MakeTempFails(p) BY <1>10, Whose DEF MakeTempFails, At, Unmade, TypeOK, ScanState
<1>11. CASE NewLstat(p)
  <2>1. CASE final = None BY <1>1, <1>11, <2>1 DEF NewLstat, Points
  <2>2. CASE final # None
    <3>1. sc' = [sc EXCEPT ![p] = [@ EXCEPT !.pc = "exited", !.exit = Filesystem]]
      BY <1>11, <2>2 DEF NewLstat
    <3>2. sc[p].pc = "idle" BY <1>11 DEF NewLstat, At
    <3> QED BY <3>1, <3>2, Whose DEF Unmade, TypeOK, ScanState
  <2> QED BY <2>1, <2>2
<1>12. CASE LstatFinal(p) /\ final = None
  BY <1>12, GotoIs DEF LstatFinal, Goes
<1>13. CASE LstatFinal(p) /\ final # None
  BY <1>2, <1>13 DEF LstatFinal, At, Sealing
<1>14. PublishCheck(p) => Going \/ (Failing /\ sc[p].pc \in Filling)
  BY DEF PublishCheck, Points, At, Filling
<1>15. Stop(p) \/ RenameFails(p) \/ IOFails(p) => Failing /\ sc[p].pc \in Filling \cup Sealing
  BY DEF Stop, RenameFails, IOFails, Code, At, Filling, Sealing
<1>16. SyncParentFails(p) => Failing BY DEF SyncParentFails, Code
<1>17. (\E f \in Files : CopyWrite(p, f)) \/ Unscratch(p) \/ UnscratchMasked(p)
         \/ WriteTmp(p) \/ RenameManifest(p) => Going
  BY DEF CopyWrite, Unscratch, UnscratchMasked, WriteTmp, RenameManifest, Points
<1>18. ChmodFiles(p) \/ SyncApproved(p) \/ SyncRoot(p) => Going
  BY DEF ChmodFiles, SyncApproved, SyncRoot, SyncDir, Points
<1>19. AbortChmod(p) \/ RemoveRoot(p) \/ RemoveFails(p) \/ Kill(p) => Going
  BY DEF AbortChmod, RemoveRoot, RemoveFails, Kill, Points
<1> QED
  BY <1>1, <1>2, <1>3, <1>4, <1>5, <1>6, <1>7, <1>8, <1>9, <1>10, <1>11, <1>12, <1>13, <1>14,
     <1>15, <1>16, <1>17, <1>18, <1>19
  DEF Step, Fault

\* A scan whose context has ended neither gets to the rename nor becomes visible.
LEMMA CanceledStep ==
  ASSUME IInv, [Next]_vars, NEW p \in Scans, sc[p].ctx, ~At(p, "rename")
  PROVE  sc'[p].pc # "rename" /\ (final # p => final' # p)
PROOF
<1>1. TypeOK /\ None # p BY StagingAssumption DEF IInv
<1>2. CASE UNCHANGED vars BY <1>2 DEF vars, At
<1>3. CASE PowerLoss BY <1>1, <1>3, Whose DEF PowerLoss, At, ScanState
<1>4. ASSUME NEW q \in Scans, Step(q) \/ Fault(q) \/ Cancel(q) \/ Kill(q)
      PROVE  sc'[p].pc # "rename" /\ (final # p => final' # p)
  <2>1. final # p => final' # p
    BY <1>1, <1>4
    DEF Step, Fault, At, place, NewLstat, MakeTemp, Snapshot, CopyWrite, CopySync,
       Unscratch, Stop, WriteTmp, RenameManifest, PublishCheck, ChmodFiles, SyncApproved,
       SyncRoot, SyncDir, LstatFinal, RenameFinal, RenameFails, SyncParent, AbortChmod,
       RemoveEntry, RemoveRoot, MakeTempFails, UnscratchMasked, IOFails, SyncParentFails,
       RemoveFails, Cancel, Kill
  <2>2. CASE q # p BY <1>1, <1>4, <2>1, <2>2, StepIsLocal DEF LocalScan, At
  <2>3. CASE q = p
    <3>1. sc'[p].pc # "rename" BY <1>1, <1>4, <2>3, Fate DEF At
    <3> QED BY <2>1, <3>1
  <2> QED BY <2>1, <2>2, <2>3
<1> QED BY <1>2, <1>3, <1>4 DEF Next

\* Cancellation seen by the last check of the context keeps a result from appearing
\* (PublishContext checks it after the last directory).
THEOREM CanceledAlwaysStaysHidden == Spec => CanceledStaysHidden
PROOF
<1> DEFINE Hidden1 == \A p \in Scans : sc[p].ctx /\ ~At(p, "rename") =>
                        sc'[p].pc # "rename" /\ (final # p => final' # p)
<1>1. IInv /\ [Next]_vars => Hidden1 BY CanceledStep
<1>2. IInv /\ [Next]_vars => [Hidden1]_vars BY <1>1
<1> QED BY <1>2, Invariant, PTL DEF Spec, CanceledStaysHidden

\* ------------------------------------------------------------ the abstract specification

\* Without a failing sync of the parent no visible result is ever taken back.
Untouched == \A p \in Scans : sc[p].path = "final" => ~Retracting(p)

\* Only a failing sync of the parent starts a retraction of a visible result.
LEMMA UntouchedStep ==
  ASSUME "parentsync" \notin Faults, IInv, Untouched, [Next]_vars
  PROVE  Untouched'
PROOF
<1>1. TypeOK BY DEF IInv
<1> SUFFICES ASSUME NEW p \in Scans, sc'[p].path = "final" PROVE ~Retracting(p)'
  BY DEF Untouched
<1>2. sc[p] \in ScanState /\ Scanned(p) BY <1>1, Whose DEF IInv
<1>3. CASE sc'[p].path = sc[p].path /\ sc'[p].exit = sc[p].exit
  BY <1>3 DEF Untouched, Retracting
<1>4. CASE UNCHANGED vars BY <1>3, <1>4 DEF vars
<1>5. CASE PowerLoss BY <1>1, <1>2, <1>3, <1>5 DEF PowerLoss, ScanState
<1>6. ASSUME NEW q \in Scans, Step(q) \/ Fault(q) \/ Cancel(q) \/ Kill(q)
      PROVE  ~Retracting(p)'
  <2>1. CASE q # p BY <1>1, <1>3, <1>6, <2>1, StepIsLocal DEF LocalScan
  <2>2. CASE q = p
    <3>1. ~SyncParentFails(p) BY DEF SyncParentFails
    <3>2. sc[p].pc \in Unmade \cup Filling \cup Sealing =>
            sc[p].path # "final" /\ sc[p].exit = Running
      BY <1>2 DEF Scanned, Names, Exits, Unmade, Filling, Sealing
    <3>3. sc'[p].exit = Ok => ~Retracting(p)' BY DEF Retracting
    <3>4. CASE sc[p].pc = "rename" /\ sc'[p].exit = sc[p].exit
      BY <3>2, <3>4 DEF Retracting, Sealing
    <3> QED BY <1>1, <1>3, <1>6, <2>2, <3>1, <3>2, <3>3, <3>4, Fate
  <2> QED BY <2>1, <2>2
<1> QED BY <1>4, <1>5, <1>6 DEF Next

\* A visible result is whole and its scan has not failed.
LEMMA ShownIs ==
  ASSUME IInv, Untouched, NEW p \in Scans, final = p
  PROVE  ~Retracting(p) /\ dir[p].tree = Whole(p)
PROOF BY DEF IInv, Scanned, Names, Visible, Untouched

\* What the abstract specification sees.
Result == IF final = None THEN None
          ELSE [owner |-> final, whole |-> dir[final].tree = Whole(final)]
Reported == \E p \in Scans : sc[p].exit = Ok

\* It sees a scan report, or it does not.
LEMMA ReportedStep ==
  ASSUME IInv, Untouched, [Next]_vars, Reported
  PROVE  Reported'
PROOF
<1>1. TypeOK BY DEF IInv
<1>2. PICK p \in Scans : sc[p].exit = Ok BY DEF Reported
<1>3. sc[p].pc = "exited" BY <1>2 DEF IInv, Scanned, Exits, At
<1>4. CASE UNCHANGED vars BY <1>2, <1>4 DEF vars, Reported
<1>5. CASE PowerLoss BY <1>1, <1>2, <1>5, Whose DEF PowerLoss, ScanState, Reported
<1>6. ASSUME NEW q \in Scans, Step(q) \/ Fault(q) \/ Cancel(q) \/ Kill(q)
      PROVE  Reported'
  <2>1. CASE q # p BY <1>1, <1>2, <1>6, <2>1, StepIsLocal DEF LocalScan, Reported
  <2>2. CASE q = p
    <3>1. ~SyncParentFails(p) BY <1>3 DEF SyncParentFails, At
    <3>2. sc'[p].exit = Ok
      BY <1>1, <1>2, <1>3, <1>6, <2>2, <3>1, Fate DEF Unmade, Filling, Sealing
    <3> QED BY <3>2 DEF Reported
  <2> QED BY <2>1, <2>2
<1> QED BY <1>4, <1>5, <1>6 DEF Next

\* Only a rename puts a directory at the output path.
LEMMA PublisherIs ==
  ASSUME [Next]_vars, final' # final, final' # None
  PROVE  \E p \in Scans : RenameFinal(p)
PROOF
<1>1. ASSUME NEW p \in Scans, Step(p) \/ Fault(p) \/ Cancel(p) \/ Kill(p) PROVE RenameFinal(p)
  BY <1>1
  DEF Step, Fault, place, NewLstat, MakeTemp, Snapshot, CopyWrite, CopySync,
     Unscratch, Stop, WriteTmp, RenameManifest, PublishCheck, ChmodFiles, SyncApproved,
     SyncRoot, SyncDir, LstatFinal, RenameFails, SyncParent, AbortChmod,
     RemoveEntry, RemoveRoot, MakeTempFails, UnscratchMasked, IOFails, SyncParentFails,
     RemoveFails, Cancel, Kill
<1>2. ~PowerLoss BY DEF PowerLoss
<1> QED BY <1>1, <1>2 DEF Next, vars

\* A step is a step of the abstract specification, or does not show.
LEMMA ShownStep ==
  ASSUME IInv, IInv', Untouched, Untouched', [Next]_vars
  PROVE  [Shown!Next]_<<Result, Reported>>
PROOF
<1>1. /\ final \in Scans \cup {None} /\ final' \in Scans \cup {None} /\ None \notin Scans
      /\ \A p \in Scans : None # [owner |-> p, whole |-> TRUE]
  <2>1. final \in Scans \cup {None} /\ final' \in Scans \cup {None} BY DEF IInv, TypeOK
  <2>2. None \notin Scans /\ None \notin [owner : Scans, whole : BOOLEAN]
    BY StagingAssumption
  <2>3. \A p \in Scans : [owner |-> p, whole |-> TRUE] \in [owner : Scans, whole : BOOLEAN]
    OBVIOUS
  <2>4. \A p \in Scans : None # [owner |-> p, whole |-> TRUE] BY <2>2, <2>3
  <2> QED BY <2>1, <2>2, <2>4
<1>2. Result = IF final = None THEN None ELSE [owner |-> final, whole |-> TRUE]
  BY <1>1, ShownIs DEF Result
<1>3. Result' = IF final' = None THEN None ELSE [owner |-> final', whole |-> TRUE]
  <2>1. ASSUME NEW p \in Scans, final' = p PROVE dir'[p].tree = Whole(p)'
    BY <2>1 DEF IInv, Scanned, Names, Visible, Untouched
  <2> QED BY <1>1, <2>1 DEF Result, Whole
<1>4. Reported => final # None /\ anchored BY <1>1 DEF IInv, Scanned, Exits, Reported
<1>5. Reported' => final' # None BY <1>1 DEF IInv, Scanned, Exits, Reported
<1>6. Reported => Reported' BY ReportedStep
<1>7. Reported \in BOOLEAN /\ Reported' \in BOOLEAN BY DEF Reported
<1>8. CASE final' = final
  <2>1. Result' = Result BY <1>2, <1>3, <1>8
  <2>2. ~Reported /\ Reported' => Result # None BY <1>1, <1>2, <1>5, <1>8
  <2>3. CASE Reported' = Reported BY <2>1, <2>3
  <2>4. CASE Reported' # Reported
    <3>1. ~Reported /\ Reported' = TRUE BY <1>6, <1>7, <2>4
    <3> QED BY <2>1, <2>2, <3>1 DEF Shown!Next, Shown!Report, Result, Reported
  <2> QED BY <2>3, <2>4
<1>9. CASE final = None /\ final' # None
  <2>1. PICK p \in Scans : RenameFinal(p) BY <1>1, <1>9, PublisherIs
  <2>2. final' = p BY <2>1 DEF RenameFinal
  <2>3. Result = None /\ Result' = [owner |-> p, whole |-> TRUE] BY <1>1, <1>2, <1>3, <1>9, <2>2
  <2>4. sc'[p].exit # Ok
    <3>1. sc[p].exit # Ok BY <1>4, <1>9 DEF Reported
    <3>2. sc[p] \in ScanState BY Whose DEF IInv
    <3> QED BY <2>1, <3>1, <3>2 DEF RenameFinal, ScanState, IInv, TypeOK
  <2>5. ~Reported BY <1>4, <1>9
  <2>6. ~Reported'
    <3>1. \A q \in Scans : sc'[q].exit = Ok => q = p
      BY <1>1, <2>2 DEF IInv, Scanned, Exits
    <3> QED BY <2>4, <3>1 DEF Reported
  <2>7. Reported' = Reported BY <1>7, <2>5, <2>6
  <2>8. Shown!Publish(p) BY <2>3, <2>7 DEF Shown!Publish, Shown!View, Result, Reported
  <2> QED BY <2>1, <2>8 DEF Shown!Next
<1>10. CASE final # None /\ final' # final
  <2>1. final \in Scans BY <1>1, <1>10
  <2>2. ~Retracting(final) BY <2>1, ShownIs
  <2>3. ~anchored /\ final' = None BY <1>10, <2>1, <2>2, ResultStep
  <2>4. ~Reported /\ ~Reported' BY <1>4, <1>5, <2>3
  <2>5. Reported' = Reported BY <1>7, <2>4
  <2>6. Result # None /\ Result' = None BY <1>1, <1>2, <1>3, <1>10, <2>1, <2>3
  <2>7. Shown!Lose BY <2>4, <2>5, <2>6 DEF Shown!Lose, Result, Reported
  <2> QED BY <2>7 DEF Shown!Next
<1> QED BY <1>8, <1>9, <1>10

\* Nothing is visible and nothing reported at first.
LEMMA ShownStart ==
  ASSUME Init
  PROVE  Untouched /\ Shown!Init
PROOF
<1>1. final = None /\ \A p \in Scans : sc[p].path = "none" /\ sc[p].exit = Running BY DEF Init
<1>2. Untouched BY <1>1 DEF Untouched
<1>3. Result = None /\ ~Reported BY <1>1 DEF Result, Reported, Running, Ok
<1>4. Reported = FALSE BY <1>3 DEF Reported
<1>5. Shown!Init BY <1>3, <1>4 DEF Shown!Init, Result, Reported
<1> QED BY <1>2, <1>5

\* A scan's publication is one atomic step of the abstract specification, whatever else
\* fails: results appear whole and, once reported, never change (PublishContext). With a
\* failing sync of the parent a visible result is taken back, which no abstract step does.
THEOREM PublicationIsAtomic ==
  ASSUME "parentsync" \notin Faults
  PROVE  Spec => PublishesAtomically
PROOF
<1>1. Init => Untouched /\ Shown!Init BY ShownStart
<1>2. IInv /\ Untouched /\ [Next]_vars => Untouched' BY UntouchedStep
<1>3. IInv /\ IInv' /\ Untouched /\ Untouched' /\ [Next]_vars => [Shown!Next]_<<Result, Reported>>
  BY ShownStep
<1> QED BY <1>1, <1>2, <1>3, Invariant, PTL
  DEF Spec, PublishesAtomically, Shown!Spec, Result, Reported
=============================================================================
