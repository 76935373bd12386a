------------------------------ MODULE BatchLoad ------------------------------
(***************************************************************************)
(* internal/batch/input.go: LoadContext reads a batch directory that a     *)
(* writer may still be changing, hashes every blob and then collects       *)
(* everything once more.  Two directories compete for the batch's path;    *)
(* either may be renamed there at any time.                                *)
(*                                                                         *)
(* Inodes are not reused and belong to one path of one directory; every    *)
(* change advances `clock`, from which modification times are taken.  The  *)
(* model starts as the load does: what the writer did before is in the     *)
(* directories it starts with.                                             *)
(***************************************************************************)
EXTENDS Integers, Sequences, SequencesExt, FiniteSets, Limits

CONSTANTS Names,          \* blob names
          Contents,       \* contents of blobs: sequences of blocks
          Uploads,        \* contents of upload.json
          Written,        \* those of them the writer writes later
          Layouts,        \* directories the batch may start with
          Others,         \* directories it may be exchanged for
          Changes,        \* what the writer does, a subset of ChangeKinds
          MaxChanges,     \* bound on the writer's steps
          MaxInputFiles, MaxInputTotalSize, MaxDiscoveredFiles,
          Faults          \* a subset of {"cancel", "io"}

ChangeKinds == {"rewrite", "replace", "unlink", "extra", "blobs", "swap"}

\* `malformed` is all that decode and the checks of one declaration alone refuse.
File == [name : Names, size : Nat, digest : Contents]
Upload == [malformed : BOOLEAN, files : Seq(File)]
Layout == [upload : Uploads, blob : [Names -> Contents \cup {<<>>}],
           absent : SUBSET Names, extra : BOOLEAN]

ASSUME BatchAssumption == /\ Contents \subseteq Seq(Nat) \ {<<>>}
                          /\ Uploads \subseteq Upload /\ Written \subseteq Uploads
                          /\ Layouts \cup Others \subseteq Layout
                          /\ Changes \subseteq ChangeKinds
                          /\ Faults \subseteq {"cancel", "io"}
                          /\ MaxChanges \in Nat /\ MaxDiscoveredFiles \in Nat
                          /\ MaxInputFiles \in Nat /\ MaxInputTotalSize \in Nat

VARIABLES tree,     \* the two directories, by inode
          at,       \* which of them the batch's path names
          clock,    \* the time of the last change
          pc,       \* control point of LoadContext
          fd,       \* the inode of the open file
          info,     \* batchInfo, uploadInfo, blobsInfo and that of the open blob
          snapshots, \* the FileInfo of each blob hashed
          input,    \* the files upload.json declares
          next,     \* index of the blob being hashed
          got,      \* the digests computed
          unchecked, \* blobs whose FileInfo was not compared again
          code,     \* exit code, Running until decided
          ctx,      \* the batch context has ended
          broke,    \* faults that happened
          moments,  \* history: the complete views the batch's path ever had
          swaps     \* history: how often the directories were exchanged

disk == <<tree, at, clock, moments, swaps>>
infos == <<info, snapshots>>
loader == <<pc, fd, info, snapshots, input, next, got, unchecked, code>>
vars == <<tree, at, clock, pc, fd, info, snapshots, input, next, got, unchecked, code, ctx,
          broke, moments, swaps>>

Running == 1    \* no exit code of the program
Ok == 0
Input == 3
Canceled == 6

\* ------------------------------------------------------------ the disk

\* A file: regular with its content, or something else. An inode is numbered by the
\* change that made it, those of the first directories by -1 and -2; 0 is no file.
Regular(ino, time, val) == [ino |-> ino, time |-> time, regular |-> TRUE, val |-> val]
NoBlob == Regular(0, 0, <<>>)
Link(ino, time) == [ino |-> ino, time |-> time, regular |-> FALSE, val |-> <<>>]
Dir(ino, time) == [ino |-> ino, time |-> time]

\* A layout on disk; no content stands for a link.
Made(l, ino) ==
    [root |-> Dir(ino, 0), upload |-> Regular(ino, 0, l.upload), blobs |-> Dir(ino, 0),
     extra |-> l.extra,
     blob |-> [n \in Names |-> IF n \in l.absent THEN NoBlob
                              ELSE IF l.blob[n] = <<>> THEN Link(ino, 0)
                              ELSE Regular(ino, 0, l.blob[n])]]

Listed(t) == {n \in Names : t.blob[n].ino # 0}

\* What somebody who stops the world would see in a directory.
View(t) == [upload |-> t.upload.val, extra |-> t.extra,
            blob |-> [n \in Listed(t) |-> t.blob[n].val]]

Visible == tree[at]
Now == clock + 1

\* ------------------------------------------------------------ the writer

Write(kind, newTree, newAt) ==
    /\ kind \in Changes /\ clock < MaxChanges /\ pc \notin {"root", "failed", "returned"}
    /\ tree' = newTree /\ at' = newAt /\ clock' = Now
    /\ moments' = moments \cup {View(newTree[newAt])}
    /\ swaps' = IF newAt = at THEN swaps ELSE swaps + 1
    /\ UNCHANGED <<pc, infos, input, next, got, unchecked, code, ctx, broke>>

\* A file is written in place: it may be the one the loader has open.
Rewrite ==
    \E t \in {1, 2} :
      \/ \E u \in Written : LET new == Regular(tree[t].upload.ino, Now, u) IN
           /\ Write("rewrite", [tree EXCEPT ![t].upload = new], at)
           /\ fd' = IF pc = "read" /\ fd.ino = new.ino THEN new ELSE fd
      \/ \E n \in Listed(tree[t]), c \in Contents :
           LET new == Regular(tree[t].blob[n].ino, Now, c) IN
           /\ tree[t].blob[n].regular
           /\ Write("rewrite", [tree EXCEPT ![t].blob[n] = new], at)
           /\ fd' = IF pc = "hash" /\ input[next].name = n /\ fd.ino = new.ino THEN new ELSE fd

\* A file is renamed over another, created, or replaced by something irregular.
Replace ==
    \/ \E u \in Written :
         Write("replace", [tree EXCEPT ![at].upload = Regular(Now, Now, u),
                                       ![at].root.time = Now], at)
    \/ \E n \in Names, c \in Contents :
         \E new \in {Regular(Now, Now, c), Link(Now, Now)} :
           Write("replace", [tree EXCEPT ![at].blob[n] = new, ![at].blobs.time = Now], at)

Unlink ==
    \E n \in Listed(Visible) :
      Write("unlink", [tree EXCEPT ![at].blob[n] = NoBlob, ![at].blobs.time = Now], at)

\* An undeclared entry comes or goes.
Extra == Write("extra", [tree EXCEPT ![at].extra = ~@, ![at].root.time = Now], at)

\* The blobs directory is replaced by another with the same files.
ReplaceBlobs ==
    Write("blobs", [tree EXCEPT ![at].blobs = Dir(Now, Now), ![at].root.time = Now], at)

\* The batch directory is exchanged; its own time does not change.
Swap == Write("swap", tree, 3 - at)

Writer == \/ Rewrite
          \/ (Replace \/ Unlink \/ Extra \/ ReplaceBlobs \/ Swap) /\ UNCHANGED fd

\* ------------------------------------------------------------ the checks

\* The running total of sizes after so many files, which both loops keep.
Sums(files) ==
    LET sum[k \in 0..Len(files)] == IF k = 0 THEN 0 ELSE sum[k - 1] + files[k].size
    IN  sum
Total(files) == Sums(files)[Len(files)]

\* Mutant: two declarations may name one blob.
ValidTwice(u) ==
    /\ ~u.malformed /\ Len(u.files) <= MaxInputFiles
    /\ \A k \in DOMAIN u.files :
         ~Exceeds(u.files[k].size, Sums(u.files)[k - 1], MaxInputTotalSize)

\* decode and validateDeclarations.
Valid(u) ==
    /\ ~u.malformed /\ Len(u.files) <= MaxInputFiles
    /\ \A k \in DOMAIN u.files :
         /\ \A j \in 1..(k - 1) : u.files[j].name # u.files[k].name
         /\ ~Exceeds(u.files[k].size, Sums(u.files)[k - 1], MaxInputTotalSize)

Declared == {input[k].name : k \in DOMAIN input}

\* validateRootEntries: upload.json, blobs and nothing else.
RootIsValid(t) == ~t.extra

\* validateBlobEntries: the declared names, all of them regular files.
BlobsAreValid(t) == Listed(t) = Declared /\ \A n \in Listed(t) : t.blob[n].regular

\* unchanged and sameSnapshot. A file that another replaced has another inode.
Same(before, node) == before.ino = node.ino /\ before.time = node.time

\* What is read from an open file: its content if it has not been written since
\* `time`, anything between two contents otherwise.
Reads(time, all) == IF fd.time = time THEN {fd.val} ELSE all

\* ------------------------------------------------------------ LoadContext

Init == /\ \E first \in Layouts, other \in Others :
             tree = <<Made(first, -1), Made(other, -2)>>
        /\ at = 1 /\ clock = 0 /\ moments = {View(tree[1])} /\ swaps = 0
        /\ pc = "root" /\ fd = NoBlob
        /\ info = [p \in {"root", "upload", "blobs", "open"} |-> Dir(0, 0)] /\ snapshots = <<>>
        /\ input = <<>> /\ next = 1 /\ got = <<>> /\ unchecked = {}
        /\ code = Running /\ ctx = FALSE /\ broke = {}

Fail == pc' = "failed"
See(path, node) == info' = [info EXCEPT ![path] = Dir(node.ino, node.time)]

\* f with x mapped to y.
With(f, x, y) == [z \in DOMAIN f \cup {x} |-> IF z = x THEN y ELSE f[z]]

\* readDirectory of the batch: Lstat, open, stat and the names are one step.
CollectRoot ==
    /\ pc = "root"
    /\ See("root", Visible.root)
    /\ IF RootIsValid(Visible) THEN pc' = "upload" ELSE Fail
    /\ UNCHANGED <<disk, snapshots, fd, input, next, got, unchecked, code, ctx, broke>>

OpenUpload ==
    /\ pc = "upload"
    /\ fd' = Visible.upload /\ See("upload", Visible.upload)
    /\ pc' = "read"
    /\ UNCHANGED <<disk, snapshots, input, next, got, unchecked, code, ctx, broke>>

ReadUpload ==
    /\ pc = "read" /\ ~ctx
    /\ \E u \in Reads(info["upload"].time, Uploads) :
         IF Valid(u) THEN input' = u.files /\ pc' = "blobs" ELSE Fail /\ UNCHANGED input
    /\ fd' = NoBlob
    /\ UNCHANGED <<disk, infos, next, got, unchecked, code, ctx, broke>>

CollectBlobs ==
    /\ pc = "blobs"
    /\ See("blobs", Visible.blobs)
    /\ IF BlobsAreValid(Visible) THEN pc' = "blob" ELSE Fail
    /\ UNCHANGED <<disk, snapshots, fd, input, next, got, unchecked, code, ctx, broke>>

\* openRegular for the next blob, and its size against the declared one.
OpenBlob ==
    /\ pc = "blob" /\ next <= Len(input) /\ ~ctx
    /\ LET node == Visible.blob[input[next].name] IN
       IF node.ino # 0 /\ node.regular /\ Len(node.val) = input[next].size
       THEN fd' = node /\ See("open", node) /\ pc' = "hash"
       ELSE Fail /\ UNCHANGED <<fd, info>>
    /\ UNCHANGED <<disk, snapshots, input, next, got, unchecked, code, ctx, broke>>

\* Mutant: the file is not compared with itself after hashing.
SameAfterHashNever == TRUE

\* The fstat after hashing agrees with the one before.
SameAfterHash == fd.time = info["open"].time

\* Mutant: the total starts from what was declared.
UsedTwice == Total(input)

\* What the blobs hashed so far have used of the total.
Used == Sums(input)[next - 1]

\* hashRegular's copy and fstat, and the checks of its result.
HashBlob ==
    /\ pc = "hash" /\ ~ctx
    /\ LET f == input[next] IN
       \E c \in Reads(info["open"].time, Contents) :
         IF Len(c) = f.size /\ SameAfterHash /\ c = f.digest
            /\ ~Exceeds(Len(c), Used, MaxInputTotalSize)
         THEN /\ got' = With(got, f.name, c)
              /\ snapshots' = With(snapshots, f.name, Dir(fd.ino, fd.time))
              /\ next' = next + 1 /\ pc' = "blob"
         ELSE Fail /\ UNCHANGED <<got, snapshots, next>>
    /\ fd' = NoBlob
    /\ UNCHANGED <<disk, info, input, unchecked, code, ctx, broke>>

\* The first Lstat after the last blob.
RecheckRoot ==
    /\ pc = "blob" /\ next > Len(input)
    /\ IF Same(info["root"], Visible.root) THEN pc' = "recheck upload" ELSE Fail
    /\ UNCHANGED <<disk, fd, infos, input, next, got, unchecked, code, ctx, broke>>

RecheckUpload ==
    /\ pc = "recheck upload"
    /\ IF Same(info["upload"], Visible.upload) THEN pc' = "root again" ELSE Fail
    /\ UNCHANGED <<disk, fd, infos, input, next, got, unchecked, code, ctx, broke>>

RecollectRoot ==
    /\ pc = "root again"
    /\ IF Same(info["root"], Visible.root) /\ RootIsValid(Visible)
          THEN pc' = "blobs again"
          ELSE Fail
    /\ UNCHANGED <<disk, fd, infos, input, next, got, unchecked, code, ctx, broke>>

RecollectBlobs ==
    /\ pc = "blobs again"
    /\ IF Same(info["blobs"], Visible.blobs) /\ BlobsAreValid(Visible)
          THEN pc' = "recheck blobs" /\ unchecked' = Declared
          ELSE Fail /\ UNCHANGED unchecked
    /\ UNCHANGED <<disk, fd, infos, input, next, got, code, ctx, broke>>

\* The last loop runs over a map: the blobs come in any order.
RecheckBlob ==
    /\ pc = "recheck blobs"
    /\ \E n \in unchecked :
         IF Same(snapshots[n], Visible.blob[n]) THEN unchecked' = unchecked \ {n} /\ UNCHANGED pc
         ELSE Fail /\ UNCHANGED unchecked
    /\ UNCHANGED <<disk, fd, infos, input, next, got, code, ctx, broke>>

\* LoadContext returns the input; Scan compares it with the limit of the manifest.
Return ==
    /\ pc = "recheck blobs" /\ unchecked = {}
    /\ pc' = "returned"
    /\ code' = IF Len(input) > MaxDiscoveredFiles THEN Input ELSE Ok
    /\ UNCHANGED <<disk, fd, infos, input, next, got, unchecked, ctx, broke>>

\* Scan tells an error of the batch from a context that has ended.
Report ==
    /\ pc = "failed" /\ code = Running
    /\ code' = IF ctx THEN Canceled ELSE Input
    /\ UNCHANGED <<disk, pc, fd, infos, input, next, got, unchecked, ctx, broke>>

\* ------------------------------------------------------------ failures

Working == pc \notin {"failed", "returned"}

\* Between the Lstat of a path and the open the writer came: SameFile fails.
OpenRaced ==
    /\ clock > 0
    /\ \/ pc \in {"upload", "blobs", "root again", "blobs again"}
       \/ pc = "blob" /\ next <= Len(input)
    /\ Fail
    /\ UNCHANGED <<disk, fd, infos, input, next, got, unchecked, code, ctx, broke>>

IOFails ==
    /\ "io" \in Faults /\ Working
    /\ Fail /\ broke' = broke \cup {"io"}
    /\ UNCHANGED <<disk, fd, infos, input, next, got, unchecked, code, ctx>>

\* contextReader, and the check before each blob.
Stop ==
    /\ ctx
    /\ pc \in {"read", "hash"} \/ (pc = "blob" /\ next <= Len(input))
    /\ Fail
    /\ UNCHANGED <<disk, fd, infos, input, next, got, unchecked, code, ctx, broke>>

Cancel == /\ "cancel" \in Faults /\ ~ctx /\ code = Running /\ ctx' = TRUE
          /\ UNCHANGED <<disk, loader, broke>>

Loader == \/ CollectRoot \/ OpenUpload \/ ReadUpload \/ CollectBlobs
          \/ OpenBlob \/ HashBlob
          \/ RecheckRoot \/ RecheckUpload \/ RecollectRoot \/ RecollectBlobs
          \/ RecheckBlob \/ Return \/ Report

Next == Writer \/ Loader \/ OpenRaced \/ IOFails \/ Stop \/ Cancel

Spec == Init /\ [][Next]_vars

\* ------------------------------------------------------------ properties

\* Types; the loop counts the blobs it has hashed, each under a name of its own, and
\* what was counted fits in the total.
TypeOK ==
    /\ at \in {1, 2} /\ clock \in 0..MaxChanges /\ ctx \in BOOLEAN /\ broke \subseteq {"io"}
    /\ code \in {Running, Ok, Input, Canceled}
    /\ next \in 1..(Len(input) + 1) /\ Len(input) <= MaxInputFiles
    /\ DOMAIN got \subseteq Declared /\ Cardinality(DOMAIN got) = next - 1
    /\ DOMAIN snapshots = DOMAIN got /\ swaps \in 0..clock
    /\ Total(input) <= MaxInputTotalSize /\ unchecked \subseteq Declared

\* input.go:50-51: a batch that was loaded existed. Whatever the writer did in between,
\* there was a moment at which the path named a directory with exactly this upload.json
\* and exactly these blobs, nothing else; and every digest was the declared one. Each
\* comparison looks a path up anew, so a writer that exchanges the directory a third
\* time can have blobs of the other one accepted: up to two exchanges are noticed.
LoadedAtOneMoment ==
    pc = "returned" =>
    /\ swaps <= 2 => \E m \in moments : /\ ~m.extra /\ ~m.upload.malformed
                                        /\ m.upload.files = input /\ m.blob = got
    /\ \A k \in DOMAIN input : got[input[k].name] = input[k].digest

\* What LoadContext accepts, said of a directory as a whole.
Consistent(v) ==
    LET files == v.upload.files IN
    /\ ~v.extra /\ ~v.upload.malformed
    /\ Len(files) <= MaxInputFiles /\ Len(files) <= MaxDiscoveredFiles
    /\ Total(files) <= MaxInputTotalSize
    /\ IsInjective([k \in DOMAIN files |-> files[k].name])
    /\ DOMAIN v.blob = {files[k].name : k \in DOMAIN files}
    /\ \A k \in DOMAIN files : /\ v.blob[files[k].name] = files[k].digest
                               /\ Len(files[k].digest) = files[k].size

\* A load fails for a reason: a consistent batch that nobody touches is loaded, unless
\* the disk fails or the context ends; and it is called canceled only if that ended.
FailsForAReason ==
    /\ code = Input => clock > 0 \/ "io" \in broke \/ \E m \in moments : ~Consistent(m)
    /\ code = Canceled => ctx
=============================================================================
