--------------------------- MODULE BatchLoadProofs ---------------------------
(***************************************************************************)
(* What holds of BatchLoad for every batch, every writer and any number of *)
(* changes: what is loaded existed at one moment (IInv), and a load fails  *)
(* for a reason (JInv).                                                    *)
(***************************************************************************)
EXTENDS BatchLoad, LimitsProofs

Points == {"root", "upload", "read", "blobs", "blob", "hash", "recheck upload", "root again",
           "blobs again", "recheck blobs", "failed", "returned"}

Node == [ino : Int, time : Int]
UploadNode == [ino : Int, time : Int, regular : BOOLEAN, val : Uploads]
BlobNode == [ino : Int, time : Int, regular : BOOLEAN, val : Contents \cup {<<>>}]
Tree == [root : Node, upload : UploadNode, blobs : Node, extra : BOOLEAN,
         blob : [Names -> BlobNode]]

\* Types of the disk and of what the loader keeps.
Data ==
    /\ at \in {1, 2} /\ clock \in Nat /\ swaps \in Nat
    /\ tree \in [{1, 2} -> Tree]
    /\ info \in [{"root", "upload", "blobs", "open"} -> Node]
    /\ input \in Seq(File) /\ next \in 1..(Len(input) + 1)
    /\ \A j, k \in 1..Len(input) : input[j].name = input[k].name => j = k
    /\ DOMAIN got = {input[k].name : k \in 1..(next - 1)}
    /\ got = [n \in DOMAIN got |-> got[n]]
    /\ snapshots \in [DOMAIN got -> Node]

\* How far the loader is.
Control ==
    /\ pc \in Points
    /\ pc \in {"root", "upload", "read", "blobs"} => next = 1
    /\ pc = "hash" => next <= Len(input)

Shape == Data /\ Control

\* Control points after the first comparison, the second, and the last two.
Late == {"recheck upload", "root again", "blobs again", "recheck blobs", "returned"}
Later == Late \ {"recheck upload"}
Final == {"recheck blobs", "returned"}

\* No node or FileInfo is from the future, and no two nodes of one path are one inode.
Inodes ==
    /\ \A t \in {1, 2} :
         /\ tree[t].root.ino = -t /\ tree[t].root.time <= clock
         /\ tree[t].upload.ino # 0 /\ tree[t].upload.ino <= clock
         /\ tree[t].blobs.ino # 0 /\ tree[t].blobs.ino <= clock
         /\ \A n \in Names : tree[t].blob[n].ino <= clock
    /\ tree[1].upload.ino # tree[2].upload.ino
    /\ tree[1].blobs.ino # tree[2].blobs.ino
    /\ \A n \in Names : tree[1].blob[n].ino = tree[2].blob[n].ino => tree[1].blob[n].ino = 0
    /\ \A p \in {"upload", "blobs", "open"} : info[p].ino <= clock /\ info[p].time <= clock
    /\ \A n \in DOMAIN got : /\ snapshots[n].ino # 0
                             /\ snapshots[n].ino <= clock /\ snapshots[n].time <= clock
    /\ \A t \in {1, 2} : /\ tree[t].upload.time <= clock /\ tree[t].blobs.time <= clock
                         /\ \A n \in Names : tree[t].blob[n].time <= clock

\* The batch was the first directory when the load began. While its time is the one
\* seen then, it has no other entries.
Root ==
    /\ pc = "root" => at = 1 /\ swaps = 0 /\ tree[1].root.time = 0
    /\ pc \notin {"root", "failed"} => info["root"] = Dir(-1, 0)
    /\ pc \notin {"root", "failed"} /\ tree[1].root.time = 0 => ~tree[1].extra

\* Nothing of the second directory was seen.
OnlyFirst ==
    /\ info["upload"].ino # tree[2].upload.ino
    /\ info["blobs"].ino # tree[2].blobs.ino
    /\ \A n \in DOMAIN got : snapshots[n].ino # tree[2].blob[n].ino
    /\ pc = "hash" => /\ info["open"].ino # 0
                      /\ info["open"].ino # tree[2].blob[input[next].name].ino

\* The second directory is seen after an exchange; to pass the first comparison, it
\* must have been exchanged back.
Exchanges ==
    /\ swaps <= 2 => (at = 2 <=> swaps = 1)
    /\ swaps = 0 \/ (swaps = 1 /\ pc \in Late) => OnlyFirst

\* The open file is the one in a directory, as long as that has its inode.
Reading ==
    /\ pc = "read" => /\ fd \in UploadNode /\ fd.ino = info["upload"].ino /\ fd.ino # 0
                      /\ \A t \in {1, 2} : tree[t].upload.ino = fd.ino => tree[t].upload = fd
    /\ pc = "hash" => /\ fd \in BlobNode /\ fd.ino = info["open"].ino /\ fd.ino # 0
                      /\ \A t \in {1, 2} : tree[t].blob[input[next].name].ino = fd.ino =>
                                             tree[t].blob[input[next].name] = fd

\* A file that is as its FileInfo says has the content that was read.
Known ==
    /\ pc \notin {"root", "upload", "read", "failed"} =>
         \A t \in {1, 2} : Same(info["upload"], tree[t].upload) =>
           ~tree[t].upload.val.malformed /\ tree[t].upload.val.files = input
    /\ \A n \in DOMAIN got, t \in {1, 2} :
         Same(snapshots[n], tree[t].blob[n]) => tree[t].blob[n].val = got[n]
    /\ \A k \in 1..(next - 1) : got[input[k].name] = input[k].digest

\* A view that is what was loaded, as far as that has been compared.
Fits(m) ==
    /\ ~m.upload.malformed /\ m.upload.files = input
    /\ tree[1].root.time = 0 \/ pc \in Final \cup {"blobs again"} => ~m.extra
    /\ pc \notin Final /\ Same(info["blobs"], tree[1].blobs) => DOMAIN m.blob = Listed(tree[1])
    /\ pc \in Final => DOMAIN m.blob = Declared
    /\ m.blob = [n \in DOMAIN m.blob |-> m.blob[n]]
    /\ \A n \in DOMAIN got :
         Same(snapshots[n], tree[1].blob[n]) \/ (pc \in Final /\ n \notin unchecked) =>
           n \in DOMAIN m.blob /\ m.blob[n] = got[n]

Moment ==
    /\ View(tree[at]) \in moments
    /\ pc \in Late => next = Len(input) + 1
    /\ pc = "returned" => unchecked = {}
    /\ pc \in Later /\ swaps <= 2 => \E m \in moments : Fits(m)

IInv == Shape /\ Inodes /\ Root /\ Exchanges /\ Reading /\ Known /\ Moment

\* ------------------------------------------------------------ the writer

\* A node is as it was, or it was changed just now.
Kept(before, node) == \/ node = before
                      \/ node.time = Now /\ node.ino \in {before.ino, Now}

\* What any step of the writer does to a directory.
Touched(before, t) ==
    /\ t.root.ino = before.root.ino /\ Kept(before.root, t.root)
    /\ Kept(before.upload, t.upload) /\ Kept(before.blobs, t.blobs)
    /\ \A n \in Names : Kept(before.blob[n], t.blob[n]) \/ t.blob[n] = NoBlob
    /\ t.extra = before.extra \/ t.root.time = Now
    /\ Listed(t) = Listed(before) \/ t.blobs.time = Now

\* What it does to the open file: written in place, or still the one it was.
Follow(before, node) ==
    \/ fd' = fd /\ (node = before \/ node = NoBlob \/ node.ino = Now \/ node.ino # fd.ino)
    \/ fd' = node /\ node.ino = before.ino /\ fd.ino = before.ino
Followed(before, t) ==
    /\ pc = "read" => Follow(before.upload, t.upload)
    /\ pc = "hash" => LET n == input[next].name IN Follow(before.blob[n], t.blob[n])

\* What any step of the writer does: it changes at most one directory.
Evolution ==
    /\ clock' = Now
    /\ \/ at' = at /\ swaps' = swaps
       \/ at' = 3 - at /\ swaps' = swaps + 1
    /\ moments' = moments \cup {View(tree'[at'])}
    /\ \E t \in {1, 2}, s \in Tree :
         Touched(tree[t], s) /\ Followed(tree[t], s) /\ tree' = [tree EXCEPT ![t] = s]
    /\ pc \notin {"root", "failed", "returned"}
    /\ UNCHANGED <<pc, infos, input, next, got, unchecked>>

\* A step of Write that touches one directory is a step of the writer.
LEMMA WriteIs ==
  ASSUME NEW kind, NEW t \in {1, 2}, NEW s \in Tree, NEW newAt \in {at, 3 - at},
         Shape, Touched(tree[t], s), Followed(tree[t], s),
         Write(kind, [tree EXCEPT ![t] = s], newAt)
  PROVE  Evolution
PROOF
<1>1. newAt = 3 - at => newAt # at BY DEF Shape, Data
<1> QED BY <1>1 DEF Write, Evolution, infos

\* No file has inode 0.
LEMMA NoBlobIs == NoBlob.ino = 0 /\ NoBlob.time = 0
PROOF BY DEF NoBlob, Regular

\* The blob being hashed is a declared one.
LEMMA OpenIs == Shape /\ pc = "hash" => input[next].name \in Names
PROOF
<1> SUFFICES ASSUME Shape, pc = "hash" PROVE input[next].name \in Names OBVIOUS
<1>1. input \in Seq(File) /\ next \in 1..Len(input) BY DEF Shape, Data, Control
<1>2. input[next] \in File BY <1>1
<1> QED BY <1>2 DEF File

\* Changing the fields of a directory.
SetUpload(t, u, r) == [t EXCEPT !.upload = u, !.root = r]
SetBlob(t, n, b, d) == [t EXCEPT !.blob = [@ EXCEPT ![n] = b], !.blobs = d]

\* The fields of a directory whose upload.json and root are replaced.
LEMMA UploadIs ==
  ASSUME NEW t \in Tree, NEW u \in UploadNode, NEW r \in Node
  PROVE  LET s == SetUpload(t, u, r) IN
         /\ s \in Tree /\ s.upload = u /\ s.root = r
         /\ s.blobs = t.blobs /\ s.extra = t.extra /\ s.blob = t.blob
PROOF BY DEF Tree, SetUpload

\* The fields of a directory of which one blob and the blobs directory are replaced.
LEMMA BlobIs ==
  ASSUME NEW t \in Tree, NEW n \in Names, NEW b \in BlobNode, NEW d \in Node
  PROVE  LET s == SetBlob(t, n, b, d) IN
         /\ s \in Tree /\ s.blobs = d
         /\ s.root = t.root /\ s.upload = t.upload /\ s.extra = t.extra
         /\ \A m \in Names : s.blob[m] = IF m = n THEN b ELSE t.blob[m]
PROOF
<1> DEFINE f == [t.blob EXCEPT ![n] = b]
<1>1. f \in [Names -> BlobNode] BY DEF Tree
<1>2. \A m \in Names : f[m] = IF m = n THEN b ELSE t.blob[m] BY DEF Tree
<1>3. SetBlob(t, n, b, d) = [t EXCEPT !.blob = f, !.blobs = d] BY DEF SetBlob
<1> HIDE DEF f
<1>4. LET s == [t EXCEPT !.blob = f, !.blobs = d] IN
         /\ s \in Tree /\ s.blobs = d /\ s.blob = f
         /\ s.root = t.root /\ s.upload = t.upload /\ s.extra = t.extra
  BY <1>1 DEF Tree
<1> QED BY <1>2, <1>3, <1>4

\* A file written in place keeps its inode and gets a new time.
LEMMA RewriteIs == Shape /\ Rewrite => Evolution
PROOF
<1> SUFFICES ASSUME Shape, Rewrite PROVE Evolution OBVIOUS
<1>1. PICK t \in {1, 2} :
        \/ \E u \in Written :
             LET new == Regular(tree[t].upload.ino, Now, u) IN
             /\ Write("rewrite", [tree EXCEPT ![t].upload = new], at)
             /\ fd' = IF pc = "read" /\ fd.ino = new.ino THEN new ELSE fd
        \/ \E n \in Listed(tree[t]), c \in Contents :
             LET new == Regular(tree[t].blob[n].ino, Now, c) IN
             /\ Write("rewrite", [tree EXCEPT ![t].blob[n] = new], at)
             /\ fd' = IF pc = "hash" /\ input[next].name = n /\ fd.ino = new.ino THEN new ELSE fd
  BY DEF Rewrite
<1>2. ASSUME NEW u \in Written, NEW new, new = Regular(tree[t].upload.ino, Now, u),
             Write("rewrite", [tree EXCEPT ![t].upload = new], at),
             fd' = IF pc = "read" /\ fd.ino = new.ino THEN new ELSE fd
      PROVE  Evolution
  <2> DEFINE s == SetUpload(tree[t], new, tree[t].root)
  <2>1. tree[t] \in Tree /\ [tree EXCEPT ![t].upload = new] = [tree EXCEPT ![t] = s]
    BY DEF Shape, Data, Tree, SetUpload
  <2>2. new \in UploadNode /\ Kept(tree[t].upload, new) /\ new.ino = tree[t].upload.ino
    <3>1. new = [ino |-> tree[t].upload.ino, time |-> Now, regular |-> TRUE, val |-> u]
      BY <1>2 DEF Regular
    <3>2. u \in Uploads BY BatchAssumption
    <3>3. Now \in Int BY DEF Shape, Data, Now
    <3>4. tree[t].upload.ino \in Int BY <2>1 DEF Tree, UploadNode
    <3> QED BY <3>1, <3>2, <3>3, <3>4 DEF UploadNode, Kept
  <2>3. tree[t].root \in Node BY <2>1 DEF Tree
  <2>4. Write("rewrite", [tree EXCEPT ![t] = s], at) BY <1>2, <2>1
  <2>5. /\ s \in Tree /\ s.upload = new /\ s.root = tree[t].root
        /\ s.blobs = tree[t].blobs /\ s.extra = tree[t].extra /\ s.blob = tree[t].blob
    BY <2>1, <2>2, <2>3, UploadIs
  <2> HIDE DEF s
  <2>6. Touched(tree[t], s) BY <2>2, <2>5 DEF Touched, Kept, Listed
  <2>7. Followed(tree[t], s) BY <1>2, <2>2, <2>5 DEF Followed, Follow
  <2> QED BY <2>4, <2>5, <2>6, <2>7, WriteIs
<1>3. ASSUME NEW n \in Listed(tree[t]), NEW c \in Contents,
             NEW new, new = Regular(tree[t].blob[n].ino, Now, c),
             Write("rewrite", [tree EXCEPT ![t].blob[n] = new], at),
             fd' = IF pc = "hash" /\ input[next].name = n /\ fd.ino = new.ino THEN new ELSE fd
      PROVE  Evolution
  <2> DEFINE s == SetBlob(tree[t], n, new, tree[t].blobs)
  <2>1. n \in Names /\ tree[t].blob[n].ino # 0 BY DEF Listed
  <2>2. tree[t] \in Tree /\ [tree EXCEPT ![t].blob[n] = new] = [tree EXCEPT ![t] = s]
    BY <2>1 DEF Shape, Data, Tree, SetBlob
  <2>3. new \in BlobNode /\ Kept(tree[t].blob[n], new) /\ new.ino = tree[t].blob[n].ino
    BY <1>3, <2>1, <2>2 DEF Regular, BlobNode, Now, Tree, Kept, Shape, Data
  <2>4. tree[t].blobs \in Node BY <2>2 DEF Tree
  <2>5. Write("rewrite", [tree EXCEPT ![t] = s], at) BY <1>3, <2>2
  <2>6. /\ s \in Tree /\ s.blobs = tree[t].blobs
        /\ s.root = tree[t].root /\ s.upload = tree[t].upload /\ s.extra = tree[t].extra
        /\ \A m \in Names : s.blob[m] = IF m = n THEN new ELSE tree[t].blob[m]
    BY <2>1, <2>2, <2>3, <2>4, BlobIs
  <2> HIDE DEF s
  <2>7. Listed(s) = Listed(tree[t]) BY <2>1, <2>3, <2>6 DEF Listed
  <2>8. Touched(tree[t], s) BY <2>3, <2>6, <2>7 DEF Touched, Kept
  <2>9. Followed(tree[t], s) BY <1>3, <2>1, <2>3, <2>6, OpenIs DEF Followed, Follow
  <2> QED BY <2>5, <2>6, <2>8, <2>9, WriteIs
<1> QED BY <1>1, <1>2, <1>3

\* A file that replaces another has a new inode, and so has a created one.
LEMMA ReplaceIs == Shape /\ Replace /\ fd' = fd => Evolution
PROOF
<1> SUFFICES ASSUME Shape, Replace, fd' = fd PROVE Evolution OBVIOUS
<1>1. at \in {1, 2} /\ Now \in Int BY DEF Shape, Data, Now
<1>2. ASSUME NEW u \in Written,
             Write("replace", [tree EXCEPT ![at].upload = Regular(Now, Now, u),
                                           ![at].root.time = Now], at)
      PROVE  Evolution
  <2> DEFINE new == Regular(Now, Now, u)
             r == [tree[at].root EXCEPT !.time = Now]
             s == SetUpload(tree[at], new, r)
  <2>1. /\ tree[at] \in Tree
        /\ [tree EXCEPT ![at].upload = new, ![at].root.time = Now] = [tree EXCEPT ![at] = s]
    <3>1. tree \in [{1, 2} -> Tree] /\ at \in {1, 2} BY DEF Shape, Data
    <3>2. tree[at] \in Tree BY <3>1
    <3> QED BY <3>1, <3>2 DEF Tree, Node, SetUpload
  <2>2. new \in UploadNode /\ Kept(tree[at].upload, new)
    BY <1>1, <2>1, BatchAssumption DEF Regular, UploadNode, Tree, Kept
  <2>3. r \in Node /\ Kept(tree[at].root, r) /\ r.ino = tree[at].root.ino /\ r.time = Now
    BY <1>1, <2>1 DEF Tree, Node, Kept
  <2>4. Write("replace", [tree EXCEPT ![at] = s], at) BY <1>2, <2>1
  <2> HIDE DEF new, r
  <2>5. /\ s \in Tree /\ s.upload = new /\ s.root = r
        /\ s.blobs = tree[at].blobs /\ s.extra = tree[at].extra /\ s.blob = tree[at].blob
    BY <2>1, <2>2, <2>3, UploadIs
  <2> HIDE DEF s
  <2>6. Touched(tree[at], s) BY <2>2, <2>3, <2>5 DEF Touched, Kept, Listed
  <2>7. Followed(tree[at], s) BY <2>2, <2>5 DEF Followed, Follow, Regular, new
  <2> QED BY <1>1, <2>4, <2>5, <2>6, <2>7, WriteIs
<1>3. ASSUME NEW n \in Names,
             NEW new \in {NoBlob} \cup {b \in BlobNode : b.ino = Now /\ b.time = Now},
             NEW kind,
             Write(kind, [tree EXCEPT ![at].blob[n] = new, ![at].blobs.time = Now], at)
      PROVE  Evolution
  <2> DEFINE d == [tree[at].blobs EXCEPT !.time = Now]
             s == SetBlob(tree[at], n, new, d)
  <2>1. /\ tree[at] \in Tree
        /\ [tree EXCEPT ![at].blob[n] = new, ![at].blobs.time = Now] = [tree EXCEPT ![at] = s]
    <3>1. tree \in [{1, 2} -> Tree] /\ at \in {1, 2} BY DEF Shape, Data
    <3>2. tree[at] \in Tree BY <3>1
    <3> QED BY <3>1, <3>2 DEF Tree, Node, SetBlob
  <2>2. NoBlob \in BlobNode /\ new \in BlobNode
    <3>1. NoBlob \in BlobNode BY DEF NoBlob, Regular, BlobNode
    <3> QED BY <3>1
  <2>3. d \in Node /\ Kept(tree[at].blobs, d) /\ d.time = Now BY <1>1, <2>1 DEF Tree, Node, Kept
  <2>4. Write(kind, [tree EXCEPT ![at] = s], at) BY <1>3, <2>1
  <2> HIDE DEF d
  <2>5. /\ s \in Tree /\ s.blobs = d
        /\ s.root = tree[at].root /\ s.upload = tree[at].upload /\ s.extra = tree[at].extra
        /\ \A m \in Names : s.blob[m] = IF m = n THEN new ELSE tree[at].blob[m]
    BY <2>1, <2>2, <2>3, BlobIs
  <2> HIDE DEF s
  <2>6. Touched(tree[at], s) BY <2>3, <2>5 DEF Touched, Kept
  <2>7. Followed(tree[at], s) BY <2>5, OpenIs DEF Followed, Follow
  <2> QED BY <1>1, <2>4, <2>5, <2>6, <2>7, WriteIs
<1>4. \A c \in Contents : {Regular(Now, Now, c), Link(Now, Now)} \subseteq
                            {b \in BlobNode : b.ino = Now /\ b.time = Now}
  BY <1>1 DEF Regular, Link, BlobNode
<1> QED BY <1>2, <1>3, <1>4 DEF Replace

\* A file that is unlinked leaves the directory with a new time.
LEMMA UnlinkIs == Shape /\ Unlink /\ fd' = fd => Evolution
PROOF
<1> SUFFICES ASSUME Shape, Unlink, fd' = fd PROVE Evolution OBVIOUS
<1>1. at \in {1, 2} /\ Now \in Int BY DEF Shape, Data, Now
<1>2. PICK n \in Names :
        Write("unlink", [tree EXCEPT ![at].blob[n] = NoBlob, ![at].blobs.time = Now], at)
  BY DEF Unlink, Listed
<1> DEFINE d == [tree[at].blobs EXCEPT !.time = Now]
           s == SetBlob(tree[at], n, NoBlob, d)
<1>3. /\ tree[at] \in Tree
      /\ [tree EXCEPT ![at].blob[n] = NoBlob, ![at].blobs.time = Now] = [tree EXCEPT ![at] = s]
  <2>1. tree \in [{1, 2} -> Tree] /\ at \in {1, 2} BY DEF Shape, Data
  <2>2. tree[at] \in Tree BY <2>1
  <2> QED BY <2>1, <2>2 DEF Tree, Node, SetBlob
<1>4. NoBlob \in BlobNode BY DEF NoBlob, Regular, BlobNode
<1>5. d \in Node /\ Kept(tree[at].blobs, d) /\ d.time = Now BY <1>1, <1>3 DEF Tree, Node, Kept
<1>6. Write("unlink", [tree EXCEPT ![at] = s], at) BY <1>2, <1>3
<1> HIDE DEF d
<1>7. /\ s \in Tree /\ s.blobs = d
      /\ s.root = tree[at].root /\ s.upload = tree[at].upload /\ s.extra = tree[at].extra
      /\ \A m \in Names : s.blob[m] = IF m = n THEN NoBlob ELSE tree[at].blob[m]
  BY <1>3, <1>4, <1>5, BlobIs
<1> HIDE DEF s
<1>8. Touched(tree[at], s) BY <1>5, <1>7 DEF Touched, Kept
<1>9. Followed(tree[at], s) BY <1>7, OpenIs DEF Followed, Follow
<1> QED BY <1>1, <1>6, <1>7, <1>8, <1>9, WriteIs

\* Another entry comes or goes with a new time of the batch directory.
LEMMA ExtraIs == Shape /\ Extra /\ fd' = fd => Evolution
PROOF
<1> SUFFICES ASSUME Shape, Extra, fd' = fd PROVE Evolution OBVIOUS
<1>1. at \in {1, 2} /\ Now \in Int /\ tree[at] \in Tree BY DEF Shape, Data, Now
<1> DEFINE r == [tree[at].root EXCEPT !.time = Now]
           s == [tree[at] EXCEPT !.extra = ~@, !.root = r]
<1>2. [tree EXCEPT ![at].extra = ~@, ![at].root.time = Now] = [tree EXCEPT ![at] = s]
  BY <1>1 DEF Shape, Data, Tree, Node
<1>3. r \in Node /\ Kept(tree[at].root, r) /\ r.ino = tree[at].root.ino /\ r.time = Now
  BY <1>1 DEF Tree, Node, Kept
<1>4. Write("extra", [tree EXCEPT ![at] = s], at) BY <1>2 DEF Extra
<1> HIDE DEF r
<1>5. /\ s \in Tree /\ s.root = r /\ s.upload = tree[at].upload
      /\ s.blobs = tree[at].blobs /\ s.blob = tree[at].blob
  BY <1>1, <1>3 DEF Tree
<1> HIDE DEF s
<1>6. Touched(tree[at], s) BY <1>3, <1>5 DEF Touched, Kept, Listed
<1>7. Followed(tree[at], s) BY <1>5 DEF Followed, Follow
<1> QED BY <1>1, <1>4, <1>5, <1>6, <1>7, WriteIs

\* A new blobs directory has a new inode.
LEMMA ReplaceBlobsIs == Shape /\ ReplaceBlobs /\ fd' = fd => Evolution
PROOF
<1> SUFFICES ASSUME Shape, ReplaceBlobs, fd' = fd PROVE Evolution OBVIOUS
<1>1. at \in {1, 2} /\ Now \in Int /\ tree[at] \in Tree BY DEF Shape, Data, Now
<1> DEFINE r == [tree[at].root EXCEPT !.time = Now]
           s == [tree[at] EXCEPT !.blobs = Dir(Now, Now), !.root = r]
<1>2. [tree EXCEPT ![at].blobs = Dir(Now, Now), ![at].root.time = Now] = [tree EXCEPT ![at] = s]
  BY <1>1 DEF Shape, Data, Tree, Node
<1>3. r \in Node /\ Kept(tree[at].root, r) /\ r.ino = tree[at].root.ino /\ r.time = Now
  BY <1>1 DEF Tree, Node, Kept
<1>4. Write("blobs", [tree EXCEPT ![at] = s], at) BY <1>2 DEF ReplaceBlobs
<1>5. Dir(Now, Now) \in Node /\ Dir(Now, Now).ino = Now /\ Dir(Now, Now).time = Now
  BY <1>1 DEF Dir, Node
<1> HIDE DEF r
<1>6. /\ s \in Tree /\ s.root = r /\ s.upload = tree[at].upload
      /\ s.blobs = Dir(Now, Now) /\ s.blob = tree[at].blob /\ s.extra = tree[at].extra
  BY <1>1, <1>3, <1>5 DEF Tree
<1> HIDE DEF s
<1>7. Touched(tree[at], s) BY <1>3, <1>5, <1>6 DEF Touched, Kept
<1>8. Followed(tree[at], s) BY <1>6 DEF Followed, Follow
<1> QED BY <1>1, <1>4, <1>6, <1>7, <1>8, WriteIs

\* An exchange changes neither directory.
LEMMA SwapIs == Shape /\ Swap /\ fd' = fd => Evolution
PROOF
<1> SUFFICES ASSUME Shape, Swap, fd' = fd PROVE Evolution OBVIOUS
<1>1. at \in {1, 2} /\ tree[at] \in Tree /\ tree = [tree EXCEPT ![at] = tree[at]] BY DEF Shape, Data
<1>2. Touched(tree[at], tree[at]) BY DEF Touched, Kept
<1>3. Write("swap", [tree EXCEPT ![at] = tree[at]], 3 - at) BY <1>1 DEF Swap
<1>4. Followed(tree[at], tree[at]) BY DEF Followed, Follow
<1> QED BY <1>1, <1>2, <1>3, <1>4, WriteIs

\* Every step of the writer is one of these.
LEMMA WriterIs == Shape /\ Writer => Evolution
PROOF BY RewriteIs, ReplaceIs, UnlinkIs, ExtraIs, ReplaceBlobsIs, SwapIs DEF Writer

\* A step of the writer, directory by directory.
LEMMA EvolutionIs ==
  ASSUME Shape, Evolution
  PROVE  /\ tree' \in [{1, 2} -> Tree]
         /\ \A t \in {1, 2} : Touched(tree[t], tree'[t])
         /\ tree'[1] = tree[1] \/ tree'[2] = tree[2]
         /\ \E t \in {1, 2} : Followed(tree[t], tree'[t]) /\ tree'[3 - t] = tree[3 - t]
PROOF
<1>1. PICK t \in {1, 2}, s \in Tree :
        Touched(tree[t], s) /\ Followed(tree[t], s) /\ tree' = [tree EXCEPT ![t] = s]
  BY DEF Evolution
<1>2. tree'[t] = s /\ tree'[3 - t] = tree[3 - t] /\ 3 - t \in {1, 2} /\ 3 - t # t
  BY <1>1 DEF Shape, Data
<1>3. tree' \in [{1, 2} -> Tree] BY <1>1 DEF Shape, Data
<1>4. Touched(tree[3 - t], tree[3 - t]) BY DEF Touched, Kept
<1>5. \A u \in {1, 2} : u = t \/ u = 3 - t OBVIOUS
<1> QED BY <1>1, <1>2, <1>3, <1>4, <1>5

\* The writer leaves all types alone.
LEMMA ShapeKept == Shape /\ Evolution => Shape'
PROOF
<1> SUFFICES ASSUME Shape, Evolution PROVE Shape' OBVIOUS
<1>1. tree' \in [{1, 2} -> Tree] BY EvolutionIs
<1>2. at' \in {1, 2} /\ clock' \in Nat /\ swaps' \in Nat BY DEF Evolution, Shape, Data, Now
<1>3. UNCHANGED <<pc, info, snapshots, input, next, got>> BY DEF Evolution, infos
<1> QED BY <1>1, <1>2, <1>3 DEF Shape, Data, Control

\* A step of the writer leaves inodes distinct and nothing from the future.
LEMMA InodesKept == Shape /\ Inodes /\ Evolution => Inodes'
PROOF
<1> SUFFICES ASSUME Shape, Inodes, Evolution PROVE Inodes' OBVIOUS
<1>1. clock \in Nat /\ clock' = clock + 1 /\ Now = clock + 1 BY DEF Evolution, Shape, Data, Now
<1>2. UNCHANGED <<pc, info, snapshots, input, next, got>> BY DEF Evolution, infos
<1>3. /\ tree \in [{1, 2} -> Tree] /\ tree' \in [{1, 2} -> Tree]
      /\ \A t \in {1, 2} : Touched(tree[t], tree'[t])
      /\ tree'[1] = tree[1] \/ tree'[2] = tree[2]
  BY EvolutionIs DEF Shape, Data
<1>4. ASSUME NEW t \in {1, 2}
      PROVE  /\ tree'[t].root.ino = -t /\ tree'[t].root.time <= clock'
             /\ tree'[t].upload.ino # 0 /\ tree'[t].upload.ino <= clock'
             /\ tree'[t].blobs.ino # 0 /\ tree'[t].blobs.ino <= clock'
             /\ tree'[t].upload.time <= clock' /\ tree'[t].blobs.time <= clock'
  <2>1. tree[t] \in Tree /\ tree'[t] \in Tree /\ Touched(tree[t], tree'[t]) BY <1>3
  <2>2. /\ tree[t].root \in Node /\ tree[t].upload \in UploadNode /\ tree[t].blobs \in Node
        /\ tree'[t].root \in Node /\ tree'[t].upload \in UploadNode /\ tree'[t].blobs \in Node
    BY <2>1 DEF Tree
  <2>3. /\ tree[t].root.ino = -t /\ tree[t].root.time <= clock
        /\ tree[t].upload.ino # 0 /\ tree[t].upload.ino <= clock
        /\ tree[t].blobs.ino # 0 /\ tree[t].blobs.ino <= clock
        /\ tree[t].upload.time <= clock /\ tree[t].blobs.time <= clock
    BY DEF Inodes
  <2>4. /\ Kept(tree[t].root, tree'[t].root) /\ tree'[t].root.ino = tree[t].root.ino
        /\ Kept(tree[t].upload, tree'[t].upload) /\ Kept(tree[t].blobs, tree'[t].blobs)
    BY <2>1 DEF Touched
  <2>5. tree'[t].root.ino = -t /\ tree'[t].root.time <= clock'
    BY <1>1, <2>2, <2>3, <2>4 DEF Kept, Node
  <2>6. /\ tree'[t].upload.ino # 0 /\ tree'[t].upload.ino <= clock'
        /\ tree'[t].upload.time <= clock'
    BY <1>1, <2>2, <2>3, <2>4 DEF Kept, UploadNode
  <2>7. /\ tree'[t].blobs.ino # 0 /\ tree'[t].blobs.ino <= clock'
        /\ tree'[t].blobs.time <= clock'
    BY <1>1, <2>2, <2>3, <2>4 DEF Kept, Node
  <2> QED BY <2>5, <2>6, <2>7
<1>5. ASSUME NEW t \in {1, 2}, NEW n \in Names
      PROVE  tree'[t].blob[n].ino <= clock' /\ tree'[t].blob[n].time <= clock'
  <2>1. tree[t] \in Tree /\ tree'[t] \in Tree /\ Touched(tree[t], tree'[t]) BY <1>3
  <2>2. tree[t].blob[n] \in BlobNode /\ tree'[t].blob[n] \in BlobNode BY <2>1 DEF Tree
  <2>3. tree[t].blob[n].ino <= clock /\ tree[t].blob[n].time <= clock BY DEF Inodes
  <2>4. Kept(tree[t].blob[n], tree'[t].blob[n]) \/ tree'[t].blob[n] = NoBlob
    BY <2>1 DEF Touched
  <2>5. CASE tree'[t].blob[n] = NoBlob BY <1>1, <2>5, NoBlobIs
  <2>6. CASE tree'[t].blob[n] = tree[t].blob[n] BY <1>1, <2>2, <2>3, <2>6 DEF BlobNode
  <2>7. CASE /\ tree'[t].blob[n].time = Now
             /\ tree'[t].blob[n].ino \in {tree[t].blob[n].ino, Now}
    BY <1>1, <2>2, <2>3, <2>7 DEF BlobNode
  <2> QED BY <2>4, <2>5, <2>6, <2>7 DEF Kept
<1>6. /\ tree'[1].upload.ino # tree'[2].upload.ino
      /\ tree'[1].blobs.ino # tree'[2].blobs.ino
  <2>1. /\ tree[1].upload.ino # tree[2].upload.ino /\ tree[1].blobs.ino # tree[2].blobs.ino
        /\ \A t \in {1, 2} : tree[t].upload.ino <= clock /\ tree[t].blobs.ino <= clock
    BY DEF Inodes
  <2>2. \A t \in {1, 2} : /\ tree[t].upload \in UploadNode /\ tree[t].blobs \in Node
                          /\ tree'[t].upload.ino \in {tree[t].upload.ino, Now}
                          /\ tree'[t].blobs.ino \in {tree[t].blobs.ino, Now}
    BY <1>3 DEF Tree, Touched, Kept
  <2>3. \A t \in {1, 2} : tree[t].upload.ino < Now /\ tree[t].blobs.ino < Now
    BY <1>1, <2>1, <2>2 DEF UploadNode, Node
  <2> QED BY <1>1, <1>3, <2>1, <2>2, <2>3
<1>7. ASSUME NEW n \in Names, tree'[1].blob[n].ino = tree'[2].blob[n].ino
      PROVE  tree'[1].blob[n].ino = 0
  <2>1. /\ tree[1].blob[n].ino = tree[2].blob[n].ino => tree[1].blob[n].ino = 0
        /\ \A t \in {1, 2} : tree[t].blob[n].ino <= clock
    BY DEF Inodes
  <2>2. \A t \in {1, 2} : /\ tree[t].blob[n] \in BlobNode
                          /\ tree'[t].blob[n].ino \in {tree[t].blob[n].ino, Now, 0}
    <3> SUFFICES ASSUME NEW t \in {1, 2}
                 PROVE  /\ tree[t].blob[n] \in BlobNode
                        /\ tree'[t].blob[n].ino \in {tree[t].blob[n].ino, Now, 0}
      OBVIOUS
    <3>1. tree[t] \in Tree /\ Touched(tree[t], tree'[t]) BY <1>3
    <3> QED BY <3>1, NoBlobIs DEF Tree, Touched, Kept
  <2>3. \A t \in {1, 2} : tree[t].blob[n].ino < Now BY <1>1, <2>1, <2>2 DEF BlobNode
  <2> QED BY <1>1, <1>3, <1>7, <2>1, <2>2, <2>3
<1>8. /\ \A p \in {"upload", "blobs", "open"} : info'[p].ino <= clock' /\ info'[p].time <= clock'
      /\ \A n \in DOMAIN got' : /\ snapshots'[n].ino # 0
                                /\ snapshots'[n].ino <= clock' /\ snapshots'[n].time <= clock'
  <2>1. /\ \A p \in {"upload", "blobs", "open"} : info[p] \in Node
        /\ \A n \in DOMAIN got : snapshots[n] \in Node
    BY DEF Shape, Data
  <2> QED BY <1>1, <1>2, <2>1 DEF Inodes, Node
<1> QED BY <1>4, <1>5, <1>6, <1>7, <1>8 DEF Inodes

\* A directory without entries of its own gets one only with a new time.
LEMMA RootKept == Shape /\ Inodes /\ Root /\ Evolution => Root'
PROOF
<1> SUFFICES ASSUME Shape, Inodes, Root, Evolution PROVE Root' OBVIOUS
<1>1. UNCHANGED <<pc, info>> /\ pc \notin {"root", "failed"} BY DEF Evolution, infos
<1>2. Touched(tree[1], tree'[1]) BY EvolutionIs
<1>3. Now \in Nat \ {0} BY DEF Shape, Data, Now
<1>4. tree'[1].root.time = 0 => tree[1].root.time = 0 /\ tree'[1].extra = tree[1].extra
  BY <1>2, <1>3 DEF Touched, Kept
<1> QED BY <1>1, <1>4 DEF Root

\* Whatever the writer makes has an inode nobody has seen.
LEMMA ExchangesKept == Shape /\ Inodes /\ Exchanges /\ Evolution => Exchanges'
PROOF
<1> SUFFICES ASSUME Shape, Inodes, Exchanges, Evolution PROVE Exchanges' OBVIOUS
<1>1. clock \in Nat /\ Now = clock + 1 BY DEF Shape, Data, Now
<1>2. UNCHANGED <<pc, info, snapshots, input, next, got>> BY DEF Evolution, infos
<1>3. tree[2] \in Tree /\ Touched(tree[2], tree'[2]) BY EvolutionIs DEF Shape, Data
<1>4. swaps \in Nat /\ at \in {1, 2} BY DEF Shape, Data
<1>5. swaps' <= 2 => (at' = 2 <=> swaps' = 1) BY <1>4 DEF Evolution, Exchanges
<1>6. swaps' = 0 \/ (swaps' = 1 /\ pc' \in Late) => OnlyFirst
  BY <1>2, <1>4 DEF Evolution, Exchanges
<1>7. ASSUME OnlyFirst PROVE OnlyFirst'
  <2>1. /\ \A p \in {"upload", "blobs", "open"} : info[p] \in Node /\ info[p].ino < Now
        /\ \A n \in DOMAIN got : /\ snapshots[n] \in Node /\ snapshots[n].ino < Now
                                 /\ snapshots[n].ino # 0
    <3>1. /\ \A p \in {"upload", "blobs", "open"} : info[p] \in Node
          /\ \A n \in DOMAIN got : snapshots[n] \in Node
      BY DEF Shape, Data
    <3>2. /\ \A p \in {"upload", "blobs", "open"} : info[p].ino <= clock
          /\ \A n \in DOMAIN got : snapshots[n].ino <= clock /\ snapshots[n].ino # 0
      BY DEF Inodes
    <3> QED BY <1>1, <3>1, <3>2 DEF Node
  <2>2. /\ tree'[2].upload.ino \in {tree[2].upload.ino, Now}
        /\ tree'[2].blobs.ino \in {tree[2].blobs.ino, Now}
    BY <1>3 DEF Touched, Kept
  <2>3. \A n \in Names : tree'[2].blob[n].ino \in {tree[2].blob[n].ino, Now, 0}
    BY <1>3, NoBlobIs DEF Touched, Kept
  <2>4. DOMAIN got \subseteq Names
    <3>1. \A k \in 1..(next - 1) : input[k] \in File BY DEF Shape, Data
    <3> QED BY <3>1 DEF Shape, Data, File
  <2>5. info'["upload"].ino # tree'[2].upload.ino /\ info'["blobs"].ino # tree'[2].blobs.ino
    BY <1>1, <1>2, <1>7, <2>1, <2>2 DEF OnlyFirst, Node
  <2>6. \A n \in DOMAIN got' : snapshots'[n].ino # tree'[2].blob[n].ino
    BY <1>1, <1>2, <1>7, <2>1, <2>3, <2>4 DEF OnlyFirst, Node
  <2>7. pc' = "hash" => /\ info'["open"].ino # 0
                        /\ info'["open"].ino # tree'[2].blob[input'[next'].name].ino
    <3> SUFFICES ASSUME pc = "hash"
                 PROVE  /\ info["open"].ino # 0
                        /\ info["open"].ino # tree'[2].blob[input[next].name].ino
      BY <1>2
    <3>1. input[next].name \in Names BY OpenIs
    <3>2. info["open"].ino # 0 /\ info["open"].ino # tree[2].blob[input[next].name].ino
      BY <1>7 DEF OnlyFirst
    <3> QED BY <1>1, <2>1, <2>3, <3>1, <3>2 DEF Node
  <2> QED BY <2>5, <2>6, <2>7 DEF OnlyFirst
<1> QED BY <1>5, <1>6, <1>7 DEF Exchanges

\* The open file stays the one with its inode.
LEMMA ReadingKept == Shape /\ Inodes /\ Reading /\ Evolution => Reading'
PROOF
<1> SUFFICES ASSUME Shape, Inodes, Reading, Evolution PROVE Reading' OBVIOUS
<1>1. clock \in Nat /\ Now = clock + 1 BY DEF Shape, Data, Now
<1>2. UNCHANGED <<pc, info, input, next>> BY DEF Evolution, infos
<1>3. tree \in [{1, 2} -> Tree] /\ tree' \in [{1, 2} -> Tree] BY EvolutionIs DEF Shape, Data
<1>4. PICK t \in {1, 2} : Followed(tree[t], tree'[t]) /\ tree'[3 - t] = tree[3 - t]
  BY EvolutionIs
<1>5. Touched(tree[t], tree'[t]) BY EvolutionIs
<1>6. \A u \in {1, 2} : u = t \/ u = 3 - t OBVIOUS
<1>7. CASE pc = "read"
  <2>1. /\ fd \in UploadNode /\ fd.ino = info["upload"].ino /\ fd.ino < Now /\ fd.ino # 0
        /\ \A u \in {1, 2} : tree[u].upload.ino = fd.ino => tree[u].upload = fd
    BY <1>1, <1>7 DEF Reading, Inodes, UploadNode
  <2>2. Follow(tree[t].upload, tree'[t].upload) BY <1>4, <1>7 DEF Followed
  <2>3. tree[1].upload.ino # tree[2].upload.ino BY DEF Inodes
  <2>4. tree'[t].upload \in UploadNode BY <1>3 DEF Tree
  <2>5. CASE fd' = fd /\ (\/ tree'[t].upload = tree[t].upload \/ tree'[t].upload = NoBlob
                          \/ tree'[t].upload.ino = Now \/ tree'[t].upload.ino # fd.ino)
    <3>1. \A u \in {1, 2} : tree'[u].upload.ino = fd'.ino => tree'[u].upload = fd'
      BY <1>1, <1>4, <1>6, <2>1, <2>5, NoBlobIs DEF UploadNode
    <3> QED BY <1>2, <1>7, <2>1, <2>5, <3>1 DEF Reading
  <2>6. CASE /\ fd' = tree'[t].upload /\ tree'[t].upload.ino = tree[t].upload.ino
             /\ fd.ino = tree[t].upload.ino
    <3>1. \A u \in {1, 2} : tree'[u].upload.ino = fd'.ino => tree'[u].upload = fd'
      BY <1>4, <1>6, <2>3, <2>6
    <3> QED BY <1>2, <1>7, <2>1, <2>4, <2>6, <3>1 DEF Reading
  <2> QED BY <2>2, <2>5, <2>6 DEF Follow
<1>8. CASE pc = "hash"
  <2> DEFINE n == input[next].name
  <2>1. n \in Names BY <1>8, OpenIs
  <2>2. /\ fd \in BlobNode /\ fd.ino = info["open"].ino /\ fd.ino < Now /\ fd.ino # 0
        /\ \A u \in {1, 2} : tree[u].blob[n].ino = fd.ino => tree[u].blob[n] = fd
    BY <1>1, <1>8 DEF Reading, Inodes, BlobNode
  <2>3. Follow(tree[t].blob[n], tree'[t].blob[n]) BY <1>4, <1>8 DEF Followed
  <2>4. tree[1].blob[n].ino = tree[2].blob[n].ino => tree[1].blob[n].ino = 0
    BY <2>1 DEF Inodes
  <2>5. tree'[t].blob[n] \in BlobNode BY <1>3, <2>1 DEF Tree
  <2>6. n' = n BY <1>2
  <2> HIDE DEF n
  <2>7. CASE fd' = fd /\ (\/ tree'[t].blob[n] = tree[t].blob[n] \/ tree'[t].blob[n] = NoBlob
                          \/ tree'[t].blob[n].ino = Now \/ tree'[t].blob[n].ino # fd.ino)
    <3>1. \A u \in {1, 2} : tree'[u].blob[n].ino = fd'.ino => tree'[u].blob[n] = fd'
      BY <1>1, <1>4, <1>6, <2>2, <2>7, NoBlobIs, SMTT(20) DEF BlobNode
    <3> QED BY <1>2, <1>8, <2>2, <2>6, <2>7, <3>1 DEF Reading, n
  <2>8. CASE /\ fd' = tree'[t].blob[n] /\ tree'[t].blob[n].ino = tree[t].blob[n].ino
             /\ fd.ino = tree[t].blob[n].ino
    <3>1. \A u \in {1, 2} : tree'[u].blob[n].ino = fd'.ino => tree'[u].blob[n] = fd'
      BY <1>4, <1>6, <2>2, <2>4, <2>8
    <3> QED BY <1>2, <1>8, <2>2, <2>5, <2>6, <2>8, <3>1 DEF Reading, n
  <2> QED BY <2>3, <2>7, <2>8 DEF Follow
<1> QED BY <1>2, <1>7, <1>8 DEF Reading

\* A node that is as it was seen was seen as it is.
LEMMA SameBefore ==
  ASSUME Shape, NEW i, i.time <= clock, i.ino # 0, i \in Node, NEW b, NEW c,
         Kept(b, c) \/ c = NoBlob, Same(i, c)
  PROVE  c = b
PROOF
<1>1. clock \in Nat /\ Now = clock + 1 BY DEF Shape, Data, Now
<1> QED BY <1>1, NoBlobIs DEF Same, Kept, Node

\* The names that have been hashed.
LEMMA GotNames == Shape => DOMAIN got \subseteq Names
PROOF
<1> SUFFICES ASSUME Shape PROVE DOMAIN got \subseteq Names OBVIOUS
<1>1. \A k \in 1..(next - 1) : input[k] \in File BY DEF Shape, Data
<1> QED BY <1>1 DEF Shape, Data, File

\* What is known of a file stays known while the file is as it was seen.
LEMMA KnownKept == Shape /\ Inodes /\ Known /\ Evolution => Known'
PROOF
<1> SUFFICES ASSUME Shape, Inodes, Known, Evolution PROVE Known' OBVIOUS
<1>1. UNCHANGED <<pc, info, snapshots, input, next, got>> BY DEF Evolution, infos
<1>2. \A t \in {1, 2} : Touched(tree[t], tree'[t]) BY EvolutionIs
<1>3. ASSUME NEW t \in {1, 2}, Same(info["upload"], tree'[t].upload)
      PROVE  tree'[t].upload = tree[t].upload
  <2>1. Kept(tree[t].upload, tree'[t].upload) BY <1>2 DEF Touched
  <2>2. info["upload"] \in Node /\ info["upload"].time <= clock BY DEF Shape, Data, Inodes
  <2>3. clock \in Nat /\ Now = clock + 1 BY DEF Shape, Data, Now
  <2> QED BY <1>3, <2>1, <2>2, <2>3 DEF Kept, Same, Node
<1>4. ASSUME NEW t \in {1, 2}, NEW n \in DOMAIN got, Same(snapshots[n], tree'[t].blob[n])
      PROVE  tree'[t].blob[n] = tree[t].blob[n]
  <2>1. n \in Names BY GotNames
  <2>2. snapshots[n] \in Node /\ snapshots[n].time <= clock /\ snapshots[n].ino # 0
    BY DEF Shape, Data, Inodes
  <2>3. Kept(tree[t].blob[n], tree'[t].blob[n]) \/ tree'[t].blob[n] = NoBlob
    BY <1>2, <2>1 DEF Touched
  <2> QED BY <1>4, <2>2, <2>3, SameBefore
<1>5. pc \notin {"root", "upload", "read", "failed"} =>
         \A t \in {1, 2} : Same(info["upload"], tree'[t].upload) =>
           ~tree'[t].upload.val.malformed /\ tree'[t].upload.val.files = input
  BY <1>3 DEF Known
<1>6. \A n \in DOMAIN got, t \in {1, 2} :
         Same(snapshots[n], tree'[t].blob[n]) => tree'[t].blob[n].val = got[n]
  BY <1>4 DEF Known
<1>7. \A k \in 1..(next - 1) : got[input[k].name] = input[k].digest BY DEF Known
<1> QED BY <1>1, <1>5, <1>6, <1>7 DEF Known, Same

\* The writer adds a moment; one that fits keeps fitting.
LEMMA MomentKept == Shape /\ Inodes /\ Moment /\ Evolution => Moment'
PROOF
<1> SUFFICES ASSUME Shape, Inodes, Moment, Evolution PROVE Moment' OBVIOUS
<1>1. UNCHANGED <<pc, info, snapshots, input, next, got, unchecked>> BY DEF Evolution, infos
<1>2. Touched(tree[1], tree'[1]) BY EvolutionIs
<1>3. clock \in Nat /\ Now = clock + 1 BY DEF Shape, Data, Now
<1>4. View(tree[at])' \in moments' BY DEF Evolution
<1>5. swaps' <= 2 => swaps <= 2 BY DEF Evolution, Shape, Data
<1>6. ASSUME NEW m \in moments, Fits(m) PROVE m \in moments' /\ Fits(m)'
  <2>1. tree'[1].root.time = 0 => tree[1].root.time = 0
    <3>1. Kept(tree[1].root, tree'[1].root) BY <1>2 DEF Touched
    <3> QED BY <1>3, <3>1 DEF Kept
  <2>2. ASSUME Same(info["blobs"], tree'[1].blobs)
        PROVE  tree'[1].blobs = tree[1].blobs /\ Listed(tree'[1]) = Listed(tree[1])
    <3>1. /\ Kept(tree[1].blobs, tree'[1].blobs)
          /\ Listed(tree'[1]) = Listed(tree[1]) \/ tree'[1].blobs.time = Now
      BY <1>2 DEF Touched
    <3>2. info["blobs"] \in Node /\ info["blobs"].time <= clock BY DEF Shape, Data, Inodes
    <3> QED BY <1>3, <2>2, <3>1, <3>2 DEF Kept, Same, Node
  <2>3. ASSUME NEW n \in DOMAIN got, Same(snapshots[n], tree'[1].blob[n])
        PROVE  tree'[1].blob[n] = tree[1].blob[n]
    <3>1. n \in Names BY GotNames
    <3>2. snapshots[n] \in Node /\ snapshots[n].time <= clock /\ snapshots[n].ino # 0
      BY DEF Shape, Data, Inodes
    <3>3. Kept(tree[1].blob[n], tree'[1].blob[n]) \/ tree'[1].blob[n] = NoBlob
      BY <1>2, <3>1 DEF Touched
    <3> QED BY <2>3, <3>2, <3>3, SameBefore
  <2>4. /\ ~m.upload.malformed /\ m.upload.files = input
        /\ m.blob = [n \in DOMAIN m.blob |-> m.blob[n]]
        /\ pc \in Final => DOMAIN m.blob = Declared
    BY <1>6 DEF Fits
  <2>5. tree'[1].root.time = 0 \/ pc \in Final \cup {"blobs again"} => ~m.extra
    BY <1>6, <2>1 DEF Fits
  <2>6. pc \notin Final /\ Same(info["blobs"], tree'[1].blobs) => DOMAIN m.blob = Listed(tree'[1])
    BY <1>6, <2>2 DEF Fits
  <2>7. \A n \in DOMAIN got :
          Same(snapshots[n], tree'[1].blob[n]) \/ (pc \in Final /\ n \notin unchecked) =>
            n \in DOMAIN m.blob /\ m.blob[n] = got[n]
    BY <1>6, <2>3 DEF Fits
  <2>8. m \in moments' BY DEF Evolution
  <2>9. Listed(tree[1])' = Listed(tree'[1]) /\ Declared' = Declared
    BY <1>1 DEF Listed, Declared
  <2>10. Same(info["blobs"], tree[1].blobs)' = Same(info["blobs"], tree'[1].blobs)
    BY <1>1 DEF Same
  <2>11. \A n \in DOMAIN got :
           Same(snapshots[n], tree[1].blob[n])' = Same(snapshots[n], tree'[1].blob[n])
    BY <1>1 DEF Same
  <2>12. (pc \notin Final /\ Same(info["blobs"], tree[1].blobs))' =>
           DOMAIN m.blob = Listed(tree[1])'
    BY <1>1, <2>6, <2>9, <2>10 DEF Final
  <2>13. \A n \in DOMAIN got' :
          (Same(snapshots[n], tree[1].blob[n]) \/ (pc \in Final /\ n \notin unchecked))' =>
            n \in DOMAIN m.blob /\ m.blob[n] = got'[n]
    BY <1>1, <2>7, <2>11 DEF Final
  <2>14. /\ (pc \in Final => DOMAIN m.blob = Declared)'
         /\ (tree[1].root.time = 0 \/ pc \in Final \cup {"blobs again"} => ~m.extra)'
         /\ ~m.upload.malformed /\ m.upload.files = input'
    BY <1>1, <2>4, <2>5, <2>9 DEF Final
  <2> QED BY <2>4, <2>8, <2>12, <2>13, <2>14 DEF Fits
<1> QED BY <1>1, <1>4, <1>5, <1>6 DEF Moment

\* The invariant survives any step of the writer.
LEMMA WriterStep == IInv /\ Writer => IInv'
PROOF
<1>1. Shape /\ Writer => Evolution BY WriterIs
<1> QED
  BY <1>1, ShapeKept, InodesKept, RootKept, ExchangesKept, ReadingKept, KnownKept, MomentKept
  DEF IInv

\* ------------------------------------------------------------ the loader

\* Nothing the invariant speaks of changes.
LEMMA StillStep ==
  IInv /\ UNCHANGED <<disk, pc, fd, infos, input, next, got, unchecked>> => IInv'
PROOF
<1> SUFFICES ASSUME IInv, UNCHANGED <<disk, pc, fd, infos, input, next, got, unchecked>>
             PROVE  IInv'
  OBVIOUS
<1> USE DEF IInv, disk, infos
<1>1. Shape'
  <2>1. Data' BY DEF Shape, Data
  <2>2. Control' BY DEF Shape, Control, Points
  <2> QED BY <2>1, <2>2 DEF Shape
<1>2. Inodes' BY DEF Inodes
<1>3. Root' BY DEF Root
<1>4. Exchanges' BY DEF Exchanges, OnlyFirst
<1>5. Reading' BY DEF Reading
<1>6. Known' BY DEF Known, Same
<1>7. Moment'
  <2>1. \A m : Fits(m)' <=> Fits(m) BY DEF Fits, Same, Listed, Declared
  <2>2. View(tree[at])' = View(tree[at]) BY DEF View, Listed
  <2> QED BY <2>1, <2>2 DEF Moment
<1> QED BY <1>1, <1>2, <1>3, <1>4, <1>5, <1>6, <1>7

\* The load fails.
LEMMA FailStep ==
  IInv /\ pc' = "failed" /\ UNCHANGED <<disk, infos, input, next, got, unchecked>> => IInv'
PROOF
<1> SUFFICES ASSUME IInv, pc' = "failed",
                    UNCHANGED <<disk, infos, input, next, got, unchecked>>
             PROVE  IInv'
  OBVIOUS
<1> USE DEF IInv, disk, infos
<1>1. Shape'
  <2>1. Data' BY DEF Shape, Data
  <2>2. Control' BY DEF Shape, Control, Points
  <2> QED BY <2>1, <2>2 DEF Shape
<1>2. Inodes' BY DEF Inodes
<1>3. Root' BY DEF Root
<1>4. Exchanges' BY DEF Exchanges, OnlyFirst, Late
<1>5. Reading' BY DEF Reading
<1>6. Known' BY DEF Known, Same
<1>7. Moment' BY DEF Moment, Late, Later, View, Listed
<1> QED BY <1>1, <1>2, <1>3, <1>4, <1>5, <1>6, <1>7

\* A node the loader looks at.
LEMMA VisibleIs ==
  IInv => /\ Visible \in Tree /\ Visible = tree[at] /\ at \in {1, 2}
          /\ Visible.root \in Node /\ Visible.upload \in UploadNode /\ Visible.blobs \in Node
          /\ \A n \in Names : Visible.blob[n] \in BlobNode
PROOF
<1> SUFFICES ASSUME IInv
             PROVE  /\ Visible \in Tree /\ Visible = tree[at] /\ at \in {1, 2}
                    /\ Visible.root \in Node /\ Visible.upload \in UploadNode
                    /\ Visible.blobs \in Node /\ \A n \in Names : Visible.blob[n] \in BlobNode
  OBVIOUS
<1>1. Visible \in Tree /\ Visible = tree[at] /\ at \in {1, 2} BY DEF Visible, IInv, Shape, Data
<1> QED BY <1>1 DEF Tree

\* The first look at the batch directory.
LEMMA CollectRootStep == IInv /\ CollectRoot => IInv'
PROOF
<1> SUFFICES ASSUME IInv, CollectRoot PROVE IInv' OBVIOUS
<1> USE DEF IInv, disk
<1>1. /\ pc = "root" /\ pc' \in {"upload", "failed"}
      /\ pc' = "upload" => RootIsValid(Visible)
      /\ UNCHANGED <<tree, at, clock, moments, swaps, snapshots, fd, input, next, got, unchecked>>
  BY DEF CollectRoot, Fail
<1>2. at = 1 /\ swaps = 0 /\ tree[1].root.time = 0 BY <1>1 DEF Root
<1>3. Visible = tree[1] /\ Visible.root \in Node /\ tree[1].root.ino = -1
  BY <1>2, VisibleIs DEF Inodes
<1>4. Dir(Visible.root.ino, Visible.root.time) = Dir(-1, 0) /\ Dir(-1, 0) \in Node
  BY <1>2, <1>3 DEF Dir, Node
<1>5. /\ info' \in [{"root", "upload", "blobs", "open"} -> Node]
      /\ info'["root"] = Dir(-1, 0)
      /\ \A p \in {"upload", "blobs", "open"} : info'[p] = info[p]
  BY <1>4 DEF CollectRoot, See, Shape, Data
<1>6. Shape'
  <2>1. Data' BY <1>1, <1>5 DEF Shape, Data
  <2>2. Control' BY <1>1, <1>5 DEF Shape, Control, Points
  <2> QED BY <2>1, <2>2 DEF Shape
<1>7. Inodes' BY <1>1, <1>5 DEF Inodes
<1>8. Root' BY <1>1, <1>2, <1>3, <1>5 DEF Root, RootIsValid
<1>9. Exchanges' BY <1>1, <1>5 DEF Exchanges, OnlyFirst, Late
<1>10. Reading' BY <1>1 DEF Reading
<1>11. Known' BY <1>1 DEF Known, Same
<1>12. Moment' BY <1>1 DEF Moment, Late, Later, View, Listed
<1> QED BY <1>6, <1>7, <1>8, <1>9, <1>10, <1>11, <1>12

\* upload.json is opened as it is now.
LEMMA OpenUploadStep == IInv /\ OpenUpload => IInv'
PROOF
<1> SUFFICES ASSUME IInv, OpenUpload PROVE IInv' OBVIOUS
<1> USE DEF IInv, disk
<1> DEFINE node == Visible.upload
<1>1. /\ pc = "upload" /\ pc' = "read" /\ fd' = node
      /\ UNCHANGED <<tree, at, clock, moments, swaps, snapshots, input, next, got, unchecked>>
  BY DEF OpenUpload
<1>2. Visible = tree[at] /\ at \in {1, 2} /\ node \in UploadNode BY VisibleIs
<1>3. /\ node.ino # 0 /\ node.ino <= clock /\ node.time <= clock
      /\ node.ino \in Int /\ node.time \in Int
  BY <1>2 DEF Inodes, UploadNode
<1>4. /\ info' \in [{"root", "upload", "blobs", "open"} -> Node]
      /\ info'["upload"].ino = node.ino /\ info'["upload"].time = node.time
      /\ \A p \in {"root", "blobs", "open"} : info'[p] = info[p]
  BY <1>3 DEF OpenUpload, See, Shape, Data, Dir, Node
<1>5. Shape'
  <2>1. Data' BY <1>1, <1>4 DEF Shape, Data
  <2>2. Control' BY <1>1, <1>4 DEF Shape, Control, Points
  <2> QED BY <2>1, <2>2 DEF Shape
<1>6. Inodes' BY <1>1, <1>3, <1>4 DEF Inodes
<1>7. Root' BY <1>1, <1>4 DEF Root
<1>8. Exchanges'
  <2>1. swaps = 0 => at = 1 BY <1>2 DEF Exchanges
  <2>2. swaps = 0 => node.ino # tree[2].upload.ino BY <1>2, <2>1 DEF Inodes
  <2> QED BY <1>1, <1>4, <2>2 DEF Exchanges, OnlyFirst, Late
<1>9. Reading'
  <2>1. \A t \in {1, 2} : tree[t].upload.ino = node.ino => tree[t].upload = node
    BY <1>2 DEF Inodes
  <2> QED BY <1>1, <1>2, <1>3, <1>4, <2>1 DEF Reading
<1>10. Known' BY <1>1 DEF Known, Same
<1>11. Moment' BY <1>1 DEF Moment, Late, Later, View, Listed
<1> QED BY <1>5, <1>6, <1>7, <1>8, <1>9, <1>10, <1>11

\* If upload.json was written while open, its time tells; otherwise what was read is it.
LEMMA ReadUploadStep == IInv /\ ReadUpload => IInv'
PROOF
<1> SUFFICES ASSUME IInv, ReadUpload PROVE IInv' OBVIOUS
<1> USE DEF IInv, disk, infos
<1>1. /\ pc = "read" /\ UNCHANGED <<disk, infos, next, got, unchecked>> BY DEF ReadUpload
<1>2. PICK u \in Reads(info["upload"].time, Uploads) :
        IF Valid(u) THEN input' = u.files /\ pc' = "blobs" ELSE pc' = "failed" /\ UNCHANGED input
  BY DEF ReadUpload, Fail
<1>3. CASE ~Valid(u) BY <1>1, <1>2, <1>3, FailStep
<1>4. CASE Valid(u)
  <2>1. input' = u.files /\ pc' = "blobs" BY <1>2, <1>4
  <2>2. /\ fd \in UploadNode /\ fd.ino = info["upload"].ino
        /\ \A t \in {1, 2} : tree[t].upload.ino = fd.ino => tree[t].upload = fd
    BY <1>1 DEF Reading
  <2>3. u \in Upload BY <1>2, <2>2, BatchAssumption DEF Reads, UploadNode
  <2>4. input' \in Seq(File) BY <2>1, <2>3 DEF Upload
  <2>5. \A j, k \in 1..Len(input') : input'[j].name = input'[k].name => j = k
    <3>0. \A k \in DOMAIN u.files : \A j \in 1..(k - 1) : u.files[j].name # u.files[k].name
      BY <1>4 DEF Valid
    <3>1. \A k \in 1..Len(input') : \A j \in 1..(k - 1) : input'[j].name # input'[k].name
      BY <2>1, <2>4, <3>0
    <3>2. \A j, k \in 1..Len(input') : j = k \/ j \in 1..(k - 1) \/ k \in 1..(j - 1)
      OBVIOUS
    <3> QED BY <3>1, <3>2
  <2>6. next = 1 /\ DOMAIN got = {} BY <1>1 DEF Shape, Data, Control
  <2>7. Shape'
    <3>1. next' \in 1..(Len(input') + 1) BY <1>1, <2>4, <2>6
    <3>2. DOMAIN got' = {input'[k].name : k \in 1..(next' - 1)} BY <1>1, <2>6
    <3> QED BY <1>1, <2>1, <2>4, <2>5, <2>6, <3>1, <3>2 DEF Shape, Data, Control, Points
  <2>8. Inodes' BY <1>1 DEF Inodes
  <2>9. Root' BY <1>1, <2>1 DEF Root
  <2>10. Exchanges' BY <1>1, <2>1 DEF Exchanges, OnlyFirst, Late
  <2>11. Reading' BY <2>1 DEF Reading
  <2>12. Known'
    <3>1. ASSUME NEW t \in {1, 2}, Same(info["upload"], tree[t].upload)
          PROVE  tree[t].upload.val = u
      <4>1. tree[t].upload = fd BY <2>2, <3>1 DEF Same
      <4>2. fd.time = info["upload"].time BY <3>1, <4>1 DEF Same
      <4> QED BY <1>2, <4>1, <4>2 DEF Reads
    <3>2. ~u.malformed BY <1>4 DEF Valid
    <3> QED BY <1>1, <2>1, <2>6, <3>1, <3>2 DEF Known, Same
  <2>13. Moment' BY <1>1, <2>1 DEF Moment, Late, Later, View, Listed
  <2> QED BY <2>7, <2>8, <2>9, <2>10, <2>11, <2>12, <2>13
<1> QED BY <1>3, <1>4

\* The first look at the blobs directory.
LEMMA CollectBlobsStep == IInv /\ CollectBlobs => IInv'
PROOF
<1> SUFFICES ASSUME IInv, CollectBlobs PROVE IInv' OBVIOUS
<1> USE DEF IInv, disk
<1> DEFINE node == Visible.blobs
<1>1. /\ pc = "blobs" /\ pc' \in {"blob", "failed"}
      /\ UNCHANGED <<tree, at, clock, moments, swaps, snapshots, fd, input, next, got, unchecked>>
  BY DEF CollectBlobs, Fail
<1>2. Visible = tree[at] /\ at \in {1, 2} /\ node \in Node BY VisibleIs
<1>3. /\ node.ino # 0 /\ node.ino <= clock /\ node.time <= clock
      /\ node.ino \in Int /\ node.time \in Int
  BY <1>2 DEF Inodes, Node
<1>4. /\ info' \in [{"root", "upload", "blobs", "open"} -> Node]
      /\ info'["blobs"].ino = node.ino /\ info'["blobs"].time = node.time
      /\ \A p \in {"root", "upload", "open"} : info'[p] = info[p]
  BY <1>3 DEF CollectBlobs, See, Shape, Data, Dir, Node
<1>5. Shape'
  <2>1. Data' BY <1>1, <1>4 DEF Shape, Data
  <2>2. Control' BY <1>1, <1>4 DEF Shape, Control, Points
  <2> QED BY <2>1, <2>2 DEF Shape
<1>6. Inodes' BY <1>1, <1>3, <1>4 DEF Inodes
<1>7. Root' BY <1>1, <1>4 DEF Root
<1>8. Exchanges'
  <2>1. swaps = 0 => at = 1 BY <1>2 DEF Exchanges
  <2>2. swaps = 0 => node.ino # tree[2].blobs.ino BY <1>2, <2>1 DEF Inodes
  <2> QED BY <1>1, <1>4, <2>2 DEF Exchanges, OnlyFirst, Late
<1>9. Reading' BY <1>1 DEF Reading
<1>10. Known' BY <1>1, <1>4 DEF Known, Same
<1>11. Moment' BY <1>1 DEF Moment, Late, Later, View, Listed
<1> QED BY <1>5, <1>6, <1>7, <1>8, <1>9, <1>10, <1>11

\* A blob is opened as it is now.
LEMMA OpenBlobStep == IInv /\ OpenBlob => IInv'
PROOF
<1> SUFFICES ASSUME IInv, OpenBlob PROVE IInv' OBVIOUS
<1> USE DEF IInv, disk
<1> DEFINE n == input[next].name
           node == Visible.blob[n]
<1>1. /\ pc = "blob" /\ next <= Len(input)
      /\ UNCHANGED <<tree, at, clock, moments, swaps, snapshots, input, next, got, unchecked>>
      /\ \/ node.ino # 0 /\ fd' = node /\ See("open", node) /\ pc' = "hash"
         \/ pc' = "failed" /\ UNCHANGED <<fd, info>>
  BY DEF OpenBlob, Fail
<1>2. CASE pc' = "failed" /\ UNCHANGED <<fd, info>> BY <1>1, <1>2, FailStep DEF infos
<1>3. CASE node.ino # 0 /\ fd' = node /\ See("open", node) /\ pc' = "hash"
  <2>1. n \in Names
    <3>1. input[next] \in File BY <1>1 DEF Shape, Data
    <3> QED BY <3>1 DEF File
  <2>2. Visible = tree[at] /\ at \in {1, 2} /\ node \in BlobNode BY <2>1, VisibleIs
  <2>3. /\ node.ino <= clock /\ node.time <= clock /\ node.ino \in Int /\ node.time \in Int
    BY <2>1, <2>2 DEF Inodes, BlobNode
  <2>4. n' = n BY <1>1
  <2>5. \A t \in {1, 2} : tree[t].blob[n].ino = node.ino => tree[t].blob[n] = node
    BY <1>3, <2>1, <2>2 DEF Inodes
  <2>6. swaps = 0 => node.ino # tree[2].blob[n].ino
    <3>1. swaps = 0 => at = 1 BY <2>2 DEF Exchanges
    <3> QED BY <1>3, <2>1, <2>2, <3>1 DEF Inodes
  <2> HIDE DEF node, n
  <2>7. /\ info' \in [{"root", "upload", "blobs", "open"} -> Node]
        /\ info'["open"].ino = node.ino /\ info'["open"].time = node.time
        /\ \A p \in {"root", "upload", "blobs"} : info'[p] = info[p]
    BY <1>3, <2>3 DEF See, Shape, Data, Dir, Node
  <2>8. Shape'
    <3>1. Data' BY <1>1, <1>3, <2>7 DEF Shape, Data
    <3>2. Control' BY <1>1, <1>3, <2>7 DEF Shape, Control, Points
    <3> QED BY <3>1, <3>2 DEF Shape
  <2>9. Inodes' BY <1>1, <2>3, <2>7 DEF Inodes
  <2>10. Root' BY <1>1, <1>3, <2>7 DEF Root
  <2>11. Exchanges' BY <1>1, <1>3, <2>4, <2>6, <2>7 DEF Exchanges, OnlyFirst, Late, n
  <2>12. Reading' BY <1>1, <1>3, <2>2, <2>4, <2>5, <2>7 DEF Reading, n
  <2>13. Known' BY <1>1, <1>3, <2>7 DEF Known, Same
  <2>14. Moment' BY <1>1, <1>3 DEF Moment, Late, Later, View, Listed
  <2> QED BY <2>8, <2>9, <2>10, <2>11, <2>12, <2>13, <2>14
<1> QED BY <1>1, <1>2, <1>3

\* A blob that was hashed is the declared one, and is so as long as it is as seen.
LEMMA HashBlobStep == IInv /\ HashBlob => IInv'
PROOF
<1> SUFFICES ASSUME IInv, HashBlob PROVE IInv' OBVIOUS
<1> USE DEF IInv, disk
<1> DEFINE n == input[next].name
<1>1. pc = "hash" /\ UNCHANGED <<tree, at, clock, moments, swaps, info, input, unchecked>>
  BY DEF HashBlob
<1>2. PICK c \in Reads(info["open"].time, Contents) :
        \/ /\ SameAfterHash /\ c = input[next].digest
           /\ got' = With(got, n, c)
           /\ snapshots' = With(snapshots, n, Dir(fd.ino, fd.time))
           /\ next' = next + 1 /\ pc' = "blob"
        \/ pc' = "failed" /\ UNCHANGED <<got, snapshots, next>>
  BY DEF HashBlob, Fail
<1>3. CASE pc' = "failed" /\ UNCHANGED <<got, snapshots, next>>
  BY <1>1, <1>3, FailStep DEF infos
<1>4. CASE /\ SameAfterHash /\ c = input[next].digest
           /\ got' = With(got, n, c)
           /\ snapshots' = With(snapshots, n, Dir(fd.ino, fd.time))
           /\ next' = next + 1 /\ pc' = "blob"
  <2> DEFINE d == Dir(fd.ino, fd.time)
  <2>1. /\ fd \in BlobNode /\ fd.ino = info["open"].ino /\ fd.ino # 0
        /\ \A t \in {1, 2} : tree[t].blob[n].ino = fd.ino => tree[t].blob[n] = fd
    BY <1>1 DEF Reading
  <2>2. fd.time = info["open"].time /\ c = fd.val BY <1>2, <1>4 DEF SameAfterHash, Reads
  <2>3. d \in Node /\ d.ino = fd.ino /\ d.time = fd.time BY <2>1 DEF Dir, Node, BlobNode
  <2>4. n \in Names BY <1>1, OpenIs
  <2>5. next \in 1..Len(input) BY <1>1 DEF Shape, Data, Control
  <2>6. n \notin DOMAIN got
    <3>1. \A k \in 1..(next - 1) : k \in 1..Len(input) /\ k # next BY <2>5
    <3>2. \A k \in 1..(next - 1) : input[k].name # n BY <2>5, <3>1 DEF Shape, Data
    <3> QED BY <3>2 DEF Shape, Data
  <2> HIDE DEF d
  <2>7. /\ DOMAIN got' = DOMAIN got \cup {n} /\ got'[n] = c
        /\ \A m \in DOMAIN got : got'[m] = got[m]
        /\ got' = [m \in DOMAIN got' |-> got'[m]]
    <3>1. /\ DOMAIN got' = DOMAIN got \cup {n} /\ got'[n] = c
          /\ \A m \in DOMAIN got : m # n => got'[m] = got[m]
          /\ got' = [m \in DOMAIN got' |-> got'[m]]
      <4> DEFINE g == got'
      <4>1. g = With(got, n, c) BY <1>4
      <4> HIDE DEF g, n
      <4>2. /\ DOMAIN g = DOMAIN got \cup {n} /\ g[n] = c
            /\ \A z \in DOMAIN got : z # n => g[z] = got[z]
            /\ g = [z \in DOMAIN g |-> g[z]]
        BY <4>1 DEF With
      <4> QED BY <4>2 DEF g
    <3> QED BY <2>6, <3>1
  <2>8. DOMAIN snapshots = DOMAIN got BY DEF Shape, Data
  <2>9. /\ DOMAIN snapshots' = DOMAIN got' /\ snapshots'[n] = d
        /\ \A m \in DOMAIN got : snapshots'[m] = snapshots[m]
        /\ snapshots' = [m \in DOMAIN got' |-> snapshots'[m]]
    <3>1. /\ DOMAIN snapshots' = DOMAIN snapshots \cup {n} /\ snapshots'[n] = d
          /\ \A m \in DOMAIN snapshots : m # n => snapshots'[m] = snapshots[m]
          /\ snapshots' = [m \in DOMAIN snapshots' |-> snapshots'[m]]
      <4> DEFINE g == snapshots'
      <4>1. g = With(snapshots, n, d) BY <1>4 DEF d
      <4> HIDE DEF g, n
      <4>2. /\ DOMAIN g = DOMAIN snapshots \cup {n} /\ g[n] = d
            /\ \A z \in DOMAIN snapshots : z # n => g[z] = snapshots[z]
            /\ g = [z \in DOMAIN g |-> g[z]]
        BY <4>1 DEF With
      <4> QED BY <4>2 DEF g
    <3>3. DOMAIN snapshots' = DOMAIN got' BY <2>7, <2>8, <3>1
    <3> QED BY <2>6, <2>8, <3>1, <3>3
  <2> HIDE DEF n
  <2>10. Shape'
    <3>1. snapshots' \in [DOMAIN got' -> Node] BY <2>3, <2>7, <2>9 DEF Shape, Data
    <3>2. DOMAIN got' = {input'[k].name : k \in 1..(next' - 1)}
      <4>1. 1..(next' - 1) = 1..(next - 1) \cup {next} BY <1>4, <2>5
      <4>2. DOMAIN got = {input[k].name : k \in 1..(next - 1)} BY DEF Shape, Data
      <4> QED BY <1>1, <2>7, <4>1, <4>2 DEF n
    <3>3. next' \in 1..(Len(input') + 1) BY <1>1, <1>4, <2>5
    <3> QED BY <1>1, <1>4, <2>7, <3>1, <3>2, <3>3 DEF Shape, Data, Control, Points
  <2>11. Inodes'
    <3>1. d.ino # 0 /\ d.ino <= clock /\ d.time <= clock BY <2>1, <2>2, <2>3 DEF Inodes
    <3>2. \A m \in DOMAIN got' : /\ snapshots'[m].ino # 0
                                 /\ snapshots'[m].ino <= clock /\ snapshots'[m].time <= clock
      BY <2>7, <2>9, <3>1 DEF Inodes
    <3> QED BY <1>1, <3>2 DEF Inodes
  <2>12. Root' BY <1>1, <1>4 DEF Root
  <2>13. Exchanges'
    <3>1. ASSUME OnlyFirst PROVE OnlyFirst'
      <4>1. d.ino # tree[2].blob[n].ino BY <1>1, <2>1, <2>3, <3>1 DEF OnlyFirst, n
      <4>2. \A m \in DOMAIN got' : snapshots'[m].ino # tree'[2].blob[m].ino
        BY <1>1, <2>7, <2>9, <3>1, <4>1 DEF OnlyFirst
      <4> QED BY <1>1, <1>4, <3>1, <4>2 DEF OnlyFirst
    <3> QED BY <1>1, <1>4, <3>1 DEF Exchanges, Late
  <2>14. Reading' BY <1>4 DEF Reading
  <2>15. Known'
    <3>1. \A t \in {1, 2} : Same(d, tree[t].blob[n]) => tree[t].blob[n].val = c
      BY <2>1, <2>2, <2>3 DEF Same
    <3>2. \A m \in DOMAIN got', t \in {1, 2} :
            Same(snapshots'[m], tree[t].blob[m]) => tree[t].blob[m].val = got'[m]
      BY <2>7, <2>9, <3>1 DEF Known
    <3>3. \A k \in 1..(next' - 1) : got'[input[k].name] = input[k].digest
      <4>1. \A k \in 1..(next' - 1) : k = next \/ k \in 1..(next - 1) BY <1>4, <2>5
      <4>2. \A k \in 1..(next - 1) : input[k].name \in DOMAIN got BY DEF Shape, Data
      <4> QED BY <1>4, <2>7, <4>1, <4>2 DEF Known, n
    <3>4. \A t \in {1, 2} : Same(info["upload"], tree[t].upload) =>
           ~tree[t].upload.val.malformed /\ tree[t].upload.val.files = input
      BY <1>1 DEF Known
    <3> QED BY <1>1, <3>2, <3>3, <3>4 DEF Known, Same
  <2>16. Moment' BY <1>1, <1>4 DEF Moment, Late, Later, View, Listed
  <2> QED BY <2>10, <2>11, <2>12, <2>13, <2>14, <2>15, <2>16
<1> QED BY <1>2, <1>3, <1>4

\* The loader is further, and knows what it knew.
LEMMA FurtherStep ==
  ASSUME IInv, UNCHANGED <<disk, fd, infos, input, next, got>>, pc' \in Late,
         pc \notin {"root", "failed", "upload", "read"},
         swaps = 1 => OnlyFirst
  PROVE  Shape' /\ Inodes' /\ Root' /\ Exchanges' /\ Reading' /\ Known'
PROOF
<1> USE DEF IInv, disk, infos
<1>1. Shape'
  <2>1. Data' BY DEF Shape, Data
  <2>2. Control' BY DEF Control, Points, Late
  <2> QED BY <2>1, <2>2 DEF Shape
<1>2. Inodes' BY DEF Inodes
<1>3. Root' BY DEF Root, Late
<1>4. Exchanges'
  <2>1. OnlyFirst => OnlyFirst' BY DEF OnlyFirst, Late
  <2> QED BY <2>1 DEF Exchanges
<1>5. Reading' BY DEF Reading, Late
<1>6. Known' BY DEF Known, Same, Late
<1> QED BY <1>1, <1>2, <1>3, <1>4, <1>5, <1>6

\* Between the first comparison and the last only the first directory passes for what
\* was seen.
LEMMA FirstIs ==
  ASSUME IInv, pc \in Late, swaps <= 2,
         \/ Same(info["upload"], Visible.upload)
         \/ Same(info["blobs"], Visible.blobs)
         \/ \E n \in DOMAIN got : Same(snapshots[n], Visible.blob[n])
  PROVE  at = 1
PROOF
<1>1. at \in {1, 2} /\ Visible = tree[at] BY VisibleIs
<1>2. at = 2 => OnlyFirst BY DEF IInv, Exchanges
<1> QED BY <1>1, <1>2 DEF OnlyFirst, Same

\* The root of the first directory, as it was seen.
LEMMA RootIs ==
  ASSUME IInv, pc \notin {"root", "failed"}, Same(info["root"], Visible.root)
  PROVE  at = 1 /\ tree[1].root.time = 0
PROOF
<1>1. at \in {1, 2} /\ Visible = tree[at] BY VisibleIs
<1>2. info["root"].ino = -1 /\ info["root"].time = 0 BY DEF IInv, Root, Dir
<1>3. Visible.root.ino = -at BY <1>1 DEF IInv, Inodes
<1> QED BY <1>1, <1>2, <1>3 DEF Same

\* The first comparison: whoever passes it is back in the first directory.
LEMMA RecheckRootStep == IInv /\ RecheckRoot => IInv'
PROOF
<1> SUFFICES ASSUME IInv, RecheckRoot PROVE IInv' OBVIOUS
<1>1. /\ pc = "blob" /\ next > Len(input)
      /\ UNCHANGED <<disk, fd, infos, input, next, got, unchecked>>
  BY DEF RecheckRoot
<1>2. CASE pc' = "failed" BY <1>1, <1>2, FailStep
<1>3. CASE Same(info["root"], Visible.root) /\ pc' = "recheck upload"
  <2>1. at = 1 BY <1>1, <1>3, RootIs
  <2>2. swaps # 1 BY <2>1 DEF IInv, Exchanges
  <2>3. Shape' /\ Inodes' /\ Root' /\ Exchanges' /\ Reading' /\ Known'
    BY <1>1, <1>3, <2>2, FurtherStep DEF Late
  <2>4. next = Len(input) + 1 BY <1>1 DEF IInv, Shape, Data
  <2>5. View(tree[at])' = View(tree[at]) /\ moments' = moments BY <1>1 DEF View, Listed, disk
  <2>6. Moment' BY <1>1, <1>3, <2>4, <2>5 DEF IInv, Moment, Later
  <2> QED BY <2>3, <2>6 DEF IInv
<1> QED BY <1>2, <1>3 DEF RecheckRoot, Fail

\* From here on there is a moment that fits: now.
LEMMA RecheckUploadStep == IInv /\ RecheckUpload => IInv'
PROOF
<1> SUFFICES ASSUME IInv, RecheckUpload PROVE IInv' OBVIOUS
<1>1. pc = "recheck upload" /\ UNCHANGED <<disk, fd, infos, input, next, got, unchecked>>
  BY DEF RecheckUpload
<1>2. CASE pc' = "failed" BY <1>1, <1>2, FailStep
<1>3. CASE Same(info["upload"], Visible.upload) /\ pc' = "root again"
  <2>1. Shape' /\ Inodes' /\ Root' /\ Exchanges' /\ Reading' /\ Known'
    <3>1. swaps = 1 => OnlyFirst BY <1>1 DEF IInv, Exchanges, Late
    <3> QED BY <1>1, <1>3, <3>1, FurtherStep DEF Late
  <2>2. next = Len(input) + 1 BY <1>1 DEF IInv, Moment, Late
  <2>3. View(tree[at])' = View(tree[at]) /\ moments' = moments /\ swaps' = swaps
    BY <1>1 DEF View, Listed, disk
  <2>4. ASSUME swaps <= 2 PROVE \E m \in moments : Fits(m)'
    <3> DEFINE m == View(tree[1])
    <3>1. at = 1 BY <1>1, <1>3, <2>4, FirstIs DEF Late
    <3>2. m \in moments BY <3>1 DEF IInv, Moment
    <3>3. /\ m.upload = tree[1].upload.val /\ m.extra = tree[1].extra
          /\ m.blob = [n \in Listed(tree[1]) |-> tree[1].blob[n].val]
      BY DEF View
    <3>4. Visible = tree[1] BY <3>1 DEF Visible
    <3>5. ~m.upload.malformed /\ m.upload.files = input
      BY <1>1, <1>3, <3>3, <3>4 DEF IInv, Known
    <3>6. tree[1].root.time = 0 => ~m.extra BY <1>1, <3>3 DEF IInv, Root
    <3>7. ASSUME NEW n \in DOMAIN got, Same(snapshots[n], tree[1].blob[n])
          PROVE  n \in DOMAIN m.blob /\ m.blob[n] = got[n]
      <4>1. n \in Names BY GotNames DEF IInv
      <4>2. snapshots[n].ino # 0 BY DEF IInv, Inodes
      <4>3. n \in Listed(tree[1]) BY <3>7, <4>1, <4>2 DEF Listed, Same
      <4>4. tree[1].blob[n].val = got[n] BY <3>7 DEF IInv, Known
      <4> QED BY <3>3, <4>3, <4>4
    <3>8. DOMAIN m.blob = Listed(tree[1]) /\ m.blob = [n \in DOMAIN m.blob |-> m.blob[n]]
      BY <3>3
    <3>9. PICK q \in moments : q = m BY <3>2
    <3>10.
          /\ ~q.upload.malformed /\ q.upload.files = input
          /\ tree[1].root.time = 0 => ~q.extra
          /\ \A n \in DOMAIN got : Same(snapshots[n], tree[1].blob[n]) =>
               n \in DOMAIN q.blob /\ q.blob[n] = got[n]
          /\ DOMAIN q.blob = Listed(tree[1])
          /\ q.blob = [n \in DOMAIN q.blob |-> q.blob[n]]
      <4> HIDE DEF m
      <4> QED BY <3>9, <3>5, <3>6, <3>7, <3>8
    <3> HIDE DEF m
    <3>11. Fits(q)'
      <4>1. pc' \notin Final /\ pc' # "blobs again" BY <1>3 DEF Final
      <4>2. Listed(tree[1])' = Listed(tree[1]) BY <1>1 DEF Listed, disk
      <4>3. \A n \in DOMAIN got :
              Same(snapshots[n], tree[1].blob[n])' = Same(snapshots[n], tree[1].blob[n])
        BY <1>1 DEF Same, disk, infos
      <4>4. got' = got /\ input' = input /\ tree' = tree BY <1>1 DEF disk
      <4>5. \A n \in DOMAIN got : Same(snapshots[n], tree[1].blob[n])' =>
              n \in DOMAIN q.blob /\ q.blob[n] = got[n]
        BY <3>10, <4>3
      <4>6. tree[1].root.time = 0 => ~q.extra BY <3>10
      <4>7. DOMAIN q.blob = Listed(tree[1])' BY <3>10, <4>2
      <4>8. ~q.upload.malformed /\ q.upload.files = input BY <3>10
      <4>9. q.blob = [n \in DOMAIN q.blob |-> q.blob[n]] BY <3>10
      <4> QED BY <4>1, <4>4, <4>5, <4>6, <4>7, <4>8, <4>9 DEF Fits
    <3> QED BY <3>9, <3>11
  <2>5. Moment' BY <1>1, <1>3, <2>2, <2>3, <2>4 DEF IInv, Moment
  <2> QED BY <2>1, <2>5 DEF IInv
<1> QED BY <1>2, <1>3 DEF RecheckUpload, Fail

\* Parts of Fits when only the loader moves.
LEMMA FitsIs ==
  ASSUME IInv, NEW m, Fits(m), UNCHANGED <<disk, infos, input, next, got>>,
         tree[1].root.time = 0 \/ pc \in Final \cup {"blobs again"},
         pc' \in Final \/ pc' = "blobs again",
         pc' \in Final => DOMAIN m.blob = Declared,
         pc' \notin Final => pc \notin Final,
         \A n \in DOMAIN got : pc' \in Final /\ n \notin unchecked' =>
           Same(snapshots[n], tree[1].blob[n]) \/ (pc \in Final /\ n \notin unchecked)
  PROVE  Fits(m)'
PROOF
<1>1. ~m.extra /\ ~m.upload.malformed /\ m.upload.files = input BY DEF Fits
<1>2. Listed(tree[1])' = Listed(tree[1]) /\ Declared' = Declared
  BY DEF Listed, Declared, disk
<1>3. \A n \in DOMAIN got :
        Same(snapshots[n], tree[1].blob[n])' = Same(snapshots[n], tree[1].blob[n])
  BY DEF Same, disk, infos
<1>4. Same(info["blobs"], tree[1].blobs)' = Same(info["blobs"], tree[1].blobs)
  BY DEF Same, disk, infos
<1>5. got' = got /\ input' = input /\ tree' = tree BY DEF disk
<1>6. m.blob = [n \in DOMAIN m.blob |-> m.blob[n]] BY DEF Fits
<1>7. \A n \in DOMAIN got :
        Same(snapshots[n], tree[1].blob[n]) \/ (pc' \in Final /\ n \notin unchecked') =>
          n \in DOMAIN m.blob /\ m.blob[n] = got[n]
  BY DEF Fits
<1>8. pc' \notin Final /\ Same(info["blobs"], tree[1].blobs) => DOMAIN m.blob = Listed(tree[1])
  BY DEF Fits
<1> QED BY <1>1, <1>2, <1>3, <1>4, <1>5, <1>6, <1>7, <1>8 DEF Fits

\* The second look at the batch directory shows no other entry.
LEMMA RecollectRootStep == IInv /\ RecollectRoot => IInv'
PROOF
<1> SUFFICES ASSUME IInv, RecollectRoot PROVE IInv' OBVIOUS
<1>1. pc = "root again" /\ UNCHANGED <<disk, fd, infos, input, next, got, unchecked>>
  BY DEF RecollectRoot
<1>2. CASE pc' = "failed" BY <1>1, <1>2, FailStep
<1>3. CASE Same(info["root"], Visible.root) /\ pc' = "blobs again"
  <2>1. Shape' /\ Inodes' /\ Root' /\ Exchanges' /\ Reading' /\ Known'
    <3>1. swaps = 1 => OnlyFirst BY <1>1 DEF IInv, Exchanges, Late
    <3> QED BY <1>1, <1>3, <3>1, FurtherStep DEF Late
  <2>2. next = Len(input) + 1 BY <1>1 DEF IInv, Moment, Late
  <2>3. View(tree[at])' = View(tree[at]) /\ moments' = moments /\ swaps' = swaps
    BY <1>1 DEF View, Listed, disk
  <2>4. tree[1].root.time = 0 BY <1>1, <1>3, RootIs
  <2>5. ASSUME NEW m \in moments, Fits(m) PROVE Fits(m)'
    BY <1>1, <1>3, <2>4, <2>5, FitsIs DEF Final
  <2>6. swaps <= 2 => \E m \in moments : Fits(m) BY <1>1 DEF IInv, Moment, Later, Late
  <2>7. Moment' BY <1>1, <1>3, <2>2, <2>3, <2>5, <2>6 DEF IInv, Moment
  <2> QED BY <2>1, <2>7 DEF IInv
<1> QED BY <1>2, <1>3 DEF RecollectRoot, Fail

\* The second look at the blobs directory shows the declared names.
LEMMA RecollectBlobsStep == IInv /\ RecollectBlobs => IInv'
PROOF
<1> SUFFICES ASSUME IInv, RecollectBlobs PROVE IInv' OBVIOUS
<1>1. pc = "blobs again" /\ UNCHANGED <<disk, fd, infos, input, next, got>>
  BY DEF RecollectBlobs
<1>2. CASE pc' = "failed" /\ UNCHANGED unchecked BY <1>1, <1>2, FailStep
<1>3. CASE /\ Same(info["blobs"], Visible.blobs) /\ BlobsAreValid(Visible)
           /\ pc' = "recheck blobs" /\ unchecked' = Declared
  <2>1. Shape' /\ Inodes' /\ Root' /\ Exchanges' /\ Reading' /\ Known'
    <3>1. swaps = 1 => OnlyFirst BY <1>1 DEF IInv, Exchanges, Late
    <3> QED BY <1>1, <1>3, <3>1, FurtherStep DEF Late
  <2>2. next = Len(input) + 1 BY <1>1 DEF IInv, Moment, Late
  <2>3. View(tree[at])' = View(tree[at]) /\ moments' = moments /\ swaps' = swaps
    BY <1>1 DEF View, Listed, disk
  <2>4. DOMAIN got \subseteq Declared
    <3>1. input \in Seq(File) /\ 1..(next - 1) = DOMAIN input
      BY <2>2 DEF IInv, Shape, Data
    <3> QED BY <3>1 DEF IInv, Shape, Data, Declared
  <2>5. ASSUME NEW m \in moments, Fits(m), swaps <= 2 PROVE Fits(m)'
    <3>1. at = 1 BY <1>1, <1>3, <2>5, FirstIs DEF Late
    <3>2. Visible = tree[1] BY <3>1 DEF Visible
    <3>3. DOMAIN m.blob = Declared
      BY <1>1, <1>3, <2>5, <3>2 DEF Fits, Final, BlobsAreValid
    <3> QED BY <1>1, <1>3, <2>4, <2>5, <3>3, FitsIs DEF Final
  <2>6. swaps <= 2 => \E m \in moments : Fits(m) BY <1>1 DEF IInv, Moment, Later, Late, Final
  <2>7. Moment' BY <1>1, <1>3, <2>2, <2>3, <2>5, <2>6 DEF IInv, Moment
  <2> QED BY <2>1, <2>7 DEF IInv
<1> QED BY <1>2, <1>3 DEF RecollectBlobs, Fail

\* One more blob is as it was when it was hashed.
LEMMA RecheckBlobStep == IInv /\ RecheckBlob => IInv'
PROOF
<1> SUFFICES ASSUME IInv, RecheckBlob PROVE IInv' OBVIOUS
<1>1. pc = "recheck blobs" /\ UNCHANGED <<disk, fd, infos, input, next, got>>
  BY DEF RecheckBlob
<1>2. PICK n \in unchecked :
        \/ Same(snapshots[n], Visible.blob[n]) /\ unchecked' = unchecked \ {n} /\ UNCHANGED pc
        \/ pc' = "failed" /\ UNCHANGED unchecked
  BY DEF RecheckBlob, Fail
<1>3. CASE pc' = "failed" /\ UNCHANGED unchecked BY <1>1, <1>3, FailStep
<1>4. CASE Same(snapshots[n], Visible.blob[n]) /\ unchecked' = unchecked \ {n} /\ UNCHANGED pc
  <2>1. Shape' /\ Inodes' /\ Root' /\ Exchanges' /\ Reading' /\ Known'
    <3>1. swaps = 1 => OnlyFirst BY <1>1 DEF IInv, Exchanges, Late
    <3> QED BY <1>1, <1>4, <3>1, FurtherStep DEF Late
  <2>2. next = Len(input) + 1 BY <1>1 DEF IInv, Moment, Late
  <2>3. View(tree[at])' = View(tree[at]) /\ moments' = moments /\ swaps' = swaps
    BY <1>1 DEF View, Listed, disk
  <2>4. ASSUME NEW m \in moments, Fits(m), swaps <= 2 PROVE Fits(m)'
    <3>1. n \in DOMAIN got => at = 1 BY <1>1, <1>4, <2>4, FirstIs DEF Late
    <3>2. n \in DOMAIN got => Same(snapshots[n], tree[1].blob[n])
      BY <1>4, <3>1 DEF Visible
    <3>3. DOMAIN m.blob = Declared BY <1>1, <2>4 DEF Fits, Final
    <3> QED BY <1>1, <1>4, <2>4, <3>2, <3>3, FitsIs DEF Final
  <2>5. swaps <= 2 => \E m \in moments : Fits(m) BY <1>1 DEF IInv, Moment, Later, Late
  <2>6. Moment' BY <1>1, <1>4, <2>2, <2>3, <2>4, <2>5 DEF IInv, Moment
  <2> QED BY <2>1, <2>6 DEF IInv
<1> QED BY <1>2, <1>3, <1>4

\* The load returns what was compared.
LEMMA ReturnStep == IInv /\ Return => IInv'
PROOF
<1> SUFFICES ASSUME IInv, Return PROVE IInv' OBVIOUS
<1>1. /\ pc = "recheck blobs" /\ unchecked = {} /\ pc' = "returned"
      /\ UNCHANGED <<disk, fd, infos, input, next, got, unchecked>>
  BY DEF Return
<1>2. Shape' /\ Inodes' /\ Root' /\ Exchanges' /\ Reading' /\ Known'
  <2>1. swaps = 1 => OnlyFirst BY <1>1 DEF IInv, Exchanges, Late
  <2> QED BY <1>1, <2>1, FurtherStep DEF Late
<1>3. next = Len(input) + 1 BY <1>1 DEF IInv, Moment, Late
<1>4. View(tree[at])' = View(tree[at]) /\ moments' = moments /\ swaps' = swaps
  BY <1>1 DEF View, Listed, disk
<1>5. ASSUME NEW m \in moments, Fits(m) PROVE Fits(m)'
  <2>1. DOMAIN m.blob = Declared BY <1>1, <1>5 DEF Fits, Final
  <2> QED BY <1>1, <1>5, <2>1, FitsIs DEF Final
<1>6. swaps <= 2 => \E m \in moments : Fits(m) BY <1>1 DEF IInv, Moment, Later, Late
<1>7. Moment' BY <1>1, <1>3, <1>4, <1>5, <1>6 DEF IInv, Moment
<1> QED BY <1>2, <1>7 DEF IInv

\* What a layout is on disk.
LEMMA MadeIs ==
  ASSUME NEW l \in Layouts \cup Others, NEW ino \in {-1, -2}
  PROVE  LET t == Made(l, ino) IN
         /\ t \in Tree /\ t.root = Dir(ino, 0)
         /\ t.upload.ino = ino /\ t.upload.time = 0 /\ t.blobs.ino = ino /\ t.blobs.time = 0
         /\ \A n \in Names : t.blob[n].ino \in {ino, 0} /\ t.blob[n].time = 0
PROOF
<1>1. /\ l.upload \in Uploads /\ l.extra \in BOOLEAN
      /\ \A n \in Names : l.blob[n] \in Contents \cup {<<>>}
  BY BatchAssumption DEF Layout
<1> DEFINE b == [n \in Names |-> IF n \in l.absent THEN NoBlob
                              ELSE IF l.blob[n] = <<>> THEN Link(ino, 0)
                              ELSE Regular(ino, 0, l.blob[n])]
<1>2. ASSUME NEW n \in Names
      PROVE  b[n] \in BlobNode /\ b[n].ino \in {ino, 0} /\ b[n].time = 0
  <2>1. NoBlob \in BlobNode BY DEF NoBlob, Regular, BlobNode
  <2>2. Link(ino, 0) \in BlobNode /\ Link(ino, 0).ino = ino /\ Link(ino, 0).time = 0
    BY DEF Link, BlobNode
  <2>3. /\ Regular(ino, 0, l.blob[n]) \in BlobNode /\ Regular(ino, 0, l.blob[n]).ino = ino
        /\ Regular(ino, 0, l.blob[n]).time = 0
    BY <1>1 DEF Regular, BlobNode
  <2>4. b[n] \in {NoBlob, Link(ino, 0), Regular(ino, 0, l.blob[n])} OBVIOUS
  <2> HIDE DEF b
  <2> QED BY <2>1, <2>2, <2>3, <2>4, NoBlobIs
<1>3. b \in [Names -> BlobNode] BY <1>2
<1>4. Made(l, ino) = [root |-> Dir(ino, 0), upload |-> Regular(ino, 0, l.upload),
                      blobs |-> Dir(ino, 0), extra |-> l.extra, blob |-> b]
  BY DEF Made
<1> HIDE DEF b
<1>5. Dir(ino, 0) \in Node /\ Dir(ino, 0).ino = ino /\ Dir(ino, 0).time = 0 BY DEF Dir, Node
<1>6. /\ Regular(ino, 0, l.upload) \in UploadNode /\ Regular(ino, 0, l.upload).ino = ino
      /\ Regular(ino, 0, l.upload).time = 0
  BY <1>1 DEF Regular, UploadNode
<1> QED BY <1>1, <1>2, <1>3, <1>4, <1>5, <1>6 DEF Tree

\* The invariant holds when the load starts.
LEMMA Start == Init => IInv
PROOF
<1> SUFFICES ASSUME Init PROVE IInv OBVIOUS
<1>1. PICK first \in Layouts, other \in Others : tree = <<Made(first, -1), Made(other, -2)>>
  BY DEF Init
<1>2. tree[1] = Made(first, -1) /\ tree[2] = Made(other, -2) BY <1>1
<1>3. ASSUME NEW t \in {1, 2}
      PROVE  /\ tree[t] \in Tree /\ tree[t].root = Dir(-t, 0)
             /\ tree[t].upload.ino = -t /\ tree[t].upload.time = 0
             /\ tree[t].blobs.ino = -t /\ tree[t].blobs.time = 0
             /\ \A n \in Names : tree[t].blob[n].ino \in {-t, 0} /\ tree[t].blob[n].time = 0
  BY <1>2, MadeIs
<1>4. tree \in [{1, 2} -> Tree]
  <2>1. DOMAIN tree = {1, 2} /\ tree = [t \in {1, 2} |-> tree[t]] BY <1>1
  <2> QED BY <1>3, <2>1
<1>5. /\ at = 1 /\ clock = 0 /\ moments = {View(tree[1])} /\ swaps = 0 /\ pc = "root"
      /\ info = [p \in {"root", "upload", "blobs", "open"} |-> Dir(0, 0)]
      /\ snapshots = <<>> /\ input = <<>> /\ next = 1 /\ got = <<>>
  BY DEF Init
<1>6. Dir(0, 0) \in Node /\ Dir(0, 0).ino = 0 /\ Dir(0, 0).time = 0 BY DEF Dir, Node
<1>7. \A t \in {1, 2} : tree[t].root.ino = -t /\ tree[t].root.time = 0 BY <1>3 DEF Dir
<1>8. Shape
  <2>1. DOMAIN got = {} /\ got = [n \in DOMAIN got |-> got[n]] /\ snapshots \in [{} -> Node]
    BY <1>5
  <2>2. /\ input \in Seq(File) /\ Len(input) = 0 /\ next \in 1..(Len(input) + 1)
        /\ 1..(next - 1) = {}
    BY <1>5
  <2>3. info \in [{"root", "upload", "blobs", "open"} -> Node] BY <1>5, <1>6
  <2>4. Data BY <1>4, <1>5, <2>1, <2>2, <2>3 DEF Data
  <2>5. Control BY <1>5 DEF Control, Points
  <2> QED BY <2>4, <2>5 DEF Shape
<1>9. DOMAIN got = {} BY <1>5
<1>10. Inodes BY <1>3, <1>5, <1>6, <1>7, <1>9 DEF Inodes
<1>11. Root BY <1>5, <1>7 DEF Root
<1>12. Exchanges BY <1>3, <1>5, <1>6, <1>9 DEF Exchanges, OnlyFirst
<1>13. Reading BY <1>5 DEF Reading
<1>14. Known BY <1>5, <1>9 DEF Known
<1>15. Moment BY <1>5 DEF Moment, Late, Later
<1> QED BY <1>8, <1>10, <1>11, <1>12, <1>13, <1>14, <1>15 DEF IInv

\* The invariant holds in every state.
LEMMA Invariant == Spec => []IInv
PROOF
<1>1. IInv /\ [Next]_vars => IInv'
  <2> SUFFICES ASSUME IInv, [Next]_vars PROVE IInv' OBVIOUS
  <2>1. CASE Writer BY <2>1, WriterStep
  <2>2. CASE Loader
    <3>1. CASE Report BY <3>1, StillStep DEF Report
    <3> QED
      BY <2>2, <3>1, CollectRootStep, OpenUploadStep, ReadUploadStep, CollectBlobsStep,
         OpenBlobStep, HashBlobStep, RecheckRootStep, RecheckUploadStep, RecollectRootStep,
         RecollectBlobsStep, RecheckBlobStep, ReturnStep
      DEF Loader
  <2>3. CASE OpenRaced BY <2>3, FailStep DEF OpenRaced, Fail
  <2>4. CASE IOFails BY <2>4, FailStep DEF IOFails, Fail
  <2>5. CASE Stop BY <2>5, FailStep DEF Stop, Fail
  <2>6. CASE Cancel BY <2>6, StillStep DEF Cancel, loader, infos
  <2>7. CASE UNCHANGED vars BY <2>7, StillStep DEF vars, disk, infos
  <2> QED BY <2>1, <2>2, <2>3, <2>4, <2>5, <2>6, <2>7 DEF Next
<1> QED BY <1>1, Start, PTL DEF Spec

\* A load that is over has one moment for all it returns, whatever the batch, the
\* limits and the writer, if the writer exchanged the directory at most twice; and every
\* digest in it is the declared one (LoadContext, input.go).
THEOREM AlwaysLoadedAtOneMoment == Spec => []LoadedAtOneMoment
PROOF
<1>1. IInv => LoadedAtOneMoment
  <2> SUFFICES ASSUME IInv, pc = "returned"
               PROVE  /\ swaps <= 2 => \E m \in moments : /\ ~m.extra /\ ~m.upload.malformed
                                                          /\ m.upload.files = input
                                                          /\ m.blob = got
                      /\ \A k \in DOMAIN input : got[input[k].name] = input[k].digest
    BY DEF LoadedAtOneMoment
  <2>1. next = Len(input) + 1 /\ unchecked = {} BY DEF IInv, Moment, Late
  <2>2. 1..(next - 1) = DOMAIN input BY <2>1 DEF IInv, Shape, Data
  <2>3. DOMAIN got = Declared /\ got = [n \in DOMAIN got |-> got[n]]
    BY <2>2 DEF IInv, Shape, Data, Declared
  <2>4. \A k \in DOMAIN input : got[input[k].name] = input[k].digest
    BY <2>2 DEF IInv, Known
  <2>5. ASSUME NEW m \in moments, Fits(m)
        PROVE  ~m.extra /\ ~m.upload.malformed /\ m.upload.files = input /\ m.blob = got
    <3>1. /\ DOMAIN m.blob = DOMAIN got /\ m.blob = [n \in DOMAIN m.blob |-> m.blob[n]]
          /\ \A n \in DOMAIN got : m.blob[n] = got[n]
      BY <2>1, <2>3, <2>5 DEF Fits, Final
    <3>2. m.blob = got BY <2>3, <3>1
    <3> QED BY <2>5, <3>2 DEF Fits, Final
  <2>6. swaps <= 2 => \E m \in moments : Fits(m) BY DEF IInv, Moment, Later, Late
  <2> QED BY <2>4, <2>5, <2>6
<1> QED BY <1>1, Invariant, PTL

\* ------------------------------------------------------------ running totals

\* The running total adds one size after the other.
LEMMA SumsIs ==
  ASSUME NEW files \in Seq(File)
  PROVE  Sums(files) = [k \in 0..Len(files) |-> IF k = 0 THEN 0
                                                ELSE Sums(files)[k - 1] + files[k].size]
PROOF
<1> DEFINE Sum(n, f) == f = [k \in 0..n |-> IF k = 0 THEN 0 ELSE f[k - 1] + files[k].size]
<1> DEFINE Without == {n \in 0..Len(files) : ~\E f : Sum(n, f)}
<1>1. Len(files) \in Nat OBVIOUS
<1>2. ASSUME Without # {} PROVE FALSE
  <2>1. Without \subseteq Nat BY <1>1
  <2>2. PICK n \in Without : \A m \in Without : n <= m
    <3> HIDE DEF Without
    <3> QED BY <1>2, <2>1, LeastOf
  <2>3. n # 0
    <3>1. Sum(0, [k \in 0..0 |-> 0]) OBVIOUS
    <3> QED BY <2>2, <3>1
  <2>4. n \in Nat /\ n - 1 \in 0..Len(files) BY <1>1, <2>2, <2>3
  <2>4a. n - 1 \notin Without
    <3> HIDE DEF Without
    <3>1. ~(n <= n - 1) BY <2>4
    <3> QED BY <2>2, <3>1
  <2>5. PICK f : Sum(n - 1, f) BY <2>4, <2>4a
  <2> DEFINE g == [k \in 0..n |-> IF k = n THEN f[n - 1] + files[n].size ELSE f[k]]
  <2>6. ASSUME NEW k \in 0..n
        PROVE  g[k] = IF k = 0 THEN 0 ELSE g[k - 1] + files[k].size
    <3>1. CASE k = n
      <4>1. g[k] = f[n - 1] + files[n].size /\ k # 0 BY <2>3, <3>1
      <4>2. g[k - 1] = f[n - 1] BY <2>3, <2>4, <3>1
      <4> QED BY <3>1, <4>1, <4>2
    <3>2. CASE k # n
      <4>1. k \in 0..(n - 1) /\ g[k] = f[k] BY <2>4, <3>2
      <4>2. k # 0 => g[k - 1] = f[k - 1] BY <2>4, <3>2
      <4>3. f[k] = IF k = 0 THEN 0 ELSE f[k - 1] + files[k].size BY <2>5, <4>1
      <4> QED BY <4>1, <4>2, <4>3
    <3> QED BY <3>1, <3>2
  <2>7. g = [k \in 0..n |-> g[k]] OBVIOUS
  <2> HIDE DEF g
  <2>8. Sum(n, g) BY <2>6, <2>7
  <2> QED BY <2>2, <2>8
<1>3. \E f : Sum(Len(files), f) BY <1>1, <1>2
<1>4. Sums(files) = CHOOSE f : Sum(Len(files), f) BY DEF Sums
<1> HIDE DEF Sum
<1>5. Sum(Len(files), Sums(files)) BY <1>3, <1>4
<1> QED BY <1>5 DEF Sum

\* It starts at 0, stays a natural number, and grows by each size.
LEMMA SumsAdd ==
  ASSUME NEW files \in Seq(File)
  PROVE  /\ Sums(files)[0] = 0
         /\ \A k \in 0..Len(files) : Sums(files)[k] \in Nat
         /\ \A k \in 1..Len(files) : Sums(files)[k] = Sums(files)[k - 1] + files[k].size
PROOF
<1> DEFINE sum == Sums(files)
<1> DEFINE Wrong == {n \in 0..Len(files) : sum[n] \notin Nat}
<1>1. Len(files) \in Nat OBVIOUS
<1>2. sum = [k \in 0..Len(files) |-> IF k = 0 THEN 0 ELSE sum[k - 1] + files[k].size]
  BY SumsIs, Zenon
<1>3. \A k \in 1..Len(files) : files[k].size \in Nat
  <2>1. \A k \in 1..Len(files) : files[k] \in File OBVIOUS
  <2> QED BY <2>1 DEF File
<1> HIDE DEF sum
<1>4. sum[0] = 0 BY <1>1, <1>2
<1>5. \A k \in 1..Len(files) : sum[k] = sum[k - 1] + files[k].size BY <1>1, <1>2
<1>6. ASSUME Wrong # {} PROVE FALSE
  <2>1. Wrong \subseteq Nat BY <1>1
  <2>2. PICK n \in Wrong : \A m \in Wrong : n <= m
    <3> HIDE DEF Wrong
    <3> QED BY <1>6, <2>1, LeastOf
  <2>3. n # 0 BY <1>4, <2>2
  <2>4. n \in 1..Len(files) /\ n - 1 \in 0..Len(files) /\ n - 1 \notin Wrong
    BY <1>1, <2>2, <2>3
  <2>5. sum[n - 1] \in Nat BY <2>4
  <2>6. sum[n] \in Nat BY <1>3, <1>5, <2>4, <2>5
  <2> QED BY <2>2, <2>6
<1> QED BY <1>4, <1>5, <1>6 DEF sum

\* No running total is larger than the last.
LEMMA SumsGrow ==
  ASSUME NEW files \in Seq(File), NEW k \in 0..Len(files)
  PROVE  Sums(files)[k] <= Total(files)
PROOF
<1> DEFINE sum == Sums(files)
<1> DEFINE all == Len(files)
<1> DEFINE Wrong == {j \in 0..all : ~(sum[all - j] <= sum[all])}
<1>1. all \in Nat OBVIOUS
<1>2. /\ \A i \in 0..all : sum[i] \in Nat
      /\ \A i \in 1..all : sum[i] = sum[i - 1] + files[i].size /\ files[i].size \in Nat
  <2>1. \A i \in 1..Len(files) : files[i] \in File OBVIOUS
  <2>2. \A i \in 1..Len(files) : files[i].size \in Nat BY <2>1 DEF File
  <2> QED BY <2>2, SumsAdd
<1>3. Total(files) = sum[all] BY DEF Total
<1> HIDE DEF sum, all
<1>4. ASSUME Wrong # {} PROVE FALSE
  <2>1. Wrong \subseteq Nat BY <1>1
  <2>2. PICK j \in Wrong : \A m \in Wrong : j <= m
    <3> HIDE DEF Wrong
    <3> QED BY <1>4, <2>1, LeastOf
  <2>3. j # 0
    <3>1. all - 0 = all BY <1>1
    <3> QED BY <1>1, <1>2, <2>2, <3>1
  <2>4. j - 1 \in 0..all /\ j - 1 \notin Wrong BY <1>1, <2>2, <2>3
  <2>5. all - j + 1 \in 1..all /\ all - (j - 1) = all - j + 1 /\ (all - j + 1) - 1 = all - j
    BY <1>1, <2>2, <2>3
  <2>6. sum[all - j + 1] <= sum[all] BY <2>4, <2>5
  <2>7. sum[all - j + 1] = sum[all - j] + files[all - j + 1].size BY <1>2, <2>5
  <2>8. sum[all - j] \in Nat /\ sum[all] \in Nat /\ files[all - j + 1].size \in Nat
    BY <1>1, <1>2, <2>2, <2>5
  <2> QED BY <2>2, <2>6, <2>7, <2>8
<1>5. k \in 0..all BY DEF all
<1>6. all - k \in 0..all /\ all - (all - k) = k BY <1>1, <1>5
<1> QED BY <1>3, <1>4, <1>6 DEF sum

\* Subtracting from the limit before each file is comparing every running total with it.
LEMMA TotalFits ==
  ASSUME NEW files \in Seq(File), NEW k \in 1..Len(files)
  PROVE  Exceeds(files[k].size, Sums(files)[k - 1], MaxInputTotalSize) <=>
           Sums(files)[k] > MaxInputTotalSize
PROOF
<1>1. /\ Sums(files)[k - 1] \in Nat /\ files[k].size \in Nat /\ MaxInputTotalSize \in Nat
      /\ Sums(files)[k] = Sums(files)[k - 1] + files[k].size
  <2>1. files[k] \in File /\ k \in 0..Len(files) /\ k - 1 \in 0..Len(files) OBVIOUS
  <2>2. files[k].size \in Nat BY <2>1 DEF File
  <2> QED BY <2>1, <2>2, SumsAdd, BatchAssumption
<1> QED BY <1>1, ExceedsIsExact

\* ------------------------------------------------------------ counts

\* What the writer does to what TypeOK counts.
LEMMA WriterLeaves ==
  Shape /\ Writer => /\ clock < MaxChanges /\ clock' = clock + 1
                     /\ swaps' \in {swaps, swaps + 1} /\ at' \in {1, 2}
                     /\ UNCHANGED <<pc, info, snapshots, input, next, got, unchecked, code, ctx,
                                    broke>>
PROOF
<1> SUFFICES ASSUME Shape, Writer
             PROVE  /\ clock < MaxChanges /\ clock' = clock + 1
                    /\ swaps' \in {swaps, swaps + 1} /\ at' \in {1, 2}
                    /\ UNCHANGED <<pc, info, snapshots, input, next, got, unchecked, code, ctx,
                                   broke>>
  OBVIOUS
<1>1. at \in {1, 2} /\ 3 - at \in {1, 2} BY DEF Shape, Data
<1>2. \E kind, newTree, newAt : newAt \in {at, 3 - at} /\ Write(kind, newTree, newAt)
  <2>1. CASE Rewrite BY <2>1 DEF Rewrite
  <2>2. CASE Replace BY <2>2 DEF Replace
  <2>3. CASE Unlink \/ Extra \/ ReplaceBlobs \/ Swap
    BY <2>3 DEF Unlink, Extra, ReplaceBlobs, Swap
  <2> QED BY <2>1, <2>2, <2>3 DEF Writer
<1> QED BY <1>1, <1>2 DEF Write, Now, infos

\* TypeOK of the disk, of the decision, and of what the load has counted.
DiskOK == at \in {1, 2} /\ clock \in 0..MaxChanges /\ swaps \in 0..clock
EndOK == ctx \in BOOLEAN /\ broke \subseteq {"io"} /\ code \in {Running, Ok, Input, Canceled}
CountOK == /\ next \in 1..(Len(input) + 1) /\ Len(input) <= MaxInputFiles
           /\ DOMAIN got \subseteq Declared /\ Cardinality(DOMAIN got) = next - 1
           /\ DOMAIN snapshots = DOMAIN got
           /\ Total(input) <= MaxInputTotalSize /\ unchecked \subseteq Declared

\* TypeOK in three parts.
LEMMA TypeIs == /\ TypeOK <=> DiskOK /\ EndOK /\ CountOK
                /\ TypeOK' <=> DiskOK' /\ EndOK' /\ CountOK'
PROOF BY DEF TypeOK, DiskOK, EndOK, CountOK

\* The names hashed so far are some of the declared ones.
LEMMA GotDeclared == Shape => DOMAIN got \subseteq Declared /\ DOMAIN snapshots = DOMAIN got
PROOF BY DEF Shape, Data, Declared

\* They depend on what is hashed and what is still to be compared.
LEMMA CountFrame ==
  ASSUME CountOK, UNCHANGED <<snapshots, input, next, got>>, unchecked' \subseteq Declared
  PROVE  CountOK'
PROOF
<1>1. Declared' = Declared BY DEF Declared
<1>2. Cardinality(DOMAIN got)' = Cardinality(DOMAIN got) /\ Total(input)' = Total(input)
  OBVIOUS
<1>3. next' \in 1..(Len(input') + 1) /\ Len(input') <= MaxInputFiles BY DEF CountOK
<1>4. Cardinality(DOMAIN got)' = next' - 1 /\ Total(input)' <= MaxInputTotalSize
  BY <1>2 DEF CountOK
<1>5. /\ DOMAIN got' \subseteq Declared' /\ DOMAIN snapshots' = DOMAIN got'
      /\ unchecked' \subseteq Declared'
  BY <1>1 DEF CountOK
<1> QED BY <1>3, <1>4, <1>5 DEF CountOK

\* The counts hold when the load starts.
LEMMA StartCounts == Init => TypeOK
PROOF
<1> SUFFICES ASSUME Init PROVE TypeOK OBVIOUS
<1>1. input = <<>> /\ input \in Seq(File) /\ Len(input) = 0 BY DEF Init
<1>2. Total(input) = 0 BY <1>1, SumsAdd DEF Total
<1>3. DOMAIN got = {} /\ DOMAIN snapshots = {} /\ Cardinality(DOMAIN got) = 0
  BY FS_EmptySet DEF Init
<1>4. DiskOK BY BatchAssumption DEF Init, DiskOK
<1>5. EndOK BY DEF Init, EndOK
<1>6. CountOK BY <1>1, <1>2, <1>3, BatchAssumption DEF Init, CountOK
<1> QED BY <1>4, <1>5, <1>6, TypeIs

\* A valid upload has no more files and no larger total than the limits.
LEMMA ValidFits ==
  ASSUME NEW u \in Uploads, Valid(u)
  PROVE  u.files \in Seq(File) /\ Len(u.files) <= MaxInputFiles
         /\ Total(u.files) <= MaxInputTotalSize
PROOF
<1>1. u.files \in Seq(File) /\ Len(u.files) \in Nat BY BatchAssumption DEF Upload
<1>2. CASE Len(u.files) = 0
  <2>1. Total(u.files) = 0 BY <1>1, <1>2, SumsAdd DEF Total
  <2> QED BY <1>1, <1>2, <2>1, BatchAssumption
<1>3. CASE Len(u.files) # 0
  <2> DEFINE k == Len(u.files)
  <2>1. k \in 1..Len(u.files) /\ k \in DOMAIN u.files BY <1>1, <1>3
  <2>2. ~(Sums(u.files)[k] > MaxInputTotalSize) BY <1>1, <2>1, TotalFits DEF Valid
  <2>3. Sums(u.files)[k] \in Nat BY <1>1, SumsAdd
  <2> QED BY <1>1, <2>2, <2>3, BatchAssumption DEF Valid, Total
<1> QED BY <1>2, <1>3

\* The counts survive every step.
LEMMA CountsStep ==
  IInv /\ TypeOK /\ (pc = "read" => unchecked = {}) /\ [Next]_vars => TypeOK'
PROOF
<1> SUFFICES ASSUME IInv, TypeOK, pc = "read" => unchecked = {}, [Next]_vars PROVE TypeOK'
  OBVIOUS
<1>1. DiskOK /\ EndOK /\ CountOK /\ Shape BY TypeIs DEF IInv
<1>2. CASE Writer
  <2>1. /\ clock < MaxChanges /\ clock' = clock + 1 /\ swaps' \in {swaps, swaps + 1}
        /\ at' \in {1, 2}
        /\ UNCHANGED <<pc, info, snapshots, input, next, got, unchecked, code, ctx, broke>>
    BY <1>1, <1>2, WriterLeaves
  <2>2. DiskOK' BY <1>1, <2>1, BatchAssumption DEF DiskOK
  <2>3. EndOK' BY <1>1, <2>1 DEF EndOK
  <2>4. unchecked' \subseteq Declared BY <1>1, <2>1 DEF CountOK
  <2>5. CountOK' BY <1>1, <2>1, <2>4, CountFrame
  <2> QED BY <2>2, <2>3, <2>5, TypeIs
<1>3. CASE ReadUpload
  <2>1. /\ UNCHANGED <<disk, infos, next, got, unchecked, code, ctx, broke>>
        /\ pc = "read" /\ unchecked = {} /\ next = 1
    BY <1>1, <1>3 DEF ReadUpload, Shape, Control
  <2>2. DiskOK' /\ EndOK' BY <1>1, <2>1 DEF DiskOK, EndOK, disk
  <2>3. PICK u \in Reads(info["upload"].time, Uploads) :
          IF Valid(u) THEN input' = u.files ELSE UNCHANGED input
    BY <1>3 DEF ReadUpload, Fail
  <2>4. u \in Uploads
    <3>1. fd.val \in Uploads BY <2>1 DEF IInv, Reading, UploadNode
    <3> QED BY <2>3, <3>1 DEF Reads
  <2>5. CASE ~Valid(u)
    <3>1. input' = input BY <2>3, <2>5
    <3>2. CountOK' BY <1>1, <2>1, <3>1, CountFrame DEF infos
    <3> QED BY <2>2, <3>2, TypeIs
  <2>6. CASE Valid(u)
    <3>1. input' = u.files /\ input' \in Seq(File) BY <2>3, <2>4, <2>6, ValidFits
    <3>2. Len(input') <= MaxInputFiles /\ Total(input') <= MaxInputTotalSize
      BY <2>4, <2>6, <3>1, ValidFits
    <3>3. DOMAIN got = {}
      <4>1. 1..(next - 1) = {} BY <2>1
      <4> QED BY <1>1, <4>1 DEF Shape, Data
    <3>4. Len(input') \in Nat BY <3>1
    <3>5. /\ next' \in 1..(Len(input') + 1) /\ DOMAIN got' = DOMAIN got
          /\ DOMAIN snapshots' = DOMAIN got' /\ Cardinality(DOMAIN got') = next' - 1
          /\ unchecked' = {}
      BY <1>1, <2>1, <3>4 DEF CountOK, infos
    <3>6. CountOK'
      <4>1. /\ next' \in 1..(Len(input)' + 1) /\ Len(input)' <= MaxInputFiles
            /\ Total(input)' <= MaxInputTotalSize /\ Cardinality(DOMAIN got)' = next' - 1
        BY <3>2, <3>5
      <4>2. DOMAIN got' = {} /\ unchecked' = {} /\ DOMAIN snapshots' = DOMAIN got'
        BY <3>3, <3>5
      <4> QED BY <4>1, <4>2 DEF CountOK
    <3> QED BY <2>2, <3>6, TypeIs
  <2> QED BY <2>5, <2>6
<1>4. CASE HashBlob
  <2>1. UNCHANGED <<disk, info, input, unchecked, code, ctx, broke>> BY <1>4 DEF HashBlob
  <2>2. DiskOK' /\ EndOK' BY <1>1, <2>1 DEF DiskOK, EndOK, disk
  <2>3. \/ UNCHANGED <<got, snapshots, next>>
        \/ \E c : /\ got' = With(got, input[next].name, c)
                  /\ snapshots' = With(snapshots, input[next].name, Dir(fd.ino, fd.time))
                  /\ next' = next + 1
    BY <1>4 DEF HashBlob
  <2>4. CASE UNCHANGED <<got, snapshots, next>>
    <3>1. unchecked' \subseteq Declared BY <1>1, <2>1 DEF CountOK
    <3>2. CountOK' BY <1>1, <2>1, <2>4, <3>1, CountFrame
    <3> QED BY <2>2, <3>2, TypeIs
  <2>5. CASE next' = next + 1 /\ \E c : /\ got' = With(got, input[next].name, c)
                  /\ snapshots' = With(snapshots, input[next].name, Dir(fd.ino, fd.time))
    <3> DEFINE name == input[next].name
    <3>1. next \in 1..Len(input) /\ Len(input) \in Nat
      BY <1>1, <1>4 DEF HashBlob, Shape, Data, Control
    <3>2. name \notin DOMAIN got /\ name \in Declared
      <4>1. /\ \A j, k \in 1..Len(input) : input[j].name = input[k].name => j = k
            /\ DOMAIN got = {input[k].name : k \in 1..(next - 1)} /\ next \in DOMAIN input
        BY <1>1, <3>1 DEF Shape, Data
      <4>2. \A k \in 1..(next - 1) : k \in 1..Len(input) /\ k # next BY <3>1
      <4> HIDE DEF name
      <4>3. name = input[next].name BY DEF name
      <4> QED BY <3>1, <4>1, <4>2, <4>3 DEF Declared
    <3>3. DOMAIN got' = DOMAIN got \cup {name} /\ DOMAIN snapshots' = DOMAIN snapshots \cup {name}
      BY <2>5 DEF With
    <3>4. IsFiniteSet(DOMAIN got)
      <4>1. IsFiniteSet(1..(next - 1)) BY <3>1, FS_Interval
      <4> DEFINE names == {input[k].name : k \in 1..(next - 1)}
      <4>2. IsFiniteSet(names)
        <5> DEFINE f == [k \in 1..(next - 1) |-> input[k].name]
        <5>1. f \in Surjection(1..(next - 1), names) BY DEF Surjection
        <5> HIDE DEF f, names
        <5> QED BY <4>1, <5>1, FS_Surjection
      <4> QED BY <1>1, <4>2 DEF Shape, Data
    <3>5. Cardinality(DOMAIN got') = Cardinality(DOMAIN got) + 1
      BY <3>2, <3>3, <3>4, FS_AddElement
    <3>6. CountOK'
      <4>1. Declared' = Declared /\ Total(input)' = Total(input) BY <2>1 DEF Declared
      <4>2. next' \in 1..(Len(input') + 1) /\ Len(input') <= MaxInputFiles
        BY <1>1, <2>1, <2>5, <3>1 DEF CountOK
      <4>3. Cardinality(DOMAIN got)' = next' - 1
        BY <1>1, <2>5, <3>1, <3>5 DEF CountOK
      <4>4. /\ DOMAIN got' \subseteq Declared /\ DOMAIN snapshots' = DOMAIN got'
            /\ unchecked' \subseteq Declared
        BY <1>1, <2>1, <3>2, <3>3 DEF CountOK
      <4>5. Total(input)' <= MaxInputTotalSize BY <1>1, <4>1 DEF CountOK
      <4> QED BY <4>1, <4>2, <4>3, <4>4, <4>5 DEF CountOK
    <3> QED BY <2>2, <3>6, TypeIs
  <2> QED BY <2>3, <2>4, <2>5
<1>5. CASE RecollectBlobs \/ RecheckBlob
  <2>1. /\ UNCHANGED <<disk, fd, infos, input, next, got, code, ctx, broke>>
        /\ unchecked' \subseteq unchecked \/ unchecked' = Declared
    BY <1>5 DEF RecollectBlobs, RecheckBlob, Fail
  <2>2. DiskOK' /\ EndOK' BY <1>1, <2>1 DEF DiskOK, EndOK, disk
  <2>3. unchecked' \subseteq Declared BY <1>1, <2>1 DEF CountOK
  <2>4. CountOK' BY <1>1, <2>1, <2>3, CountFrame DEF infos
  <2> QED BY <2>2, <2>4, TypeIs
<1>6. CASE \/ CollectRoot \/ OpenUpload \/ CollectBlobs \/ OpenBlob \/ RecheckRoot
           \/ RecheckUpload \/ RecollectRoot \/ OpenRaced \/ Stop \/ UNCHANGED vars
  <2>1. UNCHANGED <<disk, snapshots, input, next, got, unchecked, code, ctx, broke>>
    BY <1>6 DEF CollectRoot, OpenUpload, CollectBlobs, OpenBlob, RecheckRoot, RecheckUpload,
       RecollectRoot, OpenRaced, Stop, infos, vars, disk
  <2>2. DiskOK' /\ EndOK' BY <1>1, <2>1 DEF DiskOK, EndOK, disk
  <2>3. unchecked' \subseteq Declared BY <1>1, <2>1 DEF CountOK
  <2>4. CountOK' BY <1>1, <2>1, <2>3, CountFrame
  <2> QED BY <2>2, <2>4, TypeIs
<1>7. CASE Return \/ Report \/ IOFails \/ Cancel
  <2>1. /\ UNCHANGED <<disk, snapshots, input, next, got, unchecked>>
        /\ code' \in {code, Ok, Input, Canceled} /\ ctx' \in {ctx, TRUE}
        /\ broke' \in {broke, broke \cup {"io"}}
    BY <1>7 DEF Return, Report, IOFails, Cancel, infos, loader
  <2>2. DiskOK' /\ EndOK' BY <1>1, <2>1 DEF DiskOK, EndOK, disk
  <2>3. unchecked' \subseteq Declared BY <1>1, <2>1 DEF CountOK
  <2>4. CountOK' BY <1>1, <2>1, <2>3, CountFrame
  <2> QED BY <2>2, <2>4, TypeIs
<1> QED BY <1>2, <1>3, <1>4, <1>5, <1>6, <1>7 DEF Next, Loader

\* ------------------------------------------------------------ reasons to fail

\* Nothing has happened that a load may fail for.
Calm == clock = 0 /\ broke = {} /\ \A m \in moments : Consistent(m)

\* What was seen first is what is there, and only the end of the context has made the
\* load fail.
Found ==
    /\ pc = "failed" => ctx
    /\ pc \notin {"root", "failed"} => Same(info["root"], tree[1].root)
    /\ pc \notin {"root", "upload", "failed"} => Same(info["upload"], tree[1].upload)
    /\ pc \notin {"root", "upload", "read", "blobs", "failed"} =>
         Same(info["blobs"], tree[1].blobs)
    /\ pc = "read" => fd = tree[1].upload
    /\ pc = "hash" => fd = tree[1].blob[input[next].name] /\ Same(info["open"], fd)
    /\ \A n \in DOMAIN got : Same(snapshots[n], tree[1].blob[n])

\* What stands in a directory in place of a file has no content.
Links == clock = 0 => \A n \in Names : ~tree[1].blob[n].regular => tree[1].blob[n].val = <<>>

Unread == pc \in {"root", "upload", "read"} => unchecked = {}

\* As long as nothing happens the load finds what it expects.
Smooth == /\ Unread /\ Links
          /\ Calm => Found
          /\ code = Input => ~Calm
          /\ code = Canceled => ctx

JInv == IInv /\ TypeOK /\ Smooth

\* Same holds of what the loader stored just now.
LEMMA SameIs ==
  ASSUME NEW node
  PROVE  /\ Same(Dir(node.ino, node.time), node)
         /\ \A before : before = Dir(node.ino, node.time) => Same(before, node)
PROOF BY DEF Same, Dir

\* While nothing happened, the loader is in front of a directory that passes its checks.
LEMMA CalmIs ==
  ASSUME IInv, TypeOK, Smooth, Calm
  PROVE  LET t == tree[1]
             u == t.upload.val IN
         /\ at = 1 /\ Visible = t /\ u \in Uploads /\ u.files \in Seq(File)
         /\ RootIsValid(t) /\ Valid(u) /\ Len(u.files) <= MaxDiscoveredFiles
         /\ Listed(t) = {u.files[k].name : k \in DOMAIN u.files}
         /\ \A k \in DOMAIN u.files :
              /\ t.blob[u.files[k].name].ino # 0 /\ t.blob[u.files[k].name].regular
              /\ t.blob[u.files[k].name].val = u.files[k].digest
              /\ Len(u.files[k].digest) = u.files[k].size
         /\ \A n \in Listed(t) : t.blob[n].regular
PROOF
<1> DEFINE t == tree[1]
           u == t.upload.val
           v == View(t)
<1>1. at = 1 /\ Visible = t
  <2>1. swaps = 0 /\ at \in {1, 2} BY DEF TypeOK, Calm
  <2> QED BY <2>1 DEF IInv, Exchanges, Visible
<1>2. t \in Tree /\ t.upload \in UploadNode /\ t.blob \in [Names -> BlobNode]
  BY DEF IInv, Shape, Data, Tree
<1>3. u \in Uploads /\ u.files \in Seq(File) /\ Len(u.files) \in Nat
  <2>1. u \in Uploads BY <1>2 DEF UploadNode
  <2>2. u \in Upload BY <2>1, BatchAssumption
  <2> QED BY <2>1, <2>2 DEF Upload
<1>4. v \in moments /\ Consistent(v)
  BY <1>1 DEF IInv, Moment, Calm
<1>5. /\ v.upload = u /\ v.extra = t.extra
      /\ DOMAIN v.blob = Listed(t) /\ \A n \in Listed(t) : v.blob[n] = t.blob[n].val
  BY DEF View
<1> HIDE DEF v
<1>6. /\ ~t.extra /\ ~u.malformed
      /\ Len(u.files) <= MaxInputFiles /\ Len(u.files) <= MaxDiscoveredFiles
      /\ Total(u.files) <= MaxInputTotalSize
      /\ IsInjective([k \in DOMAIN u.files |-> u.files[k].name])
      /\ Listed(t) = {u.files[k].name : k \in DOMAIN u.files}
      /\ \A k \in DOMAIN u.files : /\ v.blob[u.files[k].name] = u.files[k].digest
                                   /\ Len(u.files[k].digest) = u.files[k].size
  <2>1. v.upload.files = u.files BY <1>5
  <2>2. ~t.extra /\ ~u.malformed BY <1>4, <1>5 DEF Consistent
  <2>3. /\ Len(u.files) <= MaxInputFiles /\ Len(u.files) <= MaxDiscoveredFiles
        /\ Total(u.files) <= MaxInputTotalSize
    BY <1>4, <2>1 DEF Consistent
  <2>4. IsInjective([k \in DOMAIN u.files |-> u.files[k].name])
    BY <1>4, <2>1 DEF Consistent
  <2> HIDE DEF u
  <2>5. Listed(t) = {u.files[k].name : k \in DOMAIN u.files}
    <3>1. DOMAIN v.blob = {u.files[k].name : k \in DOMAIN u.files}
      BY <1>4, <2>1, Zenon DEF Consistent
    <3> QED BY <1>5, <3>1, Zenon
  <2>6. \A k \in DOMAIN u.files : /\ v.blob[u.files[k].name] = u.files[k].digest
                                 /\ Len(u.files[k].digest) = u.files[k].size
    BY <1>4, <2>1, Zenon DEF Consistent
  <2> QED BY <2>2, <2>3, <2>4, <2>5, <2>6
<1> HIDE DEF t, u
<1>7. ASSUME NEW k \in DOMAIN u.files
      PROVE  /\ t.blob[u.files[k].name].ino # 0 /\ t.blob[u.files[k].name].regular
             /\ t.blob[u.files[k].name].val = u.files[k].digest
             /\ Len(u.files[k].digest) = u.files[k].size
  <2>1. u.files[k].name \in Listed(t) BY <1>6
  <2>2. t.blob[u.files[k].name].val = u.files[k].digest BY <1>5, <1>6, <2>1
  <2>3. u.files[k] \in File BY <1>3
  <2>4. u.files[k].digest # <<>> BY <2>3, BatchAssumption DEF File
  <2>5. u.files[k].name \in Names /\ t.blob[u.files[k].name].ino # 0 BY <2>1 DEF Listed
  <2>6. t.blob[u.files[k].name].regular BY <2>2, <2>4, <2>5 DEF Smooth, Links, Calm, t
  <2> QED BY <1>6, <2>2, <2>5, <2>6
<1>8. \A n \in Listed(t) : t.blob[n].regular BY <1>6, <1>7
<1>9. Valid(u)
  <2>1. ASSUME NEW k \in DOMAIN u.files, NEW j \in 1..(k - 1)
        PROVE  u.files[j].name # u.files[k].name
    <3>1. j \in DOMAIN u.files /\ j # k BY <1>3
    <3> DEFINE f == [i \in DOMAIN u.files |-> u.files[i].name]
    <3>2. \A i, m \in DOMAIN u.files : f[i] = f[m] => i = m BY <1>6 DEF IsInjective
    <3>3. f[j] = u.files[j].name /\ f[k] = u.files[k].name BY <3>1
    <3> QED BY <3>1, <3>2, <3>3
  <2>2. ASSUME NEW k \in DOMAIN u.files
        PROVE  ~Exceeds(u.files[k].size, Sums(u.files)[k - 1], MaxInputTotalSize)
    <3>1. k \in 1..Len(u.files) /\ k \in 0..Len(u.files) BY <1>3
    <3>2. Sums(u.files)[k] <= Total(u.files) BY <1>3, <3>1, SumsGrow
    <3>3. Sums(u.files)[k] \in Nat /\ Total(u.files) \in Nat
      <4>1. Len(u.files) \in 0..Len(u.files) BY <1>3
      <4> QED BY <1>3, <3>1, <4>1, SumsAdd DEF Total
    <3>4. ~(Sums(u.files)[k] > MaxInputTotalSize) BY <1>6, <3>2, <3>3, BatchAssumption
    <3> QED BY <1>3, <3>1, <3>4, TotalFits
  <2> QED BY <1>6, <2>1, <2>2 DEF Valid
<1> QED BY <1>1, <1>3, <1>6, <1>7, <1>8, <1>9 DEF RootIsValid, t, u

\* Once upload.json is read, the load knows the files the directory declares.
LEMMA KnowsFiles ==
  ASSUME IInv, Smooth, Calm, pc \notin {"root", "upload", "read", "failed"}
  PROVE  input = tree[1].upload.val.files
PROOF
<1>1. Same(info["upload"], tree[1].upload) BY DEF Smooth, Found
<1> QED BY <1>1 DEF IInv, Known

\* Calm is as it was if neither the disk nor the faults have changed.
LEMMA CalmKept == UNCHANGED <<disk, broke>> => (Calm' <=> Calm)
PROOF BY DEF Calm, disk

\* What the load found survives every step that changes nothing it looks at.
LEMMA SmoothFrame ==
  ASSUME Smooth, Calm' <=> Calm, ctx => ctx', code' = code,
         UNCHANGED <<tree, clock, pc, fd, info, snapshots, input, next, got, unchecked>>
  PROVE  Smooth'
PROOF BY DEF Smooth, Found, Links, Unread, Same

\* The load starts without a comparison.
LEMMA StartSmooth == Init => Smooth
PROOF
<1> SUFFICES ASSUME Init PROVE Smooth OBVIOUS
<1>1. PICK first \in Layouts, other \in Others : tree = <<Made(first, -1), Made(other, -2)>>
  BY DEF Init
<1>2. tree[1] = Made(first, -1) BY <1>1
<1>3. \A n \in Names : ~tree[1].blob[n].regular => tree[1].blob[n].val = <<>>
  BY <1>2 DEF Made, NoBlob, Regular, Link
<1>4. /\ pc = "root" /\ unchecked = {} /\ DOMAIN got = {} /\ code = Running
  BY DEF Init
<1>5. Found BY <1>4 DEF Found
<1> QED BY <1>3, <1>4, <1>5 DEF Smooth, Links, Unread, Running, Input, Canceled

\* A step that leaves the decision alone keeps Smooth if it keeps what was found.
LEMMA SmoothFrom ==
  ASSUME Smooth, Unread', UNCHANGED <<disk, code, broke>>, ctx => ctx', Calm => Found'
  PROVE  Smooth'
PROOF
<1>1. Calm' <=> Calm BY CalmKept
<1>2. Links' BY DEF Smooth, Links, disk
<1> QED BY <1>1, <1>2 DEF Smooth

\* The loader's steps up to the last blob.
LEMMA SmoothReading ==
  ASSUME JInv,
         CollectRoot \/ OpenUpload \/ ReadUpload \/ CollectBlobs \/ OpenBlob \/ HashBlob
  PROVE  Smooth'
PROOF
<1> USE DEF JInv
<1>1. UNCHANGED <<disk, unchecked, code, ctx, broke>>
  BY DEF CollectRoot, OpenUpload, ReadUpload, CollectBlobs, OpenBlob, HashBlob
<1>2. Unread' BY <1>1 DEF CollectRoot, OpenUpload, ReadUpload, CollectBlobs, OpenBlob, HashBlob,
                          Fail, Smooth, Unread
<1>3. ASSUME Calm PROVE Found'
  <2> DEFINE t == tree[1]
             u == t.upload.val
  <2>1. /\ Visible = t /\ u \in Uploads /\ u.files \in Seq(File)
        /\ RootIsValid(t) /\ Valid(u)
        /\ Listed(t) = {u.files[k].name : k \in DOMAIN u.files}
        /\ \A k \in DOMAIN u.files :
             /\ t.blob[u.files[k].name].ino # 0 /\ t.blob[u.files[k].name].regular
             /\ t.blob[u.files[k].name].val = u.files[k].digest
             /\ Len(u.files[k].digest) = u.files[k].size
        /\ \A n \in Listed(t) : t.blob[n].regular
    BY <1>3, CalmIs
  <2>2. Found BY <1>3 DEF Smooth
  <2>3. tree' = tree /\ ctx' = ctx BY <1>1 DEF disk
  <2>4. DOMAIN info = {"root", "upload", "blobs", "open"} BY DEF IInv, Shape, Data
  <2>5. pc \notin {"root", "upload", "read", "failed"} => input = u.files
    BY <1>3, KnowsFiles
  <2> HIDE DEF t, u
  <2>6. CASE CollectRoot
    <3>1. pc' = "upload" /\ UNCHANGED <<snapshots, got>> BY <2>1, <2>6 DEF CollectRoot
    <3>2. info'["root"] = Dir(t.root.ino, t.root.time)
      BY <2>1, <2>4, <2>6 DEF CollectRoot, See
    <3>3. Same(info'["root"], t.root) BY <3>2, SameIs
    <3> QED BY <2>2, <2>3, <3>1, <3>3 DEF Found, Same, t
  <2>7. CASE OpenUpload
    <3>1. pc = "upload" /\ pc' = "read" /\ UNCHANGED <<snapshots, got>> /\ fd' = t.upload
      BY <2>1, <2>7 DEF OpenUpload
    <3>2. /\ info'["upload"] = Dir(t.upload.ino, t.upload.time)
          /\ info'["root"] = info["root"]
      BY <2>1, <2>4, <2>7 DEF OpenUpload, See
    <3>3. Same(info'["upload"], t.upload) BY <3>2, SameIs
    <3> QED BY <2>2, <2>3, <3>1, <3>2, <3>3 DEF Found, Same, t
  <2>8. CASE ReadUpload
    <3>1. pc = "read" /\ UNCHANGED <<info, snapshots, got>> BY <2>8 DEF ReadUpload, infos
    <3>2. fd = t.upload /\ info["upload"].time = t.upload.time
      BY <2>2, <3>1 DEF Found, Same, t
    <3>3. Reads(info["upload"].time, Uploads) = {u} BY <3>2 DEF Reads, u
    <3>4. pc' = "blobs" BY <2>1, <2>8, <3>3 DEF ReadUpload
    <3> QED BY <2>2, <2>3, <3>1, <3>4 DEF Found, Same
  <2>9. CASE CollectBlobs
    <3>1. pc = "blobs" /\ UNCHANGED <<snapshots, got>> BY <2>9 DEF CollectBlobs
    <3>2. BlobsAreValid(t)
      <4>1. Declared = Listed(t) BY <2>1, <2>5, <3>1 DEF Declared
      <4> QED BY <2>1, <4>1 DEF BlobsAreValid
    <3>3. pc' = "blob" BY <2>1, <2>9, <3>2 DEF CollectBlobs
    <3>4. /\ info'["blobs"] = Dir(t.blobs.ino, t.blobs.time)
          /\ info'["root"] = info["root"] /\ info'["upload"] = info["upload"]
      BY <2>1, <2>4, <2>9 DEF CollectBlobs, See
    <3>5. Same(info'["blobs"], t.blobs) BY <3>4, SameIs
    <3> QED BY <2>2, <2>3, <3>1, <3>3, <3>4, <3>5 DEF Found, Same, t
  <2>10. CASE OpenBlob
    <3> DEFINE node == t.blob[input[next].name]
    <3>1. pc = "blob" /\ next <= Len(input) /\ UNCHANGED <<snapshots, got, input, next>>
      BY <2>10 DEF OpenBlob
    <3>2. input = u.files /\ next \in DOMAIN u.files
      <4>1. input = u.files BY <2>5, <3>1
      <4>2. next \in DOMAIN input BY <3>1 DEF IInv, Shape, Data
      <4> QED BY <4>1, <4>2
    <3>3. node.ino # 0 /\ node.regular /\ Len(node.val) = input[next].size BY <2>1, <3>2
    <3>4. pc' = "hash" /\ fd' = node /\ See("open", node) BY <2>1, <2>10, <3>3 DEF OpenBlob
    <3>5. /\ info'["open"] = Dir(node.ino, node.time)
          /\ \A p \in {"root", "upload", "blobs"} : info'[p] = info[p]
      BY <2>4, <3>4 DEF See
    <3>6. Same(info'["open"], node) BY <3>5, SameIs
    <3>7. node' = node BY <2>3, <3>1 DEF t
    <3> QED BY <2>2, <2>3, <3>1, <3>4, <3>5, <3>6, <3>7 DEF Found, Same, t
  <2>11. CASE HashBlob
    <3> DEFINE f == input[next]
               node == t.blob[f.name]
    <3>1. pc = "hash" /\ UNCHANGED <<info, input>> BY <2>11 DEF HashBlob
    <3>2. input = u.files /\ next \in DOMAIN u.files /\ next \in 1..Len(input)
      <4>1. input = u.files BY <2>5, <3>1
      <4>2. next \in DOMAIN input /\ next \in 1..Len(input)
        BY <3>1 DEF IInv, Shape, Data, Control
      <4> QED BY <4>1, <4>2
    <3>3. fd = node /\ info["open"].time = fd.time /\ Same(Dir(fd.ino, fd.time), node)
      BY <2>2, <3>1, SameIs DEF Found, Same, t
    <3>4. fd.val = f.digest /\ Len(f.digest) = f.size
      <4>1. node.val = f.digest /\ Len(f.digest) = f.size BY <2>1, <3>2
      <4> QED BY <3>3, <4>1
    <3>5. Reads(info["open"].time, Contents) = {fd.val} BY <3>3 DEF Reads
    <3>6. ~Exceeds(Len(f.digest), Used, MaxInputTotalSize)
      <4>1. ~Exceeds(f.size, Sums(u.files)[next - 1], MaxInputTotalSize)
        BY <2>1, <3>2 DEF Valid
      <4> QED BY <3>2, <3>4, <4>1 DEF Used
    <3>7. /\ got' = With(got, f.name, fd.val)
          /\ snapshots' = With(snapshots, f.name, Dir(fd.ino, fd.time)) /\ pc' = "blob"
      <4>1. SameAfterHash BY <3>3 DEF SameAfterHash
      <4>2. PICK c \in {fd.val} :
              IF Len(c) = f.size /\ SameAfterHash /\ c = f.digest
                 /\ ~Exceeds(Len(c), Used, MaxInputTotalSize)
              THEN /\ got' = With(got, f.name, c)
                   /\ snapshots' = With(snapshots, f.name, Dir(fd.ino, fd.time))
                   /\ pc' = "blob"
              ELSE TRUE
        BY <2>11, <3>5 DEF HashBlob
      <4> QED BY <3>4, <3>6, <4>1, <4>2
    <3>8. ASSUME NEW n \in DOMAIN got' PROVE Same(snapshots'[n], t.blob[n])
      <4>1. DOMAIN got' = DOMAIN got \cup {f.name} /\ DOMAIN snapshots = DOMAIN got
        BY <3>7 DEF With, IInv, Shape, Data
      <4>2. CASE n = f.name
        <5>1. snapshots'[n] = Dir(fd.ino, fd.time) BY <3>7, <4>2 DEF With
        <5> QED BY <3>3, <4>2, <5>1
      <4>3. CASE n # f.name
        <5>1. snapshots'[n] = snapshots[n] /\ n \in DOMAIN got BY <3>7, <4>1, <4>3 DEF With
        <5> QED BY <2>2, <5>1 DEF Found, t
      <4> QED BY <4>2, <4>3
    <3> QED BY <2>2, <2>3, <3>1, <3>7, <3>8 DEF Found, Same, t
  <2> QED BY <2>6, <2>7, <2>8, <2>9, <2>10, <2>11
<1> QED BY <1>1, <1>2, <1>3, SmoothFrom

\* The loader's comparisons after the last blob.
LEMMA SmoothComparing ==
  ASSUME JInv, RecheckRoot \/ RecheckUpload \/ RecollectRoot \/ RecollectBlobs \/ RecheckBlob
  PROVE  Smooth'
PROOF
<1> USE DEF JInv
<1>1. UNCHANGED <<disk, fd, infos, input, next, got, code, ctx, broke>>
  BY DEF RecheckRoot, RecheckUpload, RecollectRoot, RecollectBlobs, RecheckBlob
<1>2. pc' \notin {"root", "upload", "read"}
  BY DEF RecheckRoot, RecheckUpload, RecollectRoot, RecollectBlobs, RecheckBlob, Fail
<1>3. pc \in Late \cup {"blob"}
  BY DEF RecheckRoot, RecheckUpload, RecollectRoot, RecollectBlobs, RecheckBlob, Late
<1>4. ASSUME Calm PROVE Found'
  <2> DEFINE t == tree[1]
             u == t.upload.val
  <2>1. /\ Visible = t /\ RootIsValid(t) /\ Listed(t) = {u.files[k].name : k \in DOMAIN u.files}
        /\ \A n \in Listed(t) : t.blob[n].regular
    BY <1>4, CalmIs
  <2>2. Found BY <1>4 DEF Smooth
  <2>3. input = u.files BY <1>3, <1>4, KnowsFiles DEF Late
  <2>4. BlobsAreValid(t) BY <2>1, <2>3 DEF BlobsAreValid, Declared
  <2>5. /\ Same(info["root"], t.root) /\ Same(info["upload"], t.upload)
        /\ Same(info["blobs"], t.blobs)
    BY <1>3, <2>2 DEF Found, Late
  <2>6. ASSUME RecheckBlob, NEW n \in unchecked PROVE Same(snapshots[n], t.blob[n])
    <3>1. pc \in Late BY <2>6 DEF RecheckBlob, Late
    <3>2. next = Len(input) + 1 BY <3>1 DEF IInv, Moment
    <3>3. n \in Declared BY DEF TypeOK
    <3>4. n \in DOMAIN got
      <4>1. 1..(next - 1) = DOMAIN input /\ DOMAIN got = {input[k].name : k \in 1..(next - 1)}
        BY <3>2 DEF IInv, Shape, Data
      <4> QED BY <3>3, <4>1 DEF Declared
    <3> QED BY <2>2, <3>4 DEF Found
  <2> HIDE DEF t, u
  <2>7. pc' \in Late
    BY <2>1, <2>4, <2>5, <2>6
    DEF RecheckRoot, RecheckUpload, RecollectRoot, RecollectBlobs, RecheckBlob, Late
  <2>8. UNCHANGED <<tree, info, snapshots, got, fd>> BY <1>1 DEF disk, infos
  <2> QED BY <2>2, <2>5, <2>7, <2>8 DEF Found, Late, Same, t
<1>5. Unread' BY <1>2 DEF Unread
<1> QED BY <1>1, <1>4, <1>5, SmoothFrom

\* The verdict, and the failures of others.
LEMMA SmoothEnd ==
  ASSUME JInv, Return \/ Report \/ Stop \/ OpenRaced \/ IOFails \/ Cancel \/ UNCHANGED vars
  PROVE  Smooth'
PROOF
<1> USE DEF JInv
<1>1. CASE Return
  <2>1. /\ UNCHANGED <<disk, fd, infos, input, next, got, unchecked, ctx, broke>>
        /\ pc = "recheck blobs" /\ pc' = "returned"
    BY <1>1 DEF Return
  <2> DEFINE over == Len(input) > MaxDiscoveredFiles
  <2> HIDE DEF over
  <2>0. code' = IF over THEN Input ELSE Ok BY <1>1 DEF Return, over
  <2>2. Calm' <=> Calm BY <2>1, CalmKept
  <2>3. ASSUME Calm PROVE Found' /\ code' # Input
    <3>1. input = tree[1].upload.val.files BY <2>1, <2>3, KnowsFiles
    <3>2. Len(input) <= MaxDiscoveredFiles /\ input \in Seq(File) BY <2>3, <3>1, CalmIs
    <3>3. Len(input) \in Nat BY <3>2
    <3>4. ~over BY <3>2, <3>3, BatchAssumption DEF over
    <3>5. Found BY <2>3 DEF Smooth
    <3>6. /\ Same(info["root"], tree[1].root) /\ Same(info["upload"], tree[1].upload)
          /\ Same(info["blobs"], tree[1].blobs)
          /\ \A n \in DOMAIN got : Same(snapshots[n], tree[1].blob[n])
      BY <2>1, <3>5 DEF Found
    <3>7. UNCHANGED <<tree, info, snapshots, got>> BY <2>1 DEF disk, infos
    <3>8. Found' BY <2>1, <3>6, <3>7 DEF Found, Same
    <3> QED BY <2>0, <3>4, <3>8 DEF Ok, Input
  <2>4. Links' /\ Unread' BY <2>1 DEF Smooth, Links, Unread, disk
  <2>5. code' # Canceled BY <2>0 DEF Canceled, Ok, Input
  <2> QED BY <2>2, <2>3, <2>4, <2>5 DEF Smooth
<1>2. CASE Report
  <2>1. /\ UNCHANGED <<disk, pc, fd, infos, input, next, got, unchecked, ctx, broke>>
        /\ pc = "failed" /\ code' = IF ctx THEN Canceled ELSE Input
    BY <1>2 DEF Report
  <2>2. Calm' <=> Calm BY <2>1, CalmKept
  <2>3. ASSUME Calm PROVE Found' /\ code' # Input
    <3>1. Found BY <2>3 DEF Smooth
    <3>2. ctx BY <2>1, <3>1 DEF Found
    <3> QED BY <2>1, <3>1, <3>2 DEF Found, Same, disk, infos, Canceled, Input
  <2>4. Links' /\ Unread' BY <2>1 DEF Smooth, Links, Unread, disk
  <2> QED BY <2>1, <2>2, <2>3, <2>4 DEF Smooth, Canceled, Input
<1>3. CASE Stop
  <2>1. /\ UNCHANGED <<disk, fd, infos, input, next, got, unchecked, code, ctx, broke>>
        /\ ctx /\ pc' = "failed"
    BY <1>3 DEF Stop, Fail
  <2>2. Calm => Found' BY <2>1 DEF Smooth, Found, Same, disk, infos
  <2>3. Unread' BY <2>1 DEF Unread
  <2> QED BY <2>1, <2>2, <2>3, SmoothFrom
<1>4. CASE OpenRaced
  <2>1. /\ UNCHANGED <<disk, fd, infos, input, next, got, unchecked, code, ctx, broke>>
        /\ clock > 0 /\ pc' = "failed"
    BY <1>4 DEF OpenRaced, Fail
  <2>2. ~Calm BY <2>1 DEF Calm
  <2>3. Unread' BY <2>1 DEF Unread
  <2> QED BY <2>1, <2>2, <2>3, SmoothFrom
<1>5. CASE IOFails
  <2>1. /\ UNCHANGED <<disk, fd, infos, input, next, got, unchecked, code, ctx>>
        /\ broke' = broke \cup {"io"} /\ pc' = "failed"
    BY <1>5 DEF IOFails, Fail
  <2>2. ~Calm' BY <2>1 DEF Calm
  <2>3. Links' /\ Unread' BY <2>1 DEF Smooth, Links, Unread, disk
  <2> QED BY <2>1, <2>2, <2>3 DEF Smooth
<1>6. CASE Cancel
  <2>1. UNCHANGED <<disk, loader, broke>> /\ ctx' = TRUE BY <1>6 DEF Cancel
  <2>2. Calm' <=> Calm BY <2>1, CalmKept
  <2> QED BY <2>1, <2>2, SmoothFrame DEF disk, loader
<1>7. CASE UNCHANGED vars
  <2>1. Calm' <=> Calm BY <1>7, CalmKept DEF vars, disk
  <2> QED BY <1>7, <2>1, SmoothFrame DEF vars
<1> QED BY <1>1, <1>2, <1>3, <1>4, <1>5, <1>6, <1>7

\* Once the writer has come a load may fail.
LEMMA SmoothWriter == JInv /\ Writer => Smooth'
PROOF
<1> SUFFICES ASSUME JInv, Writer PROVE Smooth' OBVIOUS
<1>1. /\ clock' = clock + 1 /\ clock \in Nat
      /\ UNCHANGED <<pc, unchecked, code, ctx>>
  BY WriterLeaves DEF JInv, IInv, Shape, Data
<1>2. clock' # 0 BY <1>1
<1> QED BY <1>1, <1>2 DEF JInv, Smooth, Calm, Links, Unread

\* Both invariants hold in every state.
LEMMA BothInvariants == Spec => []JInv
PROOF
<1>1. IInv /\ JInv /\ [Next]_vars /\ IInv' => JInv'
  <2> SUFFICES ASSUME JInv, [Next]_vars, IInv' PROVE JInv' OBVIOUS
  <2>1. TypeOK' BY CountsStep DEF JInv, Smooth, Unread
  <2>2. Smooth'
    BY SmoothReading, SmoothComparing, SmoothEnd, SmoothWriter DEF Next, Loader
  <2> QED BY <2>1, <2>2 DEF JInv
<1>2. Init => JInv BY Start, StartCounts, StartSmooth DEF JInv
<1>3. Spec => []IInv BY Invariant
<1> QED BY <1>1, <1>2, <1>3, PTL DEF Spec

\* Types of BatchLoad; the blobs hashed are counted once each, and their sizes fit in
\* the total (LoadContext, validateDeclarations).
THEOREM TypeCorrect == Spec => []TypeOK
PROOF
<1>1. JInv => TypeOK BY DEF JInv
<1> QED BY <1>1, BothInvariants, PTL

\* A consistent batch that nobody touches is loaded, whatever its files and the limits,
\* unless the disk fails or the context ends; and a load is called canceled only if its
\* context ended (LoadContext, and Scan's reading of its error).
THEOREM AlwaysFailsForAReason == Spec => []FailsForAReason
PROOF
<1>1. JInv => FailsForAReason
  <2> SUFFICES ASSUME JInv PROVE FailsForAReason OBVIOUS
  <2>1. clock \in Nat /\ broke \subseteq {"io"} BY DEF JInv, TypeOK, IInv, Shape, Data
  <2>2. ~Calm => clock > 0 \/ "io" \in broke \/ \E m \in moments : ~Consistent(m)
    BY <2>1 DEF Calm
  <2> QED BY <2>2 DEF JInv, Smooth, FailsForAReason
<1> QED BY <1>1, BothInvariants, PTL
=============================================================================
