------------------------------- MODULE Extract -------------------------------
(***************************************************************************)
(* internal/archive/zip.go: one call of Extract, its preflight included.   *)
(* The archive is arbitrary: entries may collide, lie about their sizes or *)
(* carry any flaw the preflight looks for.  Operations of the file system  *)
(* fail, the context ends, and the destination is on a volume that ignores *)
(* case and normalization, the strictest there is.                         *)
(*                                                                         *)
(* A path is a sequence of components as the archive spells them.          *)
(***************************************************************************)
EXTENDS Integers, Sequences, FiniteSetsExt, SequencesExt

CONSTANTS Archives,    \* the archives to extract
          Spellings,   \* spellings of a path component
          NFC,         \* [Spellings -> Spellings], norm.NFC
          CaseFold,    \* [Spellings -> Spellings], cases.Fold of an NFC spelling
          MaxEntries, MaxDeclaredBytes, MaxFileBytes, MaxTotalBytes,   \* Limits
          Faults       \* a subset of {"cancel", "io", "cleanup"}

\* An entry as its header declares it, and the bytes its stream really holds.
Flaws == {"none", "encrypted", "method", "data", "unsafe", "deep", "ratio"}
Entry == [path : Seq(Spellings) \ {<<>>}, kind : {"file", "dir", "link"}, flaw : Flaws,
          declared : Nat, actual : Nat, crc : BOOLEAN]
Archive == [flaw : {"none", "zip64", "torn"}, entries : Seq(Entry)]

ASSUME ExtractAssumption ==
    /\ Archives \subseteq Archive
    /\ NFC \in [Spellings -> Spellings] /\ CaseFold \in [Spellings -> Spellings]
    /\ \A s \in Spellings : NFC[NFC[s]] = NFC[s]
    /\ MaxEntries \in Nat \ {0} /\ MaxDeclaredBytes \in Nat \ {0}
    /\ MaxFileBytes \in Nat \ {0} /\ MaxTotalBytes \in Nat \ {0}
    /\ Faults \subseteq {"cancel", "io", "cleanup"}

VARIABLES archive,    \* the file at zipPath
          pc,         \* control point
          next,       \* the entry a loop has come to
          nodes,      \* paths seen by preflight, as files or directories
          declared,   \* bytes declared by the entries admitted
          preFiles,   \* Stats.Files as Preflight counts them
          dest,       \* the destination exists
          tree,       \* what is in it
          files,      \* paths extracted
          rejected,   \* entries consumed and rejected
          extracted,  \* Stats.ExtractedBytes
          code,       \* the error's code, "none" without one
          ctx,        \* the context has ended
          broke       \* history: the faults that have occurred

result == <<files, rejected, extracted>>
checked == <<nodes, declared, preFiles>>
vars == <<archive, pc, next, checked, dest, tree, result, code, ctx, broke>>

entries == archive.entries
Reached == entries[next]

Init == /\ archive \in Archives
        /\ pc = "open" /\ next = 1
        /\ nodes = {} /\ declared = 0 /\ preFiles = 0
        /\ dest = FALSE /\ tree = {}
        /\ files = {} /\ rejected = <<>> /\ extracted = 0
        /\ code = "none" /\ ctx = FALSE /\ broke = {}

\* ------------------------------------------------------------ paths

Normal(p) == [k \in DOMAIN p |-> NFC[p[k]]]
Folded(p) == [k \in DOMAIN p |-> CaseFold[NFC[p[k]]]]

\* The path and every directory above it.
Levels(p) == {SubSeq(p, 1, k) : k \in 1..Len(p)}

\* A prefix of an entry's path is a directory, the path itself if the entry is.
IsDir(e, p) == p # e.path \/ e.kind = "dir"

\* Mutant: paths that differ in case only are different paths.
ConflictIfNormal(e) ==
    \E p \in Levels(e.path), n \in nodes :
        /\ Normal(n.path) = Normal(p)
        /\ \/ n.path # p
           \/ n.dir # IsDir(e, p)
           \/ p = e.path /\ n.explicit

\* A prefix was seen in another spelling, as another kind, or as the same entry.
Conflict(e) ==
    \E p \in Levels(e.path), n \in nodes :
        /\ Folded(n.path) = Folded(p)
        /\ \/ n.path # p
           \/ n.dir # IsDir(e, p)
           \/ p = e.path /\ n.explicit

\* nodes, nfcNames and foldedNames after the entry.
Noted(e) ==
    {[n EXCEPT !.explicit = @ \/ n.path = e.path] : n \in nodes}
    \cup {[path |-> p, dir |-> IsDir(e, p), explicit |-> p = e.path] :
            p \in Levels(e.path) \ {n.path : n \in nodes}}

\* ------------------------------------------------------------ preflight

\* Mutant: a failure leaves the destination behind.
FailKeeps(c) == code' = c /\ pc' = "returned"

\* Extract returns an error; a destination it has made is removed first.
Fail(c) == /\ code' = c
           /\ pc' = IF dest THEN "failed" ELSE "returned"

\* openReader: the entry count is bounded before archive/zip reads the directory.
OpenReader ==
    /\ pc = "open" /\ ~ctx
    /\ CASE archive.flaw = "zip64" -> Fail("archive_unsupported")
         [] archive.flaw = "torn" -> Fail("archive_invalid")
         [] archive.flaw = "none" /\ Len(entries) > MaxEntries ->
              Fail("archive_limit_exceeded")
         [] OTHER -> pc' = "preflight" /\ UNCHANGED code
    /\ UNCHANGED <<archive, next, checked, dest, tree, result, ctx, broke>>

\* Mutant: each entry is compared with the whole limit.
TooLargeAlone(e) == e.declared > MaxFileBytes \/ e.declared > MaxDeclaredBytes \/ e.flaw = "ratio"

\* The declared sizes and the compression ratio are beyond a limit.
TooLarge(e) == \/ e.kind # "dir" /\ e.declared > MaxFileBytes
               \/ e.declared > MaxDeclaredBytes - declared
               \/ e.flaw = "ratio"

\* Why preflight refuses the archive when it comes to this entry.
Refusal(e) ==
    CASE e.flaw = "encrypted" -> "archive_encrypted"
      [] e.flaw = "method" -> "archive_unsupported"
      [] e.kind = "dir" /\ (e.flaw = "data" \/ e.declared # 0) -> "archive_invalid"
      [] e.flaw = "unsafe" -> "archive_path_unsafe"
      [] e.flaw = "deep" -> "archive_limit_exceeded"
      [] OTHER -> IF Conflict(e) THEN "archive_duplicate_path"
                  ELSE IF TooLarge(e) THEN "archive_limit_exceeded" ELSE "none"

\* Mutant: rejected entries are not counted as files.
CountedRegular(e) == IF e.kind = "file" THEN 1 ELSE 0

\* Every entry that is not a directory counts as a file.
Counted(e) == IF e.kind = "dir" THEN 0 ELSE 1

\* One round of preflight's loop: the entry is refused or noted.
Admit ==
    /\ pc = "preflight" /\ next <= Len(entries) /\ ~ctx
    /\ IF Refusal(Reached) # "none"
          THEN Fail(Refusal(Reached)) /\ UNCHANGED <<checked, next>>
          ELSE /\ nodes' = Noted(Reached)
               /\ declared' = declared + Reached.declared
               /\ preFiles' = preFiles + Counted(Reached)
               /\ next' = next + 1
               /\ UNCHANGED <<pc, code>>
    /\ UNCHANGED <<archive, dest, tree, result, ctx, broke>>

\* ------------------------------------------------------------ directories

MakeDest ==
    /\ pc = "preflight" /\ next > Len(entries)
    /\ dest' = TRUE /\ pc' = "dirs" /\ next' = 1
    /\ UNCHANGED <<archive, checked, tree, result, code, ctx, broke>>

Dirs == {Normal(n.path) : n \in {m \in nodes : m.dir}}

\* mkdir and O_EXCL need a free name in a directory that exists; the names of the
\* volume are the folded ones.
At(p) == {n \in tree : Folded(n.name) = Folded(p)}
Free(p) == /\ At(p) = {}
           /\ Len(p) = 1 \/ \E n \in At(Front(p)) : n.dir

\* Mutant: directories are made in the order of the map.
PendingUnsorted == {p \in Dirs : p \notin {n.name : n \in tree}}

\* The directories that may be made next. Of the lexical order only this is kept:
\* a path comes before its descendants.
Pending == {p \in Dirs : /\ p \notin {n.name : n \in tree}
                         /\ (Levels(p) \cap Dirs) \ {p} \subseteq {n.name : n \in tree}}

MakeDir ==
    /\ pc = "dirs" /\ ~ctx
    /\ \E p \in Pending :
         IF Free(p) THEN tree' = tree \cup {[name |-> p, dir |-> TRUE]} /\ UNCHANGED <<pc, code>>
         ELSE Fail("archive_io_error") /\ UNCHANGED tree
    /\ UNCHANGED <<archive, next, checked, dest, result, ctx, broke>>

DirsMade ==
    /\ pc = "dirs" /\ Pending = {}
    /\ pc' = "entries"
    /\ UNCHANGED <<archive, next, checked, dest, tree, result, code, ctx, broke>>

\* ------------------------------------------------------------ entries

SkipDir ==
    /\ pc = "entries" /\ next <= Len(entries) /\ Reached.kind = "dir"
    /\ next' = next + 1
    /\ UNCHANGED <<archive, pc, checked, dest, tree, result, code, ctx, broke>>

\* A regular entry gets its file; one that is rejected is only read.
Open ==
    /\ pc = "entries" /\ next <= Len(entries) /\ Reached.kind # "dir" /\ ~ctx
    /\ LET name == Normal(Reached.path) IN
       IF Reached.kind = "link" THEN pc' = "copy" /\ UNCHANGED <<tree, code>>
       ELSE IF Free(name)
       THEN /\ tree' = tree \cup {[name |-> name, dir |-> FALSE]}
            /\ pc' = "copy" /\ UNCHANGED code
       ELSE Fail("archive_io_error") /\ UNCHANGED tree
    /\ UNCHANGED <<archive, next, checked, dest, result, ctx, broke>>

Least(a, b) == IF a < b THEN a ELSE b

\* Mutant: what was extracted before does not count.
AllowedEach == MaxFileBytes

\* The bytes the entry may inflate to.
Allowed == Least(MaxFileBytes, MaxTotalBytes - extracted)

\* A read that ends early: some of the bytes are accounted.
Short(n, c) == {[n |-> k, code |-> c] : k \in 0..n}

\* How copyAtMost ends over the reader of archive/zip: that reader drops the chunk
\* with which the stream exceeds its declared size (ErrFormat) or ends before it
\* (ErrUnexpectedEOF). What ErrFormat hides beyond the limit counts as the limit.
Copies(e) ==
    IF e.actual > Allowed /\ e.declared >= Allowed
    THEN {[n |-> Allowed, code |-> "archive_limit_exceeded"]}
         \cup (IF e.actual = Allowed + 1 /\ e.actual < e.declared
               THEN Short(Allowed, "archive_invalid") ELSE {})
    ELSE IF e.actual # e.declared THEN Short(Least(e.actual, e.declared), "archive_invalid")
    ELSE {[n |-> e.actual, code |-> IF e.crc THEN "none" ELSE "archive_checksum_error"]}

\* Mutant: the bytes of rejected entries are not accounted.
AccountedRegular(n) == IF Reached.kind = "file" THEN n ELSE 0

\* What one entry adds to the bytes extracted.
Accounted(n) == n

\* The entry is read to its end, or as far as it can be.
Copy ==
    /\ pc = "copy"
    /\ \E c \in Copies(Reached) :
         /\ extracted' = extracted + Accounted(c.n)
         /\ IF c.code # "none" THEN Fail(c.code) /\ UNCHANGED <<next, files, rejected>>
            ELSE /\ pc' = "entries" /\ next' = next + 1
                 /\ IF Reached.kind = "link"
                       THEN rejected' = Append(rejected, Reached) /\ UNCHANGED files
                       ELSE /\ files' = files \cup {[name |-> Normal(Reached.path), size |-> c.n]}
                            /\ UNCHANGED rejected
                 /\ UNCHANGED code
    /\ UNCHANGED <<archive, checked, dest, tree, ctx, broke>>

Return ==
    /\ pc = "entries" /\ next > Len(entries)
    /\ pc' = "returned"
    /\ UNCHANGED <<archive, next, checked, dest, tree, result, code, ctx, broke>>

\* ------------------------------------------------------------ failures

\* The deferred RemoveAll; errors.Join keeps the code of the failure in front.
Cleanup ==
    /\ pc = "failed"
    /\ pc' = "returned"
    /\ \/ dest' = FALSE /\ tree' = {} /\ UNCHANGED broke
       \/ /\ "cleanup" \in Faults /\ broke' = broke \cup {"cleanup"}
          /\ UNCHANGED <<dest, tree>>
    /\ UNCHANGED <<archive, next, checked, result, code, ctx>>

\* Bytes a copy has accounted when it is interrupted.
Interrupted == IF pc = "copy"
               THEN \E n \in 0..Least(Reached.actual, Allowed) : extracted' = extracted + n
               ELSE UNCHANGED extracted

\* An operation on the destination fails, or the archive cannot be read.
IOFails ==
    /\ "io" \in Faults /\ broke' = broke \cup {"io"}
    /\ \/ pc \in {"open", "copy"} /\ Fail("archive_invalid")
       \/ /\ \/ pc = "preflight" /\ next > Len(entries)
             \/ pc = "dirs" /\ Pending # {}
             \/ pc = "entries" /\ next <= Len(entries) /\ Reached.kind = "file"
             \/ pc = "copy" /\ Reached.kind = "file"
          /\ Fail("archive_io_error")
    /\ Interrupted
    /\ UNCHANGED <<archive, next, checked, dest, tree, files, rejected, ctx>>

\* contextError, before every step that can take long.
Stop ==
    /\ ctx
    /\ \/ pc \in {"open", "copy"}
       \/ pc = "preflight" /\ next <= Len(entries)
       \/ pc = "dirs" /\ Pending # {}
       \/ pc = "entries" /\ next <= Len(entries) /\ Reached.kind # "dir"
    /\ Fail("archive_canceled") /\ Interrupted
    /\ UNCHANGED <<archive, next, checked, dest, tree, files, rejected, ctx, broke>>

Cancel == /\ "cancel" \in Faults /\ ~ctx /\ pc # "returned" /\ ctx' = TRUE
          /\ UNCHANGED <<archive, pc, next, checked, dest, tree, result, code, broke>>

Next == \/ OpenReader \/ Admit
        \/ MakeDest \/ MakeDir \/ DirsMade
        \/ SkipDir \/ Open \/ Copy \/ Return
        \/ Cleanup \/ IOFails \/ Stop \/ Cancel

Spec == Init /\ [][Next]_vars

\* ------------------------------------------------------------ properties

Codes == {"none", "archive_invalid", "archive_encrypted", "archive_limit_exceeded",
          "archive_path_unsafe", "archive_duplicate_path", "archive_checksum_error",
          "archive_unsupported", "archive_canceled", "archive_io_error"}

\* Types; a loop is never past the end of the entries, and the bytes that are left
\* for declarations, which the code computes in uint64, do not wrap.
TypeOK ==
    /\ archive \in Archive /\ code \in Codes
    /\ pc \in {"open", "preflight", "dirs", "entries", "copy", "failed", "returned"}
    /\ next \in 1..(Len(entries) + 1)
    /\ declared \in 0..MaxDeclaredBytes /\ preFiles \in 0..MaxEntries
    /\ dest \in BOOLEAN /\ ctx \in BOOLEAN /\ broke \subseteq {"io", "cleanup"}
    /\ \A n \in tree : n.name \in Dirs \/ ~n.dir
    /\ Len(rejected) + Cardinality(files) < next
    /\ extracted \in Nat

\* What a volume without case can hold: no two entries with the same path, no
\* directory under two spellings, nothing below what is not a directory.
Coexist(a, b) ==
    /\ Folded(a.path) # Folded(b.path)
    /\ \A p \in Levels(a.path), q \in Levels(b.path) : Folded(p) = Folded(q) => p = q
    /\ a.path \in Levels(b.path) => a.kind = "dir"
    /\ b.path \in Levels(a.path) => b.kind = "dir"
AllCoexist(n) == \A j \in 1..n : \A i \in 1..(j - 1) : Coexist(entries[i], entries[j])

\* preflight's incremental maps (nodes, nfcNames, foldedNames) refuse exactly the
\* archives that such a volume could not hold.
CollisionsAreExact ==
    /\ pc \in {"dirs", "entries", "copy"} => AllCoexist(Len(entries))
    /\ code = "archive_duplicate_path" => ~AllCoexist(next)

\* An archive that passes preflight never meets an existing name or a missing
\* directory: archive_io_error is only reported when the file system fails.
IOOnlyFromFaults == code = "archive_io_error" => "io" \in broke

\* zip.go:171-174: a failure leaves no destination, no partial output in it, unless
\* removing it fails as well.
FailureRemoves ==
    pc = "returned" /\ code # "none" /\ "cleanup" \notin broke => ~dest /\ tree = {}

\* The first n entries of a kind.
Kind(n, k) == {i \in 1..n : entries[i].kind = k}

\* A successful result accounts for every entry once: the files are the regular
\* entries with all their bytes, what is rejected are the others in their order,
\* nothing else is in the destination, and the bytes are those declared.
ResultIsComplete ==
    pc = "returned" /\ code = "none" =>
    /\ files = {[name |-> Normal(entries[i].path), size |-> entries[i].actual] :
                  i \in Kind(Len(entries), "file")}
    /\ Len(rejected) = Cardinality(Kind(Len(entries), "link"))
    /\ \A i \in Kind(Len(entries), "link") : rejected[Cardinality(Kind(i, "link"))] = entries[i]
    /\ {n.name : n \in tree} = Dirs \cup {f.name : f \in files}
    /\ extracted = declared

\* However the headers lie, the bytes inflated stay in the limits, those of rejected
\* entries and of a failed copy included.
BudgetKept == /\ extracted <= MaxTotalBytes
              /\ \A f \in files : f.size <= MaxFileBytes

\* Extract finds as many files as Preflight counted, which is what processArchive
\* reserved in max_files for them (scan.go:371-374, 311).
CountsAgree ==
    pc = "returned" /\ code = "none" => preFiles = Cardinality(files) + Len(rejected)
=============================================================================
