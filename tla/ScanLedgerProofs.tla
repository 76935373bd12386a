-------------------------- MODULE ScanLedgerProofs --------------------------
(***************************************************************************)
(* What Scan records and approves, for every batch, policy and fault.      *)
(***************************************************************************)
EXTENDS ScanProofs

\* ------------------------------------------------------------ the invariant

\* An archive is open: its entries are being decided one after the other.
Inside == pc = "members" \/ InMember
Member(k) == batch[next].members[k]

\* IDs are positions in the manifest; the next record will have the last ID given.
Numbered ==
    /\ \A i \in DOMAIN files : files[i].id = i /\ files[i].parent < i
    /\ pc # "exited" => exit = Running /\ nextID = Len(files) + (IF Deciding THEN 1 ELSE 0)
    /\ pc = "exited" => exit # Running

\* The file in hand is the upload or the entry whose turn it is, its bytes are those
\* declared, and it has passed the checks behind it.
Checked(f) == /\ ~BadImage(f.content) /\ ~BadArchive(f.content)
              /\ TypeReason(f) = "none" /\ f.warnings = Warnings(f)
Turn(f) == IF f.parent = 0
           THEN f.doc = batch[next] /\ f.path = <<next>>
           ELSE /\ f.parent = parent /\ nextID - parent \in DOMAIN batch[next].members
                /\ f.doc = Member(nextID - parent) /\ f.path = <<next, nextID>>
InHand == Deciding =>
    /\ cur.id = nextID /\ cur.content = cur.doc /\ Turn(cur)
    /\ ~cur.doc.excluded /\ cur.doc.kind # "symlink"
    /\ pc # "detect" => Checked(cur)
    /\ pc \in {"extract", "validate", "copy"} => ~cur.content.infected
    /\ pc = "extract" => IsArchive(cur)
    /\ pc = "validate" => cur.content.kind = "ooxml"
    /\ pc = "copy" => /\ ~IsArchive(cur)
                      /\ cur.content.kind = "ooxml" => cur.content.defect # "inflate"

\* The records of the open archive so far, and the entries still to come.
Opened == Inside =>
    /\ parent \in DOMAIN files
    /\ files[parent].action = "expanded" /\ files[parent].doc = batch[next]
    /\ files[parent].path = <<next>>
    /\ ChildrenOf(parent) = (parent + 1)..Len(files)
    /\ \A j \in (parent + 1)..Len(files) : files[j].doc = Member(j - parent)
    /\ nextID - parent + Len(members) = Len(batch[next].members)
    /\ \A k \in DOMAIN members : members[k] = Member(nextID - parent + k)

\* All other records have the children they should; uploads are in their order.
Families == pc # "exited" \/ exit = Ok =>
              \A i \in DOMAIN files : Complete(i) \/ (Inside /\ i = parent)
Sorted == /\ pc # "exited" => InOrder(IF Inside \/ pc = "cleanup" THEN next ELSE next - 1)
          /\ exit = Ok => InOrder(Len(batch))

IInv == /\ TypeOK /\ batch \in Batches /\ Numbered /\ InHand /\ Opened /\ Families /\ Sorted
        /\ ApprovedIsDeclared /\ OnlyPassedFiles /\ RiskIsFlagged

\* ------------------------------------------------------------ records

\* One more record: the others stay, and it is the child of its parent.
LEMMA Appended ==
  ASSUME files \in Seq(Records), NEW r \in Records, files' = Append(files, r)
  PROVE  /\ Len(files) \in Nat /\ Len(files') = Len(files) + 1
         /\ DOMAIN files = 1..Len(files) /\ DOMAIN files' = 1..(Len(files) + 1)
         /\ \A i \in DOMAIN files : files'[i] = files[i]
         /\ files'[Len(files) + 1] = r
         /\ \A k : r.parent = k => ChildrenOf(k)' = ChildrenOf(k) \cup {Len(files) + 1}
         /\ \A k : r.parent # k => ChildrenOf(k)' = ChildrenOf(k)
<1>1. /\ Len(files) \in Nat /\ Len(files') = Len(files) + 1
      /\ DOMAIN files = 1..Len(files) /\ DOMAIN files' = 1..(Len(files) + 1)
  OBVIOUS
<1>2. \A i \in DOMAIN files : files'[i] = files[i]
  OBVIOUS
<1>3. files'[Len(files) + 1] = r
  OBVIOUS
<1>4. 1..(Len(files) + 1) = 1..Len(files) \cup {Len(files) + 1}
  BY <1>1
<1>5. ASSUME NEW k
      PROVE  /\ r.parent = k => ChildrenOf(k)' = ChildrenOf(k) \cup {Len(files) + 1}
             /\ r.parent # k => ChildrenOf(k)' = ChildrenOf(k)
  <2>1. ChildrenOf(k)' = {j \in 1..Len(files) \cup {Len(files) + 1} : files'[j].parent = k}
    BY <1>1, <1>4 DEF ChildrenOf
  <2>2. ChildrenOf(k) = {j \in 1..Len(files) : files'[j].parent = k}
    BY <1>1, <1>2 DEF ChildrenOf
  <2> QED BY <1>3, <2>1, <2>2
<1> QED BY <1>1, <1>2, <1>3, <1>5

\* A record of an earlier archive keeps its children.
LEMMA CompleteStays ==
  ASSUME files \in Seq(Records), NEW r \in Records, files' = Append(files, r),
         NEW i \in DOMAIN files, r.parent # i, Complete(i)
  PROVE  Complete(i)'
<1>1. /\ ChildrenOf(i)' = ChildrenOf(i) /\ files'[i] = files[i]
      /\ \A j \in DOMAIN files : files'[j] = files[j]
  BY Appended
<1>2. CASE files[i].action # "expanded"
  BY <1>1, <1>2 DEF Complete
<1>3. CASE files[i].action = "expanded"
  <2> DEFINE inside == files[i].doc.members
  <2>1. inside \in Seq(Entry)
    <3>1. files[i] \in Records
      OBVIOUS
    <3>2. files[i].doc \in Document
      BY <3>1 DEF Records
    <3> QED BY <3>2, DocumentFields
  <2>2. /\ ChildrenOf(i) = (i + 1)..(i + Len(inside))
        /\ \A k \in DOMAIN inside : files[i + k].doc = inside[k]
    BY <1>3 DEF Complete
  <2>3. \A k \in DOMAIN inside : i + k \in DOMAIN files
    <3>1. \A k \in DOMAIN inside : k \in 1..Len(inside) /\ Len(inside) \in Nat
      BY <2>1
    <3>2. i \in Nat
      OBVIOUS
    <3> HIDE DEF inside
    <3>3. \A k \in DOMAIN inside : i + k \in (i + 1)..(i + Len(inside))
      BY <3>1, <3>2
    <3> QED BY <2>2, <3>3 DEF ChildrenOf
  <2>4. \A k \in DOMAIN inside : files'[i + k].doc = inside[k]
    BY <1>1, <2>2, <2>3
  <2> QED BY <1>1, <1>3, <2>2, <2>4 DEF Complete
<1> QED BY <1>2, <1>3

\* A new record has no children yet.
LEMMA NewIsChildless ==
  ASSUME files \in Seq(Records), NEW r \in Records, files' = Append(files, r),
         \A i \in DOMAIN files : files[i].parent < i,
         NEW m, m = Len(files) + 1, r.parent < m
  PROVE  ChildrenOf(m)' = {}
<1>1. r.parent \in Nat /\ Len(files) \in Nat /\ DOMAIN files = 1..Len(files)
  BY Appended DEF Records
<1>2. r.parent # m
  BY <1>1
<1>3. ChildrenOf(m)' = ChildrenOf(m)
  BY <1>2, Appended
<1>4. ASSUME NEW j \in ChildrenOf(m) PROVE FALSE
  <2>1. j \in 1..Len(files) /\ files[j].parent = Len(files) + 1 /\ files[j].parent < j
    BY <1>1 DEF ChildrenOf
  <2> QED BY <1>1, <2>1
<1> QED BY <1>3, <1>4

\* The record of the next upload extends the order, one of an entry leaves it.
LEMMA OrderGrows ==
  ASSUME files \in Seq(Records), NEW r \in Records, files' = Append(files, r),
         NEW n \in Nat, InOrder(n), r.parent = 0, r.doc = batch[n + 1], UNCHANGED batch
  PROVE  InOrder(n + 1)'
<1>1. PICK place \in [1..n -> DOMAIN files] :
        /\ \A k \in 1..n : files[place[k]].doc = batch[k]
        /\ \A k, l \in 1..n : k < l => place[k] < place[l]
        /\ ChildrenOf(0) = {place[k] : k \in 1..n}
  BY DEF InOrder
<1> DEFINE m == Len(files) + 1
           new == [k \in 1..(n + 1) |-> IF k = n + 1 THEN m ELSE place[k]]
<1>2. /\ DOMAIN files = 1..Len(files) /\ DOMAIN files' = 1..m /\ Len(files) \in Nat
      /\ \A i \in DOMAIN files : files'[i] = files[i]
      /\ files'[m] = r /\ ChildrenOf(0)' = ChildrenOf(0) \cup {m}
  BY Appended
<1>3. /\ 1..(n + 1) = 1..n \cup {n + 1} /\ n + 1 \notin 1..n
      /\ \A k \in 1..n : new[k] = place[k] /\ place[k] \in 1..Len(files)
      /\ new[n + 1] = m
  BY <1>2
<1>4. new \in [1..(n + 1) -> DOMAIN files']
  BY <1>2, <1>3
<1> HIDE DEF new
<1>5. ASSUME NEW k \in 1..(n + 1) PROVE files'[new[k]].doc = batch'[k]
  <2>1. CASE k \in 1..n
    <3>1. new[k] = place[k] /\ place[k] \in DOMAIN files /\ files[place[k]].doc = batch[k]
      BY <1>1, <1>3, <2>1
    <3> QED BY <1>2, <3>1
  <2>2. CASE k = n + 1
    <3>1. new[k] = m
      BY <1>3, <2>2
    <3> QED BY <1>2, <2>2, <3>1
  <2> QED BY <1>3, <2>1, <2>2
<1>6. ASSUME NEW k \in 1..(n + 1), NEW l \in 1..(n + 1), k < l PROVE new[k] < new[l]
  <2>1. k \in 1..n
    BY <1>6
  <2>2. CASE l \in 1..n
    <3>1. place[k] < place[l]
      BY <1>1, <1>6, <2>1, <2>2
    <3> QED BY <1>3, <2>1, <2>2, <3>1
  <2>3. CASE l = n + 1
    <3>1. new[k] \in 1..Len(files) /\ new[l] = Len(files) + 1
      BY <1>3, <2>1, <2>3
    <3> QED BY <1>2, <3>1
  <2> QED BY <1>3, <2>2, <2>3
<1>7. ChildrenOf(0)' = {new[k] : k \in 1..(n + 1)}
  <2>1. {new[k] : k \in 1..(n + 1)} = {place[k] : k \in 1..n} \cup {m}
    <3>1. {new[k] : k \in 1..(n + 1)} = {new[k] : k \in 1..n} \cup {new[n + 1]}
      BY <1>3
    <3>2. {new[k] : k \in 1..n} = {place[k] : k \in 1..n}
      BY <1>3
    <3> QED BY <1>3, <3>1, <3>2
  <2> QED BY <1>1, <1>2, <2>1
<1> QED BY <1>4, <1>5, <1>6, <1>7 DEF InOrder

\* The record of an entry leaves the order of the uploads as it is.
LEMMA OrderStays ==
  ASSUME files \in Seq(Records), NEW r \in Records, files' = Append(files, r),
         NEW n, InOrder(n), r.parent # 0, UNCHANGED batch
  PROVE  InOrder(n)'
<1>1. PICK place \in [1..n -> DOMAIN files] :
        /\ \A k \in 1..n : files[place[k]].doc = batch[k]
        /\ \A k, l \in 1..n : k < l => place[k] < place[l]
        /\ ChildrenOf(0) = {place[k] : k \in 1..n}
  BY DEF InOrder
<1>2. /\ DOMAIN files \subseteq DOMAIN files' /\ ChildrenOf(0)' = ChildrenOf(0)
      /\ \A i \in DOMAIN files : files'[i] = files[i]
  <2>1. \A i \in 1..Len(files) : Len(files) \in Nat => i \in 1..(Len(files) + 1)
    OBVIOUS
  <2>2. DOMAIN files \subseteq DOMAIN files'
    BY <2>1, Appended
  <2>3. ChildrenOf(0)' = ChildrenOf(0)
    BY Appended
  <2> QED BY <2>2, <2>3, Appended
<1>3. place \in [1..n -> DOMAIN files']
  BY <1>2
<1>4. \A k \in 1..n : files'[place[k]].doc = batch'[k]
  <2>1. TAKE k \in 1..n
  <2>2. place[k] \in DOMAIN files
    BY <1>1
  <2> QED BY <1>1, <1>2, <2>2
<1>5. ChildrenOf(0)' = {place[k] : k \in 1..n}
  BY <1>1, <1>2
<1> QED BY <1>1, <1>3, <1>4, <1>5 DEF InOrder

\* ------------------------------------------------------------ the kinds of steps

\* What every file in approved/ and every record has to satisfy.
Passes(d, a) ==
    /\ ~d.infected /\ ~d.excluded /\ d.kind # "symlink"
    /\ ~BadImage(d) /\ ~BadArchive(d)
    /\ a = "expanded" \/ d.kind = "ooxml" => d.defect = "none"
    /\ Policy.executable = "reject" => d.kind # "executable"
    /\ Policy.mismatch = "reject" => ~Mismatched(d)
Flagged(r) ==
    \/ r.doc.kind \notin Policy.allowed
    \/ r.parent # 0 /\ r.doc.kind = "zip"
    => r.warnings \ {"extension_mismatch"} # {}

\* A step that adds record r, of an upload or of an entry of the open archive.
Adds(r) ==
    /\ r \in Records /\ files' = Append(files, r) /\ r.id = Len(files) + 1
    /\ UNCHANGED <<batch, exit>> /\ exit = Running
    /\ pc # "exited" /\ pc' # "exited" /\ ~Deciding' /\ nextID' = r.id
    /\ r.decision = "approved" => Passes(r.doc, r.action)
    /\ r.action = "copied" => Flagged(r)
    /\ IF r.decision = "approved"
       THEN \E o : /\ approved' = approved \cup {o}
                   /\ o.path = r.path /\ o.action = r.action /\ o.content = r.doc
       ELSE UNCHANGED approved
AddsUpload(r) ==
    /\ Adds(r) /\ ~Inside /\ pc # "cleanup"
    /\ r.parent = 0 /\ r.doc = batch[next] /\ r.path = <<next>>
    /\ \/ r.action # "expanded" /\ pc' = "cleanup" /\ UNCHANGED next
       \/ r.action # "expanded" /\ pc' = "upload" /\ next' = next + 1
       \/ /\ r.action = "expanded" /\ pc' = "members" /\ UNCHANGED next
          /\ parent' = r.id /\ members' = r.doc.members
AddsEntry(r) ==
    /\ Adds(r) /\ Inside /\ pc' = "members" /\ UNCHANGED <<next, parent>>
    /\ r.parent = parent /\ r.doc = Member(r.id - parent) /\ r.path = <<next, r.id>>
    /\ r.action # "expanded"
    /\ \/ UNCHANGED members /\ InMember
       \/ pc = "members" /\ members # <<>> /\ members' = Tail(members)

\* A step of another goroutine, or one that goes from one check to the next.
Idles == UNCHANGED <<pc, batch, next, cur, members, parent, nextID, files, approved, exit>>
Moves == /\ Detect \/ Preflight \/ Malware \/ Validate
         /\ Deciding /\ Deciding' /\ UNCHANGED <<cur.id, cur.parent>>
         /\ UNCHANGED <<batch, next, members, parent, nextID, files, approved, exit>>

\* The scan returns.
Ends ==
    /\ pc # "exited" /\ pc' = "exited"
    /\ UNCHANGED <<batch, next, cur, members, parent, files>>
    /\ \/ exit' = Ok /\ pc = "upload" /\ next > Len(batch) /\ UNCHANGED approved
       \/ exit' \in {Input, Dependency, Filesystem, Canceled} /\ approved' = {}

\* The next file is taken in hand.
TakesUpload ==
    /\ pc = "upload" /\ pc' = "detect" /\ cur' = Upload /\ nextID' = nextID + 1
    /\ next <= Len(batch) /\ blob[next] = batch[next] /\ ~batch[next].excluded
    /\ UNCHANGED <<batch, next, members, parent, files, approved, exit>>
TakesEntry ==
    /\ pc = "members" /\ members # <<>> /\ pc' = "detect" /\ nextID' = nextID + 1
    /\ LET d == Head(members) IN
       /\ ~d.excluded /\ d.kind # "symlink"
       /\ cur' = File(nextID + 1, parent, d, d, <<next, nextID + 1>>)
    /\ members' = Tail(members)
    /\ UNCHANGED <<batch, next, parent, files, approved, exit>>

\* The file in hand is decided.
Decides(r) ==
    /\ Deciding /\ Decided /\ files' = Append(files, r)
    /\ UNCHANGED <<batch, next, cur, members, parent, nextID, exit>>
    /\ \/ UNCHANGED approved /\ \E c \in Reasons : r = Record(cur, "rejected", "omitted", c)
       \/ /\ pc = "copy" /\ r = Record(cur, "approved", "copied", "none")
          /\ approved' = approved \cup {Output("copied")}

\* A return is such a step.
LEMMA EndEnds ==
  ASSUME NEW c \in {Input, Dependency, Filesystem, Canceled}, End(c), pc # "exited"
  PROVE  Ends
  BY DEF End, Ends, Ok, Input, Dependency, Filesystem, Canceled, input, archive, account

\* A rejection decides the file in hand.
LEMMA RefuseDecides ==
  ASSUME NEW c \in Reasons, Refuse(c), Deciding
  PROVE  \E r : Decides(r)
<1> DEFINE r == Record(cur, "rejected", "omitted", c)
<1>1. Decides(r)
  BY DEF Refuse, Reject, Decides, input, archive, staged
<1> QED BY <1>1

\* Every step is one of these.
LEMMA StepKinds ==
  ASSUME TypeOK, [Next]_vars
  PROVE  \/ Idles \/ Moves \/ Ends \/ TakesUpload \/ TakesEntry \/ \E r : Decides(r)
         \/ RefuseUpload \/ Expand \/ Cleanup \/ CloseArchive
         \/ TakeMember /\ pc' = "members"
<1> USE DEF input, archive, account, staged
<1>1. CASE RefuseUpload \/ Expand \/ Cleanup \/ CloseArchive
  BY <1>1
<1>2. CASE TakeUpload
  <2>1. CASE Unchanged(batch[next], blob[next])
    <3>1. TakesUpload
      BY <1>2, <2>1 DEF TakeUpload, TakesUpload, Unchanged, UploadReason
    <3> QED BY <3>1
  <2>2. CASE ~Unchanged(batch[next], blob[next])
    BY <1>2, <2>2, EndEnds DEF TakeUpload
  <2> QED BY <2>1, <2>2
<1>3. CASE Detect
  <2>1. CASE TypeReason(cur) # "none"
    BY <1>3, <2>1, TypeReasonInReasons, RefuseDecides DEF Detect, Deciding
  <2>2. CASE TypeReason(cur) = "none"
    <3>1. UNCHANGED <<cur.id, cur.parent>>
      BY <1>3, <2>2 DEF Detect, TypeOK, Files
    <3>2. Moves
      BY <1>3, <2>2, <3>1 DEF Detect, Moves, Deciding
    <3> QED BY <3>2
  <2> QED BY <2>1, <2>2
<1>4. CASE DetectRefuses \/ DetectFails
  <2>1. {"archive_invalid", "image_dimensions_exceeded", "type_detector_error"} \subseteq Reasons
    BY DEF Reasons
  <2>2. Deciding /\ pc # "exited"
    BY <1>4 DEF DetectRefuses, DetectFails, Deciding
  <2>3. \/ End(Dependency) \/ End(Canceled)
        \/ \E c \in {"archive_invalid", "image_dimensions_exceeded", "type_detector_error"} :
              Refuse(c)
    BY <1>4 DEF DetectRefuses, DetectFails
  <2> QED BY <2>1, <2>2, <2>3, RefuseDecides, EndEnds
<1>5. CASE Preflight
  <2>1. CASE Refuse("archive_limit_exceeded")
    <3>1. "archive_limit_exceeded" \in Reasons /\ Deciding
      BY <1>5 DEF Reasons, Preflight, Deciding
    <3> QED BY <2>1, <3>1, RefuseDecides
  <2>2. CASE ~Refuse("archive_limit_exceeded")
    <3>1. Moves
      BY <1>5, <2>2 DEF Preflight, Moves, Deciding
    <3> QED BY <3>1
  <2> QED BY <2>1, <2>2
<1>6. CASE Malware
  <2>1. CASE Refuse("malware_found")
    <3>1. "malware_found" \in Reasons /\ Deciding
      BY <1>6 DEF Reasons, Malware, Deciding
    <3> QED BY <2>1, <3>1, RefuseDecides
  <2>2. CASE ~Refuse("malware_found")
    <3>1. Moves
      BY <1>6, <2>2 DEF Malware, Moves, Deciding
    <3> QED BY <3>1
  <2> QED BY <2>1, <2>2
<1>7. CASE MalwareFails
  <2>1. {"malware_scan_error", "malware_scan_timeout"} \subseteq Reasons
    BY DEF Reasons
  <2>2. Deciding /\ pc # "exited"
    BY <1>7 DEF MalwareFails, Deciding
  <2>3. \/ End(Dependency) \/ End(Canceled)
        \/ \E c \in {"malware_scan_error", "malware_scan_timeout"} : Refuse(c)
    BY <1>7 DEF MalwareFails
  <2> QED BY <2>1, <2>2, <2>3, RefuseDecides, EndEnds
<1>8. CASE InflateFails
  <2> DEFINE r == Record(cur, "rejected", "omitted", "archive_invalid")
  <2>1. "archive_invalid" \in Reasons
    BY DEF Reasons
  <2>2. Decides(r)
    BY <1>8, <2>1 DEF InflateFails, Reject, Decides, Deciding
  <2> QED BY <2>2
<1>9. CASE Validate
  <2>1. CASE Reject(cur, "archive_symlink") /\ Decided
    <3> DEFINE r == Record(cur, "rejected", "omitted", "archive_symlink")
    <3>1. "archive_symlink" \in Reasons
      BY DEF Reasons
    <3>2. Decides(r)
      BY <1>9, <2>1, <3>1 DEF Validate, Reject, Decides, Deciding
    <3> QED BY <3>2
  <2>2. CASE pc' = "copy" /\ UNCHANGED files
    <3>1. Moves
      BY <1>9, <2>2 DEF Validate, Moves, Deciding
    <3> QED BY <3>1
  <2> QED BY <1>9, <2>1, <2>2 DEF Validate
<1>10. CASE Copy
  <2>1. CASE cur.content = cur.doc
    <3> DEFINE r == Record(cur, "approved", "copied", "none")
    <3>1. Decides(r)
      BY <1>10, <2>1 DEF Copy, Approve, Decides, Deciding
    <3> QED BY <3>1
  <2>2. CASE cur.content # cur.doc
    <3>1. (End(Input) \/ End(Filesystem)) /\ pc # "exited"
      BY <1>10, <2>2 DEF Copy
    <3> QED BY <3>1, EndEnds
  <2> QED BY <2>1, <2>2
<1>11. CASE TakeMember
  <2>1. CASE Head(members).kind = "symlink" \/ Head(members).excluded
    BY <1>11, <2>1 DEF TakeMember
  <2>2. CASE ~(Head(members).kind = "symlink" \/ Head(members).excluded)
    <3>1. TakesEntry
      BY <1>11, <2>2 DEF TakeMember, TakesEntry
    <3> QED BY <3>1
  <2> QED BY <2>1, <2>2
<1>12. CASE Publish
  <2>1. CASE scratch = {}
    <3>1. Ends
      BY <1>12, <2>1 DEF Publish, End, Ends
    <3> QED BY <3>1
  <2>2. CASE scratch # {}
    <3>1. End(Filesystem) /\ pc # "exited"
      BY <1>12, <2>2 DEF Publish
    <3> QED BY <3>1, EndEnds
  <2> QED BY <2>1, <2>2
<1>13. CASE Stop \/ IOFails
  <2>1. (End(Canceled) \/ End(Filesystem)) /\ pc # "exited"
    BY <1>13 DEF Stop, IOFails
  <2> QED BY <2>1, EndEnds
<1>14. CASE Cancel \/ Write \/ UNCHANGED vars
  <2>1. Idles
    BY <1>14 DEF Cancel, Write, vars, Idles
  <2> QED BY <2>1
<1> QED BY <1>1, <1>2, <1>3, <1>4, <1>5, <1>6, <1>7, <1>8, <1>9, <1>10, <1>11, <1>12,
           <1>13, <1>14 DEF Next, Step

\* ------------------------------------------------------------ what is recorded

\* A file that has passed all checks may be in approved/, and carries its warnings.
LEMMA CopiedPasses ==
  ASSUME IInv, pc = "copy"
  PROVE  /\ Passes(cur.doc, "copied")
         /\ Flagged(Record(cur, "approved", "copied", "none"))
<1>1. /\ cur.content = cur.doc /\ Checked(cur) /\ ~cur.content.infected
      /\ ~cur.doc.excluded /\ cur.doc.kind # "symlink"
      /\ ~IsArchive(cur) /\ (cur.content.kind = "ooxml" => cur.content.defect # "inflate")
  BY DEF IInv, InHand, Deciding
<1>2. cur.doc.defect \in {"none", "image", "preflight", "inflate"}
  BY DEF IInv, TypeOK, Files, Document, Bytes
<1>3. cur.content.kind = "ooxml" => cur.content.defect = "none"
  BY <1>1, <1>2 DEF Checked, BadImage, BadArchive
<1>4. /\ Policy.executable = "reject" => cur.content.kind # "executable"
      /\ Policy.mismatch = "reject" => ~Mismatched(cur.content)
  BY <1>1 DEF Checked, TypeReason
<1>5. Passes(cur.doc, "copied")
  BY <1>1, <1>3, <1>4 DEF Passes, Checked
<1>6. ASSUME \/ cur.doc.kind \notin Policy.allowed
             \/ cur.parent # 0 /\ cur.doc.kind = "zip"
      PROVE  Warnings(cur) \ {"extension_mismatch"} # {}
  <2>1. CASE cur.parent # 0 /\ cur.doc.kind = "zip"
    <3>1. "nested_archive_not_allowed" \in Warnings(cur)
      BY <1>1, <2>1 DEF Warnings
    <3> QED BY <3>1
  <2>2. CASE cur.doc.kind \notin Policy.allowed
    <3>1. TypeWarning(cur.content.kind) \subseteq Warnings(cur)
      BY <1>1 DEF Warnings
    <3>2. PICK w \in TypeWarning(cur.content.kind) : w # "extension_mismatch"
      BY <1>1, <2>2 DEF TypeWarning
    <3> QED BY <3>1, <3>2
  <2> QED BY <1>6, <2>1, <2>2
<1>7. Flagged(Record(cur, "approved", "copied", "none"))
  BY <1>1, <1>6 DEF Flagged, Record, Checked
<1> QED BY <1>5, <1>7

\* An archive that is expanded has passed all checks.
LEMMA ExpandedPasses ==
  ASSUME IInv, pc = "extract", cur.content.defect # "inflate"
  PROVE  Passes(cur.doc, "expanded")
<1>1. /\ cur.content = cur.doc /\ Checked(cur) /\ ~cur.content.infected
      /\ ~cur.doc.excluded /\ cur.doc.kind # "symlink" /\ IsArchive(cur)
  BY DEF IInv, InHand, Deciding
<1>2. cur.doc.defect \in {"none", "image", "preflight", "inflate"}
  BY DEF IInv, TypeOK, Files, Document, Bytes
<1>3. cur.content.defect = "none"
  BY <1>1, <1>2 DEF Checked, BadImage, BadArchive, IsArchive
<1>4. /\ Policy.executable = "reject" => cur.content.kind # "executable"
      /\ Policy.mismatch = "reject" => ~Mismatched(cur.content)
  BY <1>1 DEF Checked, TypeReason
<1> QED BY <1>1, <1>3, <1>4 DEF Passes, Checked

\* What is decided is added, for an upload or an entry.
LEMMA DecidesAdds ==
  ASSUME IInv, NEW r, Decides(r)
  PROVE  AddsUpload(r) \/ AddsEntry(r)
<1>1. /\ cur.id = nextID /\ cur.content = cur.doc /\ Turn(cur) /\ nextID = Len(files) + 1
      /\ exit = Running /\ pc # "exited" /\ cur \in Files
  BY DEF IInv, InHand, Numbered, Decides, Deciding, TypeOK
<1>2. /\ r.id = cur.id /\ r.parent = cur.parent /\ r.doc = cur.doc /\ r.path = cur.path
      /\ r.action \in {"omitted", "copied"}
      /\ r.decision = "approved" <=> r.action = "copied"
  BY DEF Decides, Record
<1>3. r \in Records
  <2>1. CASE pc = "copy" /\ r = Record(cur, "approved", "copied", "none")
    BY <1>1, <2>1 DEF Files, Records, Record, Reasons
  <2>2. CASE \E c \in Reasons : r = Record(cur, "rejected", "omitted", c)
    BY <1>1, <2>2, RecordType
  <2> QED BY <2>1, <2>2 DEF Decides
<1>4. pc' \in {"cleanup", "members"} /\ ~Deciding'
  BY DEF Decides, Decided, Deciding
<1>5. /\ r.decision = "approved" => Passes(r.doc, r.action)
      /\ r.action = "copied" => Flagged(r)
      /\ IF r.decision = "approved"
         THEN \E o : /\ approved' = approved \cup {o}
                     /\ o.path = r.path /\ o.action = r.action /\ o.content = r.doc
         ELSE UNCHANGED approved
  <2>1. CASE pc = "copy" /\ r = Record(cur, "approved", "copied", "none")
               /\ approved' = approved \cup {Output("copied")}
    <3>1. Passes(r.doc, r.action) /\ Flagged(r)
      BY <1>2, <2>1, CopiedPasses DEF Record
    <3>2. /\ Output("copied").path = r.path /\ Output("copied").action = r.action
          /\ Output("copied").content = r.doc
      BY <1>1, <2>1 DEF Output, Record
    <3>3. \E o : /\ approved' = approved \cup {o}
                 /\ o.path = r.path /\ o.action = r.action /\ o.content = r.doc
      BY <2>1, <3>2
    <3>4. r.decision = "approved"
      BY <2>1 DEF Record
    <3> QED BY <3>1, <3>3, <3>4
  <2>2. CASE UNCHANGED approved /\ \E c \in Reasons : r = Record(cur, "rejected", "omitted", c)
    BY <2>2 DEF Record
  <2> QED BY <2>1, <2>2 DEF Decides
<1>6. Adds(r)
  BY <1>1, <1>2, <1>3, <1>4, <1>5 DEF Adds, Decides
<1>7. CASE cur.parent = 0
  <2>1. r.doc = batch[next] /\ r.path = <<next>> /\ ~Inside /\ pc # "cleanup"
    BY <1>1, <1>2, <1>7 DEF Turn, Inside, InMember, Decides, Deciding
  <2>2. pc' = "cleanup" /\ UNCHANGED next
    BY <1>7 DEF Decides, Decided
  <2> QED BY <1>2, <1>6, <1>7, <2>1, <2>2 DEF AddsUpload
<1>8. CASE cur.parent # 0
  <2>1. /\ r.parent = parent /\ r.doc = Member(r.id - parent) /\ r.path = <<next, r.id>>
        /\ Inside /\ InMember
    BY <1>1, <1>2, <1>8 DEF Turn, Inside, InMember, Decides
  <2>2. pc' = "members" /\ UNCHANGED <<next, parent, members>>
    BY <1>8 DEF Decides, Decided
  <2> QED BY <1>2, <1>6, <2>1, <2>2 DEF AddsEntry
<1> QED BY <1>7, <1>8

\* An archive that is expanded adds the record its entries come behind.
LEMMA ExpandAdds ==
  ASSUME IInv, Expand
  PROVE  \E r : AddsUpload(r)
<1> DEFINE r == Record(cur, "approved", "expanded", "none")
<1>1. /\ cur.id = nextID /\ cur.content = cur.doc /\ Turn(cur) /\ nextID = Len(files) + 1
      /\ exit = Running /\ cur \in Files /\ IsArchive(cur)
      /\ pc = "extract" /\ cur.content.defect # "inflate"
  BY DEF IInv, InHand, Numbered, Expand, Deciding, TypeOK
<1>2. r \in Records
  BY <1>1 DEF Files, Records, Record, Reasons
<1>3. /\ r.id = cur.id /\ r.parent = 0 /\ r.doc = batch[next] /\ r.doc = cur.content
      /\ r.path = <<next>>
      /\ r.action = "expanded" /\ r.decision = "approved"
  BY <1>1 DEF Record, IsArchive, Turn
<1>4. Passes(r.doc, r.action)
  BY <1>1, <1>3, ExpandedPasses
<1>5. /\ Output("expanded").path = r.path /\ Output("expanded").action = r.action
      /\ Output("expanded").content = r.doc
  BY <1>1, <1>3 DEF Output, Turn, IsArchive
<1>6. /\ files' = Append(files, r) /\ pc' = "members" /\ members' = cur.content.members
      /\ parent' = cur.id /\ approved' = approved \cup {Output("expanded")}
      /\ UNCHANGED <<batch, next, cur, nextID, exit>>
  BY DEF Expand, Approve, input
<1> HIDE DEF r
<1>7. Adds(r)
  BY <1>1, <1>2, <1>3, <1>4, <1>5, <1>6 DEF Adds, Deciding
<1>8. ~Inside /\ pc # "cleanup"
  BY <1>1 DEF Inside, InMember, IsArchive
<1>9. AddsUpload(r)
  BY <1>3, <1>6, <1>7, <1>8 DEF AddsUpload
<1> QED BY <1>9

\* An upload or an entry that is refused at once adds its record.
LEMMA RefuseUploadAdds ==
  ASSUME IInv, RefuseUpload
  PROVE  \E r : AddsUpload(r)
<1> DEFINE r == Record(Upload, "rejected", "omitted", UploadReason(batch[next]))
<1>1. /\ pc = "upload" /\ next <= Len(batch) /\ exit = Running /\ nextID = Len(files)
      /\ TypeOK
  <2>1. pc = "upload" /\ next <= Len(batch)
    BY DEF RefuseUpload
  <2>2. TypeOK /\ exit = Running /\ nextID = Len(files) + 0
    BY <2>1 DEF IInv, Numbered, Deciding
  <2>3. Len(files) \in Nat
    BY <2>2 DEF TypeOK
  <2> QED BY <2>1, <2>2, <2>3
<1>2. r \in Records
  <2>1. Upload \in Files
    BY <1>1, UploadType
  <2>2. UploadReason(batch[next]) \in Reasons
    BY DEF UploadReason, Reasons
  <2> QED BY <2>1, <2>2, RecordType
<1>3. /\ r.id = nextID + 1 /\ r.parent = 0 /\ r.doc = batch[next] /\ r.path = <<next>>
      /\ r.action = "omitted" /\ r.decision = "rejected"
  BY DEF Record, Upload, File
<1>4. /\ files' = Append(files, r) /\ nextID' = nextID + 1 /\ next' = next + 1
      /\ UNCHANGED <<pc, batch, approved, exit>>
  BY DEF RefuseUpload, Reject, staged
<1> HIDE DEF r
<1>5. Adds(r)
  BY <1>1, <1>2, <1>3, <1>4 DEF Adds, Deciding
<1>6. ~Inside /\ pc # "cleanup"
  BY <1>1 DEF Inside, InMember, Deciding
<1>7. AddsUpload(r)
  BY <1>1, <1>3, <1>4, <1>5, <1>6 DEF AddsUpload
<1> QED BY <1>7

\* An entry that was not extracted, or has an excluded path, adds its record.
LEMMA RefuseEntryAdds ==
  ASSUME IInv, TakeMember, pc' = "members"
  PROVE  \E r : AddsEntry(r)
<1> DEFINE d == Head(members)
           f == File(nextID + 1, parent, d, d, <<next, nextID + 1>>)
<1>1. /\ pc = "members" /\ members # <<>> /\ exit = Running /\ nextID = Len(files)
      /\ TypeOK
  <2>1. pc = "members" /\ members # <<>>
    BY DEF TakeMember
  <2>2. TypeOK /\ exit = Running /\ nextID = Len(files) + 0
    BY <2>1 DEF IInv, Numbered, Deciding
  <2>3. Len(files) \in Nat
    BY <2>2 DEF TypeOK
  <2> QED BY <2>1, <2>2, <2>3
<1>2. d = Member(nextID + 1 - parent) /\ d \in Document
  <2>1. members \in Seq(Entry) /\ members # <<>> /\ 1 \in DOMAIN members /\ d = members[1]
    BY <1>1 DEF TypeOK
  <2>2. members[1] = Member(nextID - parent + 1)
    BY <1>1, <2>1 DEF IInv, Opened, Inside
  <2>3. nextID \in Nat /\ parent \in Nat /\ nextID - parent + 1 = nextID + 1 - parent
    BY <1>1 DEF TypeOK
  <2>4. d \in Document
    BY <2>1, EntryIsDocument
  <2> QED BY <2>1, <2>2, <2>3, <2>4
<1>3. f \in Files
  <2>1. nextID + 1 \in Nat /\ parent \in Nat /\ next \in Nat
    BY <1>1 DEF TypeOK
  <2>2. <<next, nextID + 1>> \in Seq(Nat)
    BY <2>1
  <2> QED BY <1>2, <2>1, <2>2, FileType
<1>4. PICK c \in {"archive_symlink", "excluded_path"} : Reject(f, c)
  BY <1>1 DEF TakeMember
<1> DEFINE r == Record(f, "rejected", "omitted", c)
<1>5. r \in Records
  BY <1>3, RecordType DEF Reasons
<1>6. /\ r.id = nextID + 1 /\ r.parent = parent /\ r.doc = d /\ r.path = <<next, nextID + 1>>
      /\ r.action = "omitted" /\ r.decision = "rejected"
  BY DEF Record, File
<1>7. /\ files' = Append(files, r) /\ nextID' = nextID + 1 /\ members' = Tail(members)
      /\ UNCHANGED <<batch, next, parent, approved, exit>>
  BY <1>4 DEF TakeMember, Reject, staged, input
<1> HIDE DEF r, d
<1>8. Adds(r)
  BY <1>1, <1>5, <1>6, <1>7 DEF Adds, Deciding
<1>9. AddsEntry(r)
  <2>1. r.doc = Member(r.id - parent) /\ r.path = <<next, r.id>>
    <3>1. r.id = nextID + 1
      BY <1>6
    <3>2. r.id - parent = nextID + 1 - parent
      <4>1. nextID \in Nat /\ parent \in Nat
        BY <1>1 DEF TypeOK
      <4> QED BY <3>1, <4>1
    <3>3. r.doc = Member(r.id - parent)
      BY <1>2, <1>6, <3>2 DEF Member
    <3> QED BY <1>6, <3>1, <3>3
  <2>2. Inside /\ UNCHANGED <<next, parent>> /\ r.parent = parent /\ r.action # "expanded"
    BY <1>1, <1>6, <1>7 DEF Inside
  <2> QED BY <1>1, <1>7, <1>8, <2>1, <2>2 DEF AddsEntry
<1> QED BY <1>9

\* So every step adds a record or leaves the records alone.
LEMMA Kind ==
  ASSUME IInv, [Next]_vars
  PROVE  \/ Idles \/ Moves \/ Ends \/ TakesUpload \/ TakesEntry \/ Cleanup \/ CloseArchive
         \/ \E r : AddsUpload(r) \/ AddsEntry(r)
<1>1. TypeOK
  BY DEF IInv
<1>2. CASE \E r : Decides(r)
  BY <1>2, DecidesAdds
<1> QED BY <1>1, <1>2, StepKinds, ExpandAdds, RefuseUploadAdds, RefuseEntryAdds

\* ------------------------------------------------------------ the invariant is kept

\* IDs.
LEMMA NumberedStays ==
  ASSUME IInv, [Next]_vars
  PROVE  Numbered'
<1>0. /\ TypeOK /\ Numbered /\ files \in Seq(Records) /\ nextID \in Nat /\ Len(files) \in Nat
      /\ pc # "exited" => exit = Running /\ nextID = Len(files) + (IF Deciding THEN 1 ELSE 0)
  BY DEF IInv, Numbered, TypeOK
<1>1. CASE Idles
  BY <1>0, <1>1 DEF Idles, Numbered, Deciding
<1>2. CASE Moves
  BY <1>0, <1>2 DEF Moves, Numbered, Deciding
<1>3. CASE Ends
  BY <1>0, <1>3 DEF Ends, Numbered, Running, Ok, Input, Dependency, Filesystem, Canceled
<1>4. CASE TakesUpload \/ TakesEntry
  <2>1. /\ pc \in {"upload", "members"} /\ pc' = "detect" /\ nextID' = nextID + 1
        /\ UNCHANGED <<files, exit>>
    BY <1>4 DEF TakesUpload, TakesEntry
  <2>2. ~Deciding /\ Deciding'
    BY <2>1 DEF Deciding
  <2>3. nextID' = Len(files) + 1
    BY <1>0, <2>1, <2>2
  <2> QED BY <1>0, <2>1, <2>2, <2>3 DEF Numbered
<1>5. CASE Cleanup \/ CloseArchive
  <2>1. /\ pc \in {"cleanup", "members"} /\ pc' \in {"upload", "cleanup"}
        /\ UNCHANGED <<files, exit, nextID>>
    BY <1>5 DEF Cleanup, CloseArchive
  <2>2. ~Deciding /\ ~Deciding'
    BY <2>1 DEF Deciding
  <2> QED BY <1>0, <2>1, <2>2 DEF Numbered
<1>6. CASE \E r : AddsUpload(r) \/ AddsEntry(r)
  <2>1. PICK r : AddsUpload(r) \/ AddsEntry(r)
    BY <1>6
  <2>2. Adds(r) /\ r \in Records /\ files' = Append(files, r) /\ r.id = Len(files) + 1
    BY <2>1 DEF AddsUpload, AddsEntry, Adds
  <2>3. r.parent \in 0..Len(files)
    <3>1. CASE AddsUpload(r)
      BY <1>0, <3>1 DEF AddsUpload
    <3>2. CASE AddsEntry(r)
      <4>1. r.parent \in DOMAIN files
        BY <3>2 DEF AddsEntry, IInv, Opened
      <4> QED BY <1>0, <4>1
    <3> QED BY <2>1, <3>1, <3>2
  <2>4. /\ DOMAIN files = 1..Len(files) /\ DOMAIN files' = 1..(Len(files) + 1)
        /\ \A i \in DOMAIN files : files'[i] = files[i]
        /\ files'[Len(files) + 1] = r /\ Len(files') = Len(files) + 1
    BY <1>0, <2>2, Appended
  <2>5. ASSUME NEW i \in DOMAIN files' PROVE files'[i].id = i /\ files'[i].parent < i
    <3>1. CASE i \in DOMAIN files
      BY <1>0, <2>4, <3>1 DEF Numbered
    <3>2. CASE i = Len(files) + 1
      <4>1. r.parent < Len(files) + 1
        BY <1>0, <2>3
      <4> QED BY <2>2, <2>4, <3>2, <4>1
    <3>3. i \in DOMAIN files \/ i = Len(files) + 1
      <4>1. Len(files) \in Nat
        BY <1>0
      <4> QED BY <2>4, <4>1
    <3> QED BY <3>1, <3>2, <3>3
  <2>6. exit' = Running /\ pc' # "exited" /\ ~Deciding'
    BY <2>2 DEF Adds
  <2>7. nextID' = Len(files') + 0
    <3>1. nextID' = Len(files')
      BY <2>2, <2>4 DEF Adds
    <3>2. Len(files') \in Nat
      <4>1. Len(files) \in Nat
        BY <1>0
      <4> QED BY <2>4, <4>1
    <3> QED BY <3>1, <3>2
  <2> QED BY <2>5, <2>6, <2>7 DEF Numbered
<1> QED BY <1>1, <1>2, <1>3, <1>4, <1>5, <1>6, Kind

\* Whose turn it is does not depend on the warnings.
LEMMA TurnStays ==
  ASSUME UNCHANGED <<batch, next, parent, nextID, cur.parent, cur.doc, cur.path>>
  PROVE  Turn(cur)' <=> Turn(cur)
  BY DEF Turn, Member

\* Nor do the checks, once the warnings are those of the type.
LEMMA CheckedIs ==
  ASSUME NEW f, NEW g, f.content = g.content, f.parent = g.parent
  PROVE  Warnings(f) = Warnings(g) /\ TypeReason(f) = TypeReason(g)
         /\ IsArchive(f) = IsArchive(g)
  BY DEF Warnings, TypeReason, IsArchive

\* The file in hand.
LEMMA InHandStays ==
  ASSUME IInv, [Next]_vars
  PROVE  InHand'
<1> USE DEF input, archive, account, staged
<1>0. TypeOK /\ InHand /\ Opened /\ Numbered /\ cur \in Files /\ nextID \in Nat
      /\ parent \in Nat /\ Len(files) \in Nat
  BY DEF IInv, TypeOK
<1>1. CASE UNCHANGED <<pc, batch, next, cur, parent, nextID>>
  <2>1. Turn(cur)' <=> Turn(cur)
    BY <1>1, TurnStays
  <2>2. Checked(cur)' <=> Checked(cur)
    BY <1>1 DEF Checked, TypeReason, Warnings, IsArchive, BadImage, BadArchive
  <2>3. IsArchive(cur)' <=> IsArchive(cur)
    BY <1>1 DEF IsArchive
  <2> QED BY <1>0, <1>1, <2>1, <2>2, <2>3 DEF InHand, Deciding
<1>2. CASE ~Deciding'
  BY <1>2 DEF InHand
<1>3. CASE TakesUpload
  <2>1. /\ pc' = "detect" /\ cur' = Upload /\ nextID' = nextID + 1
        /\ blob[next] = batch[next] /\ ~batch[next].excluded /\ UNCHANGED <<batch, next>>
        /\ next <= Len(batch)
    BY <1>3 DEF TakesUpload
  <2>2. /\ cur'.id = nextID + 1 /\ cur'.parent = 0 /\ cur'.doc = batch[next]
        /\ cur'.content = batch[next] /\ cur'.path = <<next>>
    BY <2>1 DEF Upload, File
  <2>3. batch[next].kind # "symlink"
    <3>1. batch \in Batches /\ next \in DOMAIN batch
      BY <1>0, <2>1 DEF IInv, TypeOK
    <3> QED BY <3>1, ScanAssumption
  <2>4. Turn(cur)'
    BY <2>1, <2>2 DEF Turn
  <2> QED BY <2>1, <2>2, <2>3, <2>4 DEF InHand
<1>4. CASE TakesEntry
  <2> DEFINE d == Head(members)
  <2>1. /\ pc = "members" /\ members # <<>> /\ pc' = "detect" /\ nextID' = nextID + 1
        /\ ~d.excluded /\ d.kind # "symlink"
        /\ cur' = File(nextID + 1, parent, d, d, <<next, nextID + 1>>)
        /\ UNCHANGED <<batch, next, parent>>
    BY <1>4 DEF TakesEntry
  <2>2. /\ cur'.id = nextID + 1 /\ cur'.parent = parent /\ cur'.doc = d
        /\ cur'.content = d /\ cur'.path = <<next, nextID + 1>>
    BY <2>1 DEF File
  <2>3. /\ parent \in DOMAIN files /\ nextID = Len(files)
        /\ nextID - parent + Len(members) = Len(batch[next].members)
        /\ \A k \in DOMAIN members : members[k] = Member(nextID - parent + k)
    BY <1>0, <2>1 DEF Opened, Inside, Numbered, Deciding
  <2>4. /\ members \in Seq(Entry) /\ Len(members) \in Nat \ {0} /\ 1 \in DOMAIN members
        /\ d = members[1]
    BY <1>0, <2>1 DEF TypeOK
  <2>5. nextID' - parent = nextID - parent + 1 /\ nextID - parent \in Nat /\ parent # 0
    BY <1>0, <2>1, <2>3 DEF TypeOK
  <2>6. d = Member(nextID' - parent)
    BY <2>3, <2>4, <2>5
  <2>7. nextID' - parent \in DOMAIN batch[next].members
    <3>1. batch[next].members \in Seq(Entry)
      BY <1>0, <2>1, DocumentFields DEF TypeOK
    <3> QED BY <2>3, <2>4, <2>5, <3>1
  <2> HIDE DEF d
  <2>8. Turn(cur)'
    BY <2>1, <2>2, <2>5, <2>6, <2>7 DEF Turn, Member
  <2> QED BY <2>1, <2>2, <2>8 DEF InHand
<1>5. CASE Detect /\ Deciding'
  <2>1. /\ pc = "detect" /\ TypeReason(cur) = "none"
        /\ ~BadImage(cur.content) /\ ~BadArchive(cur.content)
        /\ cur' = [cur EXCEPT !.warnings = Warnings(cur)]
        /\ pc' \in {"preflight", "malware"}
        /\ UNCHANGED <<batch, next, parent, nextID>>
    BY <1>5 DEF Detect, Refuse, Decided, Deciding
  <2>2. /\ UNCHANGED <<cur.id, cur.parent, cur.doc, cur.content, cur.path>>
        /\ cur'.warnings = Warnings(cur)
    BY <1>0, <2>1 DEF Files
  <2>3. Turn(cur)' <=> Turn(cur)
    BY <2>1, <2>2, TurnStays
  <2>4. Checked(cur')
    BY <2>1, <2>2, CheckedIs DEF Checked
  <2>5. Checked(cur)'
    BY <2>4 DEF Checked, TypeReason, Warnings, IsArchive, BadImage, BadArchive
  <2> QED BY <1>0, <2>1, <2>2, <2>3, <2>5 DEF InHand, Deciding
<1>6. CASE (Preflight \/ Malware \/ Validate) /\ Deciding'
  <2>1. /\ pc # "detect" /\ Deciding /\ UNCHANGED <<cur, batch, next, parent, nextID>>
        /\ pc' # "detect"
    BY <1>6 DEF Preflight, Malware, Validate, Refuse, Decided, Deciding
  <2>2. /\ pc' \in {"extract", "validate", "copy"} => ~cur.content.infected
        /\ pc' = "extract" => IsArchive(cur)
        /\ pc' = "validate" => cur.content.kind = "ooxml"
        /\ pc' = "copy" => /\ ~IsArchive(cur)
                           /\ cur.content.kind = "ooxml" => cur.content.defect # "inflate"
    <3>1. CASE Preflight
      <4>1. pc' = "malware"
        BY <1>6, <3>1 DEF Preflight, Refuse, Decided, Deciding
      <4> QED BY <4>1
    <3>2. CASE Malware
      <4>1. /\ ~cur.content.infected
            /\ pc' = CASE IsArchive(cur) -> "extract"
                       [] cur.content.kind = "ooxml" -> "validate"
                       [] OTHER -> "copy"
        BY <1>6, <3>2 DEF Malware, Refuse, Decided, Deciding, Scanned
      <4> QED BY <4>1
    <3>3. CASE Validate
      <4>1. pc = "validate" /\ pc' = "copy" /\ cur.content.defect # "inflate"
        BY <1>6, <3>3 DEF Validate, Decided, Deciding
      <4> QED BY <1>0, <4>1 DEF InHand, Deciding, IsArchive
    <3> QED BY <1>6, <3>1, <3>2, <3>3
  <2>3. Turn(cur)' <=> Turn(cur)
    BY <2>1, TurnStays
  <2>4. Checked(cur)' <=> Checked(cur)
    BY <2>1 DEF Checked, TypeReason, Warnings, IsArchive, BadImage, BadArchive
  <2>5. IsArchive(cur)' <=> IsArchive(cur)
    BY <2>1 DEF IsArchive
  <2> QED BY <1>0, <2>1, <2>2, <2>3, <2>4, <2>5 DEF InHand
<1>7. CASE Idles
  BY <1>1, <1>7 DEF Idles
<1>8. CASE Ends \/ Cleanup \/ CloseArchive \/ \E r : AddsUpload(r) \/ AddsEntry(r)
  <2>1. ~Deciding'
    BY <1>8 DEF Ends, Cleanup, CloseArchive, AddsUpload, AddsEntry, Adds, Deciding
  <2> QED BY <1>2, <2>1
<1> QED BY <1>2, <1>3, <1>4, <1>5, <1>6, <1>7, <1>8, Kind DEF Moves

\* One entry fewer is still to come.
LEMMA TailIs ==
  ASSUME members \in Seq(Entry), members # <<>>, members' = Tail(members), parent \in Nat,
         nextID \in Nat, nextID' = nextID + 1,
         NEW n, nextID - parent + Len(members) = n,
         \A k \in DOMAIN members : members[k] = Member(nextID - parent + k)
  PROVE  /\ nextID' - parent + Len(members') = n
         /\ \A k \in DOMAIN members' : members'[k] = Member(nextID' - parent + k)
<1>1. /\ Len(members) \in Nat /\ Len(members') = Len(members) - 1
      /\ DOMAIN members = 1..Len(members) /\ DOMAIN members' = 1..(Len(members) - 1)
      /\ \A k \in 1..(Len(members) - 1) : members'[k] = members[k + 1]
  OBVIOUS
<1>2. nextID' - parent + Len(members') = n
  BY <1>1
<1>3. ASSUME NEW k \in DOMAIN members'
      PROVE  members'[k] = Member(nextID' - parent + k)
  <2>1. k \in Nat /\ k + 1 \in DOMAIN members /\ members'[k] = members[k + 1]
    BY <1>1
  <2>2. nextID - parent + (k + 1) = nextID' - parent + k
    BY <2>1
  <2> QED BY <2>1, <2>2
<1> QED BY <1>2, <1>3

\* A step that changes no record.
LEMMA RecordsFrame ==
  ASSUME UNCHANGED <<batch, files>>
  PROVE  /\ \A k : ChildrenOf(k)' = ChildrenOf(k) /\ Complete(k)' = Complete(k)
         /\ \A n : InOrder(n)' = InOrder(n)
  BY DEF ChildrenOf, Complete, InOrder

\* The open archive.
LEMMA OpenedStays ==
  ASSUME IInv, [Next]_vars
  PROVE  Opened'
<1>0. /\ TypeOK /\ Opened /\ Numbered /\ files \in Seq(Records) /\ Len(files) \in Nat
      /\ DOMAIN files = 1..Len(files) /\ nextID \in Nat /\ parent \in Nat
  BY DEF IInv, TypeOK
<1>1. CASE Idles \/ Moves
  <2>1. UNCHANGED <<batch, next, members, parent, nextID, files>>
    BY <1>1 DEF Idles, Moves
  <2>2. Inside' => Inside
    BY <1>1 DEF Idles, Moves, Inside, InMember, Deciding
  <2> QED BY <1>0, <2>1, <2>2, RecordsFrame DEF Opened, Member
<1>2. CASE Ends \/ TakesUpload \/ Cleanup \/ CloseArchive
  <2>1. pc' \in {"exited", "upload", "cleanup"} \/ (pc' = "detect" /\ cur'.parent = 0)
    BY <1>2 DEF Ends, TakesUpload, Cleanup, CloseArchive, Upload, File
  <2>2. ~Inside'
    BY <2>1 DEF Inside, InMember, Deciding
  <2> QED BY <2>2 DEF Opened
<1>3. CASE TakesEntry
  <2>1. /\ pc = "members" /\ members # <<>> /\ nextID' = nextID + 1
        /\ members' = Tail(members) /\ UNCHANGED <<batch, next, parent, files>>
    BY <1>3 DEF TakesEntry
  <2>2. /\ parent \in DOMAIN files
        /\ files[parent].action = "expanded" /\ files[parent].doc = batch[next]
        /\ files[parent].path = <<next>>
        /\ ChildrenOf(parent) = (parent + 1)..Len(files)
        /\ \A j \in (parent + 1)..Len(files) : files[j].doc = Member(j - parent)
        /\ nextID - parent + Len(members) = Len(batch[next].members)
        /\ \A k \in DOMAIN members : members[k] = Member(nextID - parent + k)
    BY <1>0, <2>1 DEF Opened, Inside
  <2>3. /\ nextID' - parent + Len(members') = Len(batch[next].members)
        /\ \A k \in DOMAIN members' : members'[k] = Member(nextID' - parent + k)
    BY <1>0, <2>1, <2>2, TailIs DEF TypeOK
  <2> QED BY <2>1, <2>2, <2>3, RecordsFrame DEF Opened, Member
<1>4. CASE \E r : AddsUpload(r)
  <2>1. PICK r : AddsUpload(r)
    BY <1>4
  <2>2. Adds(r) /\ r \in Records /\ files' = Append(files, r) /\ r.id = Len(files) + 1
        /\ nextID' = r.id /\ UNCHANGED batch /\ ~Deciding'
    BY <2>1 DEF AddsUpload, Adds
  <2>3. CASE r.action # "expanded"
    <3>1. pc' # "members"
      BY <2>1, <2>3 DEF AddsUpload
    <3>2. ~Inside'
      BY <2>2, <3>1 DEF Inside, InMember
    <3> QED BY <3>2 DEF Opened
  <2>4. CASE r.action = "expanded"
    <3>1. /\ r.parent = 0 /\ r.doc = batch[next] /\ r.path = <<next>>
          /\ UNCHANGED next /\ parent' = r.id /\ members' = r.doc.members
      BY <2>1, <2>4 DEF AddsUpload
    <3>2. PICK m : m = Len(files) + 1
      OBVIOUS
    <3>3. /\ DOMAIN files' = 1..m /\ files'[m] = r /\ Len(files') = m /\ m \in Nat
          /\ m \in 1..m
      BY <1>0, <2>2, <3>2, Appended
    <3>4. ChildrenOf(m)' = {}
      <4>1. r.parent < m /\ \A i \in DOMAIN files : files[i].parent < i
        <5>1. Len(files) \in Nat /\ \A i \in DOMAIN files : files[i].parent < i
          BY <1>0 DEF Numbered
        <5> QED BY <3>1, <3>2, <5>1
      <4> QED BY <1>0, <2>2, <3>2, <4>1, NewIsChildless
    <3>5. (m + 1)..m = {}
      BY <3>3
    <3>6. parent' = m /\ nextID' = m /\ nextID' - parent' = 0
      BY <2>2, <3>1, <3>2, <3>3
    <3>7. r.doc.members \in Seq(Entry)
      BY DocumentFields, <2>2 DEF Records
    <3>8. /\ nextID' - parent' + Len(members') = Len(batch'[next'].members)
          /\ \A k \in DOMAIN members' : nextID' - parent' + k = k
      BY <2>2, <3>1, <3>6, <3>7
    <3>9. \A k \in DOMAIN members' : members'[k] = batch'[next'].members[nextID' - parent' + k]
      BY <2>2, <3>1, <3>8
    <3>10. ChildrenOf(parent)' = (parent' + 1)..Len(files')
      <4>1. ChildrenOf(parent)' = ChildrenOf(m)'
        BY <3>6 DEF ChildrenOf
      <4> QED BY <3>3, <3>4, <3>5, <3>6, <4>1
    <3>11. \A j \in (parent' + 1)..Len(files') : FALSE
      BY <3>3, <3>5, <3>6
    <3>12. /\ parent' \in DOMAIN files' /\ files'[parent'].action = "expanded"
           /\ files'[parent'].doc = batch'[next'] /\ files'[parent'].path = <<next'>>
      BY <2>2, <2>4, <3>1, <3>3, <3>6
    <3> QED BY <3>8, <3>9, <3>10, <3>11, <3>12 DEF Opened, Member
  <2> QED BY <2>3, <2>4
<1>5. CASE \E r : AddsEntry(r)
  <2>1. PICK r : AddsEntry(r)
    BY <1>5
  <2>2. /\ r \in Records /\ files' = Append(files, r) /\ r.id = Len(files) + 1
        /\ nextID' = r.id /\ UNCHANGED <<batch, next, parent>> /\ ~Deciding' /\ Inside
        /\ r.parent = parent /\ r.doc = Member(r.id - parent)
    BY <2>1 DEF AddsEntry, Adds
  <2>3. /\ parent \in DOMAIN files
        /\ files[parent].action = "expanded" /\ files[parent].doc = batch[next]
        /\ files[parent].path = <<next>>
        /\ ChildrenOf(parent) = (parent + 1)..Len(files)
        /\ \A j \in (parent + 1)..Len(files) : files[j].doc = Member(j - parent)
        /\ nextID - parent + Len(members) = Len(batch[next].members)
        /\ \A k \in DOMAIN members : members[k] = Member(nextID - parent + k)
    BY <1>0, <2>2 DEF Opened
  <2>4. /\ DOMAIN files' = 1..(Len(files) + 1) /\ Len(files') = Len(files) + 1
        /\ \A i \in DOMAIN files : files'[i] = files[i]
        /\ files'[Len(files) + 1] = r
        /\ ChildrenOf(parent)' = ChildrenOf(parent) \cup {Len(files) + 1}
    <3>1. PICK p : p = parent
      OBVIOUS
    <3>2. ChildrenOf(p)' = ChildrenOf(p) \cup {Len(files) + 1}
      BY <1>0, <2>2, <3>1, Appended
    <3>3. ChildrenOf(parent)' = ChildrenOf(p)' /\ ChildrenOf(parent) = ChildrenOf(p)
      BY <2>2, <3>1 DEF ChildrenOf
    <3> QED BY <1>0, <2>2, <3>2, <3>3, Appended
  <2>5. parent \in 1..Len(files) /\ (parent + 1)..(Len(files) + 1) =
          (parent + 1)..Len(files) \cup {Len(files) + 1}
    BY <1>0, <2>3
  <2>6. ChildrenOf(parent)' = (parent + 1)..Len(files')
    BY <2>3, <2>4, <2>5
  <2>7. ASSUME NEW j \in (parent + 1)..Len(files') PROVE files'[j].doc = Member(j - parent)
    <3>1. CASE j \in (parent + 1)..Len(files)
      <4>1. j \in DOMAIN files
        BY <1>0, <2>5, <3>1
      <4> QED BY <2>3, <2>4, <3>1, <4>1
    <3>2. CASE j = Len(files) + 1
      BY <2>2, <2>4, <3>2
    <3>3. j \in (parent + 1)..Len(files) \/ j = Len(files) + 1
      BY <2>4, <2>5
    <3> QED BY <3>1, <3>2, <3>3
  <2>8. /\ nextID' - parent + Len(members') = Len(batch[next].members)
        /\ \A k \in DOMAIN members' : members'[k] = Member(nextID' - parent + k)
    <3>1. CASE UNCHANGED members /\ InMember
      <4>1. nextID = Len(files) + 1
        BY <1>0, <3>1 DEF Numbered, InMember, Deciding
      <4>2. nextID' = nextID
        BY <2>2, <4>1
      <4> QED BY <2>3, <3>1, <4>2
    <3>2. CASE pc = "members" /\ members # <<>> /\ members' = Tail(members)
      <4>1. nextID = Len(files)
        BY <1>0, <3>2 DEF Numbered, Deciding
      <4>2. nextID' = nextID + 1
        BY <2>2, <4>1
      <4> QED BY <1>0, <2>3, <3>2, <4>2, TailIs DEF TypeOK
    <3> QED BY <2>1, <3>1, <3>2 DEF AddsEntry
  <2>9. /\ parent \in DOMAIN files' /\ files'[parent].action = "expanded"
        /\ files'[parent].doc = batch[next] /\ files'[parent].path = <<next>>
    BY <1>0, <2>3, <2>4
  <2> QED BY <2>2, <2>6, <2>7, <2>8, <2>9 DEF Opened, Member
<1> QED BY <1>1, <1>2, <1>3, <1>4, <1>5, Kind

\* The children of every other record.
LEMMA FamiliesStay ==
  ASSUME IInv, [Next]_vars
  PROVE  Families'
<1>0. /\ TypeOK /\ Opened /\ Families /\ Numbered
      /\ files \in Seq(Records) /\ DOMAIN files = 1..Len(files) /\ parent \in Nat
      /\ \A i \in DOMAIN files : files[i].parent < i
  BY DEF IInv, TypeOK, Numbered
<1>00. Len(files) \in Nat
  BY <1>0
<1>1. CASE Idles \/ Moves \/ TakesUpload \/ TakesEntry \/ Cleanup
  <2>1. UNCHANGED <<batch, files, parent, exit>>
    BY <1>1 DEF Idles, Moves, TakesUpload, TakesEntry, Cleanup, input, archive
  <2>2. Inside => Inside'
    <3>1. CASE Idles \/ Moves
      BY <3>1 DEF Idles, Moves, Inside, InMember, Deciding
    <3>2. CASE TakesUpload \/ Cleanup
      BY <3>2 DEF TakesUpload, Cleanup, Inside, InMember, Deciding
    <3>3. CASE TakesEntry
      <4>1. parent # 0
        BY <1>0, <3>3 DEF Opened, Inside, TakesEntry
      <4> QED BY <3>3, <4>1 DEF TakesEntry, Inside, InMember, Deciding, File
    <3> QED BY <1>1, <3>1, <3>2, <3>3
  <2>3. pc' # "exited" \/ exit' = Ok => pc # "exited" \/ exit = Ok
    <3>1. CASE Idles
      BY <3>1 DEF Idles
    <3>2. CASE Moves
      BY <3>2 DEF Moves, Deciding
    <3>3. CASE TakesUpload \/ TakesEntry \/ Cleanup
      BY <3>3 DEF TakesUpload, TakesEntry, Cleanup
    <3> QED BY <1>1, <3>1, <3>2, <3>3
  <2> QED BY <1>0, <2>1, <2>2, <2>3, RecordsFrame DEF Families
<1>2. CASE Ends
  <2>1. CASE exit' = Ok
    <3>1. pc = "upload" /\ UNCHANGED <<batch, files, parent>> /\ ~Inside
      BY <1>2, <2>1 DEF Ends, Inside, InMember, Deciding, Ok, Input, Dependency, Filesystem,
                        Canceled
    <3> QED BY <1>0, <3>1, RecordsFrame DEF Families
  <2>2. CASE exit' # Ok
    BY <1>2, <2>2 DEF Ends, Families
  <2> QED BY <2>1, <2>2
<1>3. CASE CloseArchive
  <2>1. /\ pc = "members" /\ members = <<>> /\ pc' = "cleanup"
        /\ UNCHANGED <<batch, files, parent, exit>> /\ Inside
    BY <1>3 DEF CloseArchive, input, archive, Inside
  <2>2. Complete(parent)
    <3>1. nextID = Len(files) /\ Len(members) = 0
      BY <1>0, <2>1 DEF Numbered, Deciding
    <3>2. /\ parent \in 1..Len(files) /\ files[parent].action = "expanded"
          /\ files[parent].doc = batch[next]
          /\ ChildrenOf(parent) = (parent + 1)..Len(files)
          /\ \A j \in (parent + 1)..Len(files) : files[j].doc = batch[next].members[j - parent]
          /\ nextID - parent + Len(members) = Len(batch[next].members)
      BY <1>0, <2>1 DEF Opened, Member
    <3>3. Len(files) = parent + Len(batch[next].members)
      BY <1>00, <3>1, <3>2
    <3>4. batch[next].members \in Seq(Entry)
      <4>1. batch[next] \in Document
        BY <1>0, <2>1 DEF TypeOK
      <4> QED BY <4>1, DocumentFields
    <3>5. ASSUME NEW k \in DOMAIN batch[next].members
          PROVE  files[parent + k].doc = batch[next].members[k]
      <4>1. k \in 1..Len(batch[next].members)
        BY <3>4
      <4>2. parent + k \in (parent + 1)..Len(files) /\ (parent + k) - parent = k
        <5>1. PICK n : n = Len(batch[next].members)
          OBVIOUS
        <5>2. n \in Nat /\ k \in 1..n /\ Len(files) = parent + n
          BY <3>3, <3>4, <4>1, <5>1
        <5> QED BY <1>0, <5>2
      <4> QED BY <3>2, <4>2
    <3> QED BY <3>2, <3>3, <3>5 DEF Complete
  <2>3. \A i \in DOMAIN files : Complete(i)
    BY <1>0, <2>1, <2>2 DEF Families
  <2> QED BY <2>1, <2>3, RecordsFrame DEF Families
<1>4. CASE \E r : AddsUpload(r) \/ AddsEntry(r)
  <2>1. PICK r : AddsUpload(r) \/ AddsEntry(r)
    BY <1>4
  <2>2. /\ r \in Records /\ files' = Append(files, r) /\ r.id = Len(files) + 1
        /\ pc # "exited" /\ UNCHANGED batch
    BY <2>1 DEF AddsUpload, AddsEntry, Adds
  <2>3. PICK m : m = Len(files) + 1
    OBVIOUS
  <2>4. DOMAIN files' = 1..m /\ files'[m] = r /\ 1..m = 1..Len(files) \cup {m}
    BY <1>0, <1>00, <2>2, <2>3, Appended
  <2>5. r.parent < m /\ r.parent \in 0..Len(files)
    <3>1. r.parent = 0 \/ r.parent \in DOMAIN files
      BY <1>0, <2>1 DEF AddsUpload, AddsEntry, Opened
    <3> QED BY <1>0, <1>00, <2>3, <3>1
  <2>6. \A i \in DOMAIN files : Complete(i) \/ (Inside /\ i = parent)
    BY <1>0, <2>2 DEF Families
  <2>7. ASSUME NEW i \in DOMAIN files PROVE Complete(i)' \/ (Inside' /\ i = parent')
    <3>1. CASE AddsEntry(r) /\ i = parent
      <4>1. Inside' /\ parent' = parent
        BY <3>1 DEF AddsEntry, Inside
      <4> QED BY <3>1, <4>1
    <3>2. CASE ~(AddsEntry(r) /\ i = parent)
      <4>1. Complete(i)
        BY <2>1, <2>6, <3>2 DEF AddsUpload
      <4>2. r.parent # i
        <5>1. CASE AddsEntry(r)
          BY <3>2, <5>1 DEF AddsEntry
        <5>2. CASE AddsUpload(r)
          BY <1>0, <1>00, <5>2 DEF AddsUpload
        <5> QED BY <2>1, <5>1, <5>2
      <4> QED BY <1>0, <2>2, <4>1, <4>2, CompleteStays
    <3> QED BY <3>1, <3>2
  <2>8. Complete(m)' \/ (Inside' /\ m = parent')
    <3>1. CASE r.action = "expanded"
      <4>1. pc' = "members" /\ parent' = r.id
        BY <2>1, <3>1 DEF AddsUpload, AddsEntry
      <4> QED BY <2>2, <2>3, <4>1 DEF Inside
    <3>2. CASE r.action # "expanded"
      <4>1. ChildrenOf(m)' = {}
        BY <1>0, <2>2, <2>3, <2>5, NewIsChildless
      <4> QED BY <2>4, <3>2, <4>1 DEF Complete
    <3> QED BY <3>1, <3>2
  <2>9. \A i \in DOMAIN files' : Complete(i)' \/ (Inside' /\ i = parent')
    BY <1>0, <2>4, <2>7, <2>8
  <2> QED BY <2>9 DEF Families
<1> QED BY <1>1, <1>2, <1>3, <1>4, Kind

\* The order of uploads.
LEMMA SortedStays ==
  ASSUME IInv, [Next]_vars
  PROVE  Sorted'
<1>0. /\ TypeOK /\ Opened /\ Sorted /\ Numbered /\ files \in Seq(Records)
      /\ next \in 1..(Len(batch) + 1) /\ Len(batch) \in Nat
  BY DEF IInv, TypeOK
<1>1. CASE Idles \/ Moves \/ TakesUpload \/ TakesEntry
  <2>1. UNCHANGED <<batch, files, next, exit>>
    BY <1>1 DEF Idles, Moves, TakesUpload, TakesEntry
  <2>2. /\ (Inside \/ pc = "cleanup") <=> (Inside' \/ pc' = "cleanup")
        /\ pc' # "exited" => pc # "exited"
    <3>1. CASE Idles \/ Moves
      BY <3>1 DEF Idles, Moves, Inside, InMember, Deciding
    <3>2. CASE TakesUpload
      BY <3>2 DEF TakesUpload, Inside, InMember, Deciding, Upload, File
    <3>3. CASE TakesEntry
      <4>1. parent # 0
        BY <1>0, <3>3 DEF Opened, Inside, TakesEntry, TypeOK
      <4> QED BY <3>3, <4>1 DEF TakesEntry, Inside, InMember, Deciding, File
    <3> QED BY <1>1, <3>1, <3>2, <3>3
  <2> QED BY <1>0, <2>1, <2>2, RecordsFrame DEF Sorted
<1>2. CASE Ends
  <2>1. CASE exit' = Ok
    <3>1. pc = "upload" /\ UNCHANGED <<batch, files>> /\ next > Len(batch) /\ pc' = "exited"
      BY <1>2, <2>1 DEF Ends, Ok, Input, Dependency, Filesystem, Canceled
    <3>2. next - 1 = Len(batch)
      BY <1>0, <3>1
    <3>3. InOrder(Len(batch))
      BY <1>0, <3>1, <3>2 DEF Sorted, Inside, InMember, Deciding
    <3> QED BY <3>1, <3>3, RecordsFrame DEF Sorted
  <2>2. CASE exit' # Ok
    BY <1>2, <2>2 DEF Ends, Sorted
  <2> QED BY <2>1, <2>2
<1>3. CASE Cleanup
  <2>1. /\ pc = "cleanup" /\ pc' = "upload" /\ next' = next + 1
        /\ UNCHANGED <<batch, files, exit>>
    BY <1>3 DEF Cleanup
  <2>2. next' - 1 = next /\ exit = Running
    BY <1>0, <2>1 DEF Numbered
  <2>3. InOrder(next)
    BY <1>0, <2>1 DEF Sorted
  <2> QED BY <2>1, <2>2, <2>3, RecordsFrame
          DEF Sorted, Inside, InMember, Deciding, Running, Ok
<1>4. CASE CloseArchive
  <2>1. /\ pc = "members" /\ pc' = "cleanup" /\ UNCHANGED <<batch, next, files, exit>>
    BY <1>4 DEF CloseArchive, input
  <2>2. InOrder(next) /\ exit = Running
    BY <1>0, <2>1 DEF Sorted, Inside, Numbered
  <2> QED BY <2>1, <2>2, RecordsFrame DEF Sorted, Running, Ok
<1>5. CASE \E r : AddsUpload(r)
  <2>1. PICK r : AddsUpload(r)
    BY <1>5
  <2>2. /\ r \in Records /\ files' = Append(files, r) /\ UNCHANGED batch /\ exit' = Running
        /\ pc # "exited" /\ ~Deciding' /\ r.parent = 0 /\ r.doc = batch[next]
        /\ ~Inside /\ pc # "cleanup"
    BY <2>1 DEF AddsUpload, Adds
  <2>3. PICK n \in Nat : n + 1 = next
    <3>1. next - 1 \in Nat /\ (next - 1) + 1 = next
      BY <1>0
    <3> QED BY <3>1
  <2>4. next - 1 = n
    BY <2>3
  <2>5. InOrder(n)
    BY <1>0, <2>2, <2>4 DEF Sorted
  <2>6. InOrder(n + 1)'
    BY <1>0, <2>2, <2>3, <2>5, OrderGrows
  <2>7. n + 1 = (IF Inside' \/ pc' = "cleanup" THEN next' ELSE next' - 1)
    <3>1. CASE pc' = "cleanup" /\ UNCHANGED next
      BY <2>3, <3>1
    <3>2. CASE pc' = "upload" /\ next' = next + 1
      BY <2>3, <3>2 DEF Inside, InMember, Deciding
    <3>3. CASE pc' = "members" /\ UNCHANGED next
      BY <2>3, <3>3 DEF Inside
    <3> QED BY <2>1, <3>1, <3>2, <3>3 DEF AddsUpload
  <2> QED BY <2>2, <2>6, <2>7 DEF Sorted, Running, Ok
<1>6. CASE \E r : AddsEntry(r)
  <2>1. PICK r : AddsEntry(r)
    BY <1>6
  <2>2. /\ r \in Records /\ files' = Append(files, r) /\ UNCHANGED <<batch, next>>
        /\ exit' = Running /\ pc # "exited" /\ r.parent = parent /\ Inside /\ pc' = "members"
    BY <2>1 DEF AddsEntry, Adds
  <2>3. InOrder(next)
    BY <1>0, <2>2 DEF Sorted
  <2>4. r.parent # 0
    BY <1>0, <2>2 DEF Opened
  <2>5. PICK n : n = next
    OBVIOUS
  <2>6. InOrder(n)'
    BY <1>0, <2>2, <2>3, <2>4, <2>5, OrderStays
  <2> QED BY <2>2, <2>5, <2>6 DEF Sorted, Inside, Running, Ok
<1> QED BY <1>1, <1>2, <1>3, <1>4, <1>5, <1>6, Kind

\* What the records approve, and what an output has to hold.
ApprovedPaths == {files[i].path : i \in {j \in DOMAIN files : files[j].decision = "approved"}}
Declared(o) ==
    IF Len(o.path) = 1 THEN o.content = batch[o.path[1]]
    ELSE \E i \in DOMAIN files :
           /\ files[i].path = <<o.path[1]>>
           /\ o.path[2] - i \in DOMAIN batch[o.path[1]].members
           /\ o.content = batch[o.path[1]].members[o.path[2] - i]

\* The property in these terms.
LEMMA ApprovedIs ==
  ApprovedIsDeclared <=> (exit \in {Running, Ok} =>
                           /\ {o.path : o \in approved} = ApprovedPaths
                           /\ \A o \in approved : Declared(o))
  BY DEF ApprovedIsDeclared, ApprovedPaths, Declared

\* A record that approves adds its path, one that rejects adds nothing.
LEMMA PathsGrow ==
  ASSUME files \in Seq(Records), NEW r \in Records, files' = Append(files, r)
  PROVE  ApprovedPaths' = ApprovedPaths \cup (IF r.decision = "approved" THEN {r.path} ELSE {})
<1>1. PICK m : m = Len(files) + 1
  OBVIOUS
<1>2. /\ DOMAIN files = 1..Len(files) /\ DOMAIN files' = 1..m
      /\ \A i \in DOMAIN files : files'[i] = files[i]
      /\ files'[m] = r /\ 1..m = 1..Len(files) \cup {m}
  <2>1. 1..(Len(files) + 1) = 1..Len(files) \cup {Len(files) + 1}
    BY Appended
  <2> QED BY <1>1, <2>1, Appended
<1>3. DOMAIN files' = DOMAIN files \cup {m}
  BY <1>2
<1>4. ASSUME NEW p
      PROVE  p \in ApprovedPaths' <=>
               p \in ApprovedPaths \/ (r.decision = "approved" /\ p = r.path)
  <2>1. p \in ApprovedPaths' <=>
          \E i \in DOMAIN files' : files'[i].decision = "approved" /\ p = files'[i].path
    BY DEF ApprovedPaths
  <2>2. p \in ApprovedPaths <=>
          \E i \in DOMAIN files : files[i].decision = "approved" /\ p = files[i].path
    BY DEF ApprovedPaths
  <2> QED BY <1>2, <1>3, <2>1, <2>2
<1> QED BY <1>4

\* An output of an earlier file still holds what was declared.
LEMMA DeclaredStays ==
  ASSUME files \in Seq(Records), NEW r \in Records, files' = Append(files, r),
         UNCHANGED batch, NEW o, Declared(o)
  PROVE  Declared(o)'
<1>1. /\ DOMAIN files \subseteq DOMAIN files'
      /\ \A i \in DOMAIN files : files'[i] = files[i]
  BY Appended
<1> QED BY <1>1 DEF Declared

\* The entry whose record comes next is one of the open archive.
LEMMA EntryTurn ==
  ASSUME IInv, NEW r, AddsEntry(r)
  PROVE  r.id - parent \in DOMAIN batch[next].members
<1>1. /\ TypeOK /\ Opened /\ Inside /\ r.id = Len(files) + 1 /\ nextID \in Nat
      /\ files \in Seq(Records) /\ Len(files) \in Nat /\ parent \in Nat
  BY DEF IInv, AddsEntry, Adds, TypeOK
<1>2. CASE InMember
  <2>1. nextID = r.id /\ Turn(cur) /\ cur.parent # 0
    BY <1>1, <1>2 DEF IInv, Numbered, InHand, InMember, Deciding
  <2> QED BY <2>1 DEF Turn
<1>3. CASE pc = "members" /\ members # <<>>
  <2>1. nextID = Len(files)
    BY <1>1, <1>3 DEF IInv, Numbered, Deciding
  <2>2. parent \in 1..Len(files) /\ nextID - parent + Len(members) = Len(batch[next].members)
    BY <1>1 DEF Opened
  <2>3. members \in Seq(Entry) /\ Len(members) \in Nat \ {0}
    BY <1>1, <1>3 DEF TypeOK
  <2>4. batch[next].members \in Seq(Entry)
    BY <1>1, <1>3, DocumentFields DEF TypeOK
  <2>5. r.id - parent \in 1..Len(batch[next].members)
    BY <1>1, <2>1, <2>2, <2>3
  <2> QED BY <2>4, <2>5
<1> QED BY <1>2, <1>3 DEF AddsEntry

\* What is approved is what was declared.
LEMMA ApprovedStays ==
  ASSUME IInv, [Next]_vars
  PROVE  ApprovedIsDeclared'
<1>0. /\ ApprovedIsDeclared /\ files \in Seq(Records) /\ Opened /\ Numbered
      /\ Len(files) \in Nat /\ next \in Nat
  BY DEF IInv, TypeOK
<1>1. CASE Idles \/ Moves \/ TakesUpload \/ TakesEntry \/ Cleanup \/ CloseArchive
  <2>1. UNCHANGED <<batch, files, approved, exit>>
    BY <1>1 DEF Idles, Moves, TakesUpload, TakesEntry, Cleanup, CloseArchive, input
  <2> QED BY <1>0, <2>1 DEF ApprovedIsDeclared
<1>2. CASE Ends
  <2>1. CASE exit' = Ok
    <3>1. UNCHANGED <<batch, files, approved>> /\ exit = Running
      BY <1>0, <1>2, <2>1 DEF Ends, Numbered, Ok, Input, Dependency, Filesystem, Canceled
    <3> QED BY <1>0, <3>1 DEF ApprovedIsDeclared
  <2>2. CASE exit' # Ok
    <3>1. exit' \notin {Running, Ok}
      BY <1>2, <2>2 DEF Ends, Running, Ok, Input, Dependency, Filesystem, Canceled
    <3> QED BY <3>1 DEF ApprovedIsDeclared
  <2> QED BY <2>1, <2>2
<1>3. CASE \E r : AddsUpload(r) \/ AddsEntry(r)
  <2>1. PICK r : AddsUpload(r) \/ AddsEntry(r)
    BY <1>3
  <2>2. /\ r \in Records /\ files' = Append(files, r) /\ UNCHANGED batch
        /\ exit = Running /\ exit' = Running
        /\ IF r.decision = "approved"
           THEN \E o : /\ approved' = approved \cup {o}
                       /\ o.path = r.path /\ o.action = r.action /\ o.content = r.doc
           ELSE UNCHANGED approved
    BY <2>1 DEF AddsUpload, AddsEntry, Adds
  <2>3. /\ {o.path : o \in approved} = ApprovedPaths
        /\ \A o \in approved : Declared(o)
    BY <1>0, <2>2, ApprovedIs
  <2>4. \A o \in approved : Declared(o)'
    <3>1. TAKE o \in approved
    <3> QED BY <1>0, <2>2, <2>3, DeclaredStays
  <2>5. ASSUME NEW o, o.path = r.path, o.content = r.doc
        PROVE  Declared(o)'
    <3>1. CASE AddsUpload(r)
      <4>1. o.path = <<next>> /\ o.content = batch[next]
        BY <2>5, <3>1 DEF AddsUpload
      <4>2. Len(o.path) = 1 /\ o.path[1] = next
        BY <4>1
      <4> QED BY <2>2, <4>1, <4>2 DEF Declared
    <3>2. CASE AddsEntry(r)
      <4>1. o.path = <<next, r.id>> /\ o.content = batch[next].members[r.id - parent]
        BY <2>5, <3>2 DEF AddsEntry, Member
      <4>2. Len(o.path) = 2 /\ o.path[1] = next /\ o.path[2] = r.id
        BY <4>1
      <4>3. parent \in DOMAIN files /\ files[parent].path = <<next>>
        BY <1>0, <3>2 DEF AddsEntry, Opened
      <4>4. parent \in DOMAIN files' /\ files'[parent].path = <<next>>
        <5>1. DOMAIN files \subseteq DOMAIN files' /\ \A i \in DOMAIN files : files'[i] = files[i]
          BY <1>0, <2>2, Appended
        <5> QED BY <4>3, <5>1
      <4>5. r.id - parent \in DOMAIN batch[next].members
        BY <3>2, EntryTurn
      <4> QED BY <2>2, <4>1, <4>2, <4>4, <4>5 DEF Declared
    <3> QED BY <2>1, <3>1, <3>2
  <2>6. ApprovedPaths' = ApprovedPaths \cup (IF r.decision = "approved" THEN {r.path} ELSE {})
    BY <1>0, <2>2, PathsGrow
  <2>7. CASE r.decision = "approved"
    <3>1. PICK o : /\ approved' = approved \cup {o} /\ o.path = r.path /\ o.content = r.doc
      BY <2>2, <2>7
    <3>2. {a.path : a \in approved'} = {a.path : a \in approved} \cup {r.path}
      BY <3>1
    <3>3. \A a \in approved' : Declared(a)'
      BY <2>4, <2>5, <3>1
    <3> QED BY <2>3, <2>6, <2>7, <3>2, <3>3 DEF ApprovedIsDeclared, ApprovedPaths, Declared
  <2>8. CASE r.decision # "approved"
    <3>1. UNCHANGED approved /\ ApprovedPaths' = ApprovedPaths
      BY <2>2, <2>6, <2>8
    <3> QED BY <2>3, <2>4, <3>1 DEF ApprovedIsDeclared, ApprovedPaths, Declared
  <2> QED BY <2>7, <2>8
<1> QED BY <1>1, <1>2, <1>3, Kind

\* What is in approved/ has passed.
LEMMA PassedStays ==
  ASSUME IInv, [Next]_vars
  PROVE  OnlyPassedFiles'
<1>1. \A o \in approved : Passes(o.content, o.action)
  BY DEF IInv, OnlyPassedFiles, Passes
<1>2. CASE \/ Idles \/ Moves \/ Ends \/ TakesUpload \/ TakesEntry \/ Cleanup \/ CloseArchive
  <2>1. UNCHANGED approved \/ approved' = {}
    BY <1>2 DEF Idles, Moves, Ends, TakesUpload, TakesEntry, Cleanup, CloseArchive
  <2> QED BY <1>1, <2>1 DEF OnlyPassedFiles, Passes, BadImage, BadArchive, Mismatched
<1>3. CASE \E r : AddsUpload(r) \/ AddsEntry(r)
  <2>1. PICK r : Adds(r)
    BY <1>3 DEF AddsUpload, AddsEntry
  <2>2. \A o \in approved' : Passes(o.content, o.action)
    BY <1>1, <2>1 DEF Adds
  <2> QED BY <2>2 DEF OnlyPassedFiles, Passes, BadImage, BadArchive, Mismatched
<1> QED BY <1>2, <1>3, Kind

\* What is copied carries its warnings.
LEMMA RiskStays ==
  ASSUME IInv, [Next]_vars
  PROVE  RiskIsFlagged'
<1>1. /\ \A i \in DOMAIN files : files[i].action = "copied" => Flagged(files[i])
      /\ files \in Seq(Records)
  BY DEF IInv, RiskIsFlagged, Flagged, TypeOK
<1>2. CASE \/ Idles \/ Moves \/ Ends \/ TakesUpload \/ TakesEntry \/ Cleanup \/ CloseArchive
  <2>1. UNCHANGED files
    BY <1>2 DEF Idles, Moves, Ends, TakesUpload, TakesEntry, Cleanup, CloseArchive
  <2> QED BY <1>1, <2>1 DEF RiskIsFlagged, Flagged
<1>3. CASE \E r : AddsUpload(r) \/ AddsEntry(r)
  <2>1. PICK r : Adds(r)
    BY <1>3 DEF AddsUpload, AddsEntry
  <2>2. /\ DOMAIN files' = 1..(Len(files) + 1) /\ DOMAIN files = 1..Len(files)
        /\ Len(files) \in Nat /\ files'[Len(files) + 1] = r
        /\ \A i \in DOMAIN files : files'[i] = files[i]
    BY <1>1, <2>1, Appended DEF Adds
  <2>3. \A i \in DOMAIN files' : i \in DOMAIN files \/ i = Len(files) + 1
    BY <2>2
  <2>4. r.action = "copied" => Flagged(r)
    BY <2>1 DEF Adds
  <2>5. \A i \in DOMAIN files' : files'[i].action = "copied" => Flagged(files'[i])
    BY <1>1, <2>2, <2>3, <2>4
  <2> QED BY <2>5 DEF RiskIsFlagged, Flagged
<1> QED BY <1>2, <1>3, Kind

\* The batch is the one that was loaded.
LEMMA BatchStays ==
  ASSUME IInv, [Next]_vars
  PROVE  (batch \in Batches)'
<1>1. UNCHANGED batch
  <2>1. CASE \E r : AddsUpload(r) \/ AddsEntry(r)
    BY <2>1 DEF AddsUpload, AddsEntry, Adds
  <2> QED BY <2>1, Kind
          DEF Idles, Moves, Ends, TakesUpload, TakesEntry, Cleanup, CloseArchive, input
<1> QED BY <1>1 DEF IInv

\* ------------------------------------------------------------ the theorems

\* The invariant holds before the first upload.
LEMMA InitIInv == Init => IInv
<1> SUFFICES ASSUME Init PROVE IInv
  OBVIOUS
<1>1. /\ batch \in Batches /\ pc = "upload" /\ next = 1 /\ files = <<>> /\ approved = {}
      /\ nextID = 0 /\ exit = Running /\ DOMAIN files = {} /\ Len(files) = 0
  BY DEF Init
<1>2. TypeOK
  BY InitType
<1>3. Numbered /\ InHand /\ Opened /\ Families
  BY <1>1 DEF Numbered, InHand, Opened, Families, Deciding, Inside, InMember, Running
<1>4. Sorted
  <2>1. InOrder(0)
    <3> DEFINE place == [k \in 1..0 |-> 0]
    <3>1. place \in [1..0 -> DOMAIN files] /\ 1..0 = {}
      OBVIOUS
    <3>2. ChildrenOf(0) = {place[k] : k \in 1..0}
      BY <1>1, <3>1 DEF ChildrenOf
    <3> QED BY <3>1, <3>2 DEF InOrder
  <2> QED BY <1>1, <2>1 DEF Sorted, Inside, InMember, Deciding, Running, Ok
<1>5. ApprovedIsDeclared /\ OnlyPassedFiles /\ RiskIsFlagged
  BY <1>1 DEF ApprovedIsDeclared, OnlyPassedFiles, RiskIsFlagged
<1> QED BY <1>1, <1>2, <1>3, <1>4, <1>5 DEF IInv

\* Every step keeps every part of the invariant.
LEMMA StepIInv == IInv /\ [Next]_vars => IInv'
<1> SUFFICES ASSUME IInv, [Next]_vars PROVE IInv'
  OBVIOUS
<1>1. TypeOK'
  BY StepType DEF IInv
<1> QED BY <1>1, BatchStays, NumberedStays, InHandStays, OpenedStays, FamiliesStay,
           SortedStays, ApprovedStays, PassedStays, RiskStays DEF IInv

\* The whole inductive invariant: between any two steps of a scan, records, IDs, the
\* file in hand and the entries to come fit together (scan.go scanner and its loops).
THEOREM LedgerInvariant == Spec => []IInv
  BY InitIInv, StepIInv, PTL DEF Spec

\* The manifest is a ledger: record i has ID i, and a published one has one record
\* for every upload, in their order, and behind that of an expanded archive one for
\* each of its entries (scan.go scanner.reject, approve and processArchive).
THEOREM LedgerKept == Spec => []Ledger
<1>1. IInv => Ledger
  <2> SUFFICES ASSUME IInv PROVE Ledger
    OBVIOUS
  <2>1. CASE exit = Ok
    <3>1. pc = "exited" /\ ~Inside
      BY <2>1 DEF IInv, Numbered, Running, Ok, Inside, InMember, Deciding
    <3> QED BY <2>1, <3>1 DEF IInv, Families, Sorted, Numbered, Ledger
  <2>2. CASE exit # Ok
    BY <2>2 DEF IInv, Numbered, Ledger
  <2> QED BY <2>1, <2>2
<1> QED BY <1>1, LedgerInvariant, PTL

\* approved/ is what the records approve, with the bytes declared in upload.json, at
\* every moment of a scan and whatever a writer does to the quarantine meanwhile:
\* what is checked and copied is the snapshot (scan.go snapshotInput, processUpload).
THEOREM ApprovedAlwaysDeclared == Spec => []ApprovedIsDeclared
<1>1. IInv => ApprovedIsDeclared
  BY DEF IInv
<1> QED BY <1>1, LedgerInvariant, PTL

\* Nothing is in approved/, not even before the publication, that clamd would find,
\* that could not be inspected or that the policy rejects: every path of scan.go from
\* a file in hand to a copy goes through every check.
THEOREM OnlyPassedAlways == Spec => []OnlyPassedFiles
<1>1. IInv => OnlyPassedFiles
  BY DEF IInv
<1> QED BY <1>1, LedgerInvariant, PTL

\* A copied file of a type that is not allowed, or an archive in an archive, has a
\* warning of its own in its record (policy.go warningFor, scan.go processArchiveFile).
THEOREM RiskAlwaysFlagged == Spec => []RiskIsFlagged
<1>1. IInv => RiskIsFlagged
  BY DEF IInv
<1> QED BY <1>1, LedgerInvariant, PTL
=============================================================================
