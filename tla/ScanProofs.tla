----------------------------- MODULE ScanProofs -----------------------------
(***************************************************************************)
(* Theorems about Scan for every batch, policy, limit and set of faults.   *)
(***************************************************************************)
EXTENDS Scan, TLAPS

\* ------------------------------------------------------------ documents

\* An entry of an archive is a document, one without entries of its own.
LEMMA EntryIsDocument == Entry \subseteq Document
<1>1. {<<>>} \subseteq Seq(Entry)
  OBVIOUS
<1> QED BY <1>1 DEF Entry, Document, Bytes

LEMMA NoDocumentIsDocument == NoDocument \in Document
<1>1. <<>> \in Seq(Entry)
  OBVIOUS
<1>2. "plain" \in Kinds
  BY DEF Kinds
<1> QED BY <1>1, <1>2 DEF NoDocument, Document, Bytes

LEMMA DocumentFields ==
  ASSUME NEW d \in Document
  PROVE  d.size \in Nat /\ d.members \in Seq(Entry) /\ d.kind \in Kinds
  BY DEF Document, Bytes

\* Warnings and reasons come from the manifest's vocabulary.
LEMMA WarningsAreCodes ==
  ASSUME NEW f
  PROVE  Warnings(f) \subseteq WarningCodes
<1>1. TypeWarning(f.content.kind) \subseteq WarningCodes
  BY DEF TypeWarning, WarningCodes
<1> QED BY <1>1 DEF Warnings, WarningCodes

LEMMA TypeReasonInReasons ==
  ASSUME NEW f
  PROVE  TypeReason(f) \in Reasons
  BY DEF TypeReason, Reasons

LEMMA RecordType ==
  ASSUME NEW f \in Files, NEW r \in Reasons
  PROVE  Record(f, "rejected", "omitted", r) \in Records
  BY DEF Files, Records, Record

LEMMA FileType ==
  ASSUME NEW i \in Nat, NEW p \in Nat, NEW d \in Document, NEW c \in Document,
         NEW s \in Seq(Nat)
  PROVE  File(i, p, d, c, s) \in Files
  BY DEF File, Files, WarningCodes

LEMMA SumType ==
  ASSUME NEW a \in Nat, NEW b \in Nat
  PROVE  a + b \in Nat
  OBVIOUS

\* ------------------------------------------------------------ type correctness

\* The ways an action decides a file or ends the scan keep the types.
LEMMA AppendRecord ==
  ASSUME NEW r \in Records, NEW s \in Seq(Records)
  PROVE  Append(s, r) \in Seq(Records)
  OBVIOUS

LEMMA RejectType ==
  ASSUME TypeOK, NEW f \in Files, NEW r \in Reasons, Reject(f, r)
  PROVE  files' \in Seq(Records)
<1>1. Record(f, "rejected", "omitted", r) \in Records
  BY RecordType, Zenon
<1>2. files \in Seq(Records)
  BY DEF TypeOK
<1> QED BY <1>1, <1>2, AppendRecord, Zenon DEF Reject

LEMMA ApproveType ==
  ASSUME TypeOK, NEW a \in {"copied", "expanded"}, Approve(cur, a)
  PROVE  files' \in Seq(Records)
<1>1. cur \in Files /\ files \in Seq(Records)
  BY DEF TypeOK
<1>2. Record(cur, "approved", a, "none") \in Records
  BY <1>1 DEF Files, Records, Record, Reasons
<1> QED BY <1>1, <1>2, AppendRecord, Zenon DEF Approve

LEMMA OutputType ==
  ASSUME TypeOK, NEW a \in {"copied", "expanded"}
  PROVE  Output(a) \in Outputs
  BY DEF TypeOK, Output, Outputs, Files

LEMMA EndType ==
  ASSUME TypeOK, NEW c \in {Ok, Input, Dependency, Filesystem, Canceled}, End(c),
         nextID' \in Nat
  PROVE  TypeOK'
  BY DEF TypeOK, End, input, archive, account, staged

LEMMA RefuseType ==
  ASSUME TypeOK, NEW r \in Reasons, Refuse(r), pc \notin {"upload", "exited"}
  PROVE  TypeOK'
<1>1. cur \in Files /\ Reject(cur, r)
  BY DEF Refuse, TypeOK
<1>2. files' \in Seq(Records)
  BY <1>1, RejectType
<1> QED BY <1>2 DEF TypeOK, Refuse, Decided, input, archive, account, staged

LEMMA InitType == Init => TypeOK
<1> SUFFICES ASSUME Init PROVE TypeOK
  OBVIOUS
<1>1. cur \in Files
  <2>1. <<>> \in Seq(Nat)
    OBVIOUS
  <2>2. File(0, 0, NoDocument, NoDocument, <<>>) \in Files
    BY <2>1, NoDocumentIsDocument, FileType
  <2> QED BY <2>2, Zenon DEF Init
<1>2. batch \in Seq(Document)
  BY ScanAssumption DEF Init, ScanAssumption
<1>3. blob \in [DOMAIN batch -> Document] /\ next \in 1..(Len(batch) + 1)
  BY <1>2 DEF Init
<1>4. members \in Seq(Entry) /\ files \in Seq(Records)
  BY DEF Init
<1> QED BY <1>1, <1>2, <1>3, <1>4 DEF Init, TypeOK

LEMMA UploadType ==
  ASSUME TypeOK, next <= Len(batch)
  PROVE  Upload \in Files
<1>1. next \in DOMAIN batch /\ batch[next] \in Document /\ blob[next] \in Document
  BY DEF TypeOK
<1>2. <<next>> \in Seq(Nat) /\ nextID + 1 \in Nat
  BY DEF TypeOK
<1> QED BY <1>1, <1>2, FileType DEF Upload

LEMMA StepType == TypeOK /\ [Next]_vars => TypeOK'
<1> SUFFICES ASSUME TypeOK, [Next]_vars PROVE TypeOK'
  OBVIOUS
<1> USE DEF input, archive, account, staged
<1>1. CASE RefuseUpload
  <2>1. UploadReason(batch[next]) \in Reasons
    BY DEF UploadReason, Reasons
  <2>2. files' \in Seq(Records)
    BY <1>1, <2>1, UploadType, RejectType DEF RefuseUpload
  <2>3. next' \in 1..(Len(batch) + 1)
    BY <1>1 DEF RefuseUpload, TypeOK
  <2> QED BY <1>1, <2>2, <2>3 DEF RefuseUpload, TypeOK
<1>2. CASE TakeUpload
  <2>1. nextID' \in Nat
    BY <1>2 DEF TakeUpload, TypeOK
  <2>2. CASE Unchanged(batch[next], blob[next])
    <3>1. cur' \in Files
      BY <1>2, <2>2, UploadType DEF TakeUpload
    <3> QED BY <1>2, <2>1, <2>2, <3>1 DEF TakeUpload, TypeOK
  <2>3. CASE ~Unchanged(batch[next], blob[next])
    BY <1>2, <2>1, <2>3, EndType DEF TakeUpload
  <2> QED BY <2>2, <2>3
<1>3. CASE Cleanup
  BY <1>3 DEF Cleanup, TypeOK
<1>4. CASE Detect
  <2>1. CASE TypeReason(cur) # "none"
    BY <1>4, <2>1, TypeReasonInReasons, RefuseType DEF Detect
  <2>2. CASE TypeReason(cur) = "none"
    <3>1. cur \in Files /\ Warnings(cur) \in SUBSET WarningCodes
      BY WarningsAreCodes DEF TypeOK
    <3>2. [cur EXCEPT !.warnings = Warnings(cur)] \in Files
      BY <3>1 DEF Files
    <3>3. cur' \in Files
      BY <1>4, <2>2, <3>2 DEF Detect
    <3> QED BY <1>4, <2>2, <3>3 DEF Detect, TypeOK
  <2> QED BY <2>1, <2>2
<1>5. CASE DetectRefuses
  <2>1. {"archive_invalid", "image_dimensions_exceeded"} \subseteq Reasons
    BY DEF Reasons
  <2>2. nextID' \in Nat
    BY <1>5 DEF DetectRefuses, Refuse, TypeOK
  <2> QED BY <1>5, <2>1, <2>2, RefuseType, EndType DEF DetectRefuses
<1>6. CASE Preflight
  <2>1. "archive_limit_exceeded" \in Reasons
    BY DEF Reasons
  <2>2. CASE Refuse("archive_limit_exceeded")
    BY <1>6, <2>1, <2>2, RefuseType DEF Preflight
  <2>3. CASE ~(Remaining <= 0) /\ limit' = Remaining /\ pc' = "malware"
             /\ UNCHANGED <<input, cur, archive, nextID, files, extracted, archiveFiles,
                            staged, ctx, exit>>
    <3>1. limit' \in Nat
      BY <2>3, ScanAssumption DEF ScanAssumption, Remaining, TypeOK
    <3> QED BY <1>6, <2>3, <3>1 DEF Preflight, TypeOK
  <2> QED BY <1>6, <2>2, <2>3 DEF Preflight
<1>7. CASE InflateFails
  <2>1. "archive_invalid" \in Reasons
    BY DEF Reasons
  <2>2. files' \in Seq(Records)
    BY <1>7, <2>1, RejectType DEF InflateFails, TypeOK
  <2>3. extracted' \in Nat
    BY <1>7 DEF InflateFails, TypeOK
  <2> QED BY <1>7, <2>2, <2>3 DEF InflateFails, Decided, TypeOK
<1>8. CASE Expand
  <2>1. files' \in Seq(Records) /\ Output("expanded") \in Outputs
    BY <1>8, ApproveType, OutputType DEF Expand
  <2>2. cur.content \in Document /\ cur.id \in Nat
    BY DEF TypeOK, Files
  <2>3. cur.content.size \in Nat /\ cur.content.members \in Seq(Entry)
    BY <2>2, DocumentFields
  <2>4. Len(cur.content.members) \in Nat
    BY <2>3
  <2>5. approved' \subseteq Outputs
    BY <1>8, <2>1 DEF Expand, TypeOK
  <2>6. extracted \in Nat /\ archiveFiles \in Nat
    BY DEF TypeOK
  <2>7. /\ extracted' = extracted + cur.content.size
        /\ archiveFiles' = archiveFiles + Len(cur.content.members)
        /\ members' = cur.content.members /\ parent' = cur.id
    BY <1>8 DEF Expand
  <2>8. extracted' \in Nat /\ archiveFiles' \in Nat /\ members' \in Seq(Entry)
        /\ parent' \in Nat
    BY <2>2, <2>3, <2>4, <2>6, <2>7, SumType, Zenon
  <2> QED BY <1>8, <2>1, <2>5, <2>8 DEF Expand, TypeOK
<1>9. CASE Validate
  <2>1. "archive_symlink" \in Reasons
    BY DEF Reasons
  <2>2. files' \in Seq(Records)
    BY <1>9, <2>1, RejectType DEF Validate, TypeOK
  <2>3. cur.content.size \in Nat
    BY DocumentFields DEF TypeOK, Files
  <2>4. extracted' \in Nat
    <3>1. extracted \in Nat /\ extracted' = extracted + cur.content.size
      BY <1>9 DEF Validate, TypeOK
    <3> QED BY <2>3, <3>1, SumType, Zenon
  <2>5. pc' \in {"copy", "cleanup", "members"}
    BY <1>9 DEF Validate, Decided
  <2> QED BY <1>9, <2>2, <2>4, <2>5 DEF Validate, TypeOK
<1>10. CASE Malware
  <2>1. "malware_found" \in Reasons
    BY DEF Reasons
  <2> QED BY <1>10, <2>1, RefuseType DEF Malware, TypeOK
<1>11. CASE Copy
  <2>1. CASE cur.content = cur.doc
    <3>1. files' \in Seq(Records) /\ Output("copied") \in Outputs
      BY <1>11, <2>1, ApproveType, OutputType DEF Copy
    <3> QED BY <1>11, <2>1, <3>1 DEF Copy, Decided, TypeOK
  <2>2. CASE cur.content # cur.doc
    BY <1>11, <2>2, EndType DEF Copy, TypeOK
  <2> QED BY <2>1, <2>2
<1>12. CASE TakeMember
  <2> DEFINE d == Head(members)
             f == File(nextID + 1, parent, d, d, <<next, nextID + 1>>)
  <2>1. members \in Seq(Entry) /\ members # <<>>
    BY <1>12 DEF TakeMember, TypeOK
  <2>2. d \in Document /\ members' \in Seq(Entry)
    BY <1>12, <2>1, EntryIsDocument DEF TakeMember
  <2>3. f \in Files
    <3>1. nextID + 1 \in Nat /\ parent \in Nat /\ next \in Nat
      BY DEF TypeOK
    <3>2. <<next, nextID + 1>> \in Seq(Nat)
      BY <3>1
    <3> QED BY <2>2, <3>1, <3>2, FileType
  <2>4. {"archive_symlink", "excluded_path"} \subseteq Reasons
    BY DEF Reasons
  <2>5. files' \in Seq(Records) /\ cur' \in Files /\ pc' \in {pc, "detect"}
    <3>1. CASE d.kind = "symlink" \/ d.excluded
      BY <1>12, <2>3, <2>4, <3>1, RejectType DEF TakeMember, TypeOK
    <3>2. CASE ~(d.kind = "symlink" \/ d.excluded)
      BY <1>12, <2>3, <3>2 DEF TakeMember, TypeOK
    <3> QED BY <3>1, <3>2
  <2> QED BY <1>12, <2>2, <2>5 DEF TakeMember, TypeOK
<1>13. CASE CloseArchive
  BY <1>13 DEF CloseArchive, TypeOK
<1>14. CASE Publish
  BY <1>14, EndType DEF Publish, TypeOK
<1>15. CASE Stop
  BY <1>15, EndType DEF Stop, TypeOK
<1>16. CASE DetectFails
  <2>1. "type_detector_error" \in Reasons
    BY DEF Reasons
  <2> QED BY <1>16, <2>1, RefuseType, EndType DEF DetectFails, TypeOK
<1>17. CASE MalwareFails
  <2>1. {"malware_scan_error", "malware_scan_timeout"} \subseteq Reasons
    BY DEF Reasons
  <2> QED BY <1>17, <2>1, RefuseType, EndType DEF MalwareFails, TypeOK
<1>18. CASE IOFails
  BY <1>18, EndType DEF IOFails, TypeOK
<1>19. CASE Cancel
  BY <1>19 DEF Cancel, TypeOK
<1>20. CASE Write
  <2>1. blob' \in [DOMAIN batch -> Document]
    BY <1>20, ScanAssumption DEF Write, TypeOK, ScanAssumption
  <2> QED BY <1>20, <2>1 DEF Write, TypeOK
<1>21. CASE UNCHANGED vars
  BY <1>21 DEF vars, TypeOK
<1> QED BY <1>1, <1>2, <1>3, <1>4, <1>5, <1>6, <1>7, <1>8, <1>9, <1>10, <1>11, <1>12,
           <1>13, <1>14, <1>15, <1>16, <1>17, <1>18, <1>19, <1>20, <1>21 DEF Next, Step

\* The state keeps its shape: counters stay natural, every record and every file
\* in approved/ is well-formed, the exit code is one the program documents.
THEOREM TypeCorrect == Spec => []TypeOK
  BY InitType, StepType, PTL DEF Spec

\* ------------------------------------------------------------ the budget

LEMMA InitReserved == Init => Reserved
  BY ScanAssumption
     DEF Init, ScanAssumption, Reserved, BudgetHeld, Preflighted

\* A step that inflates nothing and leaves no preflighted container in hand, and
\* one that leaves everything the budget depends on alone.
LEMMA QuietStep ==
  ASSUME Reserved, UNCHANGED extracted, ~Preflighted'
  PROVE  Reserved'
  BY DEF Reserved, BudgetHeld

LEMMA SameStep ==
  ASSUME Reserved, UNCHANGED <<pc, cur, extracted, limit>>
  PROVE  Reserved'
  BY DEF Reserved, BudgetHeld, Preflighted, IsArchive

LEMMA ReservedStep == TypeOK /\ Reserved /\ [Next]_vars => Reserved'
<1> SUFFICES ASSUME TypeOK, Reserved, [Next]_vars PROVE Reserved'
  OBVIOUS
<1> USE DEF account
<1>1. CASE RefuseUpload \/ TakeUpload \/ Cleanup \/ TakeMember \/ CloseArchive
  <2>1. UNCHANGED extracted /\ ~Preflighted'
    BY <1>1 DEF RefuseUpload, TakeUpload, Cleanup, TakeMember, CloseArchive, End,
                Preflighted
  <2> QED BY <2>1, QuietStep
<1>2. CASE DetectRefuses \/ DetectFails \/ MalwareFails
  <2>1. UNCHANGED extracted /\ ~Preflighted'
    BY <1>2 DEF DetectRefuses, DetectFails, MalwareFails, End, Refuse, Decided,
                Preflighted
  <2> QED BY <2>1, QuietStep
<1>3. CASE Copy \/ Publish \/ Stop \/ IOFails
  <2>1. UNCHANGED extracted /\ ~Preflighted'
    BY <1>3 DEF Copy, Publish, Stop, IOFails, End, Decided, Preflighted
  <2> QED BY <2>1, QuietStep
<1>4. CASE Detect
  <2>1. CASE TypeReason(cur) # "none"
    <3>1. UNCHANGED extracted /\ ~Preflighted'
      BY <1>4, <2>1 DEF Detect, Refuse, Decided, Preflighted
    <3> QED BY <3>1, QuietStep
  <2>2. CASE TypeReason(cur) = "none"
    <3>1. cur'.content = cur.content /\ cur'.parent = cur.parent
      BY <1>4, <2>2 DEF Detect, TypeOK, Files
    <3>2. UNCHANGED extracted /\ ~Preflighted'
      BY <1>4, <2>2, <3>1 DEF Detect, Preflighted, IsArchive
    <3> QED BY <3>2, QuietStep
  <2> QED BY <2>1, <2>2
<1>5. CASE Preflight
  <2>1. CASE Refuse("archive_limit_exceeded")
    <3>1. UNCHANGED extracted /\ ~Preflighted'
      BY <2>1 DEF Refuse, Decided, Preflighted
    <3> QED BY <3>1, QuietStep
  <2>2. CASE ~Refuse("archive_limit_exceeded")
    <3>1. /\ limit' = MaxExtracted - extracted
          /\ ~(cur.content.size > MaxExtracted - extracted)
          /\ UNCHANGED <<cur, extracted>>
      BY <1>5, <2>2 DEF Preflight, Remaining
    <3>2. cur.content.size \in Nat /\ extracted \in Nat /\ MaxExtracted \in Nat
      BY DocumentFields, ScanAssumption DEF TypeOK, Files, ScanAssumption
    <3>3. cur'.content.size <= limit' /\ limit' + extracted' <= MaxExtracted
      BY <3>1, <3>2
    <3>4. BudgetHeld'
      BY <3>1 DEF Reserved, BudgetHeld
    <3> QED BY <3>3, <3>4 DEF Reserved
  <2> QED BY <2>1, <2>2
<1>6. CASE Malware
  <2>1. CASE Refuse("malware_found")
    <3>1. UNCHANGED extracted /\ ~Preflighted'
      BY <2>1 DEF Refuse, Decided, Preflighted
    <3> QED BY <3>1, QuietStep
  <2>2. CASE ~Refuse("malware_found")
    <3>1. /\ pc = "malware" /\ UNCHANGED <<cur, extracted, limit>>
          /\ pc' = CASE IsArchive(cur) -> "extract"
                     [] cur.content.kind = "ooxml" -> "validate"
                     [] OTHER -> "copy"
      BY <1>6, <2>2 DEF Malware
    <3>2. Preflighted' => Preflighted
      BY <3>1 DEF Preflighted
    <3> QED BY <3>1, <3>2 DEF Reserved, BudgetHeld
  <2> QED BY <2>1, <2>2
<1>7. CASE InflateFails
  <2>1. PICK n \in 0..limit : extracted' = extracted + n
    BY <1>7 DEF InflateFails
  <2>2. limit + extracted <= MaxExtracted
    BY <1>7 DEF InflateFails, Reserved, Preflighted
  <2>3. limit \in Nat /\ extracted \in Nat /\ MaxExtracted \in Nat
    BY ScanAssumption DEF TypeOK, ScanAssumption
  <2>4. BudgetHeld'
    BY <2>1, <2>2, <2>3 DEF BudgetHeld
  <2>5. ~Preflighted'
    BY <1>7 DEF InflateFails, Decided, Preflighted
  <2> QED BY <2>4, <2>5 DEF Reserved
<1>8. CASE Expand \/ Validate
  <2>1. /\ extracted' = extracted + cur.content.size
        /\ ~Preflighted'
    BY <1>8 DEF Expand, Validate, Decided, Preflighted
  <2>2. cur.content.size <= limit /\ limit + extracted <= MaxExtracted
    BY <1>8 DEF Expand, Validate, Reserved, Preflighted
  <2>3. /\ cur.content.size \in Nat /\ limit \in Nat /\ extracted \in Nat
        /\ MaxExtracted \in Nat
    BY DocumentFields, ScanAssumption DEF TypeOK, Files, ScanAssumption
  <2>4. BudgetHeld'
    BY <2>1, <2>2, <2>3 DEF BudgetHeld
  <2> QED BY <2>1, <2>4 DEF Reserved
<1>9. CASE Cancel \/ Write \/ UNCHANGED vars
  <2>1. UNCHANGED <<pc, cur, extracted, limit>>
    BY <1>9 DEF Cancel, Write, vars
  <2> QED BY <2>1, SameStep
<1> QED BY <1>1, <1>2, <1>3, <1>4, <1>5, <1>6, <1>7, <1>8, <1>9 DEF Next, Step

\* No scan inflates more than max_extracted_total_size, whatever its containers
\* declare and however often they fail (preflightContainer, Extract, validateOOXML).
THEOREM BudgetRespected == Spec => []BudgetHeld
<1>1. Reserved => BudgetHeld
  BY DEF Reserved
<1> QED BY <1>1, InitReserved, ReservedStep, TypeCorrect, PTL DEF Spec

\* ------------------------------------------------------------ the account

LEMMA InitAccounted == Init => Accounted
<1> SUFFICES ASSUME Init PROVE Accounted
  OBVIOUS
<1>1. batch \in Seq(Document) /\ Len(batch) <= MaxDiscovered /\ Len(batch) \in Nat
  BY ScanAssumption DEF Init, ScanAssumption
<1> QED BY <1>1 DEF Init, Accounted, Deciding, InMember, Preflighted

\* The lengths the account is kept in are natural numbers.
LEMMA Lengths ==
  ASSUME TypeOK
  PROVE  /\ Len(batch) \in Nat /\ Len(files) \in Nat /\ Len(members) \in Nat
         /\ archiveFiles \in Nat /\ next \in Nat /\ next <= Len(batch) + 1
         /\ pc \notin {"upload", "exited"} => next <= Len(batch)
  BY DEF TypeOK

LEMMA Recorded ==
  ASSUME TypeOK, NEW r, files' = Append(files, r)
  PROVE  Len(files') = Len(files) + 1
  BY DEF TypeOK

\* Between two files every record and every undecided entry is counted.
LEMMA RestAccounted ==
  ASSUME pc' \in {"upload", "members", "cleanup"},
         Len(files') \in Nat, Len(members') \in Nat,
         Len(files') + Len(members') = archiveFiles' + (IF pc' = "upload" THEN next' - 1
                                                        ELSE next'),
         pc' = "members" \/ members' = <<>>,
         pc' = "members" => parent' # 0,
         Len(batch') + archiveFiles' <= MaxDiscovered,
         Len(files') <= Len(batch') + archiveFiles'
  PROVE  Accounted'
<1>1. ~Deciding' /\ ~InMember' /\ ~Preflighted' /\ pc' # "exited" /\ pc' # "extract"
  BY DEF Deciding, InMember, Preflighted
<1>2. Len(files') + Len(members') + 0 = archiveFiles' + (IF pc' = "upload" THEN next' - 1
                                                         ELSE next')
  OBVIOUS
<1> QED BY <1>1, <1>2 DEF Accounted

\* The file in hand gets its record: an upload is reached, or one entry fewer is
\* undecided.
LEMMA DecideAccounted ==
  ASSUME TypeOK, Accounted, Deciding, Decided, Len(files') = Len(files) + 1,
         UNCHANGED <<batch, next, cur, members, parent, archiveFiles>>
  PROVE  Accounted'
<1>1. next <= Len(batch) /\ pc # "exited"
  BY Lengths DEF Deciding
<1>2. CASE cur.parent = 0
  <2>1. members = <<>> /\ Len(members) = 0
    BY <1>2 DEF Accounted, Deciding, InMember
  <2>2. Len(files) = archiveFiles + next - 1
    BY <1>1, <1>2, <2>1, Lengths DEF Accounted, Deciding, InMember
  <2>3. pc' = "cleanup"
    BY <1>2 DEF Decided
  <2>4. Len(files') = archiveFiles + next /\ Len(files') <= Len(batch) + archiveFiles
    BY <1>1, <2>2, Lengths
  <2> QED BY <2>1, <2>3, <2>4, Lengths, RestAccounted DEF Accounted
<1>3. CASE cur.parent # 0
  <2>1. Len(files) + Len(members) + 1 = archiveFiles + next /\ parent # 0
    BY <1>1, <1>3 DEF Accounted, InMember
  <2>2. pc' = "members"
    BY <1>3 DEF Decided
  <2>3. /\ Len(files') + Len(members) = archiveFiles + next
        /\ Len(files') <= Len(batch) + archiveFiles
    BY <1>1, <2>1, Lengths
  <2> QED BY <2>1, <2>2, <2>3, Lengths, RestAccounted DEF Accounted
<1> QED BY <1>2, <1>3

LEMMA EndAccounted ==
  ASSUME Accounted, NEW c, End(c)
  PROVE  Accounted'
  BY DEF Accounted, End, input, archive, account, Deciding, InMember, Preflighted

LEMMA RefuseAccounted ==
  ASSUME TypeOK, Accounted, Deciding, NEW r, Refuse(r)
  PROVE  Accounted'
<1>1. Len(files') = Len(files) + 1
  BY Recorded DEF Refuse, Reject
<1>2. Decided /\ UNCHANGED <<batch, next, cur, members, parent, archiveFiles>>
  BY DEF Refuse, input, archive, account
<1> QED BY <1>1, <1>2, DecideAccounted

\* The file in hand goes from one check to the next.
LEMMA MoveAccounted ==
  ASSUME Accounted, Deciding, Deciding', UNCHANGED <<cur.id, cur.parent>>,
         UNCHANGED <<batch, next, members, parent, files, archiveFiles>>,
         pc' = "extract" => IsArchive(cur)',
         Preflighted' /\ IsArchive(cur)' => Room(cur.content)'
  PROVE  Accounted'
<1>1. InMember' = InMember
  BY DEF InMember
<1>2. pc \notin {"members", "cleanup", "exited"} /\ pc' \notin {"members", "cleanup", "exited"}
  BY DEF Deciding
<1> QED BY <1>1, <1>2 DEF Accounted

LEMMA AccountedStep == TypeOK /\ TypeOK' /\ Accounted /\ [Next]_vars => Accounted'
<1> SUFFICES ASSUME TypeOK, TypeOK', Accounted, [Next]_vars PROVE Accounted'
  OBVIOUS
<1> USE DEF input, archive, account
<1>1. CASE RefuseUpload
  <2>1. Len(files') = Len(files) + 1
    BY <1>1, Recorded DEF RefuseUpload, Reject
  <2>2. /\ pc = "upload" /\ next <= Len(batch) /\ next' = next + 1
        /\ UNCHANGED <<pc, batch, members, parent, archiveFiles>>
    BY <1>1 DEF RefuseUpload
  <2>3. Len(files) = archiveFiles + next - 1 /\ members = <<>> /\ Len(members) = 0
    BY <2>2, Lengths DEF Accounted, Deciding, InMember
  <2>4. Len(files') = archiveFiles + next' - 1 /\ Len(files') <= Len(batch) + archiveFiles
    BY <2>1, <2>2, <2>3, Lengths
  <2> QED BY <2>2, <2>3, <2>4, Lengths, RestAccounted DEF Accounted
<1>2. CASE TakeUpload
  <2>1. CASE End(Input)
    BY <2>1, EndAccounted
  <2>2. CASE ~End(Input)
    <3>1. /\ pc = "upload" /\ pc' = "detect" /\ cur' = Upload /\ nextID' = nextID + 1
          /\ UNCHANGED <<batch, next, members, parent, files, archiveFiles>>
      BY <1>2, <2>2 DEF TakeUpload
    <3>2. cur'.id = nextID + 1 /\ cur'.parent = 0 /\ nextID \in Nat
      BY <3>1 DEF Upload, File, TypeOK
    <3> QED BY <3>1, <3>2, Lengths DEF Accounted, Deciding, InMember, Preflighted
  <2> QED BY <2>1, <2>2
<1>3. CASE Cleanup
  <2>1. /\ pc = "cleanup" /\ pc' = "upload" /\ next' = next + 1
        /\ UNCHANGED <<batch, members, parent, files, archiveFiles>>
    BY <1>3 DEF Cleanup
  <2>2. Len(files) = archiveFiles + next /\ members = <<>> /\ Len(members) = 0
    BY <2>1, Lengths DEF Accounted, Deciding, InMember
  <2>3. Len(files') = archiveFiles + next' - 1
    BY <2>1, <2>2, Lengths
  <2> QED BY <2>1, <2>2, <2>3, Lengths, RestAccounted DEF Accounted
<1>4. CASE Detect
  <2>1. CASE TypeReason(cur) # "none"
    BY <1>4, <2>1, RefuseAccounted DEF Detect, Deciding
  <2>2. CASE TypeReason(cur) = "none"
    <3>1. UNCHANGED <<cur.id, cur.parent, cur.content>>
      BY <1>4, <2>2 DEF Detect, TypeOK, Files
    <3>2. pc = "detect" /\ UNCHANGED <<batch, next, members, parent, files, archiveFiles>>
      BY <1>4, <2>2 DEF Detect
    <3>3. pc' = IF cur.content.kind = "ooxml" \/ IsArchive(cur) THEN "preflight"
                ELSE "malware"
      BY <1>4, <2>2 DEF Detect
    <3>4. Deciding /\ Deciding' /\ pc' # "extract" /\ ~(Preflighted' /\ IsArchive(cur)')
      BY <3>1, <3>2, <3>3 DEF Deciding, Preflighted, IsArchive
    <3> QED BY <3>1, <3>2, <3>4, MoveAccounted
  <2> QED BY <2>1, <2>2
<1>5. CASE DetectRefuses \/ DetectFails
  BY <1>5, RefuseAccounted, EndAccounted DEF DetectRefuses, DetectFails, Deciding
<1>6. CASE Preflight
  <2>1. CASE Refuse("archive_limit_exceeded")
    BY <1>6, <2>1, RefuseAccounted DEF Preflight, Deciding
  <2>2. CASE ~Refuse("archive_limit_exceeded")
    <3>1. /\ pc = "preflight" /\ pc' = "malware"
          /\ UNCHANGED <<batch, next, cur, members, parent, files, archiveFiles>>
          /\ IsArchive(cur) => Room(cur.content)
      BY <1>6, <2>2 DEF Preflight
    <3>2. Deciding /\ Deciding' /\ UNCHANGED <<cur.id, cur.parent>>
      BY <3>1 DEF Deciding
    <3>3. IsArchive(cur)' => Room(cur.content)'
      BY <3>1 DEF IsArchive, Room
    <3> QED BY <3>1, <3>2, <3>3, MoveAccounted
  <2> QED BY <2>1, <2>2
<1>7. CASE Malware
  <2>1. CASE Refuse("malware_found")
    BY <1>7, <2>1, RefuseAccounted DEF Malware, Deciding
  <2>2. CASE ~Refuse("malware_found")
    <3>1. /\ pc = "malware"
          /\ pc' = CASE IsArchive(cur) -> "extract"
                     [] cur.content.kind = "ooxml" -> "validate"
                     [] OTHER -> "copy"
          /\ UNCHANGED <<batch, next, cur, members, parent, files, archiveFiles>>
      BY <1>7, <2>2 DEF Malware
    <3>2. IsArchive(cur)' = IsArchive(cur) /\ Room(cur.content)' = Room(cur.content)
      BY <3>1 DEF IsArchive, Room
    <3>3. /\ Deciding /\ Deciding' /\ UNCHANGED <<cur.id, cur.parent>>
          /\ pc' = "extract" => IsArchive(cur)
      BY <3>1 DEF Deciding
    <3>4. IsArchive(cur) => Room(cur.content)
      BY <3>1 DEF Accounted, Preflighted
    <3> QED BY <3>1, <3>2, <3>3, <3>4, MoveAccounted
  <2> QED BY <2>1, <2>2
<1>8. CASE InflateFails
  <2>1. Len(files') = Len(files) + 1
    BY <1>8, Recorded DEF InflateFails, Reject
  <2> QED BY <1>8, <2>1, DecideAccounted DEF InflateFails, Deciding
<1>9. CASE Expand
  <2> DEFINE m == cur.content.members
  <2>1. /\ pc = "extract" /\ pc' = "members"
        /\ archiveFiles' = archiveFiles + Len(m) /\ members' = m /\ parent' = cur.id
        /\ UNCHANGED <<batch, next, cur>>
    BY <1>9 DEF Expand
  <2>2. Len(files') = Len(files) + 1
    BY <1>9, Recorded DEF Expand, Approve
  <2>3. Len(m) \in Nat /\ MaxDiscovered \in Nat
    <3>1. m \in Seq(Entry)
      BY DocumentFields DEF TypeOK, Files
    <3> QED BY <3>1, ScanAssumption DEF ScanAssumption
  <2>4. Deciding /\ cur.parent = 0 /\ cur.id # 0 /\ members = <<>>
    BY <2>1 DEF Accounted, Deciding, InMember, IsArchive
  <2>5. Len(m) <= MaxDiscovered - Len(batch) - archiveFiles
    BY <2>1 DEF Accounted, Preflighted, Room
  <2>6. Len(files) = archiveFiles + next - 1
    BY <2>1, <2>4, Lengths DEF Accounted, InMember
  <2> HIDE DEF m
  <2>7. next <= Len(batch) /\ archiveFiles' = archiveFiles + Len(m)
    BY <2>1, Lengths
  <2>8. Len(batch) + archiveFiles' <= MaxDiscovered
    BY <2>3, <2>5, <2>7, Lengths
  <2>9. Len(files') + Len(m) = archiveFiles' + next
    BY <2>2, <2>3, <2>6, <2>7, Lengths, SMTT(20)
  <2>10. Len(files') \in Nat /\ Len(files') <= Len(batch) + archiveFiles'
    BY <2>2, <2>3, <2>6, <2>7, Lengths
  <2> QED BY <2>1, <2>3, <2>4, <2>8, <2>9, <2>10, RestAccounted
<1>10. CASE Validate
  <2>1. CASE pc' = "copy" /\ UNCHANGED files
    BY <1>10, <2>1, MoveAccounted DEF Validate, Deciding, Preflighted
  <2>2. CASE Reject(cur, "archive_symlink") /\ Decided
    <3>1. Len(files') = Len(files) + 1
      BY <2>2, Recorded DEF Reject
    <3> QED BY <1>10, <2>2, <3>1, DecideAccounted DEF Validate, Deciding
  <2> QED BY <1>10, <2>1, <2>2 DEF Validate
<1>11. CASE MalwareFails
  BY <1>11, RefuseAccounted, EndAccounted DEF MalwareFails, Deciding
<1>12. CASE Copy
  <2>1. CASE Approve(cur, "copied") /\ Decided
    <3>1. Len(files') = Len(files) + 1
      BY <2>1, Recorded DEF Approve
    <3>2. Deciding /\ UNCHANGED <<batch, next, cur, members, parent, archiveFiles>>
      BY <1>12, <2>1 DEF Copy, Deciding, End
    <3> QED BY <2>1, <3>1, <3>2, DecideAccounted
  <2> QED BY <1>12, <2>1, EndAccounted DEF Copy
<1>13. CASE TakeMember
  <2>1. /\ pc = "members" /\ members \in Seq(Entry) /\ members # <<>>
        /\ members' = Tail(members)
        /\ UNCHANGED <<batch, next, parent, archiveFiles>>
    BY <1>13 DEF TakeMember, TypeOK
  <2>2. Len(members') = Len(members) - 1
    BY <2>1
  <2>3. parent # 0 /\ Len(files) + Len(members) = archiveFiles + next
    BY <2>1, Lengths DEF Accounted, Deciding, InMember
  <2>4. next <= Len(batch) /\ Len(members') \in Nat
    BY <2>1, <2>2, Lengths
  <2>5. CASE pc' = "members"
    <3>1. Len(files') = Len(files) + 1
      BY <1>13, <2>5, Recorded DEF TakeMember, Reject
    <3>2. /\ Len(files') + Len(members') = archiveFiles + next
          /\ Len(files') \in Nat /\ Len(members') \in Nat
          /\ Len(files') <= Len(batch) + archiveFiles
      BY <2>1, <2>2, <2>3, <2>4, <3>1, Lengths
    <3> QED BY <2>1, <2>3, <2>5, <3>2, RestAccounted DEF Accounted
  <2>6. CASE pc' = "detect" /\ UNCHANGED files
    <3>1. cur'.id = nextID + 1 /\ cur'.parent = parent /\ nextID \in Nat
      BY <1>13, <2>6 DEF TakeMember, File, TypeOK
    <3> QED BY <2>1, <2>2, <2>3, <2>6, <3>1, Lengths
            DEF Accounted, Deciding, InMember, Preflighted
  <2> QED BY <1>13, <2>1, <2>5, <2>6 DEF TakeMember
<1>14. CASE CloseArchive
  <2>1. /\ pc = "members" /\ members = <<>> /\ pc' = "cleanup"
        /\ UNCHANGED <<batch, next, members, parent, files, archiveFiles>>
    BY <1>14 DEF CloseArchive
  <2>2. Len(files) + Len(members) = archiveFiles + next
    BY <2>1, Lengths DEF Accounted, Deciding, InMember
  <2> QED BY <2>1, <2>2, Lengths, RestAccounted DEF Accounted
<1>15. CASE Publish \/ Stop \/ IOFails
  BY <1>15, EndAccounted DEF Publish, Stop, IOFails
<1>16. CASE Cancel \/ Write \/ UNCHANGED vars
  <2>1. UNCHANGED <<pc, batch, next, cur, members, parent, files, archiveFiles>>
    BY <1>16 DEF Cancel, Write, vars
  <2> QED BY <2>1
          DEF Accounted, Deciding, InMember, Preflighted, IsArchive, Room
<1> QED BY <1>1, <1>2, <1>3, <1>4, <1>5, <1>6, <1>7, <1>8, <1>9, <1>10, <1>11, <1>12,
           <1>13, <1>14, <1>15, <1>16 DEF Next, Step

\* The manifest of no scan lists more than max_discovered_files files: the limit
\* preflightContainer checks holds for the records added entry by entry later.
THEOREM DiscoveredRespected == Spec => []DiscoveredBounded
<1>1. TypeOK /\ Accounted => DiscoveredBounded
  BY Lengths, ScanAssumption DEF Accounted, DiscoveredBounded, ScanAssumption
<1> QED BY <1>1, InitAccounted, AccountedStep, TypeCorrect, PTL DEF Spec

==============================================================================
