------------------------------- MODULE Detect -------------------------------
(***************************************************************************)
(* internal/detect: what the detector makes of one file after libmagic has *)
(* named a MIME type, and detectorFailure in scan.go, which makes of its   *)
(* errors a verdict or an exit code.  Archives are read entry by entry,    *)
(* text unit by unit; the file's context may expire and the batch's end    *)
(* between any two steps.                                                  *)
(***************************************************************************)
EXTENDS Integers, Sequences, SequencesExt, FiniteSets, Limits

CONSTANTS Docs,       \* the files that may be detected
          Policies,   \* values of policy.detector_error
          MaxPixels,  \* limits.max_image_pixels
          Share,      \* text may have one NUL in so many characters: 100 in the code
          Events      \* a subset of {"detector", "timeout", "cancel"}

\* MIME types by what classify does with them: containers (zip, those of OOXML, those
\* of OOXML with macros), pictures decoded by Go or Pillow, types known from the MIME
\* type alone, those that are never text, and all others.
Mimes == {"zip", "ooxml", "macro", "webp", "image", "extended", "known", "denied", "other"}

\* An entry of a container: the directory its name begins with (1 word/, 2 xl/, 4 ppt/)
\* and what else its name or content makes of it.
Roles == {"none", "vba", "jar", "android", "dex", "app", "types", "macrotypes", "badtypes",
          "typesdir"}
Entry == [root : {0, 1, 2, 4}, role : Roles]

\* `preflight` is the archive reader's verdict; `payload` the bytes behind a VP8L
\* signature, `size` the width and height of other pictures; `units` the text in its
\* encoding, where "bad" is a sequence of bytes that encodes nothing.
Doc == [mime : Mimes, preflight : {"none", "archive_invalid", "archive_path_unsafe"},
        entries : Seq(Entry), intact : BOOLEAN, payload : [1..4 -> 0..255],
        size : [1..2 -> Nat],
        encoding : {"utf8", "utf16"},
        units : Seq({"char", "nul", "bad", "high", "low"}),
        extension : {"plain", "source", "data", "never"}]

\* In UTF-8 the encoding of a surrogate is one of nothing.
ASSUME DetectAssumption == /\ Docs \subseteq Doc
                           /\ \A d \in Docs : d.encoding = "utf8" =>
                                d.units \in Seq({"char", "nul", "bad"})
                           /\ Policies \subseteq {"warn", "reject", "reject_file", "reject_batch"}
                           /\ MaxPixels \in Nat /\ Share \in Nat \ {0}
                           /\ Events \subseteq {"detector", "timeout", "cancel"}

VARIABLES pc,        \* control point
          doc,       \* the file
          policy,    \* detector_error
          next,      \* next entry or unit
          roots,     \* the directories seen, as the code's bits
          types,     \* number of content types entries
          flags,     \* what else was seen in the container
          pending,   \* a high surrogate waits for its low one
          runes, nuls, \* counts of the text
          type,      \* the result's type
          err,       \* error returned, "none" if the type holds
          fileCtx,   \* live, canceled or expired
          batchCtx,  \* live or canceled
          reason,    \* why the file is rejected, "none" if it goes on
          code,      \* exit code, Running until decided
          broke      \* libmagic, Pillow or a read failed

given == <<doc, policy>>
zip == <<roots, types, flags>>
text == <<pending, runes, nuls>>
contexts == <<fileCtx, batchCtx>>
decision == <<reason, code>>
vars == <<pc, doc, policy, next, roots, types, flags, pending, runes, nuls, type, err,
          fileCtx, batchCtx, reason, code, broke>>

Running == 1    \* no exit code of the program
Ok == 0
Dependency == 4
Canceled == 6

Init == /\ pc = "magic" /\ doc \in Docs /\ policy \in Policies /\ next = 1
        /\ roots = 0 /\ types = 0 /\ flags = {}
        /\ pending = FALSE /\ runes = 0 /\ nuls = 0
        /\ type = "unknown_binary" /\ err = "none"
        /\ fileCtx = "live" /\ batchCtx = "live"
        /\ reason = "none" /\ code = Running /\ broke = FALSE

Fail(e) == err' = e /\ pc' = "returned"
Done(t) == type' = t /\ pc' = "leaving" /\ UNCHANGED err

\* ------------------------------------------------------------ DetectAs, classify

Magic ==
    /\ pc = "magic" /\ pc' = "classify"
    /\ UNCHANGED <<given, next, zip, text, type, err, contexts, decision, broke>>

\* file(1) or Python fails or says what nobody understands, or the file cannot be read.
DetectorFails ==
    /\ "detector" \in Events /\ fileCtx = "live"
    /\ \/ pc \in {"magic", "text"} /\ Fail("failed")
       \/ pc = "image" /\ Fail("invalid_image")
    /\ broke' = TRUE
    /\ UNCHANGED <<given, next, zip, text, type, contexts, decision>>

IsContainer(mime) == mime \in {"zip", "ooxml", "macro"}
IsImage(mime) == mime \in {"webp", "image", "extended"}

Classify ==
    /\ pc = "classify" /\ fileCtx = "live"
    /\ CASE IsContainer(doc.mime) -> pc' = "preflight" /\ type' = "archive_zip" /\ UNCHANGED err
         [] IsImage(doc.mime) -> pc' = "image" /\ type' = "image" /\ UNCHANGED err
         [] doc.mime = "known" -> Done("known")
         [] doc.mime = "denied" -> Done("unknown_binary")
         [] OTHER -> pc' = "text" /\ UNCHANGED <<type, err>>
    /\ UNCHANGED <<given, next, zip, text, contexts, decision, broke>>

\* ------------------------------------------------------------ containers

Preflight ==
    /\ pc = "preflight" /\ fileCtx = "live"
    /\ IF doc.preflight # "none" THEN Fail(doc.preflight)
       ELSE pc' = "entries" /\ UNCHANGED err
    /\ UNCHANGED <<given, next, zip, text, type, contexts, decision, broke>>

\* Mutant: a bit is added each time.
OrAdds(bits, bit) == bits + bit

\* Bitwise or with 1, 2 or 4.
Or(bits, bit) == IF bit = 0 \/ (bits \div bit) % 2 = 1 THEN bits ELSE bits + bit

\* Mutant: the content types decide about macros alone.
SawLast(role) == IF role = "types" THEN flags \ {"macro"}
                 ELSE IF role \in {"vba", "macrotypes"} THEN flags \cup {"macro"}
                 ELSE flags \cup {role}

\* What inspectZIP remembers of an entry: once macro, always macro.
Saw(role) == IF role \in {"vba", "macrotypes"} THEN flags \cup {"macro"}
             ELSE flags \cup {role}

InspectEntry ==
    /\ pc = "entries" /\ next <= Len(doc.entries) /\ fileCtx = "live"
    /\ LET e == doc.entries[next] IN
       IF e.role \in {"badtypes", "typesdir"}
       THEN /\ Fail(IF e.role = "badtypes" THEN "failed" ELSE "archive_invalid")
            /\ UNCHANGED <<next, zip>>
       ELSE /\ roots' = Or(roots, e.root)
            /\ types' = types + IF e.role \in {"types", "macrotypes"} THEN 1 ELSE 0
            /\ flags' = Saw(e.role)
            /\ next' = next + 1
            /\ UNCHANGED <<pc, err>>
    /\ UNCHANGED <<given, text, type, contexts, decision, broke>>

Container ==
    CASE "macro" \in flags -> "office_macro"
      [] "macro" \notin flags /\ ({"jar", "app"} \cap flags # {} \/ {"android", "dex"} \subseteq flags)
           -> "application_package"
      [] OTHER -> IF types # 1 THEN "archive_zip"
                  ELSE CASE roots = 1 -> "document_docx" [] roots = 2 -> "document_xlsx"
                         [] roots = 4 -> "document_pptx" [] OTHER -> "archive_zip"

\* The end of inspectZIP; a MIME type that declares macros is believed.
InspectEnd ==
    /\ pc = "entries" /\ next > Len(doc.entries)
    /\ Done(IF doc.mime = "macro" THEN "office_macro" ELSE Container)
    /\ UNCHANGED <<given, next, zip, text, contexts, decision, broke>>

\* ------------------------------------------------------------ pictures

\* webPDimensions for a lossless picture: two numbers of 14 bits in four bytes.
VP8L(p) == <<1 + p[1] + (p[2] % 64) * 256,
             1 + p[3] * 4 + p[2] \div 64 + (p[4] % 16) * 1024>>

Dimensions == IF doc.mime = "webp" THEN VP8L(doc.payload) ELSE doc.size

\* Mutant: each side is compared with the limit.
SidesExceed(size) == size[1] > MaxPixels \/ size[2] > MaxPixels

\* The picture has more pixels than the limit; Pillow multiplies, Go divides.
Oversized(size) == IF doc.mime = "extended" THEN size[1] * size[2] > MaxPixels
                   ELSE ProductExceeds(size[1], size[2], MaxPixels)

\* validateImage and validateExtendedImage.
Image ==
    /\ pc = "image" /\ fileCtx = "live"
    /\ IF ~doc.intact \/ Dimensions[1] <= 0 \/ Dimensions[2] <= 0 THEN Fail("invalid_image")
       ELSE IF Oversized(Dimensions) THEN Fail("image_dimensions_exceeded")
       ELSE pc' = "returned" /\ UNCHANGED err
    /\ UNCHANGED <<given, next, zip, text, type, contexts, decision, broke>>

\* ------------------------------------------------------------ text

\* Mutant: a high surrogate is forgotten after any unit.
BadPairLoose(unit) == unit = "low" /\ ~pending

\* UTF-16: after a high surrogate only a low one, and nowhere else one.
BadPair(unit) == pending # (unit = "low")

TextUnit ==
    /\ pc = "text" /\ next <= Len(doc.units)
    /\ LET unit == doc.units[next] IN
       IF unit = "bad" \/ (doc.encoding = "utf16" /\ BadPair(unit))
       THEN Done("unknown_binary") /\ UNCHANGED <<next, text>>
       ELSE /\ pending' = (unit = "high")
            /\ runes' = IF unit = "high" THEN runes ELSE runes + 1
            /\ nuls' = IF unit = "nul" THEN nuls + 1 ELSE nuls
            /\ next' = next + 1
            /\ UNCHANGED <<pc, type, err>>
    /\ UNCHANGED <<given, zip, contexts, decision, broke>>

\* lowNULCount
FewNuls == runes = 0 \/ nuls <= runes \div Share

\* textType
TextType(extension) == CASE extension = "plain" -> "text_plain"
                         [] extension = "source" -> "text_source"
                         [] extension = "data" -> "text_data"
                         [] extension = "never" -> "unknown_binary"

\* The end of the text.
TextEnd ==
    /\ pc = "text" /\ next > Len(doc.units)
    /\ Done(IF pending \/ ~FewNuls THEN "unknown_binary" ELSE TextType(doc.extension))
    /\ UNCHANGED <<given, next, zip, text, contexts, decision, broke>>

\* ------------------------------------------------------------ contexts

\* `return result, ctx.Err()`
Leave ==
    /\ pc = "leaving" /\ pc' = "returned"
    /\ err' = IF fileCtx = "live" THEN "none" ELSE fileCtx
    /\ UNCHANGED <<given, next, zip, text, type, contexts, decision, broke>>

\* The context has ended at one of the many places that look at it; only the archive
\* reader has an error of its own for that. Text is read from a buffer: the end of the
\* context need not be noticed.
Stop ==
    /\ fileCtx # "live"
    /\ \/ pc \in {"magic", "classify", "image", "text"} /\ Fail(fileCtx)
       \/ pc = "entries" /\ next <= Len(doc.entries) /\ Fail(fileCtx)
       \/ pc = "preflight" /\ Fail("archive_canceled")
    /\ UNCHANGED <<given, next, zip, text, type, contexts, decision, broke>>

Timeout ==
    /\ "timeout" \in Events /\ fileCtx = "live" /\ code = Running
    /\ fileCtx' = "expired"
    /\ UNCHANGED <<pc, given, next, zip, text, type, err, batchCtx, decision, broke>>

Cancel ==
    /\ "cancel" \in Events /\ batchCtx = "live" /\ code = Running
    /\ batchCtx' = "canceled"
    /\ fileCtx' = IF fileCtx = "live" THEN "canceled" ELSE fileCtx
    /\ UNCHANGED <<pc, given, next, zip, text, type, err, decision, broke>>

\* ------------------------------------------------------------ detectorFailure

Exit(c) == code' = c /\ UNCHANGED reason
Reject(r) == reason' = r /\ code' = Ok

\* Mutant: a timeout of the file is the batch's, whatever the policy.
FailureOfBatch ==
    IF batchCtx # "live" \/ err \in {"expired", "archive_canceled"} THEN Exit(Canceled)
    ELSE IF err \in {"archive_invalid", "archive_path_unsafe"} THEN Reject(err)
    ELSE IF policy = "reject_batch" THEN Exit(Dependency)
    ELSE Reject(IF err = "image_dimensions_exceeded" THEN err ELSE "type_detector_error")

\* What becomes of the file, or of the batch, when the detector returned an error.
Failure ==
    IF batchCtx # "live" THEN Exit(Canceled)
    ELSE IF err \in {"expired", "archive_canceled"}
    THEN IF policy = "reject_batch" THEN Exit(Canceled) ELSE Reject("type_detector_error")
    ELSE IF err \in {"archive_invalid", "archive_path_unsafe"} THEN Reject(err)
    ELSE IF policy = "reject_batch" THEN Exit(Dependency)
    ELSE Reject(IF err = "image_dimensions_exceeded" THEN err ELSE "type_detector_error")

Decide ==
    /\ pc = "returned" /\ code = Running
    /\ IF err = "none" THEN code' = Ok /\ UNCHANGED reason ELSE Failure
    /\ UNCHANGED <<pc, given, next, zip, text, type, err, contexts, broke>>

Next == \/ Magic \/ DetectorFails \/ Classify
        \/ Preflight \/ InspectEntry \/ InspectEnd
        \/ Image \/ TextUnit \/ TextEnd
        \/ Leave \/ Stop \/ Timeout \/ Cancel \/ Decide

Spec == Init /\ [][Next]_vars

\* ------------------------------------------------------------ properties

Errors == {"none", "failed", "invalid_image", "image_dimensions_exceeded", "canceled",
           "expired", "archive_invalid", "archive_path_unsafe", "archive_canceled"}

\* Types; the counts are those of the units read, and a file with a reason has no type.
TypeOK ==
    /\ pc \in {"magic", "classify", "preflight", "entries", "image", "text", "leaving",
               "returned"}
    /\ err \in Errors /\ fileCtx \in {"live", "canceled", "expired"} /\ batchCtx \in {"live", "canceled"}
    /\ roots \in 0..7 /\ types \in 0..(next - 1) /\ nuls <= runes
    /\ pc = "text" => runes + (IF pending THEN 1 ELSE 0) <= next - 1
    /\ batchCtx # "live" => fileCtx # "live"
    /\ code \in {Running, Ok, Dependency, Canceled}
    /\ code = Ok => (reason = "none" <=> err = "none")

\* The file is classified without an error.
Typed == pc = "returned" /\ err = "none"

RolesOf(d) == {d.entries[k].role : k \in DOMAIN d.entries}
RootsOf(d) == {d.entries[k].root : k \in DOMAIN d.entries} \ {0}
ContentTypes(d, k) == d.entries[k].role \in {"types", "macrotypes"}

\* t is the type of a container with these entries, in whatever order.
ContainerIs(d, t) ==
    LET seen == RolesOf(d) IN
    /\ {"badtypes", "typesdir"} \cap seen = {}
    /\ t = "office_macro" <=> d.mime = "macro" \/ {"vba", "macrotypes"} \cap seen # {}
    /\ t = "application_package" <=>
         /\ t # "office_macro"
         /\ "jar" \in seen \/ "app" \in seen \/ {"android", "dex"} \subseteq seen
    /\ \A x \in {<<"document_docx", 1>>, <<"document_xlsx", 2>>, <<"document_pptx", 4>>} :
         t = x[1] <=> /\ t \notin {"office_macro", "application_package"}
                      /\ RootsOf(d) = {x[2]}
                      /\ \E k \in DOMAIN d.entries :
                           /\ ContentTypes(d, k)
                           /\ \A j \in DOMAIN d.entries : ContentTypes(d, j) => j = k

\* Whatever the order of its entries, a container is typed by the set of them: any sign
\* of a macro makes it a macro document, then any sign of a package a package; it is a
\* document only with one content types entry, readable and free of macros, and the
\* directories of one application.
ContainerTypeIsExact == Typed /\ IsContainer(doc.mime) => ContainerIs(doc, type)

Count(d, unit) == Cardinality({k \in DOMAIN d.units : d.units[k] = unit})

\* Every surrogate has its partner beside it, and of the characters, pairs counted once,
\* no more than the share are NUL.
IsText(d) ==
    LET u == d.units IN
    /\ \A k \in DOMAIN u :
         /\ u[k] # "bad"
         /\ u[k] = "high" => k < Len(u) /\ u[k + 1] = "low"
         /\ u[k] = "low" => k > 1 /\ u[k - 1] = "high"
    /\ Count(d, "nul") * Share <= Len(u) - Count(d, "high")

\* A file typed as text is text to its end, and a file of a permitted extension that is
\* all that is typed as text.
TextIsWellFormed ==
    Typed /\ doc.mime = "other" =>
    (type # "unknown_binary" <=> IsText(doc) /\ doc.extension # "never")

\* The number behind a VP8L signature as RFC 9649 lays it out: 14 bits of width - 1
\* from the least significant, then 14 bits of height - 1.
Packed(p) == p[1] + 256 * p[2] + 65536 * p[3] + 16777216 * (p[4] % 64)
Sides(d) == IF d.mime = "webp"
            THEN <<1 + (Packed(d.payload) % 16384), 1 + ((Packed(d.payload) \div 16384) % 16384)>>
            ELSE d.size

\* A picture is typed only if width times height, computed without a limit on integers,
\* is in the limit, and refused for its dimensions only if not.
ImagesFit ==
    IsImage(doc.mime) =>
    /\ Typed => doc.intact /\ Sides(doc)[1] * Sides(doc)[2] <= MaxPixels
    /\ err = "image_dimensions_exceeded" => Sides(doc)[1] * Sides(doc)[2] > MaxPixels

\* One file cannot end the batch: only under reject_batch does an error of the detector
\* or a timeout of the file, and nothing ends it without a cause.
FailureStaysWithFile ==
    /\ code \in {Dependency, Canceled} =>
         batchCtx # "live" \/ policy = "reject_batch"
    /\ code = Canceled => fileCtx # "live"
    /\ code = Dependency => \/ broke \/ err = "image_dimensions_exceeded"
                            \/ "badtypes" \in RolesOf(doc) \/ ~doc.intact \/ 0 \in ToSet(doc.size)
=============================================================================
