------------------------------- MODULE MCScan -------------------------------
\* Instances of Scan: batches built from a small set of documents.
EXTENDS Scan, FiniteSets

Of(kind, size, inside) ==
    [NoDocument EXCEPT !.kind = kind, !.size = size, !.members = inside]

plain == NoDocument
secret == [plain EXCEPT !.excluded = TRUE]
large == [plain EXCEPT !.big = TRUE]
renamed == [plain EXCEPT !.mismatch = TRUE]
virus == [plain EXCEPT !.infected = TRUE]
image == [plain EXCEPT !.defect = "image"]
program == Of("executable", 0, <<>>)
link == Of("symlink", 0, <<>>)
macro == Of("macro", 1, <<>>)
rar == Of("rar", 0, <<>>)
docx == Of("ooxml", 1, <<>>)
docxLink == Of("ooxml", 1, <<link>>)
docxTorn == [docx EXCEPT !.defect = "inflate"]
nested == Of("zip", 1, <<>>)
zipFiles == Of("zip", 2, <<plain, link>>)
nestedTorn == [nested EXCEPT !.defect = "inflate"]
zipMixed == Of("zip", 3, <<docx, virus, nestedTorn, secret>>)
zipVirus == [zipFiles EXCEPT !.infected = TRUE]
zipTorn == [zipFiles EXCEPT !.defect = "inflate"]
zipUnsafe == [zipFiles EXCEPT !.defect = "preflight"]
zipBomb == Of("zip", 9, <<plain>>)

Singles == {plain, secret, large, renamed, virus, image, program, macro, rar}
Containers == {docx, docxLink, docxTorn, nested, zipFiles, zipMixed, zipVirus, zipTorn,
               zipUnsafe, zipBomb}

\* Every pair, and containers that exhaust the limits one after the other.
AllPairs == {<<a, b>> : a \in Singles \cup Containers, b \in Singles \cup Containers}
Exhausting == {<<zipMixed, a, b>> : a \in Containers, b \in {docx, zipFiles, nested}}

AllBatches == AllPairs \cup Exhausting

\* Fewer batches for the run with every fault.
SomePairs == {<<a, b>> : a \in {plain, virus, zipFiles, docxTorn, rar, macro},
                         b \in {virus, zipFiles, zipMixed, zipVirus, zipTorn, docx, image}}
             \cup {<<zipMixed, docxTorn, zipFiles>>}
OtherBytes == {plain, zipVirus}

\* A batch for each claim of the README's policy.
OnePair == {<<macro, zipMixed>>, <<rar, plain>>}

Profile == [executable |-> "reject", mismatch |-> "warn", detector |-> "reject",
            malware |-> "reject_batch", zip |-> TRUE, allowed |-> {"plain", "ooxml", "zip"}]
Strict == [Profile EXCEPT !.mismatch = "reject", !.detector = "reject_batch"]
Lenient == [Profile EXCEPT !.executable = "warn", !.malware = "reject"]

NoWriter == {"detector", "clamd"}
NoFault == {}
=============================================================================
