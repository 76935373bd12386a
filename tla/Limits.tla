------------------------------- MODULE Limits -------------------------------
(***************************************************************************)
(* The limits of the configuration and the arithmetic that enforces them.  *)
(* The code never adds or multiplies two numbers it does not trust: it     *)
(* subtracts from a limit or divides it, so that no int64 wraps.  Each     *)
(* operator computes as the code does, with the division that truncates;   *)
(* LimitsProofs shows that it decides the comparison it stands for.        *)
(***************************************************************************)
EXTENDS Integers

\* `size > limit - used`: the size does not fit beside what is used.
Exceeds(size, used, limit) == size > limit - used

\* `a > limit / b`: the product is beyond the limit.
ProductExceeds(a, b, limit) == a > limit \div b

\* ParseByteSize for n of a unit, where largest is the largest int64; the negative
\* number stands for its error.
Overflows == -1
ByteSize(n, multiplier, largest) ==
    IF n > largest \/ ProductExceeds(n, multiplier, largest) THEN Overflows
    ELSE n * multiplier

\* More than maximum bytes for each compressed one.
RatioExceeds(uncompressed, compressed, maximum) ==
    \/ compressed = 0
    \/ LET quotient == uncompressed \div compressed
           remainder == uncompressed % compressed IN
       quotient > maximum \/ (quotient = maximum /\ remainder # 0)

\* ------------------------------------------------------- the configuration

HardMaxFileSize == 268435456      \* 256 MiB
HardMaxExtracted == 1073741824    \* 1 GiB
HardMaxFileCount == 10000

LimitNames == {"MaxInputFiles", "MaxInputFileSize", "MaxInputTotalSize",
               "MaxDiscoveredFiles", "MaxExtractedFileSize", "MaxExtractedTotalSize",
               "MaxArchiveEntries", "MaxCompressionRatio", "MaxPathDepth",
               "MaxRelativePathBytes", "MaxImagePixels", "BatchTimeout",
               "FileScanTimeout"}

\* Limits.validate.
ValidLimits(l) ==
    /\ \A name \in LimitNames : l[name] > 0
    /\ l.MaxInputFileSize <= HardMaxFileSize /\ l.MaxExtractedFileSize <= HardMaxFileSize
    /\ l.MaxExtractedTotalSize <= HardMaxExtracted
    /\ \A name \in {"MaxInputFiles", "MaxDiscoveredFiles", "MaxArchiveEntries"} :
         l[name] <= HardMaxFileCount
    /\ l.MaxInputFileSize <= l.MaxInputTotalSize
    /\ l.MaxExtractedFileSize <= l.MaxExtractedTotalSize

\* extractionLimits: nothing is left for another container.
Exhausted(l, extracted) == l.MaxExtractedTotalSize - extracted <= 0

\* configuredArchiveLimits for what is left.
ArchiveLimits(l, extracted) ==
    [MaxEntries |-> l.MaxArchiveEntries,
     MaxDeclaredBytes |-> l.MaxExtractedTotalSize - extracted,
     MaxFileBytes |-> l.MaxExtractedFileSize,
     MaxTotalBytes |-> l.MaxExtractedTotalSize - extracted,
     MaxCompressionRatio |-> l.MaxCompressionRatio,
     MaxPathDepth |-> l.MaxPathDepth,
     MaxPathBytes |-> l.MaxRelativePathBytes]

\* The archive reader's validateLimits.
UsableLimits(a) == \A name \in DOMAIN a : a[name] > 0
=============================================================================
