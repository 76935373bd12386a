---------------------------- MODULE LimitsProofs ----------------------------
(***************************************************************************)
(* What the arithmetic of Limits decides, for all numbers.                 *)
(***************************************************************************)
EXTENDS Limits, FiniteSetTheorems, TLAPS

\* A set of natural numbers that is not empty has a least one.
LEMMA LeastOf ==
    ASSUME NEW T \in SUBSET Nat, T # {}
    PROVE \E n \in T : \A m \in T : n <= m
  <1> DEFINE U == {1..n : n \in T}
  <1>1. U \subseteq FiniteSubsetsOf(Nat) BY FS_Interval DEF FiniteSubsetsOf
  <1>2. IsWellFoundedOn(StrictSubsetOrdering(Nat), FiniteSubsetsOf(Nat))
    BY FS_StrictSubsetOrderingWellFounded
  <1>3. U # {} OBVIOUS
  <1> HIDE DEF U
  <1>4. PICK x \in U : \A y \in U : ~(<<y, x>> \in StrictSubsetOrdering(Nat))
    BY <1>1, <1>2, <1>3, WFMin
  <1> USE DEF U
  <1>5. PICK n \in T : x = 1..n OBVIOUS
  <1>6. ASSUME NEW m \in T, ~(n <= m) PROVE FALSE
    <2>1. 1..m \subseteq 1..n /\ n \in 1..n /\ n \notin 1..m BY <1>6
    <2>2. <<1..m, x>> \in StrictSubsetOrdering(Nat) BY <1>5, <2>1 DEF StrictSubsetOrdering
    <2> QED BY <1>4, <2>2
  <1> QED BY <1>6

\* The subtraction decides whether the sum is beyond the limit, which the code must
\* not compute: it could wrap. The difference cannot while the limit is kept.
THEOREM ExceedsIsExact ==
    ASSUME NEW size \in Nat, NEW used \in Nat, NEW limit \in Nat
    PROVE  /\ Exceeds(size, used, limit) <=> used + size > limit
           /\ used <= limit => limit - used \in 0..limit
PROOF BY SMT DEF Exceeds

\* Truncating division splits a number into a multiple and a remainder.
LEMMA DivMod ==
    ASSUME NEW n \in Nat, NEW m \in Nat \ {0}
    PROVE  /\ n \div m \in Nat /\ n % m \in Nat
           /\ n % m < m
           /\ n = m * (n \div m) + (n % m)
PROOF BY SMTT(30)

\* Multiplication by a natural number keeps an order.
LEMMA Monotone ==
    ASSUME NEW a \in Nat, NEW b \in Nat, NEW m \in Nat, a <= b
    PROVE  m * a <= m * b
PROOF BY SMTT(30)

\* q is the quotient of n by m exactly when n lies between two multiples of m, so
\* comparing with it is comparing with n.
LEMMA Quotient ==
    ASSUME NEW n \in Nat, NEW m \in Nat \ {0}, NEW a \in Nat
    PROVE  a > n \div m <=> m * a > n
<1> DEFINE q == n \div m
<1>1. q \in Nat /\ n % m \in Nat /\ n % m < m /\ n = m * q + (n % m)
  BY DivMod
<1> HIDE DEF q
<1>2. ASSUME a > q PROVE m * a > n
  <2>1. m * (q + 1) <= m * a
    BY <1>1, <1>2, Monotone
  <2>2. m * (q + 1) = m * q + m
    BY <1>1, SMTT(30)
  <2>3. m * q \in Nat /\ m * a \in Nat /\ m * (q + 1) \in Nat
    BY <1>1, SMTT(30)
  <2> QED
    BY <1>1, <2>1, <2>2, <2>3, SMT
<1>3. ASSUME ~ (a > q) PROVE ~ (m * a > n)
  <2>1. m * a <= m * q
    BY <1>1, <1>3, Monotone
  <2>2. m * q \in Nat /\ m * a \in Nat
    BY <1>1, SMTT(30)
  <2> QED
    BY <1>1, <2>1, <2>2, SMT
<1> QED
  BY <1>2, <1>3 DEF q

\* The division decides whether the product is beyond the limit: a picture of a
\* width and a height is refused exactly when it has more pixels than the limit.
THEOREM ProductIsExact ==
    ASSUME NEW a \in Nat, NEW b \in Nat \ {0}, NEW limit \in Nat
    PROVE  ProductExceeds(a, b, limit) <=> b * a > limit
PROOF BY Quotient DEF ProductExceeds

\* ParseByteSize reports an overflow exactly when the size is not an int64, and
\* returns the size otherwise.
THEOREM ByteSizeIsExact ==
    ASSUME NEW n \in Nat, NEW multiplier \in Nat \ {0}, NEW largest \in Nat
    PROVE  ByteSize(n, multiplier, largest) =
             IF multiplier * n > largest THEN Overflows ELSE multiplier * n
<1>1. ProductExceeds(n, multiplier, largest) <=> multiplier * n > largest
  BY ProductIsExact
<1>2. n * multiplier = multiplier * n
  BY SMTT(30)
<1>3. n > largest => multiplier * n > largest
  <2> SUFFICES ASSUME n > largest PROVE multiplier * n > largest
    OBVIOUS
  <2>1. n * 1 <= n * multiplier
    BY Monotone
  <2>2. n * 1 = n /\ n * multiplier \in Nat
    BY SMTT(30)
  <2> QED
    BY <1>2, <2>1, <2>2, SMT
<1> QED
  BY <1>1, <1>2, <1>3 DEF ByteSize

\* An entry exceeds the ratio exactly when it has more bytes than its compressed ones
\* allow; one without compressed bytes is only compared when it has some.
THEOREM RatioIsExact ==
    ASSUME NEW uncompressed \in Nat \ {0}, NEW compressed \in Nat, NEW maximum \in Nat
    PROVE  RatioExceeds(uncompressed, compressed, maximum) <=>
             uncompressed > compressed * maximum
<1>1. CASE compressed = 0
  <2>1. compressed * maximum = 0
    BY <1>1, SMT
  <2> QED
    BY <1>1, <2>1, SMT DEF RatioExceeds
<1>2. CASE compressed # 0
  <2> DEFINE q == uncompressed \div compressed
             r == uncompressed % compressed
  <2>1. /\ q \in Nat /\ r \in Nat /\ r < compressed
        /\ uncompressed = compressed * q + r
    BY <1>2, DivMod
  <2>2. RatioExceeds(uncompressed, compressed, maximum) <=>
          q > maximum \/ (q = maximum /\ r # 0)
    BY <1>2 DEF RatioExceeds
  <2> HIDE DEF q, r
  <2>3. compressed * q \in Nat /\ compressed * maximum \in Nat
    BY <2>1, SMTT(30)
  <2>4. CASE q > maximum
    <3>1. compressed * (maximum + 1) <= compressed * q
      BY <2>1, <2>4, Monotone
    <3>2. compressed * (maximum + 1) = compressed * maximum + compressed
      BY SMTT(30)
    <3>3. compressed > 0
      BY <1>2
    <3> DEFINE whole == compressed * q
               least == compressed * maximum
               more == compressed * (maximum + 1)
    <3>4. /\ whole \in Nat /\ least \in Nat /\ more = least + compressed
          /\ more <= whole /\ uncompressed = whole + r
      BY <2>1, <2>3, <3>1, <3>2
    <3> HIDE DEF whole, least, more
    <3>5. uncompressed > least
      BY <2>1, <3>3, <3>4, SMT
    <3>6. uncompressed > compressed * maximum
      BY <3>5, Zenon DEF least
    <3> QED
      BY <2>1, <2>2, <2>4, <3>6, Zenon
  <2>5. CASE q = maximum
    BY <2>1, <2>2, <2>3, <2>5, SMT
  <2>6. CASE q < maximum
    <3>1. compressed * (q + 1) <= compressed * maximum
      BY <2>1, <2>6, Monotone
    <3>2. compressed * (q + 1) = compressed * q + compressed
      BY <2>1, SMTT(30)
    <3> QED
      BY <2>1, <2>2, <2>3, <2>6, <3>1, <3>2, SMT
  <2> QED
    BY <2>1, <2>4, <2>5, <2>6, SMT
<1> QED
  BY <1>1, <1>2

\* A configuration that validates never makes the archive reader refuse its limits,
\* whatever the scan has already extracted: archive_invalid_limits, on which a scan
\* ends with an internal error, is out of reach. What is left stays in an int64, also
\* with the byte that copyAtMost reads beyond it.
THEOREM ConfiguredLimitsAreUsable ==
    ASSUME NEW l \in [LimitNames -> Int], ValidLimits(l), NEW extracted \in Nat,
           ~Exhausted(l, extracted)
    PROVE  /\ UsableLimits(ArchiveLimits(l, extracted))
           /\ ArchiveLimits(l, extracted).MaxTotalBytes + 1 <= HardMaxExtracted + 1
           /\ ArchiveLimits(l, extracted).MaxFileBytes + 1 <= HardMaxFileSize + 1
<1>1. /\ l.MaxArchiveEntries > 0 /\ l.MaxExtractedFileSize > 0
      /\ l.MaxCompressionRatio > 0 /\ l.MaxPathDepth > 0 /\ l.MaxRelativePathBytes > 0
      /\ l.MaxExtractedFileSize <= HardMaxFileSize
      /\ l.MaxExtractedTotalSize <= HardMaxExtracted
  BY DEF ValidLimits, LimitNames
<1>2. l.MaxExtractedTotalSize - extracted > 0
  BY DEF Exhausted, LimitNames
<1> QED
  BY <1>1, <1>2, SMT DEF UsableLimits, ArchiveLimits, LimitNames, HardMaxFileSize,
     HardMaxExtracted
=============================================================================
