---------------------------- MODULE DetectProofs -----------------------------
(***************************************************************************)
(* What Detect decides, for every file, policy, limit and end of a context.*)
(***************************************************************************)
EXTENDS Detect, LimitsProofs, FiniteSetTheorems

\* ------------------------------------------------------------ the invariant

IsPicture == IsImage(doc.mime)
IsZip == IsContainer(doc.mime)

\* What TypeOK leaves open, and what is untouched before the file is classified.
Data ==
    /\ doc \in Docs /\ policy \in Policies
    /\ next \in Nat \ {0} /\ types \in Nat /\ runes \in Nat /\ nuls \in Nat
    /\ pending \in BOOLEAN /\ broke \in BOOLEAN
    /\ pc \in {"magic", "classify"} => next = 1 /\ runes = 0 /\ ~pending

\* The control points a file of each MIME type passes, and what is decided before the
\* detector returns.
Way ==
    /\ IsZip => pc \in {"magic", "classify", "preflight", "entries", "leaving", "returned"}
    /\ IsPicture => pc \in {"magic", "classify", "image", "returned"}
    /\ doc.mime = "other" => pc \in {"magic", "classify", "text", "leaving", "returned"}
    /\ doc.mime \in {"known", "denied"} => pc \in {"magic", "classify", "leaving", "returned"}
    /\ pc # "returned" => err = "none" /\ code = Running
    /\ code = Running => reason = "none"

\* What has been seen of a container is the set of the entries read so far.
Before == 1..(next - 1)
Met(k, roles) == doc.entries[k].role \in roles
Bit(b) == \E k \in Before : doc.entries[k].root = b
Seen == IsZip =>
    /\ next <= Len(doc.entries) + 1
    /\ \A k \in Before : ~Met(k, {"badtypes", "typesdir"})
    /\ roots = (IF Bit(1) THEN 1 ELSE 0) + (IF Bit(2) THEN 2 ELSE 0) + (IF Bit(4) THEN 4 ELSE 0)
    /\ types = 0 <=> \A k \in Before : ~ContentTypes(doc, k)
    /\ types = 1 <=> \E k \in Before : /\ ContentTypes(doc, k)
                                       /\ \A j \in Before : ContentTypes(doc, j) => j = k
    /\ "macro" \in flags <=> \E k \in Before : Met(k, {"vba", "macrotypes"})
    /\ \A f \in {"jar", "android", "dex", "app"} :
         f \in flags <=> \E k \in Before : Met(k, {f})

\* The positions of x among the first n of a sequence.
Among(u, n, x) == {k \in 1..n : u[k] = x}

\* What has been read of a text, and the counts of it.
Units(unit) == Cardinality(Among(doc.units, next - 1, unit))
Read == doc.mime = "other" =>
    LET u == doc.units IN
    /\ next <= Len(u) + 1
    /\ \A k \in Before :
         /\ u[k] # "bad"
         /\ u[k] = "high" /\ k + 1 \in Before => u[k + 1] = "low"
         /\ u[k] = "low" => k > 1 /\ u[k - 1] = "high"
    /\ pending <=> next > 1 /\ u[next - 1] = "high"
    /\ nuls = Units("nul") /\ runes = next - 1 - Units("high")

\* Where an error came from.
Causes ==
    /\ fileCtx = "canceled" => batchCtx = "canceled"
    /\ err \in {"expired", "canceled", "archive_canceled"} => fileCtx # "live"
    /\ err = "canceled" => batchCtx = "canceled"
    /\ err = "failed" => broke \/ "badtypes" \in RolesOf(doc)
    /\ err = "invalid_image" => broke \/ ~doc.intact \/ 0 \in ToSet(doc.size)

\* The type is right as soon as it is chosen, before the context is looked at again.
Exact == pc = "leaving" \/ Typed =>
    /\ IsZip => ContainerIs(doc, type)
    /\ doc.mime = "other" => (type # "unknown_binary" <=> IsText(doc) /\ doc.extension # "never")

IInv == /\ TypeOK /\ Data /\ Way /\ Seen /\ Read /\ Causes /\ Exact
        /\ ImagesFit /\ FailureStaysWithFile

\* ------------------------------------------------------------ arithmetic

\* A number in base 16384 has one last digit.
LEMMA LastDigit ==
    ASSUME NEW a \in Nat, NEW b \in Nat, b < 16384
    PROVE  (16384 * a + b) % 16384 = b /\ (16384 * a + b) \div 16384 = a
PROOF BY SMTT(30)

\* The four bytes taken apart by the code and by RFC 9649 are the same two numbers.
LEMMA VP8LIsPacked ==
    ASSUME NEW p \in [1..4 -> 0..255]
    PROVE  /\ VP8L(p)[1] = 1 + (Packed(p) % 16384)
           /\ VP8L(p)[2] = 1 + ((Packed(p) \div 16384) % 16384)
           /\ VP8L(p)[1] \in Nat \ {0} /\ VP8L(p)[2] \in Nat \ {0}
<1> DEFINE p1 == p[1]
<1> DEFINE p3 == p[3]
<1> DEFINE q == p[2] \div 64
<1> DEFINE r == p[2] % 64
<1> DEFINE s == p[4] % 64
<1> DEFINE b == p[4] % 16
<1> DEFINE c == s \div 16
<1>1. p1 \in 0..255 /\ p3 \in 0..255 /\ p[2] \in 0..255 /\ p[4] \in 0..255
  OBVIOUS
<1>2. q \in 0..3 /\ r \in 0..63 /\ p[2] = 64 * q + r
  BY <1>1, SMT
<1>3. s \in 0..63 /\ c \in 0..3 /\ b \in 0..15 /\ s = 16 * c + b
  BY <1>1, SMTT(30)
<1>4. /\ VP8L(p)[1] = 1 + p1 + r * 256
      /\ VP8L(p)[2] = 1 + p3 * 4 + q + b * 1024
      /\ Packed(p) = p1 + 256 * p[2] + 65536 * p3 + 16777216 * s
  BY DEF VP8L, Packed
<1> HIDE DEF p1, p3, q, r, s, b, c
<1> DEFINE low == p1 + 256 * r
<1> DEFINE high == p3 * 4 + q + b * 1024
<1> DEFINE rest == 16384 * c + high
<1>5a. low \in Nat /\ low < 16384
  BY <1>1, <1>2, SMT
<1>5b. high \in Nat /\ high < 16384
  BY <1>1, <1>2, <1>3, SMT
<1>6. Packed(p) = 16384 * (16384 * c + high) + low
  BY <1>1, <1>2, <1>3, <1>4, SMT
<1>6a. /\ VP8L(p)[1] = 1 + low /\ VP8L(p)[2] = 1 + high
  BY <1>1, <1>2, <1>3, <1>4, SMT
<1> HIDE DEF low, high
<1>6b. rest \in Nat /\ c \in Nat
  BY <1>3, <1>5b, SMT
<1>6c. rest % 16384 = high
  BY <1>5b, <1>6b, LastDigit
<1> HIDE DEF rest
<1>6d. Packed(p) = 16384 * rest + low
  BY <1>6 DEF rest
<1>7. Packed(p) % 16384 = low /\ Packed(p) \div 16384 = rest
  BY <1>5a, <1>6b, <1>6d, LastDigit
<1> QED
  BY <1>5a, <1>5b, <1>6a, <1>6c, <1>7, SMT

\* A product of two factors may be taken in either order.
LEMMA Commutes ==
    ASSUME NEW a \in Nat, NEW b \in Nat
    PROVE  a * b = b * a /\ a * b \in Nat
PROOF BY SMTT(30)

\* validateImage compares the product of the sides with the limit, whichever way it
\* computes it.
LEMMA OversizedIsExact ==
    ASSUME NEW size, size[1] \in Nat \ {0}, size[2] \in Nat \ {0}
    PROVE  Oversized(size) <=> size[1] * size[2] > MaxPixels
<1>1. ProductExceeds(size[1], size[2], MaxPixels) <=> size[2] * size[1] > MaxPixels
  BY ProductIsExact, DetectAssumption
<1>2. size[1] * size[2] = size[2] * size[1]
  BY Commutes
<1> QED
  BY <1>1, <1>2 DEF Oversized

\* lowNULCount is the comparison of the share, without a division.
LEMMA FewNulsIsExact ==
    ASSUME runes \in Nat, nuls \in Nat, nuls <= runes
    PROVE  FewNuls <=> nuls * Share <= runes
<1>1. Share \in Nat \ {0}
  BY DetectAssumption
<1>2. nuls > runes \div Share <=> Share * nuls > runes
  BY <1>1, Quotient
<1>3. /\ runes \div Share \in Nat
      /\ Share * nuls = nuls * Share /\ Share * nuls \in Nat
  BY <1>1, DivMod, Commutes
<1>4. CASE runes = 0
  <2>1. nuls = 0
    BY <1>4, SMT
  <2>2. nuls * Share = 0
    BY <1>1, <2>1, SMT
  <2> QED
    BY <1>4, <2>2 DEF FewNuls
<1>5. CASE runes # 0
  BY <1>2, <1>3, <1>5, SMT DEF FewNuls
<1> QED
  BY <1>4, <1>5

\* A bit is set by Or, and no other is changed.
LEMMA OrSetsABit ==
    ASSUME NEW a \in 0..1, NEW b \in 0..1, NEW c \in 0..1, NEW bit \in {0, 1, 2, 4}
    PROVE  Or(a + 2 * b + 4 * c, bit) =
             (IF bit = 1 THEN 1 ELSE a) + 2 * (IF bit = 2 THEN 1 ELSE b)
               + 4 * (IF bit = 4 THEN 1 ELSE c)
<1>1. a \in {0, 1} /\ b \in {0, 1} /\ c \in {0, 1}
  BY SMT
<1> QED
  BY <1>1, SMT DEF Or

\* ------------------------------------------------------------ counting

\* The number of positions of x among the first n grows by one if x stands at n.
LEMMA CountStep ==
    ASSUME NEW u, NEW x, NEW n \in Nat \ {0}
    PROVE  /\ Cardinality(Among(u, n - 1, x)) \in Nat
           /\ Cardinality(Among(u, n, x)) =
                Cardinality(Among(u, n - 1, x)) + (IF u[n] = x THEN 1 ELSE 0)
<1> DEFINE Old == Among(u, n - 1, x)
<1> DEFINE New == Among(u, n, x)
<1>1. IsFiniteSet(1..(n - 1))
  BY FS_Interval, SMT
<1>2. IsFiniteSet(Old)
  BY <1>1, FS_Subset DEF Among
<1>3. Cardinality(Old) \in Nat
  BY <1>2, FS_CardinalityType
<1>4. CASE u[n] = x
  <2>1. New = Old \cup {n} /\ n \notin Old
    BY <1>4, SMT DEF Among
  <2> HIDE DEF Old, New
  <2>2. Cardinality(New) = Cardinality(Old) + 1
    BY <1>2, <2>1, FS_AddElement
  <2> QED
    BY <1>3, <1>4, <2>2 DEF Old, New
<1>5. CASE u[n] # x
  <2>1. New = Old
    BY <1>5, SMT DEF Among
  <2> QED
    BY <1>3, <1>5, <2>1, SMT
<1> QED
  BY <1>4, <1>5

\* ------------------------------------------------------------ preservation

\* The initial states.
LEMMA InitInv == Init => IInv
<1> SUFFICES ASSUME Init PROVE IInv
  OBVIOUS
<1>1. Before = {} /\ doc \in Doc
  BY DetectAssumption, SMT DEF Init, Before
<1>2. TypeOK
  BY SMT DEF Init, TypeOK, Running, Ok, Dependency, Canceled, Errors
<1>2a. Data
  <2>1. next \in Nat \ {0} /\ types \in Nat /\ runes \in Nat /\ nuls \in Nat
    BY SMT DEF Init
  <2> QED
    BY <2>1 DEF Init, Data
<1>2b. Way /\ Causes
  BY DEF Init, Way, Causes
<1>2c. FailureStaysWithFile
  BY SMT DEF Init, FailureStaysWithFile, Running, Dependency, Canceled
<1>3. Seen
  BY <1>1, SMT DEF Init, Seen, Bit, Met, Doc
<1>4. Read
  <2>1. Units("nul") = 0 /\ Units("high") = 0
    BY <1>1, FS_EmptySet DEF Units, Among, Before, Init
  <2> QED
    BY <1>1, <2>1, SMT DEF Init, Read, Doc
<1>5. Exact /\ ImagesFit
  BY DEF Init, Exact, ImagesFit, Typed
<1> QED
  BY <1>2, <1>2a, <1>2b, <1>2c, <1>3, <1>4, <1>5 DEF IInv

\* At the control points of one kind of file there are files of that kind only.
LEMMA KindAt ==
    ASSUME Data, Way
    PROVE  /\ pc \in {"preflight", "entries"} => IsZip /\ doc.mime # "other" /\ ~IsPicture
           /\ pc = "image" => IsPicture /\ doc.mime # "other" /\ ~IsZip
           /\ pc = "text" => doc.mime = "other" /\ ~IsZip /\ ~IsPicture
           /\ doc \in Doc /\ doc.mime \in Mimes
<1>1. doc \in Doc /\ doc.mime \in Mimes
  BY DetectAssumption DEF Data, Doc
<1> QED
  BY <1>1 DEF Way, IsZip, IsPicture, IsContainer, IsImage, Mimes

\* What was seen of a container depends on five variables.
LEMMA SeenFrame == Seen /\ UNCHANGED <<doc, next, zip>> => Seen'
PROOF BY DEF Seen, IsZip, Bit, Met, Before, zip

\* What was read of a text depends on five variables.
LEMMA ReadFrame == Read /\ UNCHANGED <<doc, next, text>> => Read'
PROOF BY DEF Read, Units, text, Before

\* An entry that is read adds its directory, role and content types to what was seen.
LEMMA EntrySeen == IInv /\ InspectEntry => Seen'
<1> SUFFICES ASSUME IInv, InspectEntry PROVE Seen'
  OBVIOUS
<1> USE DEF IInv
<1> DEFINE e == doc.entries[next]
<1>1. CASE e.role \in {"badtypes", "typesdir"}
  <2>1. UNCHANGED <<doc, next, zip>>
    BY <1>1 DEF InspectEntry, given
  <2> QED
    BY <2>1, SeenFrame
<1>2. CASE e.role \notin {"badtypes", "typesdir"}
  <2>1. /\ doc' = doc /\ next' = next + 1 /\ next <= Len(doc.entries) /\ next \in Nat \ {0}
        /\ roots' = Or(roots, e.root) /\ flags' = Saw(e.role)
        /\ types' = types + IF ContentTypes(doc, next) THEN 1 ELSE 0
    BY <1>2, SMT DEF InspectEntry, given, Data, ContentTypes
  <2>2. IsZip /\ Seen /\ doc \in Doc
    BY KindAt DEF InspectEntry
  <2>3. Before' = Before \cup {next} /\ next \notin Before /\ Before \subseteq Nat
    BY <2>1, SMT DEF Before
  <2>4. e.root \in {0, 1, 2, 4} /\ e.role \in Roles /\ Len(doc.entries) \in Nat
    <3>1. doc.entries \in Seq(Entry)
      BY <2>2 DEF Doc
    <3>2. Len(doc.entries) \in Nat /\ next \in 1..Len(doc.entries)
      BY <2>1, <3>1, SMT
    <3>3. doc.entries[next] \in Entry
      BY <3>1, <3>2, SMT
    <3> QED
      BY <3>2, <3>3 DEF Entry
  <2>5. /\ next' <= Len(doc.entries) + 1
        /\ \A k \in Before' : ~Met(k, {"badtypes", "typesdir"})
    BY <1>2, <2>1, <2>2, <2>3, <2>4, SMT DEF Seen, Met
  <2>6. \A b \in {1, 2, 4} : Bit(b)' <=> Bit(b) \/ e.root = b
    BY <2>1, <2>3 DEF Bit
  <2>7. roots' = (IF Bit(1)' THEN 1 ELSE 0) + (IF Bit(2)' THEN 2 ELSE 0)
                   + (IF Bit(4)' THEN 4 ELSE 0)
    <3> DEFINE B(b) == IF Bit(b) THEN 1 ELSE 0
    <3>1. roots = B(1) + 2 * B(2) + 4 * B(4)
      BY <2>2, SMT DEF Seen
    <3>2. B(1) \in 0..1 /\ B(2) \in 0..1 /\ B(4) \in 0..1
      BY SMT
    <3> HIDE DEF B
    <3>3. Or(roots, e.root) = (IF e.root = 1 THEN 1 ELSE B(1))
            + 2 * (IF e.root = 2 THEN 1 ELSE B(2)) + 4 * (IF e.root = 4 THEN 1 ELSE B(4))
      BY <2>4, <3>1, <3>2, OrSetsABit
    <3> QED
      BY <2>1, <2>6, <3>3, SMT DEF B
  <2>8. /\ types' = 0 <=> \A k \in Before' : ~ContentTypes(doc, k)
        /\ types' = 1 <=> \E k \in Before' :
                            /\ ContentTypes(doc, k)
                            /\ \A j \in Before' : ContentTypes(doc, j) => j = k
    <3>1. /\ types = 0 <=> \A k \in Before : ~ContentTypes(doc, k)
          /\ types = 1 <=> \E k \in Before : /\ ContentTypes(doc, k)
                                             /\ \A j \in Before : ContentTypes(doc, j) => j = k
          /\ types \in Nat
      BY <2>2 DEF Seen, Data
    <3>2. CASE ContentTypes(doc, next)
      <4>1. types' = types + 1
        BY <2>1, <3>2
      <4>2. types' # 0 /\ (types' = 1 <=> types = 0)
        BY <3>1, <4>1, SMT
      <4> QED
        BY <2>3, <3>1, <3>2, <4>2
    <3>3. CASE ~ContentTypes(doc, next)
      <4>1. types' = types
        BY <2>1, <3>1, <3>3, SMT
      <4> QED
        BY <2>3, <3>1, <3>3, <4>1
    <3> QED
      BY <3>2, <3>3
  <2>9. /\ "macro" \in flags' <=> \E k \in Before' : Met(k, {"vba", "macrotypes"})
        /\ \A f \in {"jar", "android", "dex", "app"} :
             f \in flags' <=> \E k \in Before' : Met(k, {f})
    BY <2>1, <2>2, <2>3, <2>4 DEF Seen, Met, Saw, Roles
  <2> QED
    BY <2>1, <2>5, <2>7, <2>8, <2>9 DEF Seen, IsZip, Met
<1> QED
  BY <1>1, <1>2

\* A unit that is read keeps the counts and the pairs.
LEMMA UnitRead == IInv /\ TextUnit => Read'
<1> SUFFICES ASSUME IInv, TextUnit PROVE Read'
  OBVIOUS
<1> USE DEF IInv
<1> DEFINE unit == doc.units[next]
<1> DEFINE Ill == unit = "bad" \/ (doc.encoding = "utf16" /\ BadPair(unit))
<1>1. CASE Ill
  <2>1. UNCHANGED <<doc, next, text>>
    BY <1>1 DEF TextUnit, given
  <2> QED
    BY <2>1, ReadFrame
<1>2. CASE ~Ill
  <2>1. /\ doc' = doc /\ next' = next + 1 /\ next <= Len(doc.units) /\ next \in Nat \ {0}
        /\ pending' = (unit = "high")
        /\ runes' = (IF unit = "high" THEN runes ELSE runes + 1)
        /\ nuls' = (IF unit = "nul" THEN nuls + 1 ELSE nuls)
    BY <1>2 DEF TextUnit, given, Data
  <2>2. doc.mime = "other" /\ Read /\ doc \in Doc /\ Len(doc.units) \in Nat
    BY KindAt DEF TextUnit, Doc
  <2>3. next' - 1 = next /\ Before' = 1..next /\ Before' = Before \cup {next}
    BY <2>1, SMT DEF Before
  <2>4. /\ Units("nul")' = Units("nul") + (IF unit = "nul" THEN 1 ELSE 0)
        /\ Units("high")' = Units("high") + (IF unit = "high" THEN 1 ELSE 0)
        /\ Units("nul") \in Nat /\ Units("high") \in Nat
    <3>1. \A x : /\ Units(x) = Cardinality(Among(doc.units, next - 1, x))
                  /\ Units(x)' = Cardinality(Among(doc.units, next, x))
      BY <2>1, <2>3 DEF Units
    <3>2. ASSUME NEW x
          PROVE  /\ Cardinality(Among(doc.units, next - 1, x)) \in Nat
                 /\ Cardinality(Among(doc.units, next, x)) =
                      Cardinality(Among(doc.units, next - 1, x))
                        + (IF doc.units[next] = x THEN 1 ELSE 0)
      BY <2>1, CountStep
    <3> QED
      BY <3>1, <3>2
  <2>5. nuls' = Units("nul")' /\ runes' = next' - 1 - Units("high")'
    BY <2>1, <2>2, <2>3, <2>4, SMT DEF Read
  <2>6. pending <=> unit = "low"
    <3>1. CASE doc.encoding = "utf16"
      BY <1>2, <3>1 DEF BadPair, Data
    <3>2. CASE doc.encoding # "utf16"
      <4>1. doc.units \in Seq({"char", "nul", "bad"})
        BY <2>2, <3>2, DetectAssumption DEF Data, Doc
      <4>2. unit \notin {"low", "high"}
        BY <2>1, <4>1, SMT
      <4>3. next > 1 => doc.units[next - 1] \in {"char", "nul", "bad"}
        BY <2>1, <4>1, SMT
      <4> QED
        BY <2>2, <4>2, <4>3 DEF Read
    <3> QED
      BY <3>1, <3>2
  <2>7. /\ unit # "bad"
        /\ unit = "low" => next > 1 /\ doc.units[next - 1] = "high"
        /\ next > 1 /\ doc.units[next - 1] = "high" => unit = "low"
    BY <1>2, <2>2, <2>6 DEF Read
  <2>8. \A k \in Before' :
          /\ doc.units[k] # "bad"
          /\ doc.units[k] = "high" /\ k + 1 \in Before' => doc.units[k + 1] = "low"
          /\ doc.units[k] = "low" => k > 1 /\ doc.units[k - 1] = "high"
    <3> SUFFICES ASSUME NEW k \in 1..next
                 PROVE  /\ doc.units[k] # "bad"
                        /\ doc.units[k] = "high" /\ k + 1 \in 1..next => doc.units[k + 1] = "low"
                        /\ doc.units[k] = "low" => k > 1 /\ doc.units[k - 1] = "high"
      BY <2>3
    <3>1. CASE k = next
      BY <2>1, <2>7, <3>1, SMT
    <3>2. CASE k # next
      <4>1. k \in Before
        BY <2>1, <3>2, SMT DEF Before
      <4>2. k + 1 = next \/ k + 1 \in Before
        BY <2>1, <3>2, SMT DEF Before
      <4>3. k + 1 = next => k = next - 1 /\ next > 1
        BY <2>1, SMT
      <4> QED
        BY <2>2, <2>7, <4>1, <4>2, <4>3 DEF Read
    <3> QED
      BY <3>1, <3>2
  <2>9. pending' <=> next' > 1 /\ doc.units[next' - 1] = "high"
    <3>1. next' > 1
      BY <2>1, SMT
    <3> QED
      BY <2>1, <2>3, <3>1
  <2>10. next' <= Len(doc.units) + 1
    BY <2>1, <2>2, SMT
  <2> QED
    BY <2>1, <2>5, <2>8, <2>9, <2>10 DEF Read
<1> QED
  BY <1>1, <1>2

\* ------------------------------------------------------------ decisions

\* At the end of a container what was seen is what is there.
LEMMA ContainerRight == IInv /\ InspectEnd => ContainerIs(doc, type')
<1> SUFFICES ASSUME IInv, InspectEnd PROVE ContainerIs(doc, type')
  OBVIOUS
<1> USE DEF IInv
<1> DEFINE d == doc
<1> DEFINE seen == RolesOf(d)
<1>1. IsZip /\ Seen /\ d \in Doc
  BY KindAt DEF InspectEnd
<1>2. Before = DOMAIN d.entries
  <2>1. d.entries \in Seq(Entry)
    BY <1>1 DEF Doc
  <2>2. next = Len(d.entries) + 1 /\ Len(d.entries) \in Nat
    BY <1>1, <2>1, SMT DEF InspectEnd, Seen, Data
  <2> QED
    BY <2>1, <2>2, SMT DEF Before
<1>3. /\ {"badtypes", "typesdir"} \cap seen = {}
      /\ "macro" \in flags <=> {"vba", "macrotypes"} \cap seen # {}
      /\ \A f \in {"jar", "android", "dex", "app"} : f \in flags <=> f \in seen
  <2>1. \A x : x \in seen <=> \E k \in Before : d.entries[k].role = x
    BY <1>2 DEF RolesOf
  <2>2. "badtypes" \notin seen /\ "typesdir" \notin seen
    BY <1>1, <2>1 DEF Seen, Met
  <2>3. "macro" \in flags <=> "vba" \in seen \/ "macrotypes" \in seen
    BY <1>1, <2>1 DEF Seen, Met
  <2>4. \A f \in {"jar", "android", "dex", "app"} : f \in flags <=> f \in seen
    BY <1>1, <2>1 DEF Seen, Met
  <2> QED
    BY <2>2, <2>3, <2>4
<1>4. types = 1 <=> \E k \in DOMAIN d.entries :
                      /\ ContentTypes(d, k)
                      /\ \A j \in DOMAIN d.entries : ContentTypes(d, j) => j = k
  BY <1>1, <1>2 DEF Seen
<1>5. \A b \in {1, 2, 4} : roots = b <=> RootsOf(d) = {b}
  <2>1. roots = (IF Bit(1) THEN 1 ELSE 0) + (IF Bit(2) THEN 2 ELSE 0)
                  + (IF Bit(4) THEN 4 ELSE 0)
    BY <1>1 DEF Seen
  <2>2. \A b \in {1, 2, 4} : Bit(b) <=> b \in RootsOf(d)
    BY <1>2, SMT DEF Bit, RootsOf
  <2>3. RootsOf(d) \subseteq {1, 2, 4}
    <3>1. d.entries \in Seq(Entry)
      BY <1>1 DEF Doc
    <3>2. \A k \in DOMAIN d.entries : d.entries[k] \in Entry
      BY <3>1, SMT
    <3> QED
      BY <3>2 DEF RootsOf, Entry
  <2>4. /\ roots = 1 <=> Bit(1) /\ ~Bit(2) /\ ~Bit(4)
        /\ roots = 2 <=> ~Bit(1) /\ Bit(2) /\ ~Bit(4)
        /\ roots = 4 <=> ~Bit(1) /\ ~Bit(2) /\ Bit(4)
    BY <2>1, SMT
  <2>5. /\ RootsOf(d) = {1} <=> 1 \in RootsOf(d) /\ 2 \notin RootsOf(d) /\ 4 \notin RootsOf(d)
        /\ RootsOf(d) = {2} <=> 1 \notin RootsOf(d) /\ 2 \in RootsOf(d) /\ 4 \notin RootsOf(d)
        /\ RootsOf(d) = {4} <=> 1 \notin RootsOf(d) /\ 2 \notin RootsOf(d) /\ 4 \in RootsOf(d)
    BY <2>3, SMT
  <2> QED
    BY <2>2, <2>4, <2>5
<1> DEFINE Macro == d.mime = "macro" \/ {"vba", "macrotypes"} \cap seen # {}
<1> DEFINE Package == "jar" \in seen \/ "app" \in seen \/ {"android", "dex"} \subseteq seen
<1>6. type' = IF d.mime = "macro" THEN "office_macro" ELSE Container
  BY DEF InspectEnd, Done
<1>7. CASE Macro
  <2>1. type' = "office_macro"
    BY <1>3, <1>6, <1>7 DEF Container
  <2> QED
    BY <1>3, <1>7, <2>1 DEF ContainerIs
<1>8. CASE ~Macro /\ Package
  <2>1. type' = "application_package"
    BY <1>3, <1>6, <1>8 DEF Container
  <2> QED
    BY <1>3, <1>8, <2>1 DEF ContainerIs
<1>9. CASE ~Macro /\ ~Package
  <2>1. type' = IF types # 1 THEN "archive_zip"
                ELSE CASE roots = 1 -> "document_docx" [] roots = 2 -> "document_xlsx"
                       [] roots = 4 -> "document_pptx" [] OTHER -> "archive_zip"
    <3>1. "macro" \notin flags /\ {"jar", "app"} \cap flags = {}
          /\ ~({"android", "dex"} \subseteq flags)
      BY <1>3, <1>9
    <3> QED
      BY <1>6, <1>9, <3>1 DEF Container
  <2>2. /\ type' \notin {"office_macro", "application_package"}
        /\ type' = "document_docx" <=> types = 1 /\ roots = 1
        /\ type' = "document_xlsx" <=> types = 1 /\ roots = 2
        /\ type' = "document_pptx" <=> types = 1 /\ roots = 4
    BY <2>1, SMT
  <2> QED
    BY <1>3, <1>4, <1>5, <1>9, <2>2 DEF ContainerIs
<1> QED
  BY <1>7, <1>8, <1>9

\* A unit that encodes nothing, or a surrogate without its partner, is the end of a text.
LEMMA IllIsNoText ==
    IInv /\ TextUnit /\ pc' = "leaving" => ~IsText(doc) /\ type' = "unknown_binary"
<1> SUFFICES ASSUME IInv, TextUnit, pc' = "leaving"
             PROVE  ~IsText(doc) /\ type' = "unknown_binary"
  OBVIOUS
<1> USE DEF IInv
<1> DEFINE u == doc.units
<1>1. doc.mime = "other" /\ Read /\ doc \in Doc
  BY KindAt DEF TextUnit
<1>2. (u[next] = "bad" \/ BadPair(u[next])) /\ type' = "unknown_binary"
  BY DEF TextUnit, Done
<1>3. next \in DOMAIN u /\ next \in Nat \ {0}
  <2>1. u \in Seq({"char", "nul", "bad", "high", "low"})
    BY <1>1 DEF Doc
  <2> QED
    BY <2>1, SMT DEF TextUnit, Data
<1>4. CASE u[next] = "bad"
  BY <1>2, <1>3, <1>4 DEF IsText
<1>5. CASE pending /\ u[next] # "low"
  <2>1. next > 1 /\ u[next - 1] = "high"
    BY <1>1, <1>5 DEF Read
  <2>2. next - 1 \in DOMAIN u /\ (next - 1) + 1 = next
    <3>1. u \in Seq({"char", "nul", "bad", "high", "low"})
      BY <1>1 DEF Doc
    <3> QED
      BY <1>3, <2>1, <3>1, SMT
  <2> QED
    BY <1>2, <1>5, <2>1, <2>2 DEF IsText
<1>6. CASE ~pending /\ u[next] = "low"
  BY <1>1, <1>2, <1>3, <1>6 DEF IsText, Read
<1> QED
  BY <1>2, <1>4, <1>5, <1>6 DEF BadPair, Data

\* At the end of the text what was counted is what is there.
LEMMA TextRight ==
    IInv /\ TextEnd => (type' # "unknown_binary" <=> IsText(doc) /\ doc.extension # "never")
<1> SUFFICES ASSUME IInv, TextEnd
             PROVE  type' # "unknown_binary" <=> IsText(doc) /\ doc.extension # "never"
  OBVIOUS
<1> USE DEF IInv
<1> DEFINE u == doc.units
<1>1. doc.mime = "other" /\ Read /\ doc \in Doc
  BY KindAt DEF TextEnd
<1>2. u \in Seq({"char", "nul", "bad", "high", "low"})
  BY <1>1 DEF Doc
<1>3. /\ next = Len(u) + 1 /\ Len(u) \in Nat /\ next - 1 = Len(u)
      /\ Before = 1..Len(u) /\ DOMAIN u = 1..Len(u)
  BY <1>1, <1>2, SMT DEF TextEnd, Read, Data, Before
<1>4. nuls = Count(doc, "nul") /\ runes = Len(u) - Count(doc, "high")
  <2>1. \A x : Among(u, Len(u), x) = {k \in DOMAIN u : u[k] = x}
    BY <1>3 DEF Among
  <2> QED
    BY <1>1, <1>3, <2>1 DEF Read, Units, Count
<1>5. FewNuls <=> Count(doc, "nul") * Share <= Len(u) - Count(doc, "high")
  BY <1>4, FewNulsIsExact DEF Data, TypeOK
<1>6. type' = IF pending \/ ~FewNuls THEN "unknown_binary" ELSE TextType(doc.extension)
  BY DEF TextEnd, Done
<1>7. TextType(doc.extension) # "unknown_binary" <=> doc.extension # "never"
  <2>1. doc.extension \in {"plain", "source", "data", "never"}
    BY <1>1 DEF Doc
  <2> QED
    BY <2>1, SMT DEF TextType
<1>8. CASE pending
  <2>1. u[Len(u)] = "high" /\ Len(u) \in DOMAIN u
    BY <1>1, <1>3, <1>8, SMT DEF Read
  <2>2. ~(Len(u) < Len(u))
    BY <1>3, SMT
  <2>3. ~IsText(doc)
    BY <2>1, <2>2 DEF IsText
  <2> QED
    BY <1>6, <1>8, <2>3
<1>9. CASE ~pending
  <2>1. ASSUME NEW k \in DOMAIN u
        PROVE  /\ u[k] # "bad"
               /\ u[k] = "high" => k < Len(u) /\ u[k + 1] = "low"
               /\ u[k] = "low" => k > 1 /\ u[k - 1] = "high"
    <3>1. k \in Before
      BY <1>3
    <3>2. u[k] = "high" => k # Len(u)
      BY <1>1, <1>3, <1>9, SMT DEF Read
    <3>3. k # Len(u) => k < Len(u) /\ k + 1 \in Before
      BY <1>3, SMT
    <3> QED
      BY <1>1, <3>1, <3>2, <3>3 DEF Read
  <2>2. IsText(doc) <=> FewNuls
    BY <1>5, <2>1 DEF IsText
  <2> QED
    BY <1>6, <1>7, <1>9, <2>2
<1> QED
  BY <1>8, <1>9 DEF Data

\* A picture passes exactly if it is whole and has no more pixels than the limit.
LEMMA PictureRight ==
    IInv /\ Image =>
    /\ err' = "none" => doc.intact /\ Sides(doc)[1] * Sides(doc)[2] <= MaxPixels
    /\ err' = "image_dimensions_exceeded" => Sides(doc)[1] * Sides(doc)[2] > MaxPixels
    /\ err' = "invalid_image" => ~doc.intact \/ 0 \in ToSet(doc.size)
    /\ err' \in {"none", "image_dimensions_exceeded", "invalid_image"}
<1> SUFFICES ASSUME IInv, Image
             PROVE  /\ err' = "none" => doc.intact /\ Sides(doc)[1] * Sides(doc)[2] <= MaxPixels
                    /\ err' = "image_dimensions_exceeded" =>
                         Sides(doc)[1] * Sides(doc)[2] > MaxPixels
                    /\ err' = "invalid_image" => ~doc.intact \/ 0 \in ToSet(doc.size)
                    /\ err' \in {"none", "image_dimensions_exceeded", "invalid_image"}
  OBVIOUS
<1> USE DEF IInv
<1> DEFINE s == Dimensions
<1>1. doc \in Doc /\ err = "none" /\ MaxPixels \in Nat
  BY KindAt, DetectAssumption DEF Image, Way
<1>2. /\ s[1] = Sides(doc)[1] /\ s[2] = Sides(doc)[2]
      /\ s[1] \in Nat /\ s[2] \in Nat
      /\ s[1] = 0 \/ s[2] = 0 => 0 \in ToSet(doc.size)
  <2>1. CASE doc.mime = "webp"
    <3>1. s = VP8L(doc.payload) /\ doc.payload \in [1..4 -> 0..255]
      BY <1>1, <2>1 DEF Dimensions, Doc
    <3>2. /\ Sides(doc)[1] = 1 + (Packed(doc.payload) % 16384)
          /\ Sides(doc)[2] = 1 + ((Packed(doc.payload) \div 16384) % 16384)
      BY <2>1 DEF Sides
    <3> HIDE DEF s
    <3>3. /\ s[1] = Sides(doc)[1] /\ s[2] = Sides(doc)[2]
          /\ s[1] \in Nat \ {0} /\ s[2] \in Nat \ {0}
      BY <3>1, <3>2, VP8LIsPacked
    <3> QED
      BY <3>3
  <2>2. CASE doc.mime # "webp"
    <3>1. s = doc.size /\ Sides(doc) = doc.size /\ doc.size \in [1..2 -> Nat]
      BY <1>1, <2>2 DEF Dimensions, Sides, Doc
    <3>2. s[1] \in Nat /\ s[2] \in Nat /\ DOMAIN doc.size = 1..2
      BY <3>1, SMT
    <3>3. s[1] \in ToSet(doc.size) /\ s[2] \in ToSet(doc.size)
      BY <3>1, SMT DEF ToSet
    <3> QED
      BY <3>1, <3>2, <3>3
  <2> QED
    BY <2>1, <2>2
<1>3. CASE ~doc.intact \/ s[1] <= 0 \/ s[2] <= 0
  <2>1. err' = "invalid_image"
    BY <1>3 DEF Image, Fail
  <2>2. ~doc.intact \/ s[1] = 0 \/ s[2] = 0
    BY <1>2, <1>3, SMT
  <2> QED
    BY <1>2, <2>1, <2>2
<1>4. CASE doc.intact /\ ~(s[1] <= 0) /\ ~(s[2] <= 0)
  <2>1. s[1] \in Nat \ {0} /\ s[2] \in Nat \ {0}
    BY <1>2, <1>4, SMT
  <2>2. Oversized(s) <=> s[1] * s[2] > MaxPixels
    BY <2>1, OversizedIsExact
  <2>3. s[1] * s[2] \in Nat
    BY <2>1, Commutes
  <2>4. Oversized(s) <=> ~(s[1] * s[2] <= MaxPixels)
    BY <1>1, <2>2, <2>3, SMT
  <2>5. err' = IF Oversized(s) THEN "image_dimensions_exceeded" ELSE "none"
    BY <1>1, <1>4 DEF Image, Fail
  <2> QED
    BY <1>2, <1>4, <2>2, <2>4, <2>5
<1> QED
  BY <1>3, <1>4

\* ------------------------------------------------------------ every step

\* Types, control points and the causes of errors and ends survive every step.
LEMMA PlainStep ==
    IInv /\ Next => TypeOK' /\ Data' /\ Way' /\ Causes' /\ FailureStaysWithFile'
<1> SUFFICES ASSUME IInv, Next
             PROVE  TypeOK' /\ Data' /\ Way' /\ Causes' /\ FailureStaysWithFile'
  OBVIOUS
<1> USE DEF IInv
<1>k. /\ pc \in {"preflight", "entries"} => IsZip /\ doc.mime # "other" /\ ~IsPicture
      /\ pc = "image" => IsPicture /\ doc.mime # "other" /\ ~IsZip
      /\ pc = "text" => doc.mime = "other" /\ ~IsZip /\ ~IsPicture
      /\ doc \in Doc /\ doc.mime \in Mimes
  BY KindAt
<1>1. CASE Magic
  BY <1>1 DEF Magic, TypeOK, Data, Way, Causes, FailureStaysWithFile, IsZip, IsPicture,
              given, zip, text, contexts, decision
<1>2. CASE DetectorFails
  <2>1. err' \in {"failed", "invalid_image"} /\ pc' = "returned" /\ broke' = TRUE
        /\ UNCHANGED <<given, next, zip, text, type, contexts, decision>>
    BY <1>2 DEF DetectorFails, Fail
  <2> QED
    BY <1>2, <2>1, <1>k DEF DetectorFails, TypeOK, Data, Way, Causes, FailureStaysWithFile,
       IsZip, IsPicture, given, zip, text, contexts, decision, Errors, Running, Ok
<1>3. CASE Classify
  <2>1. /\ UNCHANGED <<given, next, zip, text, err, contexts, decision, broke>>
        /\ pc = "classify"
        /\ \/ IsZip /\ pc' = "preflight"
           \/ IsPicture /\ pc' = "image"
           \/ doc.mime \in {"known", "denied"} /\ pc' = "leaving"
           \/ doc.mime = "other" /\ pc' = "text" /\ next = 1 /\ runes = 0 /\ ~pending
    <3>1. next = 1 /\ runes = 0 /\ ~pending
      BY <1>3 DEF Classify, Data
    <3> QED
      <4>1. /\ UNCHANGED <<given, next, zip, text, err, contexts, decision, broke>>
            /\ pc = "classify"
        BY <1>3 DEF Classify, Done
      <4>2. CASE IsContainer(doc.mime)
        BY <1>3, <4>1, <4>2 DEF Classify, IsZip, IsImage, IsContainer
      <4>3. CASE IsImage(doc.mime)
        BY <1>3, <4>1, <4>3 DEF Classify, IsPicture, IsImage, IsContainer
      <4>4. CASE doc.mime \in {"known", "denied"}
        BY <1>3, <4>1, <4>4 DEF Classify, Done, IsImage, IsContainer
      <4>5. CASE doc.mime = "other"
        BY <1>3, <3>1, <4>1, <4>5 DEF Classify, IsImage, IsContainer
      <4> QED
        BY <1>k, <4>2, <4>3, <4>4, <4>5 DEF Mimes, IsImage, IsContainer
  <2> QED
    BY <2>1, <1>k DEF TypeOK, Data, Way, Causes, FailureStaysWithFile, IsZip, IsPicture,
       IsContainer, IsImage, given, zip, text, contexts, decision
<1>4. CASE Preflight
  <2>1. /\ UNCHANGED <<given, next, zip, text, type, contexts, decision, broke>>
        /\ pc = "preflight"
        /\ \/ pc' = "entries" /\ err' = err
           \/ pc' = "returned" /\ err' \in {"archive_invalid", "archive_path_unsafe"}
    BY <1>4, <1>k DEF Preflight, Fail, Doc
  <2> QED
    BY <2>1, <1>k DEF TypeOK, Data, Way, Causes, FailureStaysWithFile, IsZip, IsPicture,
       given, zip, text, contexts, decision, Errors, Running, Ok
<1>5. CASE InspectEntry
  <2>1. /\ UNCHANGED <<given, text, type, contexts, decision, broke>> /\ pc = "entries"
        /\ next <= Len(doc.entries) /\ Len(doc.entries) \in Nat
        /\ \/ /\ UNCHANGED <<next, zip>> /\ pc' = "returned"
              /\ doc.entries[next].role \in {"badtypes", "typesdir"}
              /\ err' = IF doc.entries[next].role = "badtypes" THEN "failed"
                        ELSE "archive_invalid"
           \/ /\ UNCHANGED <<pc, err>> /\ next' = next + 1
              /\ types' \in {types, types + 1}
    <3>1. doc.entries \in Seq(Entry)
      BY <1>k DEF Doc
    <3>2. Len(doc.entries) \in Nat /\ types \in Nat
      BY <3>1, SMT DEF Data
    <3> QED
      BY <1>5, <3>2, SMT DEF InspectEntry, Fail
  <2>2. roots' \in 0..7
    <3>1. IsZip /\ Seen'
      BY <1>5, <1>k, <2>1, EntrySeen
    <3>2. roots' = (IF Bit(1)' THEN 1 ELSE 0) + (IF Bit(2)' THEN 2 ELSE 0)
                     + (IF Bit(4)' THEN 4 ELSE 0)
      BY <3>1, <2>1 DEF Seen, IsZip, given
    <3> QED
      BY <3>2, SMT
  <2>3. /\ next' \in Nat \ {0} /\ types' \in Nat /\ types' \in 0..(next' - 1)
        /\ err' = "failed" => "badtypes" \in RolesOf(doc)
    <3>1. next \in Nat \ {0} /\ types \in Nat /\ types \in 0..(next - 1)
      BY DEF Data, TypeOK
    <3>2. next \in DOMAIN doc.entries
      <4>1. doc.entries \in Seq(Entry)
        BY <1>k DEF Doc
      <4> QED
        BY <2>1, <3>1, <4>1, SMT
    <3>3. err' = "failed" => "badtypes" \in RolesOf(doc)
      BY <2>1, <3>2 DEF RolesOf, Way
    <3>4. CASE UNCHANGED <<next, zip>>
      BY <3>1, <3>3, <3>4 DEF zip
    <3>5. CASE next' = next + 1 /\ types' \in {types, types + 1}
      BY <3>1, <3>3, <3>5, SMT
    <3> QED
      BY <2>1, <3>4, <3>5
  <2>4. pc' \in {"entries", "returned"} /\ err' \in {"none", "failed", "archive_invalid"}
        /\ (pc' # "returned" => err' = "none") /\ code = Running
    BY <2>1 DEF Way
  <2>5. TypeOK'
    <3>1. /\ pc' # "text" /\ code' # Ok /\ code' = Running /\ UNCHANGED <<fileCtx, batchCtx>>
          /\ nuls' <= runes'
      BY <2>1, <2>4 DEF TypeOK, text, contexts, decision, Running, Ok
    <3> QED
      BY <2>2, <2>3, <2>4, <3>1 DEF TypeOK, Errors
  <2>5a. Data'
    BY <2>1, <2>3, <2>4 DEF Data, given, text
  <2>6. Way' /\ Causes'
    BY <2>1, <2>3, <2>4, <1>k DEF Way, Causes, IsZip, IsPicture, given, contexts, decision
  <2>7. FailureStaysWithFile'
    BY <2>1, <2>4 DEF FailureStaysWithFile, decision, Running, Dependency, Canceled
  <2> QED
    BY <2>5, <2>5a, <2>6, <2>7
<1>6. CASE InspectEnd
  <2>1. /\ UNCHANGED <<given, next, zip, text, err, contexts, decision, broke>>
        /\ pc = "entries" /\ pc' = "leaving"
    BY <1>6 DEF InspectEnd, Done
  <2> QED
    BY <2>1, <1>k DEF TypeOK, Data, Way, Causes, FailureStaysWithFile, IsZip, IsPicture,
       given, zip, text, contexts, decision
<1>7. CASE Image
  <2>1. /\ UNCHANGED <<given, next, zip, text, type, contexts, decision, broke>>
        /\ pc = "image" /\ pc' = "returned"
        /\ err' \in {"none", "image_dimensions_exceeded", "invalid_image"}
        /\ err' = "invalid_image" => ~doc.intact \/ 0 \in ToSet(doc.size)
    BY <1>7, PictureRight DEF Image, Fail
  <2> QED
    BY <2>1, <1>k DEF TypeOK, Data, Way, Causes, FailureStaysWithFile, IsZip, IsPicture,
       given, zip, text, contexts, decision, Errors, Running, Ok
<1>8. CASE TextUnit
  <2>1. /\ UNCHANGED <<given, zip, err, contexts, decision, broke>> /\ pc = "text"
        /\ \/ UNCHANGED <<next, text>> /\ pc' = "leaving"
           \/ /\ UNCHANGED pc /\ next' = next + 1
              /\ pending' \in BOOLEAN
              /\ runes' = (IF pending' THEN runes ELSE runes + 1)
              /\ nuls' = nuls \/ (~pending' /\ nuls' = nuls + 1)
    <3> DEFINE unit == doc.units[next]
    <3>1. \/ UNCHANGED <<next, text>> /\ pc' = "leaving"
          \/ /\ UNCHANGED pc /\ next' = next + 1 /\ pending' = (unit = "high")
             /\ runes' = (IF unit = "high" THEN runes ELSE runes + 1)
             /\ nuls' = (IF unit = "nul" THEN nuls + 1 ELSE nuls)
      BY <1>8 DEF TextUnit, Done
    <3>2. UNCHANGED <<given, zip, err, contexts, decision, broke>> /\ pc = "text"
      BY <1>8 DEF TextUnit, Done
    <3> HIDE DEF unit
    <3>3. CASE unit = "high"
      BY <3>1, <3>2, <3>3
    <3>4. CASE unit # "high"
      BY <3>1, <3>2, <3>4
    <3> QED
      BY <3>3, <3>4
  <2>2. /\ next \in Nat \ {0} /\ runes \in Nat /\ nuls \in Nat /\ types \in Nat
        /\ runes + (IF pending THEN 1 ELSE 0) <= next - 1 /\ nuls <= runes
        /\ types \in 0..(next - 1) /\ pending \in BOOLEAN
    BY <2>1 DEF TypeOK, Data
  <2>3. /\ next' \in Nat \ {0} /\ runes' \in Nat /\ nuls' \in Nat /\ nuls' <= runes'
        /\ runes' + (IF pending' THEN 1 ELSE 0) <= next' - 1
        /\ types' \in 0..(next' - 1) /\ types' \in Nat /\ pending' \in BOOLEAN
    <3>1. CASE UNCHANGED <<next, text>>
      BY <2>1, <2>2, <3>1 DEF zip, text
    <3>2. CASE pending' = TRUE /\ runes' = runes /\ next' = next + 1 /\ nuls' = nuls
      BY <2>1, <2>2, <3>2, SMT DEF zip
    <3>3. CASE /\ pending' = FALSE /\ runes' = runes + 1 /\ next' = next + 1
               /\ nuls' = nuls \/ nuls' = nuls + 1
      BY <2>1, <2>2, <3>3, SMT DEF zip
    <3> QED
      BY <2>1, <3>1, <3>2, <3>3
  <2> QED
    BY <2>1, <2>3, <1>k DEF TypeOK, Data, Way, Causes, FailureStaysWithFile, IsZip,
       IsPicture, given, zip, contexts, decision
<1>9. CASE TextEnd
  <2>1. /\ UNCHANGED <<given, next, zip, text, err, contexts, decision, broke>>
        /\ pc = "text" /\ pc' = "leaving"
    BY <1>9 DEF TextEnd, Done
  <2> QED
    BY <2>1, <1>k DEF TypeOK, Data, Way, Causes, FailureStaysWithFile, IsZip, IsPicture,
       given, zip, text, contexts, decision
<1>10. CASE Leave
  <2>1. /\ UNCHANGED <<given, next, zip, text, type, contexts, decision, broke>>
        /\ pc = "leaving" /\ pc' = "returned"
        /\ err' = IF fileCtx = "live" THEN "none" ELSE fileCtx
    BY <1>10 DEF Leave
  <2> QED
    BY <2>1, <1>k DEF TypeOK, Data, Way, Causes, FailureStaysWithFile, IsZip, IsPicture,
       given, zip, text, contexts, decision, Errors, Running, Ok
<1>11. CASE Stop
  <2>1. /\ UNCHANGED <<given, next, zip, text, type, contexts, decision, broke>>
        /\ pc \notin {"leaving", "returned"} /\ pc' = "returned"
        /\ fileCtx # "live" /\ err' \in {fileCtx, "archive_canceled"}
    BY <1>11 DEF Stop, Fail
  <2> QED
    BY <2>1, <1>k DEF TypeOK, Data, Way, Causes, FailureStaysWithFile, IsZip, IsPicture,
       given, zip, text, contexts, decision, Errors, Running, Ok
<1>12. CASE Timeout
  <2>1. /\ UNCHANGED <<pc, given, next, zip, text, type, err, batchCtx, decision, broke>>
        /\ fileCtx = "live" /\ fileCtx' = "expired" /\ code = Running
    BY <1>12 DEF Timeout
  <2> QED
    BY <2>1, <1>k DEF TypeOK, Data, Way, Causes, FailureStaysWithFile, IsZip, IsPicture,
       given, zip, text, contexts, decision, Errors, Running, Ok
<1>13. CASE Cancel
  <2>1. /\ UNCHANGED <<pc, given, next, zip, text, type, err, decision, broke>>
        /\ batchCtx' = "canceled" /\ code = Running
        /\ fileCtx' = IF fileCtx = "live" THEN "canceled" ELSE fileCtx
    BY <1>13 DEF Cancel
  <2> QED
    BY <2>1, <1>k DEF TypeOK, Data, Way, Causes, FailureStaysWithFile, IsZip, IsPicture,
       given, zip, text, contexts, decision, Errors, Running, Ok
<1>14. CASE Decide
  <2>1. /\ UNCHANGED <<pc, given, next, zip, text, type, err, contexts, broke>>
        /\ pc = "returned" /\ code = Running /\ reason = "none"
        /\ err \in Errors
    BY <1>14 DEF Decide, Way, TypeOK
  <2>2. CASE err = "none"
    <3>1. code' = Ok /\ reason' = reason
      BY <1>14, <2>2 DEF Decide
    <3> QED
      BY <2>1, <2>2, <3>1, <1>k, SMT DEF TypeOK, Data, Way, Causes, FailureStaysWithFile,
         IsZip, IsPicture, given, zip, text, contexts, Running, Ok, Dependency, Canceled
  <2>3. CASE err # "none"
    <3>1. \/ code' = Ok /\ reason' # "none"
          \/ /\ code' = Canceled /\ reason' = reason
             /\ batchCtx # "live" \/ (policy = "reject_batch"
                                      /\ err \in {"expired", "archive_canceled"})
          \/ /\ code' = Dependency /\ reason' = reason
             /\ batchCtx = "live" /\ policy = "reject_batch"
             /\ err \in {"failed", "invalid_image", "image_dimensions_exceeded", "canceled"}
      BY <1>14, <2>1, <2>3, SMT DEF Decide, Failure, Exit, Reject, Errors
    <3>2. /\ batchCtx # "live" => fileCtx # "live"
          /\ err \in {"expired", "archive_canceled"} => fileCtx # "live"
          /\ err = "canceled" => batchCtx # "live"
      BY DEF TypeOK, Causes
    <3>3. FailureStaysWithFile'
      BY <2>1, <3>1, <3>2, SMT DEF FailureStaysWithFile, Causes, given, contexts, Ok,
         Dependency, Canceled
    <3>4. TypeOK' /\ Data' /\ Way' /\ Causes'
      BY <2>1, <2>3, <3>1, <1>k, SMT DEF TypeOK, Data, Way, Causes, IsZip, IsPicture, given,
         zip, text, contexts, Running, Ok, Dependency, Canceled
    <3> QED
      BY <3>3, <3>4
  <2> QED
    BY <2>2, <2>3
<1> QED
  BY <1>1, <1>2, <1>3, <1>4, <1>5, <1>6, <1>7, <1>8, <1>9, <1>10, <1>11, <1>12, <1>13, <1>14
     DEF Next

\* What was seen of a container survives every step.
LEMMA SeenStep == IInv /\ Next => Seen'
<1> SUFFICES ASSUME IInv, Next PROVE Seen'
  OBVIOUS
<1>1. CASE InspectEntry
  BY <1>1, EntrySeen
<1>2. CASE TextUnit
  <2>1. doc.mime = "other" /\ ~IsZip /\ doc' = doc
    BY <1>2, KindAt DEF TextUnit, IInv, given
  <2> QED
    BY <2>1 DEF Seen, IsZip
<1>3. CASE ~InspectEntry /\ ~TextUnit
  <2>1. UNCHANGED <<doc, next, zip>>
    BY <1>3 DEF Next, Magic, DetectorFails, Classify, Preflight, InspectEnd, Image, TextEnd,
       Leave, Stop, Timeout, Cancel, Decide, given
  <2> QED
    BY <2>1, SeenFrame DEF IInv
<1> QED
  BY <1>1, <1>2, <1>3

\* What was read of a text survives every step.
LEMMA ReadStep == IInv /\ Next => Read'
<1> SUFFICES ASSUME IInv, Next PROVE Read'
  OBVIOUS
<1>1. CASE TextUnit
  BY <1>1, UnitRead
<1>2. CASE InspectEntry
  <2>1. doc.mime # "other" /\ doc' = doc
    BY <1>2, KindAt DEF InspectEntry, IInv, given
  <2> QED
    BY <2>1 DEF Read
<1>3. CASE ~InspectEntry /\ ~TextUnit
  <2>1. UNCHANGED <<doc, next, text>>
    BY <1>3 DEF Next, Magic, DetectorFails, Classify, Preflight, InspectEnd, Image, TextEnd,
       Leave, Stop, Timeout, Cancel, Decide, given
  <2> QED
    BY <2>1, ReadFrame DEF IInv
<1> QED
  BY <1>1, <1>2, <1>3

\* A type once chosen is kept, whatever becomes of the context.
LEMMA ExactStep == IInv /\ Next => Exact'
<1> SUFFICES ASSUME IInv, Next PROVE Exact'
  OBVIOUS
<1> USE DEF IInv
<1>k. /\ pc \in {"preflight", "entries"} => IsZip /\ doc.mime # "other" /\ ~IsPicture
      /\ pc = "image" => IsPicture /\ doc.mime # "other" /\ ~IsZip
      /\ pc = "text" => doc.mime = "other" /\ ~IsZip /\ ~IsPicture
      /\ doc \in Doc /\ doc.mime \in Mimes
  BY KindAt
<1>0. doc' = doc /\ (pc # "returned" => err = "none")
  BY DEF Next, Magic, DetectorFails, Classify, Preflight, InspectEntry, InspectEnd, Image,
     TextUnit, TextEnd, Leave, Stop, Timeout, Cancel, Decide, given, Way
<1>1. CASE Classify
  <2>1. \/ pc' \notin {"leaving", "returned"}
        \/ doc.mime \in {"known", "denied"}
    BY <1>1, <1>k DEF Classify, Done, Mimes, IsImage, IsContainer
  <2> QED
    BY <1>0, <2>1 DEF Exact, Typed, IsZip, IsContainer
<1>2. CASE InspectEnd
  <2>1. ContainerIs(doc, type') /\ doc.mime # "other"
    BY <1>2, <1>k, ContainerRight DEF InspectEnd
  <2> QED
    BY <1>0, <2>1 DEF Exact
<1>3. CASE TextEnd
  <2>1. /\ type' # "unknown_binary" <=> IsText(doc) /\ doc.extension # "never"
        /\ ~IsZip
    BY <1>3, <1>k, TextRight DEF TextEnd
  <2> QED
    BY <1>0, <2>1 DEF Exact, IsZip
<1>4. CASE TextUnit
  <2>1. CASE pc' = "leaving"
    <3>1. ~IsText(doc) /\ type' = "unknown_binary" /\ ~IsZip
      BY <1>4, <1>k, <2>1, IllIsNoText DEF TextUnit
    <3> QED
      BY <1>0, <3>1 DEF Exact, IsZip
  <2>2. CASE pc' # "leaving"
    <3>1. pc' = "text"
      BY <1>4, <2>2 DEF TextUnit, Done
    <3> QED
      BY <3>1 DEF Exact, Typed
  <2> QED
    BY <2>1, <2>2
<1>5. CASE Image
  <2>1. ~IsZip /\ doc.mime # "other"
    BY <1>5, <1>k DEF Image
  <2> QED
    BY <1>0, <2>1 DEF Exact, IsZip
<1>6. CASE Leave \/ Timeout \/ Cancel \/ Decide
  <2>1. type' = type /\ (pc' = "leaving" \/ Typed' => pc = "leaving" \/ Typed)
    BY <1>6 DEF Leave, Timeout, Cancel, Decide, Typed
  <2> QED
    BY <1>0, <2>1 DEF Exact, IsZip
<1>7. CASE Magic \/ DetectorFails \/ Preflight \/ InspectEntry \/ Stop
  <2>1. pc' # "leaving" /\ (pc' = "returned" => err' # "none")
    <3>1. fileCtx \in {"live", "canceled", "expired"}
      BY DEF TypeOK
    <3>2. CASE Preflight
      BY <1>k, <3>2 DEF Preflight, Fail, Doc
    <3>3. CASE InspectEntry
      BY <3>3 DEF InspectEntry, Fail
    <3>4. CASE Magic \/ DetectorFails \/ Stop
      BY <3>1, <3>4 DEF Magic, DetectorFails, Stop, Fail
    <3> QED
      BY <1>7, <3>2, <3>3, <3>4
  <2> QED
    BY <2>1 DEF Exact, Typed
<1> QED
  BY <1>1, <1>2, <1>3, <1>4, <1>5, <1>6, <1>7 DEF Next

\* What is known of a picture that was refused or passed is kept.
LEMMA FitStep == IInv /\ Next => ImagesFit'
<1> SUFFICES ASSUME IInv, Next PROVE ImagesFit'
  OBVIOUS
<1> USE DEF IInv
<1>k. /\ pc \in {"preflight", "entries"} => IsZip /\ doc.mime # "other" /\ ~IsPicture
      /\ pc = "image" => IsPicture /\ doc.mime # "other" /\ ~IsZip
      /\ pc = "text" => doc.mime = "other" /\ ~IsZip /\ ~IsPicture
      /\ doc \in Doc /\ doc.mime \in Mimes
  BY KindAt
<1>0. doc' = doc /\ (pc # "returned" => err = "none")
  BY DEF Next, Magic, DetectorFails, Classify, Preflight, InspectEntry, InspectEnd, Image,
     TextUnit, TextEnd, Leave, Stop, Timeout, Cancel, Decide, given, Way
<1>1. CASE Image
  <2>1. /\ err' = "none" => doc.intact /\ Sides(doc)[1] * Sides(doc)[2] <= MaxPixels
        /\ err' = "image_dimensions_exceeded" => Sides(doc)[1] * Sides(doc)[2] > MaxPixels
    BY <1>1, PictureRight
  <2> QED
    BY <1>0, <2>1 DEF ImagesFit, Typed
<1>2. CASE Preflight \/ InspectEntry \/ InspectEnd \/ TextUnit \/ TextEnd
  <2>1. ~IsImage(doc.mime)
    BY <1>2, <1>k DEF Preflight, InspectEntry, InspectEnd, TextUnit, TextEnd, IsPicture
  <2> QED
    BY <1>0, <2>1 DEF ImagesFit
<1>3. CASE Timeout \/ Cancel \/ Decide
  <2>1. UNCHANGED <<pc, err>>
    BY <1>3 DEF Timeout, Cancel, Decide
  <2> QED
    BY <1>0, <2>1 DEF ImagesFit, Typed
<1>4. CASE Magic \/ Classify
  <2>1. err' = "none" /\ pc' # "returned"
    BY <1>0, <1>4 DEF Magic, Classify, Done
  <2> QED
    BY <2>1 DEF ImagesFit, Typed
<1>5. CASE DetectorFails \/ Stop
  <2>1. fileCtx \in {"live", "canceled", "expired"}
    BY DEF TypeOK
  <2>2. err' \notin {"none", "image_dimensions_exceeded"}
    BY <1>5, <2>1 DEF DetectorFails, Stop, Fail
  <2> QED
    BY <2>2 DEF ImagesFit, Typed
<1>6. CASE Leave
  <2>1. pc = "leaving" /\ ~IsImage(doc.mime)
    BY <1>6 DEF Leave, Way, IsPicture
  <2> QED
    BY <1>0, <2>1 DEF ImagesFit
<1> QED
  BY <1>1, <1>2, <1>3, <1>4, <1>5, <1>6 DEF Next

\* A step that changes nothing keeps the invariant.
LEMMA Stutter == IInv /\ UNCHANGED vars => IInv'
<1> SUFFICES ASSUME IInv, UNCHANGED vars PROVE IInv'
  OBVIOUS
<1> USE DEF IInv
<1>1. UNCHANGED <<doc, next, zip, text>>
  BY DEF vars, zip, text
<1>2. Seen' /\ Read'
  BY <1>1, SeenFrame, ReadFrame
<1>3. TypeOK'
  BY DEF TypeOK, vars
<1>4. Data' /\ Way' /\ Causes' /\ FailureStaysWithFile'
  BY DEF Data, Way, Causes, FailureStaysWithFile, IsZip, IsPicture, vars
<1>5. Exact' /\ ImagesFit'
  BY DEF Exact, ImagesFit, Typed, IsZip, vars
<1> QED
  BY <1>2, <1>3, <1>4, <1>5

\* The invariant holds of every file in every state.
LEMMA Inductive == Spec => []IInv
<1>1. IInv /\ [Next]_vars => IInv'
  <2>1. IInv /\ Next => IInv'
    BY PlainStep, SeenStep, ReadStep, ExactStep, FitStep DEF IInv
  <2> QED
    BY <2>1, Stutter
<1> QED
  BY <1>1, InitInv, PTL DEF Spec

\* ------------------------------------------------------------ theorems

\* The counts are those of the units read, and a file is rejected exactly for an error:
\* the accounting of inspectZIP, validText and detectorFailure.
THEOREM TypeCorrect == Spec => []TypeOK
<1>1. IInv => TypeOK
  BY DEF IInv
<1> QED
  BY <1>1, Inductive, PTL

\* inspectZIP types a container by the set of its entries, however many there are and in
\* whatever order they come.
THEOREM ContainersExact == Spec => []ContainerTypeIsExact
<1>1. IInv => ContainerTypeIsExact
  BY DEF IInv, Exact, IsZip, ContainerTypeIsExact
<1> QED
  BY <1>1, Inductive, PTL

\* validText accepts exactly the files that are text to their end, of any length and for
\* any share of NULs.
THEOREM TextExact == Spec => []TextIsWellFormed
<1>1. IInv => TextIsWellFormed
  BY DEF IInv, Exact, TextIsWellFormed
<1> QED
  BY <1>1, Inductive, PTL

\* No picture passes validateImage or validateExtendedImage beyond the limit, and none
\* within it is refused for its dimensions, whatever the limit and the header.
THEOREM PicturesFit == Spec => []ImagesFit
<1>1. IInv => ImagesFit
  BY DEF IInv
<1> QED
  BY <1>1, Inductive, PTL

\* detectorFailure ends a batch only under reject_batch or with the batch's own context,
\* and never without a cause.
THEOREM FailureContained == Spec => []FailureStaysWithFile
<1>1. IInv => FailureStaysWithFile
  BY DEF IInv
<1> QED
  BY <1>1, Inductive, PTL
=============================================================================
