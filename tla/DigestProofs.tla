----------------------------- MODULE DigestProofs -----------------------------
(***************************************************************************)
(* Digests as text, of any size: the texts that become identities are the  *)
(* hex forms of digests, and the comparison of bytes with a text says      *)
(* "equal" of the hex form and of no other text.                           *)
(***************************************************************************)
EXTENDS DigestText, SequenceTheorems, TLAPS

-----------------------------------------------------------------------------
(* Digits.                                                                 *)

LEMMA DigitOfNibble ==
  ASSUME NEW n \in 0..15
  PROVE  /\ DigitValue(HexDigit(n)) = n
         /\ CanonicalHex(HexDigit(n))
         /\ HexDigit(n) \in Character
BY DEF DigitValue, HexDigit, CanonicalHex, Character

LEMMA NibbleOfDigit ==
  ASSUME NEW c \in Character
  PROVE  /\ DigitValue(c) \in Nat
         /\ DigitValue(c) <= 15 <=> CanonicalHex(c)
         /\ DigitValue(c) <= 15 => /\ DigitValue(c) \in 0..15
                                   /\ HexDigit(DigitValue(c)) = c
BY DEF DigitValue, HexDigit, CanonicalHex, Character

LEMMA NibblesOfByte ==
  ASSUME NEW b \in 0..255
  PROVE  /\ b \div 16 \in 0..15 /\ b % 16 \in 0..15
         /\ b = 16 * (b \div 16) + (b % 16)
<1>1. b % 16 \in 0..15
  OBVIOUS
<1>2. b = 16 * (b \div 16) + (b % 16)
  OBVIOUS
<1>3. b \div 16 \in 0..15
  OBVIOUS
<1> QED
  BY <1>1, <1>2, <1>3

LEMMA ByteOfNibbles ==
  ASSUME NEW high \in 0..15, NEW low \in 0..15
  PROVE  /\ 16 * high + low \in 0..255
         /\ (16 * high + low) \div 16 = high /\ (16 * high + low) % 16 = low
OBVIOUS

(* Comparing the value of two digits with a byte is comparing them with    *)
(* the two digits of its hex form.                                         *)
LEMMA SamePair ==
  ASSUME NEW b \in 0..255, NEW c \in Character, NEW d \in Character
  PROVE  c = HexDigit(b \div 16) /\ d = HexDigit(b % 16)
           <=> ~(DigitValue(c) > 15 \/ DigitValue(d) > 15
                 \/ b # 16 * DigitValue(c) + DigitValue(d))
<1>1. PICK h \in Nat : h = DigitValue(c)
  BY NibbleOfDigit
<1>2. PICK l \in Nat : l = DigitValue(d)
  BY NibbleOfDigit
<1>3. ASSUME c = HexDigit(b \div 16), d = HexDigit(b % 16)
      PROVE  ~(h > 15 \/ l > 15 \/ b # 16 * h + l)
  <2>1. /\ b \div 16 \in 0..15 /\ b % 16 \in 0..15
        /\ b = 16 * (b \div 16) + (b % 16)
    BY NibblesOfByte
  <2>2. h = b \div 16 /\ l = b % 16
    BY <1>1, <1>2, <1>3, <2>1, DigitOfNibble
  <2>3. h \in 0..15 /\ l \in 0..15 /\ b = 16 * h + l
    BY <2>1, <2>2
  <2> QED
    BY <2>3
<1>4. ASSUME ~(h > 15 \/ l > 15 \/ b # 16 * h + l)
      PROVE  c = HexDigit(b \div 16) /\ d = HexDigit(b % 16)
  <2>1. h <= 15 /\ l <= 15 /\ h \in 0..15 /\ l \in 0..15 /\ b = 16 * h + l
    BY <1>4
  <2>2. HexDigit(h) = c /\ HexDigit(l) = d
    BY <1>1, <1>2, <2>1, NibbleOfDigit
  <2>3. b \div 16 = h /\ b % 16 = l
    BY <2>1, ByteOfNibbles
  <2> QED
    BY <2>2, <2>3
<1> QED
  BY <1>1, <1>2, <1>3, <1>4

-----------------------------------------------------------------------------
(* Hex forms.                                                              *)

(* The characters of the i-th byte.                                        *)
PairOf(t, i, b) ==
  /\ t[2 * i - 1] = HexDigit(b \div 16)
  /\ t[2 * i] = HexDigit(b % 16)

LEMMA PositionOf ==
  ASSUME NEW n \in Nat, NEW i \in 1..n
  PROVE  /\ 2 * i - 1 \in 1..(2 * n) /\ 2 * i \in 1..(2 * n)
         /\ (2 * i - 1 + 1) \div 2 = i /\ (2 * i + 1) \div 2 = i
         /\ (2 * i - 1) % 2 = 1 /\ (2 * i) % 2 = 0
OBVIOUS

LEMMA PositionIs ==
  ASSUME NEW n \in Nat, NEW j \in 1..(2 * n)
  PROVE  \E i \in 1..n : j = 2 * i - 1 \/ j = 2 * i
<1>1. (j + 1) \div 2 \in 1..n
  OBVIOUS
<1>2. j = 2 * ((j + 1) \div 2) - 1 \/ j = 2 * ((j + 1) \div 2)
  OBVIOUS
<1> QED
  BY <1>1, <1>2

LEMMA NextWithin ==
  ASSUME NEW m \in Nat, NEW n \in Nat, \A j \in 1..m : j <= n, m # n
  PROVE  m + 1 \in 1..n /\ m < n
<1>1. m > 0 => m \in 1..m
  OBVIOUS
<1>2. m <= n
  BY <1>1
<1> QED
  BY <1>2

LEMMA SameRange ==
  ASSUME NEW m \in Nat, NEW n \in Nat, 1..m = 1..n
  PROVE  m = n
OBVIOUS

LEMMA DigestIs ==
  ASSUME NEW d \in Digests
  PROVE  /\ d \in Seq(0..255) /\ Len(d) = Size
         /\ \A i \in 1..Size : d[i] \in 0..255
<1>1. Size \in Nat /\ d \in [1..Size -> 0..255]
  BY SizeAssumption DEF Digests
<1>2. d \in Seq(0..255)
  BY <1>1, SeqDef
<1>3. DOMAIN d = 1..Len(d) /\ Len(d) \in Nat
  BY <1>2, LenProperties
<1>4. 1..Len(d) = 1..Size
  BY <1>1, <1>3
<1>5. Len(d) = Size
  BY <1>1, <1>3, <1>4
<1> QED
  BY <1>1, <1>2, <1>5

LEMMA HexFormIs ==
  ASSUME NEW d \in Digests
  PROVE  /\ HexForm(d) \in Seq(Character) /\ Len(HexForm(d)) = 2 * Size
         /\ \A i \in 1..Size : PairOf(HexForm(d), i, d[i])
         /\ \A j \in 1..(2 * Size) : CanonicalHex(HexForm(d)[j])
<1>1. Size \in Nat /\ 2 * Size \in Nat /\ Len(d) = Size
  BY SizeAssumption, DigestIs
<1> DEFINE c(j) == LET byte == d[(j + 1) \div 2]
                   IN HexDigit(IF j % 2 = 1 THEN byte \div 16 ELSE byte % 16)
<1>2. HexForm(d) = [j \in 1..(2 * Size) |-> c(j)]
  BY <1>1 DEF HexForm
<1>3. \A i \in 1..Size : /\ c(2 * i - 1) = HexDigit(d[i] \div 16)
                         /\ c(2 * i) = HexDigit(d[i] % 16)
  BY <1>1, PositionOf
<1>4. ASSUME NEW j \in 1..(2 * Size) PROVE c(j) \in Character /\ CanonicalHex(c(j))
  <2>1. PICK i \in 1..Size : j = 2 * i - 1 \/ j = 2 * i
    BY <1>1, PositionIs
  <2>2. d[i] \div 16 \in 0..15 /\ d[i] % 16 \in 0..15
    BY DigestIs, NibblesOfByte
  <2>3. c(j) = HexDigit(d[i] \div 16) \/ c(j) = HexDigit(d[i] % 16)
    BY <1>3, <2>1
  <2> HIDE DEF c
  <2> QED
    BY <2>2, <2>3, DigitOfNibble
<1> HIDE DEF c
<1>5. HexForm(d) \in [1..(2 * Size) -> Character]
  BY <1>2, <1>4
<1>6. HexForm(d) \in Seq(Character)
  BY <1>1, <1>5, SeqDef
<1>7. DOMAIN HexForm(d) = 1..Len(HexForm(d)) /\ Len(HexForm(d)) \in Nat
  BY <1>6, LenProperties
<1>8. 1..Len(HexForm(d)) = 1..(2 * Size)
  BY <1>5, <1>7
<1>9. Len(HexForm(d)) = 2 * Size
  BY <1>1, <1>7, <1>8, SameRange
<1>10. \A i \in 1..Size : PairOf(HexForm(d), i, d[i])
  <2> SUFFICES ASSUME NEW i \in 1..Size PROVE PairOf(HexForm(d), i, d[i])
    OBVIOUS
  <2>1. 2 * i - 1 \in 1..(2 * Size) /\ 2 * i \in 1..(2 * Size)
    BY <1>1, PositionOf
  <2> QED
    BY <1>2, <1>3, <2>1 DEF PairOf
<1> QED
  BY <1>2, <1>4, <1>6, <1>9, <1>10

(* A text is the hex form of a digest when it is so byte by byte.          *)
LEMMA HexFormByPairs ==
  ASSUME NEW d \in Digests, NEW t \in Seq(Character), Len(t) = 2 * Size,
         \A i \in 1..Size : PairOf(t, i, d[i])
  PROVE  t = HexForm(d)
<1>1. Size \in Nat
  BY SizeAssumption
<1>2. /\ HexForm(d) \in Seq(Character) /\ Len(HexForm(d)) = 2 * Size
      /\ \A i \in 1..Size : PairOf(HexForm(d), i, d[i])
  BY HexFormIs
<1>3. ASSUME NEW j \in 1..(2 * Size) PROVE t[j] = HexForm(d)[j]
  <2>1. PICK i \in 1..Size : j = 2 * i - 1 \/ j = 2 * i
    BY <1>1, PositionIs
  <2> QED
    BY <1>2, <2>1 DEF PairOf
<1> QED
  BY <1>2, <1>3, SeqEqual

(* A text of the right length made of digits is the hex form of a digest.  *)
LEMMA CanonicalIsHexForm ==
  ASSUME NEW t \in Seq(Character), Len(t) = 2 * Size,
         \A j \in 1..(2 * Size) : CanonicalHex(t[j])
  PROVE  t \in HexForms
<1> DEFINE high(i) == DigitValue(t[2 * i - 1])
           low(i) == DigitValue(t[2 * i])
           d == [i \in 1..Size |-> 16 * high(i) + low(i)]
<1>1. Size \in Nat
  BY SizeAssumption
<1>2. ASSUME NEW i \in 1..Size
      PROVE  /\ high(i) \in 0..15 /\ low(i) \in 0..15
             /\ HexDigit(high(i)) = t[2 * i - 1] /\ HexDigit(low(i)) = t[2 * i]
  <2>1. 2 * i - 1 \in 1..(2 * Size) /\ 2 * i \in 1..(2 * Size)
    BY <1>1, PositionOf
  <2>2. t[2 * i - 1] \in Character /\ t[2 * i] \in Character
    BY <2>1, ElementOfSeq
  <2>3. CanonicalHex(t[2 * i - 1]) /\ CanonicalHex(t[2 * i])
    BY <2>1
  <2> QED
    BY <2>2, <2>3, NibbleOfDigit
<1> HIDE DEF high, low
<1>3. d \in Digests
  BY <1>2, ByteOfNibbles DEF Digests
<1>4. \A i \in 1..Size : PairOf(t, i, d[i])
  BY <1>2, ByteOfNibbles DEF PairOf
<1> HIDE DEF d
<1>5. t = HexForm(d)
  BY <1>3, <1>4, HexFormByPairs
<1> QED
  BY <1>3, <1>5 DEF HexForms

-----------------------------------------------------------------------------
(* What the loops have found of the part of the text they have read, and   *)
(* what they decide.                                                       *)

TextTyped ==
  /\ digest \in Digests /\ text \in Seq(Character)
  /\ at \in Nat

RequireInv ==
  task = "require" =>
    /\ at > 0 => Len(text) = 2 * Size
    /\ \A j \in 1..at : j <= Len(text) /\ CanonicalHex(text[j])

CompareInv ==
  task = "compare" =>
    /\ at > 0 => Len(text) = 2 * Size
    /\ \A i \in 1..at : i <= Size /\ PairOf(text, i, digest[i])

TextInv == TextTyped /\ RequireInv /\ CompareInv /\ CanonicalText /\ ComparisonExact

LEMMA TextInit == Init => TextInv
<1> SUFFICES ASSUME Init PROVE TextInv
  OBVIOUS
<1>1. TextTyped
  BY InputsAssumption DEF Init, TextTyped
<1>2. at = 0 /\ verdict = "none"
  BY DEF Init
<1> QED
  BY <1>1, <1>2 DEF TextInv, RequireInv, CompareInv, CanonicalText, ComparisonExact

LEMMA RequireStep ==
  ASSUME TextInv, RequireHex
  PROVE  TextInv'
<1>1. /\ task = "require" /\ verdict = "none" /\ UNCHANGED <<digest, text, task>>
      /\ digest \in Digests /\ text \in Seq(Character) /\ at \in Nat /\ Len(text) \in Nat
      /\ at > 0 => Len(text) = 2 * Size
      /\ \A j \in 1..at : j <= Len(text) /\ CanonicalHex(text[j])
  BY DEF TextInv, TextTyped, RequireInv, RequireHex, Running
<1>2. CompareInv' /\ ComparisonExact'
  BY <1>1 DEF CompareInv, ComparisonExact
<1>3. Size \in Nat /\ 2 * Size \in Nat
  BY SizeAssumption
<1>4. CASE Len(text) # 2 * Size
  <2>1. verdict' = "invalid_identity" /\ at' = at
    BY <1>4 DEF RequireHex, Decide
  <2>2. text \notin HexForms
    BY <1>4, HexFormIs DEF HexForms
  <2> QED
    BY <1>1, <1>2, <2>1, <2>2 DEF TextInv, TextTyped, RequireInv, CanonicalText
<1>5. CASE Len(text) = 2 * Size /\ at = Len(text)
  <2>1. verdict' = "accepted" /\ at' = at
    BY <1>5 DEF RequireHex, Decide
  <2>2. text \in HexForms
    BY <1>1, <1>5, CanonicalIsHexForm
  <2> QED
    BY <1>1, <1>2, <2>1, <2>2 DEF TextInv, TextTyped, RequireInv, CanonicalText
<1>6. CASE Len(text) = 2 * Size /\ at # Len(text) /\ CanonicalHex(text[at + 1])
  <2>1. verdict' = "none" /\ at' = at + 1
    BY <1>1, <1>6 DEF RequireHex, Advance
  <2>2. at < Len(text)
    BY <1>1, <1>6
  <2>3. \A j \in 1..(at + 1) : j \in 1..at \/ j = at + 1
    BY <1>1
  <2>4. \A j \in 1..(at + 1) : j <= Len(text) /\ CanonicalHex(text[j])
    BY <1>1, <1>6, <2>2, <2>3
  <2> QED
    BY <1>1, <1>2, <1>6, <2>1, <2>4 DEF TextInv, TextTyped, RequireInv, CanonicalText
<1>7. CASE Len(text) = 2 * Size /\ at # Len(text) /\ ~CanonicalHex(text[at + 1])
  <2>1. verdict' = "invalid_identity" /\ at' = at
    BY <1>7 DEF RequireHex, Decide
  <2>2. at + 1 \in 1..(2 * Size)
    <3>1. PICK n \in Nat : n = 2 * Size
      BY <1>3
    <3>2. \A j \in 1..at : j <= n
      BY <1>1, <1>7, <3>1
    <3>3. at # n
      BY <1>7, <3>1
    <3>4. at + 1 \in 1..n
      BY <1>1, <3>2, <3>3, NextWithin
    <3> QED
      BY <3>1, <3>4
  <2>3. text \notin HexForms
    BY <1>7, <2>2, HexFormIs DEF HexForms
  <2> QED
    BY <1>1, <1>2, <2>1, <2>3 DEF TextInv, TextTyped, RequireInv, CanonicalText
<1> QED
  BY <1>4, <1>5, <1>6, <1>7

LEMMA CompareStep ==
  ASSUME TextInv, CompareBytes
  PROVE  TextInv'
<1>1. /\ task = "compare" /\ verdict = "none" /\ UNCHANGED <<digest, text, task>>
      /\ digest \in Digests /\ text \in Seq(Character) /\ at \in Nat /\ Len(text) \in Nat
      /\ at > 0 => Len(text) = 2 * Size
      /\ \A i \in 1..at : i <= Size /\ PairOf(text, i, digest[i])
  BY DEF TextInv, TextTyped, CompareInv, CompareBytes, Running
<1>2. RequireInv' /\ CanonicalText'
  BY <1>1 DEF RequireInv, CanonicalText
<1>3. Size \in Nat /\ Len(digest) = Size
  BY <1>1, SizeAssumption, DigestIs
<1>4. CASE Len(text) # 2 * Size
  <2>1. verdict' = "different" /\ at' = at
    BY <1>3, <1>4 DEF CompareBytes, Decide
  <2>2. text # HexForm(digest)
    BY <1>1, <1>4, HexFormIs
  <2> QED
    BY <1>1, <1>2, <2>1, <2>2 DEF TextInv, TextTyped, CompareInv, ComparisonExact
<1>5. CASE Len(text) = 2 * Size /\ at = Size
  <2>1. verdict' = "equal" /\ at' = at
    BY <1>3, <1>5 DEF CompareBytes, Decide
  <2>2. text = HexForm(digest)
    BY <1>1, <1>5, HexFormByPairs
  <2> QED
    BY <1>1, <1>2, <2>1, <2>2 DEF TextInv, TextTyped, CompareInv, ComparisonExact
<1>6. CASE Len(text) = 2 * Size /\ at # Size
  <2> DEFINE i == at + 1
             high == DigitValue(text[2 * i - 1])
             low == DigitValue(text[2 * i])
             Differs == high > 15 \/ low > 15 \/ digest[i] # 16 * high + low
  <2>1. at < Size /\ i \in 1..Size
    <3>1. at > 0 => at <= Size
      <4>1. at > 0 => at \in 1..at
        BY <1>1
      <4> QED
        BY <1>1, <4>1
    <3> QED
      BY <1>1, <1>3, <1>6, <3>1
  <2>2. 2 * at + 1 = 2 * i - 1 /\ 2 * at + 2 = 2 * i
    BY <1>1
  <2>3. /\ Differs => Decide("different")
        /\ ~Differs => Advance
    <3>1. IF Differs THEN Decide("different") ELSE Advance
      BY <1>3, <1>6, <2>2 DEF CompareBytes
    <3> QED
      BY <3>1
  <2>4. text[2 * i - 1] \in Character /\ text[2 * i] \in Character
    <3>1. 2 * i - 1 \in 1..(2 * Size) /\ 2 * i \in 1..(2 * Size)
      BY <1>3, <2>1, PositionOf
    <3> QED
      BY <1>1, <1>6, <3>1, ElementOfSeq
  <2>5. digest[i] \in 0..255
    BY <1>1, <2>1, DigestIs
  <2>6. PairOf(text, i, digest[i]) <=> ~Differs
    BY <2>4, <2>5, SamePair DEF PairOf
  <2> HIDE DEF Differs
  <2>7. CASE Differs
    <3>1. verdict' = "different" /\ at' = at
      BY <2>3, <2>7 DEF Decide
    <3>2. text # HexForm(digest)
      BY <1>1, <2>1, <2>6, <2>7, HexFormIs
    <3> QED
      BY <1>1, <1>2, <3>1, <3>2 DEF TextInv, TextTyped, CompareInv, ComparisonExact
  <2>8. CASE ~Differs
    <3>1. verdict' = "none" /\ at' = at + 1
      BY <1>1, <2>3, <2>8 DEF Advance
    <3>2. \A k \in 1..(at + 1) : k \in 1..at \/ k = i
      BY <1>1
    <3>3. \A k \in 1..(at + 1) : k <= Size /\ PairOf(text, k, digest[k])
      BY <1>1, <2>1, <2>6, <2>8, <3>2
    <3> QED
      BY <1>1, <1>2, <1>6, <3>1, <3>3 DEF TextInv, TextTyped, CompareInv, ComparisonExact
  <2> QED
    BY <2>7, <2>8
<1> QED
  BY <1>4, <1>5, <1>6

LEMMA TextAlways == Spec => []TextInv
<1>1. TextInv /\ [Next]_vars => TextInv'
  <2> SUFFICES ASSUME TextInv, [Next]_vars PROVE TextInv'
    OBVIOUS
  <2>1. CASE UNCHANGED vars
    BY <2>1 DEF vars, TextInv, TextTyped, RequireInv, CompareInv, CanonicalText,
                ComparisonExact
  <2> QED
    BY <2>1, RequireStep, CompareStep DEF Next
<1> QED
  BY TextInit, <1>1, PTL DEF Spec

(* require_sha256_hex() lets a text become an identity when it is the hex  *)
(* form of a digest, of any size, and refuses every other text.            *)
THEOREM FormsAccepted == Spec => []CanonicalText
BY TextAlways, PTL DEF TextInv

(* bytes_equal_hex() says "equal" of the hex form of the bytes, and        *)
(* "different" of every other text.                                        *)
THEOREM ComparesExactly == Spec => []ComparisonExact
BY TextAlways, PTL DEF TextInv

=============================================================================
