------------------------------ MODULE DigestText ------------------------------
(***************************************************************************)
(* Digests as text: finish() of src/identity_support.cpp writes one in     *)
(* lowercase hex, require_sha256_hex() lets a caller's text become an      *)
(* identity, and bytes_equal_hex() of src/composer.cpp compares the binary *)
(* source identity of an installed package with the text of a recipe's.    *)
(* A char is the number it is compared as, which for bytes from 128 up is  *)
(* negative where char is signed.  Size is 32 in the code.                 *)
(***************************************************************************)
EXTENDS Integers, Sequences

CONSTANTS Size,      \* the bytes of a digest
          Inputs     \* a digest, and a text to compare with it or to identify

Digests == [1..Size -> 0..255]
Character == -128..255

ASSUME SizeAssumption == Size \in Nat \ {0}
ASSUME InputsAssumption == \A input \in Inputs :
                             input[1] \in Digests /\ input[2] \in Seq(Character)

VARIABLES digest,   \* digest_bytes of the installed package
          text,     \* the hex form it is compared with, or that is to be identified
          task,     \* which function runs
          at,       \* how many characters or bytes it has accepted
          verdict   \* "none" while it runs

vars == <<digest, text, task, at, verdict>>

-----------------------------------------------------------------------------
HexDigit(n) == IF n < 10 THEN 48 + n ELSE 87 + n

(* Two digits for each byte, with setfill('0').                            *)
HexForm(bytes) ==
  [i \in 1..(2 * Len(bytes)) |->
     LET byte == bytes[(i + 1) \div 2]
     IN HexDigit(IF i % 2 = 1 THEN byte \div 16 ELSE byte % 16)]

(* A variant for the mutants: upper case is as good.                       *)
AnyCaseHex(c) == c \in 48..57 \/ c \in 97..102 \/ c \in 65..70

CanonicalHex(c) == c \in 48..57 \/ c \in 97..102

(* A variant for the mutants: `a' follows `9' without a gap.               *)
CompactDigitValue(c) ==
  IF c \in 48..57 THEN c - 48 ELSE IF c \in 97..102 THEN c - 97 + 9 ELSE 16

DigitValue(c) ==
  IF c \in 48..57 THEN c - 48 ELSE IF c \in 97..102 THEN c - 97 + 10 ELSE 16

-----------------------------------------------------------------------------
Init ==
  /\ \E input \in Inputs : digest = input[1] /\ text = input[2]
  /\ task \in {"require", "compare"}
  /\ at = 0
  /\ verdict = "none"

Running(t) == task = t /\ verdict = "none"

Advance == at' = at + 1 /\ UNCHANGED verdict

Decide(v) == verdict' = v /\ UNCHANGED at

(* require_sha256_hex(), character by character.                           *)
RequireHex ==
  /\ Running("require")
  /\ IF Len(text) # 2 * Size THEN Decide("invalid_identity")
     ELSE IF at = Len(text) THEN Decide("accepted")
     ELSE IF CanonicalHex(text[at + 1]) THEN Advance
     ELSE Decide("invalid_identity")
  /\ UNCHANGED <<digest, text, task>>

(* bytes_equal_hex(), byte by byte; beyond the text there is no character. *)
CompareBytes ==
  /\ Running("compare")
  /\ IF Len(digest) * 2 # Len(text) THEN Decide("different")
     ELSE IF at = Len(digest) THEN Decide("equal")
     ELSE LET high == DigitValue(text[2 * at + 1])
              low == DigitValue(text[2 * at + 2])
          IN IF high > 15 \/ low > 15 \/ digest[at + 1] # 16 * high + low
               THEN Decide("different")
               ELSE Advance
  /\ UNCHANGED <<digest, text, task>>

Next == RequireHex \/ CompareBytes

Spec == Init /\ [][Next]_vars

-----------------------------------------------------------------------------
HexForms == {HexForm(d) : d \in Digests}

(* Exactly the texts that finish() can write become identities: no digest  *)
(* has two, and none that was written is refused.                          *)
CanonicalText ==
  task = "require" =>
    /\ verdict = "accepted" => text \in HexForms
    /\ verdict = "invalid_identity" => text \notin HexForms

(* The comparison says "equal" of exactly the text that finish() writes    *)
(* for these bytes.                                                        *)
ComparisonExact ==
  task = "compare" =>
    /\ verdict = "equal" => text = HexForm(digest)
    /\ verdict = "different" => text # HexForm(digest)

=============================================================================
