----------------------------- MODULE MCDigestText -----------------------------
(***************************************************************************)
(* Digests of two bytes, and texts at one or two characters from a hex     *)
(* form: cut, grown, or with characters from inside and just outside the   *)
(* ranges of the hex digits, in both cases.                                *)
(***************************************************************************)
EXTENDS DigestText

(* '/' '0' '9' ':' 'A' 'F' '`' 'a' 'f' 'g', and with their highest bit set *)
(* '0' where char is signed and 'a' where it is not.                       *)
Characters == {47, 48, 57, 58, 65, 70, 96, 97, 102, 103, -80, 225}

Spoilt(t) == {[t EXCEPT ![i] = p, ![j] = q] : i \in DOMAIN t, j \in DOMAIN t,
                                              p \in Characters, q \in Characters}
Cut(t) == {SubSeq(t, 1, n) : n \in 0..Len(t)} \cup {Append(t, p) : p \in Characters}

(* The bytes 09, a0 and af: each nibble occurs, high or low.               *)
Some == [1..Size -> {9, 160, 175}]

MCInputs == Some \X UNION {Spoilt(HexForm(d)) \cup Cut(HexForm(d)) : d \in Some}

=============================================================================
