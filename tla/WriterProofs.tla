----------------------------- MODULE WriterProofs -----------------------------
(***************************************************************************)
(* An identity_writer owns its context, whichever call of OpenSSL fails;   *)
(* what it gives the digest tells the value it is taken of; and keys tell  *)
(* nodes: for values of any length, and words of any spelling.             *)
(***************************************************************************)
EXTENDS IdentityWriter, SequenceTheorems, WellFoundedInduction, TLAPS

(* What is allocated is what context_ points to, in every stage.           *)
WriterInv ==
  /\ stage \in {"unborn", "writing", "identified", "unwinding", "done", "failed"}
  /\ \/ context = TRUE /\ live = 1 /\ stage \in {"writing", "unwinding"}
     \/ context = FALSE /\ live = 0 /\ stage \notin {"writing", "unwinding"}

LEMMA WriterInit == Init => WriterInv
BY DEF Init, WriterInv

LEMMA WriterStep == WriterInv /\ [Next]_vars => WriterInv'
<1> SUFFICES ASSUME WriterInv, [Next]_vars PROVE WriterInv'
  OBVIOUS
<1>1. CASE Construct
  <2>1. context = FALSE /\ live = 0
    BY <1>1 DEF Construct, WriterInv
  <2>2. (live + 1) - 1 = 0 /\ live + 1 = 1
    BY <2>1
  <2>3. CASE stage' = "failed" /\ UNCHANGED <<context, live>>
    BY <2>1, <2>3 DEF WriterInv
  <2>4. CASE stage' = "failed" /\ live' = (live + 1) - 1 /\ UNCHANGED context
    BY <2>1, <2>2, <2>4 DEF WriterInv
  <2>5. CASE stage' = "writing" /\ context' = TRUE /\ live' = live + 1
    BY <2>1, <2>2, <2>5 DEF WriterInv
  <2> QED
    BY <1>1, <2>3, <2>4, <2>5 DEF Construct
<1>2. CASE Update
  BY <1>2 DEF Update, WriterInv
<1>3. CASE Finish
  <2>1. context = TRUE /\ live = 1
    BY <1>3 DEF Finish, WriterInv
  <2>2. CASE Release /\ stage' = "identified"
    <3>1. live' = 0
      BY <2>1, <2>2 DEF Release
    <3> QED
      BY <2>2, <3>1 DEF Release, WriterInv
  <2>3. CASE stage' = "unwinding" /\ UNCHANGED <<context, live>>
    BY <2>1, <2>3 DEF WriterInv
  <2> QED
    BY <1>3, <2>2, <2>3 DEF Finish
<1>4. CASE Destroy
  <2>1. live' = 0
    <3>1. live' = live - (IF context THEN 1 ELSE 0)
      BY <1>4 DEF Destroy, FreeContext
    <3>2. live = IF context THEN 1 ELSE 0
      BY DEF WriterInv
    <3>3. live - live = 0
      BY DEF WriterInv
    <3> QED
      BY <3>1, <3>2, <3>3, Zenon
  <2>2. context' = FALSE /\ stage' \in {"done", "failed"}
    BY <1>4 DEF Destroy
  <2> QED
    BY <2>1, <2>2 DEF WriterInv
<1>5. CASE UNCHANGED vars
  BY <1>5 DEF vars, WriterInv
<1> QED
  BY <1>1, <1>2, <1>3, <1>4, <1>5 DEF Next

(* A writer under way has the one context there is, and however its life   *)
(* ends nothing is left allocated and nothing is freed twice.              *)
THEOREM WriterOwnsContext == Spec => []ContextOwned
<1>1. WriterInv => ContextOwned
  BY DEF WriterInv, ContextOwned
<1> QED
  BY WriterInit, WriterStep, <1>1, PTL DEF Spec

-----------------------------------------------------------------------------
(* Induction, for sets of numbers.                                         *)
LEMMA AllNumbers ==
  ASSUME NEW N \in SUBSET Nat, 0 \in N, \A n \in N : n + 1 \in N
  PROVE  N = Nat
<1> SUFFICES ASSUME Nat \ N # {} PROVE FALSE
  OBVIOUS
<1>1. PICK m \in Nat \ N : \A n \in Nat \ N : <<n, m>> \notin OpToRel(<, Nat)
  BY NatLessThanWellFounded, WFMin
<1>2. m \in Nat /\ m \notin N /\ \A n \in Nat \ N : ~(n < m)
  BY <1>1 DEF OpToRel
<1>3. m # 0 /\ m - 1 \in Nat /\ m - 1 < m /\ (m - 1) + 1 = m
  BY <1>2
<1>4. m - 1 \in N
  BY <1>2, <1>3
<1> QED
  BY <1>2, <1>3, <1>4

-----------------------------------------------------------------------------
(* Flattening.                                                             *)

(* What the recursion of FlattenSeq computes.                              *)
Flattens(f, ss) ==
  f = [i \in 1..Len(ss) |-> IF i = 1 THEN ss[i] ELSE f[i - 1] \o ss[i]]

(* f is as far as n what the recursion computes.                           *)
FlatTo(f, ss, n) ==
  /\ 1 <= n => f[1] = ss[1]
  /\ \A i \in 2..n : f[i] = f[i - 1] \o ss[i]

LEMMA FlatteningExists ==
  ASSUME NEW A, NEW ss \in Seq(Seq(A))
  PROVE  \E f : Flattens(f, ss)
<1> DEFINE N == {n \in Nat : n <= Len(ss) => \E f \in [1..n -> Seq(A)] : FlatTo(f, ss, n)}
<1>1. Len(ss) \in Nat /\ \A i \in 1..Len(ss) : ss[i] \in Seq(A)
  OBVIOUS
<1>2. 0 \in N
  <2>1. <<>> \in [1..0 -> Seq(A)] /\ FlatTo(<<>>, ss, 0)
    BY DEF FlatTo
  <2> QED
    BY <2>1
<1>3. ASSUME NEW n \in N PROVE n + 1 \in N
  <2>1. SUFFICES ASSUME n + 1 <= Len(ss)
                 PROVE  \E f \in [1..(n + 1) -> Seq(A)] : FlatTo(f, ss, n + 1)
    OBVIOUS
  <2>2. n \in Nat /\ n <= Len(ss) /\ n + 1 \in 1..Len(ss)
    BY <1>1, <2>1
  <2>3. PICK f \in [1..n -> Seq(A)] : FlatTo(f, ss, n)
    BY <1>3, <2>2
  <2> DEFINE g == [i \in 1..(n + 1) |-> IF i <= n THEN f[i]
                                        ELSE IF n = 0 THEN ss[1] ELSE f[n] \o ss[n + 1]]
  <2>4. g \in [1..(n + 1) -> Seq(A)]
    <3>1. ss[n + 1] \in Seq(A)
      BY <1>1, <2>2
    <3>2. n # 0 => f[n] \in Seq(A)
      BY <2>2, <2>3
    <3>3. n # 0 => f[n] \o ss[n + 1] \in Seq(A)
      BY <3>1, <3>2, ConcatProperties
    <3>4. n = 0 => ss[1] \in Seq(A)
      BY <3>1
    <3>5. \A i \in 1..(n + 1) : i <= n => f[i] \in Seq(A)
      BY <2>2, <2>3
    <3> QED
      BY <3>3, <3>4, <3>5
  <2>5. FlatTo(g, ss, n + 1)
    <3>1. g[1] = ss[1]
      BY <2>2, <2>3 DEF FlatTo
    <3>2. ASSUME NEW i \in 2..(n + 1) PROVE g[i] = g[i - 1] \o ss[i]
      <4>1. /\ i \in Nat /\ i - 1 \in Nat /\ i \in 1..(n + 1) /\ i - 1 \in 1..(n + 1)
            /\ i - 1 <= n /\ (i <= n \/ i = n + 1)
        BY <2>2, <3>2
      <4>2. CASE i <= n
        <5>1. i \in 2..n
          BY <2>2, <3>2, <4>2
        <5>2. f[i] = f[i - 1] \o ss[i]
          BY <2>3, <5>1 DEF FlatTo
        <5> QED
          BY <4>1, <4>2, <5>2
      <4>3. CASE i = n + 1
        <5>1. g[i - 1] = f[n] /\ g[i] = f[n] \o ss[n + 1]
          BY <2>2, <3>2, <4>1, <4>3
        <5> QED
          BY <4>3, <5>1
      <4> QED
        BY <4>1, <4>2, <4>3
    <3> HIDE DEF g
    <3> QED
      BY <3>1, <3>2 DEF FlatTo
  <2> QED
    BY <2>4, <2>5
<1>4. N = Nat
  <2> HIDE DEF N
  <2>1. N \in SUBSET Nat
    BY DEF N
  <2> QED
    BY <1>2, <1>3, <2>1, AllNumbers
<1>5. PICK f \in [1..Len(ss) -> Seq(A)] : FlatTo(f, ss, Len(ss))
  <2>1. Len(ss) \in N
    BY <1>1, <1>4
  <2> QED
    BY <1>1, <2>1
<1>6. ASSUME NEW i \in 1..Len(ss)
      PROVE  f[i] = IF i = 1 THEN ss[i] ELSE f[i - 1] \o ss[i]
  <2>1. CASE i = 1
    BY <1>1, <1>5, <2>1 DEF FlatTo
  <2>2. CASE i # 1
    <3>1. i \in 2..Len(ss)
      BY <1>1, <2>2
    <3>2. f[i] = f[i - 1] \o ss[i]
      BY <1>5, <3>1 DEF FlatTo
    <3> QED
      BY <2>2, <3>2
  <2> QED
    BY <2>1, <2>2
<1>7. f = [i \in 1..Len(ss) |-> IF i = 1 THEN ss[i] ELSE f[i - 1] \o ss[i]]
  BY <1>5, <1>6
<1> QED
  BY <1>7 DEF Flattens

LEMMA FlattenIs ==
  ASSUME NEW A, NEW ss \in Seq(Seq(A)), Len(ss) # 0
  PROVE  \E f : Flattens(f, ss) /\ FlattenSeq(ss) = f[Len(ss)]
<1> DEFINE f == CHOOSE g : g = [i \in 1..Len(ss) |-> IF i = 1 THEN ss[i] ELSE g[i - 1] \o ss[i]]
<1>1. FlattenSeq(ss) = f[Len(ss)]
  BY DEF FlattenSeq
<1>2. Flattens(f, ss)
  <2>1. \E g : g = [i \in 1..Len(ss) |-> IF i = 1 THEN ss[i] ELSE g[i - 1] \o ss[i]]
    BY FlatteningExists DEF Flattens
  <2> QED
    BY <2>1 DEF Flattens
<1> QED
  BY <1>1, <1>2

(* A flattening has values of one type at all indices.                     *)
LEMMA FlatteningType ==
  ASSUME NEW A, NEW ss \in Seq(Seq(A)), NEW f, Flattens(f, ss)
  PROVE  f \in [1..Len(ss) -> Seq(A)] /\ FlatTo(f, ss, Len(ss))
<1> DEFINE N == {n \in Nat : n + 1 <= Len(ss) => f[n + 1] \in Seq(A)}
<1>1. Len(ss) \in Nat /\ \A i \in 1..Len(ss) : ss[i] \in Seq(A)
  OBVIOUS
<1>2. \A i \in 1..Len(ss) : f[i] = IF i = 1 THEN ss[i] ELSE f[i - 1] \o ss[i]
  BY DEF Flattens
<1>3. 0 \in N
  BY <1>1, <1>2
<1>4. ASSUME NEW n \in N PROVE n + 1 \in N
  <2>1. SUFFICES ASSUME (n + 1) + 1 <= Len(ss) PROVE f[(n + 1) + 1] \in Seq(A)
    OBVIOUS
  <2>2. n \in Nat /\ n + 1 <= Len(ss) /\ (n + 1) + 1 \in 1..Len(ss) /\ (n + 1) + 1 # 1
        /\ ((n + 1) + 1) - 1 = n + 1
    BY <1>1, <2>1
  <2>3. f[(n + 1) + 1] = f[n + 1] \o ss[(n + 1) + 1]
    BY <1>2, <2>2
  <2>4. f[n + 1] \in Seq(A) /\ ss[(n + 1) + 1] \in Seq(A)
    BY <1>1, <1>4, <2>2
  <2> QED
    BY <2>3, <2>4, ConcatProperties
<1>5. N = Nat
  <2> HIDE DEF N
  <2>1. N \in SUBSET Nat
    BY DEF N
  <2> QED
    BY <1>3, <1>4, <2>1, AllNumbers
<1>6. \A i \in 1..Len(ss) : f[i] \in Seq(A)
  <2>1. SUFFICES ASSUME NEW i \in 1..Len(ss) PROVE f[i] \in Seq(A)
    OBVIOUS
  <2>2. i - 1 \in Nat /\ (i - 1) + 1 = i /\ i <= Len(ss)
    BY <1>1
  <2>3. i - 1 \in N
    BY <1>5, <2>2
  <2> QED
    BY <2>2, <2>3
<1>7. f = [i \in 1..Len(ss) |-> f[i]]
  BY DEF Flattens
<1>8. FlatTo(f, ss, Len(ss))
  <2>1. 1 <= Len(ss) => f[1] = ss[1]
    BY <1>1, <1>2
  <2>2. ASSUME NEW i \in 2..Len(ss) PROVE f[i] = f[i - 1] \o ss[i]
    <3>1. i \in 1..Len(ss) /\ i # 1
      BY <1>1, <2>2
    <3> QED
      BY <1>2, <3>1
  <2> QED
    BY <2>1, <2>2 DEF FlatTo
<1> QED
  BY <1>6, <1>7, <1>8

(* Two that agree on what they flatten agree.                              *)
LEMMA FlatteningUnique ==
  ASSUME NEW ss, NEW tt, NEW f, NEW g, NEW n \in Nat,
         FlatTo(f, ss, n), FlatTo(g, tt, n), \A i \in 1..n : ss[i] = tt[i]
  PROVE  \A i \in 1..n : f[i] = g[i]
<1> DEFINE N == {k \in Nat : k + 1 <= n => f[k + 1] = g[k + 1]}
<1>1. 0 \in N
  BY DEF FlatTo
<1>2. ASSUME NEW k \in N PROVE k + 1 \in N
  <2>1. SUFFICES ASSUME (k + 1) + 1 <= n PROVE f[(k + 1) + 1] = g[(k + 1) + 1]
    OBVIOUS
  <2>2. k \in Nat /\ k + 1 <= n /\ (k + 1) + 1 \in 2..n /\ (k + 1) + 1 \in 1..n
        /\ ((k + 1) + 1) - 1 = k + 1
    BY <2>1
  <2>3. f[k + 1] = g[k + 1]
    BY <1>2, <2>2
  <2> DEFINE i == (k + 1) + 1
  <2>4. i \in 2..n /\ i \in 1..n /\ i - 1 = k + 1
    BY <2>2
  <2> HIDE DEF i
  <2>5. f[i] = f[i - 1] \o ss[i] /\ g[i] = g[i - 1] \o tt[i] /\ ss[i] = tt[i]
    BY <2>4 DEF FlatTo
  <2>6. f[i] = g[i]
    BY <2>3, <2>4, <2>5
  <2> QED
    BY <2>6 DEF i
<1>3. N = Nat
  <2> HIDE DEF N
  <2>1. N \in SUBSET Nat
    BY DEF N
  <2> QED
    BY <1>1, <1>2, <2>1, AllNumbers
<1> SUFFICES ASSUME NEW i \in 1..n PROVE f[i] = g[i]
  OBVIOUS
<1>4. i - 1 \in Nat /\ (i - 1) + 1 = i /\ i <= n
  OBVIOUS
<1>5. i - 1 \in N
  BY <1>3, <1>4
<1> QED
  BY <1>4, <1>5

LEMMA FlattenNone == FlattenSeq(<<>>) = <<>>
BY DEF FlattenSeq

LEMMA FlattenType ==
  ASSUME NEW A, NEW ss \in Seq(Seq(A))
  PROVE  FlattenSeq(ss) \in Seq(A)
<1>1. Len(ss) \in Nat
  OBVIOUS
<1>2. CASE Len(ss) = 0
  <2>1. ss = <<>>
    BY <1>2
  <2> QED
    BY <2>1, FlattenNone, EmptySeq
<1>3. CASE Len(ss) # 0
  <2>1. PICK f : Flattens(f, ss) /\ FlattenSeq(ss) = f[Len(ss)]
    BY <1>3, FlattenIs
  <2>2. f \in [1..Len(ss) -> Seq(A)]
    BY <2>1, FlatteningType
  <2>3. Len(ss) \in 1..Len(ss)
    BY <1>1, <1>3
  <2>4. f[Len(ss)] \in Seq(A)
    BY <2>2, <2>3
  <2> QED
    BY <2>1, <2>4
<1> QED
  BY <1>2, <1>3

(* One sequence more to flatten.                                           *)
LEMMA FlattenMore ==
  ASSUME NEW A, NEW ss \in Seq(Seq(A)), NEW s \in Seq(A)
  PROVE  FlattenSeq(Append(ss, s)) = FlattenSeq(ss) \o s
<1> DEFINE tt == Append(ss, s)
           n == Len(ss)
<1>1. /\ n \in Nat /\ tt \in Seq(Seq(A)) /\ Len(tt) = n + 1 /\ Len(tt) # 0
      /\ tt[n + 1] = s /\ \A i \in 1..n : ss[i] = tt[i]
  OBVIOUS
<1> HIDE DEF tt
<1>2. PICK g : Flattens(g, tt) /\ FlattenSeq(tt) = g[n + 1]
  BY <1>1, FlattenIs
<1>3. FlatTo(g, tt, n + 1)
  BY <1>1, <1>2, FlatteningType
<1>4. CASE n = 0
  <2>1. ss = <<>> /\ g[1] = s
    BY <1>1, <1>3, <1>4 DEF FlatTo
  <2>2. <<>> \o s = s
    BY ConcatEmptySeq
  <2> QED
    BY <1>2, <1>4, <2>1, <2>2, FlattenNone DEF tt
<1>5. CASE n # 0
  <2>1. PICK f : Flattens(f, ss) /\ FlattenSeq(ss) = f[n]
    BY <1>5, FlattenIs
  <2>2. FlatTo(f, ss, n)
    BY <2>1, FlatteningType
  <2>3. FlatTo(g, tt, n)
    <3>1. 1 <= n + 1 /\ \A i \in 2..n : i \in 2..(n + 1)
      BY <1>1
    <3> QED
      BY <1>3, <3>1 DEF FlatTo
  <2>4. f[n] = g[n]
    <3>1. n \in 1..n
      BY <1>1, <1>5
    <3>2. n \in Nat /\ \A i \in 1..n : ss[i] = tt[i]
      BY <1>1
    <3> HIDE DEF n
    <3>3. \A i \in 1..n : f[i] = g[i]
      BY <2>2, <2>3, <3>2, FlatteningUnique
    <3> QED
      BY <3>1, <3>3
  <2>5. g[n + 1] = g[n] \o tt[n + 1]
    <3>1. n + 1 \in 2..(n + 1) /\ (n + 1) - 1 = n
      BY <1>1, <1>5
    <3> QED
      BY <1>3, <3>1 DEF FlatTo
  <2> QED
    BY <1>1, <1>2, <2>1, <2>4, <2>5 DEF tt
<1> QED
  BY <1>4, <1>5

(* A sequence is empty or has a last element.                              *)
LEMMA LastOf ==
  ASSUME NEW A, NEW s \in Seq(A), Len(s) # 0
  PROVE  \E r \in Seq(A), x \in A : Len(r) + 1 = Len(s) /\ s = Append(r, x)
<1>1. PICK n \in Nat : Len(s) = n + 1
  <2>1. Len(s) - 1 \in Nat /\ Len(s) = (Len(s) - 1) + 1
    OBVIOUS
  <2> QED
    BY <2>1
<1> DEFINE r == [i \in 1..n |-> s[i]]
<1>2. \A i \in 1..(n + 1) : s[i] \in A
  BY <1>1
<1>3. r \in Seq(A) /\ Len(r) = n
  BY <1>2
<1>4. s[n + 1] \in A
  BY <1>2
<1>5. s = Append(r, s[n + 1])
  <2>1. /\ Append(r, s[n + 1]) \in Seq(A) /\ Len(Append(r, s[n + 1])) = n + 1
        /\ \A i \in 1..(n + 1) : Append(r, s[n + 1])[i] = IF i <= n THEN r[i] ELSE s[n + 1]
    BY <1>3, <1>4
  <2>2. \A i \in 1..(n + 1) : Append(r, s[n + 1])[i] = s[i]
    BY <2>1
  <2> HIDE DEF r
  <2> QED
    BY <1>1, <2>1, <2>2, SeqEqual
<1> QED
  BY <1>1, <1>3, <1>4, <1>5

LEMMA AppendAsConcat ==
  ASSUME NEW A, NEW s \in Seq(A), NEW x \in A
  PROVE  Append(s, x) = s \o <<x>>
<1>1. /\ Append(s, x) \in Seq(A) /\ Len(Append(s, x)) = Len(s) + 1
      /\ \A i \in 1..(Len(s) + 1) : Append(s, x)[i] = IF i <= Len(s) THEN s[i] ELSE x
  OBVIOUS
<1>2. <<x>> \in Seq(A) /\ Len(<<x>>) = 1 /\ <<x>>[1] = x
  OBVIOUS
<1>3. /\ s \o <<x>> \in Seq(A) /\ Len(s \o <<x>>) = Len(s) + 1
      /\ \A i \in 1..(Len(s) + 1) : (s \o <<x>>)[i] = IF i <= Len(s) THEN s[i] ELSE x
  <2>1. /\ s \o <<x>> \in Seq(A) /\ Len(s \o <<x>>) = Len(s) + 1
        /\ \A i \in 1..(Len(s) + 1) :
             (s \o <<x>>)[i] = IF i <= Len(s) THEN s[i] ELSE <<x>>[i - Len(s)]
    BY <1>2, ConcatProperties
  <2>2. \A i \in 1..(Len(s) + 1) : ~(i <= Len(s)) => i - Len(s) = 1
    OBVIOUS
  <2> QED
    BY <1>2, <2>1, <2>2
<1> QED
  BY <1>1, <1>3, SeqEqual

LEMMA FlattenOne ==
  ASSUME NEW A, NEW s \in Seq(A)
  PROVE  FlattenSeq(<<s>>) = s
<1>1. <<>> \in Seq(Seq(A)) /\ <<s>> = Append(<<>>, s)
  OBVIOUS
<1>2. FlattenSeq(Append(<<>>, s)) = FlattenSeq(<<>>) \o s
  BY <1>1, FlattenMore
<1> QED
  BY <1>1, <1>2, FlattenNone, ConcatEmptySeq

(* Induction over sequences, for sets of them.                             *)
LEMMA AllSequences ==
  ASSUME NEW A, NEW S \in SUBSET Seq(A), <<>> \in S,
         \A r \in S, x \in A : Append(r, x) \in S
  PROVE  S = Seq(A)
<1> DEFINE N == {n \in Nat : \A s \in Seq(A) : Len(s) = n => s \in S}
<1>1. 0 \in N
  <2>1. \A s \in Seq(A) : Len(s) = 0 => s = <<>>
    OBVIOUS
  <2> QED
    BY <2>1
<1>2. ASSUME NEW n \in N PROVE n + 1 \in N
  <2>1. SUFFICES ASSUME NEW s \in Seq(A), Len(s) = n + 1 PROVE s \in S
    OBVIOUS
  <2>2. n \in Nat /\ Len(s) # 0
    BY <2>1
  <2>3. PICK r \in Seq(A), x \in A : Len(r) + 1 = Len(s) /\ s = Append(r, x)
    BY <2>2, LastOf
  <2>4. Len(r) = n
    BY <2>1, <2>2, <2>3
  <2>5. r \in S
    BY <1>2, <2>4
  <2> QED
    BY <2>3, <2>5
<1>3. N = Nat
  <2> HIDE DEF N
  <2>1. N \in SUBSET Nat
    BY DEF N
  <2> QED
    BY <1>1, <1>2, <2>1, AllNumbers
<1>4. ASSUME NEW s \in Seq(A) PROVE s \in S
  <2>1. Len(s) \in N
    BY <1>3
  <2> QED
    BY <2>1
<1> QED
  BY <1>4

LEMMA AppendLater ==
  ASSUME NEW A, NEW s \in Seq(A), NEW t \in Seq(A), NEW x \in A
  PROVE  s \o Append(t, x) = Append(s \o t, x)
<1>1. <<x>> \in Seq(A) /\ s \o t \in Seq(A)
  BY ConcatProperties
<1>2. Append(t, x) = t \o <<x>> /\ Append(s \o t, x) = (s \o t) \o <<x>>
  BY <1>1, AppendAsConcat
<1>3. (s \o t) \o <<x>> = s \o (t \o <<x>>)
  BY <1>1, ConcatAssociative
<1> QED
  BY <1>2, <1>3

LEMMA FlattenConcat ==
  ASSUME NEW A, NEW ss \in Seq(Seq(A)), NEW tt \in Seq(Seq(A))
  PROVE  FlattenSeq(ss \o tt) = FlattenSeq(ss) \o FlattenSeq(tt)
<1> DEFINE B == Seq(A)
           S == {t \in Seq(B) : FlattenSeq(ss \o t) = FlattenSeq(ss) \o FlattenSeq(t)}
<1>1. FlattenSeq(ss) \in Seq(A)
  BY FlattenType
<1>2. <<>> \in S
  <2>1. <<>> \in Seq(B) /\ ss \o <<>> = ss
    BY ConcatEmptySeq
  <2> QED
    BY <1>1, <2>1, FlattenNone, ConcatEmptySeq
<1>3. ASSUME NEW r \in S, NEW x \in B PROVE Append(r, x) \in S
  <2>1. ss \in Seq(B) /\ r \in Seq(B) /\ FlattenSeq(ss \o r) = FlattenSeq(ss) \o FlattenSeq(r)
    OBVIOUS
  <2>2. Append(r, x) \in Seq(B) /\ ss \o r \in Seq(B)
    BY <2>1, ConcatProperties
  <2>3. ss \o Append(r, x) = Append(ss \o r, x)
    <3> HIDE DEF B
    <3> QED
      BY <2>1, AppendLater
  <2>4. FlattenSeq(Append(ss \o r, x)) = FlattenSeq(ss \o r) \o x
    BY <2>2, FlattenMore
  <2>5. FlattenSeq(Append(r, x)) = FlattenSeq(r) \o x /\ FlattenSeq(r) \in Seq(A)
    BY <2>1, FlattenMore, FlattenType
  <2>6. (FlattenSeq(ss) \o FlattenSeq(r)) \o x = FlattenSeq(ss) \o (FlattenSeq(r) \o x)
    <3>1. x \in Seq(A)
      OBVIOUS
    <3> HIDE DEF S, B
    <3> QED
      BY <1>1, <2>5, <3>1, ConcatAssociative
  <2> QED
    BY <2>1, <2>2, <2>3, <2>4, <2>5, <2>6
<1>4. S = Seq(B)
  <2> HIDE DEF S, B
  <2>1. S \in SUBSET Seq(B)
    BY DEF S
  <2> QED
    BY <1>2, <1>3, <2>1, AllSequences
<1> QED
  BY <1>4

-----------------------------------------------------------------------------
(* Numbers.                                                                *)

LEMMA QuotientAndRemainder ==
  ASSUME NEW b \in Nat \ {0, 1}, NEW m \in Nat, NEW n \in Nat,
         m \div b = n \div b, m % b = n % b
  PROVE  m = n
BY SMTT(30)

LEMMA QuotientType ==
  ASSUME NEW b \in Nat \ {0, 1}, NEW n \in Nat
  PROVE  n \div b \in Nat /\ n % b \in 0..(b - 1)
OBVIOUS

Halves(f, n, k) ==
  /\ f \in [0..k -> Nat] /\ f[0] = n
  /\ \A i \in 1..k : f[i] = f[i - 1] \div Base

LEMMA ShiftExists ==
  ASSUME NEW n \in Nat
  PROVE  \A k \in Nat : \E f : Halves(f, n, k)
<1> DEFINE N == {k \in Nat : \E f : Halves(f, n, k)}
<1>1. 0 \in N
  <2>1. Halves([i \in 0..0 |-> n], n, 0)
    BY DEF Halves
  <2> QED
    BY <2>1
<1>2. ASSUME NEW k \in N PROVE k + 1 \in N
  <2>1. k \in Nat
    OBVIOUS
  <2>2. PICK f : Halves(f, n, k)
    OBVIOUS
  <2> DEFINE g == [i \in 0..(k + 1) |-> IF i <= k THEN f[i] ELSE f[k] \div Base]
  <2>3. /\ f \in [0..k -> Nat] /\ f[0] = n
        /\ \A i \in 1..k : f[i] = f[i - 1] \div Base
    BY <2>2 DEF Halves
  <2>4. f[k] \div Base \in Nat
    <3>1. f[k] \in Nat
      BY <2>1, <2>3
    <3> QED
      BY <3>1, BaseAssumption, QuotientType
  <2>5. g \in [0..(k + 1) -> Nat] /\ g[0] = n
    <3>1. \A i \in 0..(k + 1) : i <= k => f[i] \in Nat
      BY <2>1, <2>3
    <3> QED
      BY <2>1, <2>3, <2>4, <3>1
  <2>6. ASSUME NEW i \in 1..(k + 1) PROVE g[i] = g[i - 1] \div Base
    <3>1. /\ i \in 0..(k + 1) /\ i - 1 \in 0..(k + 1) /\ i - 1 <= k
          /\ (i \in 1..k /\ i <= k) \/ (i = k + 1 /\ i - 1 = k /\ ~(i <= k))
      BY <2>1, <2>6
    <3>2. g[i - 1] = f[i - 1] /\ g[i] = IF i <= k THEN f[i] ELSE f[k] \div Base
      BY <3>1
    <3> HIDE DEF g
    <3> QED
      BY <2>3, <3>1, <3>2
  <2> HIDE DEF g
  <2>7. Halves(g, n, k + 1)
    BY <2>5, <2>6 DEF Halves
  <2> QED
    BY <2>1, <2>7
<1>3. N = Nat
  <2> HIDE DEF N
  <2>1. N \in SUBSET Nat
    BY DEF N
  <2> QED
    BY <1>1, <1>2, <2>1, AllNumbers
<1> QED
  BY <1>3

LEMMA ShiftedIs ==
  ASSUME NEW n \in Nat
  PROVE  Halves(Shifted(n), n, Width)
<1> DEFINE s == Shifted(n)
<1>1. Width \in Nat
  BY BaseAssumption
<1>2. \E f : f = [k \in 0..Width |-> IF k = 0 THEN n ELSE f[k - 1] \div Base]
  <2>1. PICK f : Halves(f, n, Width)
    BY <1>1, ShiftExists
  <2>2. /\ f \in [0..Width -> Nat] /\ f[0] = n
        /\ \A i \in 1..Width : f[i] = f[i - 1] \div Base
    BY <2>1 DEF Halves
  <2>3. \A k \in 0..Width : f[k] = IF k = 0 THEN n ELSE f[k - 1] \div Base
    <3>1. \A k \in 0..Width : k = 0 \/ k \in 1..Width
      BY <1>1
    <3> QED
      BY <2>2, <3>1
  <2>4. f = [k \in 0..Width |-> IF k = 0 THEN n ELSE f[k - 1] \div Base]
    BY <2>2, <2>3
  <2> QED
    BY <2>4
<1>3. s = [k \in 0..Width |-> IF k = 0 THEN n ELSE s[k - 1] \div Base]
  BY <1>2 DEF Shifted
<1> HIDE DEF s
<1>4. s[0] = n /\ \A k \in 1..Width : s[k] = s[k - 1] \div Base
  <2>1. 0 \in 0..Width /\ \A k \in 1..Width : k \in 0..Width /\ k # 0
    BY <1>1
  <2>2. \A k \in 0..Width : s[k] = IF k = 0 THEN n ELSE s[k - 1] \div Base
    BY <1>3
  <2> QED
    BY <2>1, <2>2
<1> DEFINE N == {k \in Nat : k <= Width => s[k] \in Nat}
<1>5. 0 \in N
  BY <1>4
<1>6. ASSUME NEW k \in N PROVE k + 1 \in N
  <2>1. SUFFICES ASSUME k + 1 <= Width PROVE s[k + 1] \in Nat
    OBVIOUS
  <2>2. k \in Nat /\ k <= Width /\ k + 1 \in 1..Width /\ (k + 1) - 1 = k
    BY <1>1, <2>1
  <2>3. s[k + 1] = s[k] \div Base /\ s[k] \in Nat
    BY <1>4, <1>6, <2>2
  <2> QED
    BY <2>3, BaseAssumption, QuotientType
<1>7. N = Nat
  <2> HIDE DEF N
  <2>1. N \in SUBSET Nat
    BY DEF N
  <2> QED
    BY <1>5, <1>6, <2>1, AllNumbers
<1>8. \A k \in 0..Width : s[k] \in Nat
  BY <1>1, <1>7
<1>9. s \in [0..Width -> Nat]
  BY <1>3, <1>8
<1> QED
  BY <1>4, <1>9 DEF Halves, s

LEMMA DigitsType ==
  ASSUME NEW n \in Nat
  PROVE  Digits(n) \in Seq(0..(Base - 1)) /\ Len(Digits(n)) = Width
<1>1. Width \in Nat
  BY BaseAssumption
<1>2. Shifted(n) \in [0..Width -> Nat]
  BY ShiftedIs DEF Halves
<1>3. ASSUME NEW i \in 1..Width PROVE Shifted(n)[Width - i] % Base \in 0..(Base - 1)
  <2>1. Width - i \in 0..Width
    BY <1>1
  <2>2. Shifted(n)[Width - i] \in Nat
    BY <1>2, <2>1
  <2> QED
    BY <2>2, BaseAssumption, QuotientType
<1>4. Digits(n) \in [1..Width -> 0..(Base - 1)]
  BY <1>3 DEF Digits
<1> DEFINE B == 0..(Base - 1)
           d == Digits(n)
<1> HIDE DEF B, d
<1>5. d \in [1..Width -> B]
  BY <1>4 DEF B, d
<1>6. d \in Seq(B) /\ Len(d) = Width
  BY <1>1, <1>5
<1> QED
  BY <1>6 DEF B, d

(* A number that fits is told by its digits.                               *)
LEMMA DigitsTell ==
  ASSUME NEW m \in Nat, NEW n \in Nat, Fits(m), Fits(n), Digits(m) = Digits(n)
  PROVE  m = n
<1> DEFINE s == Shifted(m)
           t == Shifted(n)
           N == {j \in Nat : j <= Width => s[Width - j] = t[Width - j]}
<1>1. Width \in Nat
  BY BaseAssumption
<1>2. /\ s \in [0..Width -> Nat] /\ s[0] = m
      /\ \A k \in 1..Width : s[k] = s[k - 1] \div Base
  BY ShiftedIs DEF Halves
<1>3. /\ t \in [0..Width -> Nat] /\ t[0] = n
      /\ \A k \in 1..Width : t[k] = t[k - 1] \div Base
  BY ShiftedIs DEF Halves
<1>4. \A i \in 1..Width : s[Width - i] % Base = t[Width - i] % Base
  <2>1. SUFFICES ASSUME NEW i \in 1..Width PROVE s[Width - i] % Base = t[Width - i] % Base
    OBVIOUS
  <2>2. Digits(m)[i] = s[Width - i] % Base /\ Digits(n)[i] = t[Width - i] % Base
    BY DEF Digits
  <2> QED
    BY <2>2
<1>5. s[Width] = 0 /\ t[Width] = 0
  BY DEF Fits
<1> HIDE DEF s, t
<1>6. 0 \in N
  BY <1>1, <1>5
<1>7. ASSUME NEW j \in N PROVE j + 1 \in N
  <2>1. SUFFICES ASSUME j + 1 <= Width PROVE s[Width - (j + 1)] = t[Width - (j + 1)]
    OBVIOUS
  <2>2. j \in Nat /\ j <= Width
    BY <1>1, <2>1
  <2>3. PICK k \in 0..Width : k = Width - (j + 1)
    <3>1. Width - (j + 1) \in 0..Width
      BY <1>1, <2>1, <2>2
    <3> QED
      BY <3>1
  <2>4. k + 1 \in 1..Width /\ k + 1 = Width - j /\ (k + 1) - 1 = k
        /\ j + 1 \in 1..Width
    BY <1>1, <2>1, <2>2, <2>3
  <2>5. s[k + 1] = t[k + 1]
    BY <1>7, <2>2, <2>4
  <2>6. s[k + 1] = s[k] \div Base /\ t[k + 1] = t[k] \div Base
    BY <1>2, <1>3, <2>4
  <2>7. s[k] % Base = t[k] % Base
    BY <1>4, <2>3, <2>4
  <2>8. s[k] \in Nat /\ t[k] \in Nat /\ s[k] \div Base = t[k] \div Base
    BY <1>2, <1>3, <2>5, <2>6
  <2> QED
    BY <2>3, <2>7, <2>8, BaseAssumption, QuotientAndRemainder
<1>8. N = Nat
  <2> HIDE DEF N
  <2>1. N \in SUBSET Nat
    BY DEF N
  <2> QED
    BY <1>6, <1>7, <2>1, AllNumbers
<1>9. Width \in N /\ Width - Width = 0
  BY <1>1, <1>8
<1> QED
  BY <1>1, <1>2, <1>3, <1>9

-----------------------------------------------------------------------------
(* Texts, and lists of them.                                               *)

Byte == 0..(Base - 1)

Word == DOMAIN Spelling

(* The bytes of a text: its length, and its spelling.                      *)
TextBytes(w) == Digits(Len(Spelling[w])) \o Spelling[w]

LEMMA SplitAt ==
  ASSUME NEW A, NEW s \in Seq(A), NEW t \in Seq(A), NEW u \in Seq(A), NEW v \in Seq(A),
         Len(s) = Len(t), s \o u = t \o v
  PROVE  s = t /\ u = v
<1>1. \A i \in 1..Len(s) : (s \o u)[i] = s[i] /\ (t \o v)[i] = t[i]
  <2>1. \A i \in 1..Len(s) : i \in 1..(Len(s) + Len(u)) /\ i \in 1..(Len(t) + Len(v))
                             /\ i <= Len(s) /\ i <= Len(t)
    OBVIOUS
  <2> QED
    BY <2>1, ConcatProperties
<1>2. s = t
  BY <1>1, SeqEqual
<1>3. u = v
  BY <1>2, ConcatSimplifications
<1> QED
  BY <1>2, <1>3

LEMMA WordType ==
  ASSUME NEW w \in Word
  PROVE  /\ Spelling[w] \in Seq(Byte) /\ Len(Spelling[w]) \in Nat /\ Fits(Len(Spelling[w]))
         /\ Digits(Len(Spelling[w])) \in Seq(Byte) /\ TextBytes(w) \in Seq(Byte)
         /\ Number(Len(Spelling[w])) \in Seq(Seq(Byte)) /\ Text(w) \in Seq(Seq(Byte))
<1>1. Spelling[w] \in Seq(Byte) /\ Fits(Len(Spelling[w]))
  BY SpellingAssumption, SizesAssumption DEF Byte, Word
<1>2. Len(Spelling[w]) \in Nat
  BY <1>1
<1>3. Digits(Len(Spelling[w])) \in Seq(Byte)
  BY <1>2, DigitsType DEF Byte
<1>4. TextBytes(w) \in Seq(Byte)
  BY <1>1, <1>3, ConcatProperties DEF TextBytes
<1>5. Number(Len(Spelling[w])) \in Seq(Seq(Byte)) /\ <<Spelling[w]>> \in Seq(Seq(Byte))
  BY <1>1, <1>3 DEF Number
<1>6. Text(w) \in Seq(Seq(Byte))
  BY <1>5, ConcatProperties DEF Text
<1> QED
  BY <1>1, <1>2, <1>3, <1>4, <1>5, <1>6

LEMMA TextIs ==
  ASSUME NEW w \in Word
  PROVE  FlattenSeq(Text(w)) = TextBytes(w)
<1> DEFINE d == Digits(Len(Spelling[w]))
<1>1. d \in Seq(Byte) /\ Spelling[w] \in Seq(Byte)
  BY WordType
<1>2. Text(w) = <<d>> \o <<Spelling[w]>>
  BY DEF Text, Number
<1>3. <<d>> \in Seq(Seq(Byte)) /\ <<Spelling[w]>> \in Seq(Seq(Byte))
  BY <1>1
<1> HIDE DEF d
<1>4. FlattenSeq(Text(w)) = FlattenSeq(<<d>>) \o FlattenSeq(<<Spelling[w]>>)
  BY <1>2, <1>3, FlattenConcat
<1>5. FlattenSeq(<<d>>) = d /\ FlattenSeq(<<Spelling[w]>>) = Spelling[w]
  BY <1>1, FlattenOne
<1> QED
  BY <1>4, <1>5 DEF TextBytes, d

(* Bytes one after the other, in any order of evaluation.                  *)
Associate(s, t, u) == t \o u \in Seq(Byte) /\ (s \o t) \o u = s \o (t \o u)

LEMMA BytesAssociate ==
  ASSUME NEW s \in Seq(Byte), NEW t \in Seq(Byte), NEW u \in Seq(Byte)
  PROVE  Associate(s, t, u)
<1>1. t \o u \in Seq(Byte)
  BY ConcatProperties
<1>2. (s \o t) \o u = s \o (t \o u)
  BY ConcatAssociative
<1> QED
  BY <1>1, <1>2 DEF Associate

(* The same bytes, whether they begin with s or with t.                    *)
Same(s, u, t, v) == u \in Seq(Byte) /\ v \in Seq(Byte) /\ s \o u = t \o v

LEMMA SameRest ==
  ASSUME NEW a \in Seq(Byte), NEW b \in Seq(Byte), NEW c \in Seq(Byte), NEW d \in Seq(Byte),
         NEW p, NEW q, Same(a \o c, p, b \o d, q)
  PROVE  Same(a, c \o p, b, d \o q)
<1>1. p \in Seq(Byte) /\ q \in Seq(Byte) /\ (a \o c) \o p = (b \o d) \o q
  BY DEF Same
<1>2. Associate(a, c, p) /\ Associate(b, d, q)
  BY <1>1, BytesAssociate
<1> QED
  BY <1>1, <1>2, Zenon DEF Same, Associate

LEMMA SameSplits ==
  ASSUME NEW a \in Seq(Byte), NEW b \in Seq(Byte), NEW p, NEW q,
         Same(a, p, b, q), Len(a) = Len(b)
  PROVE  a = b /\ p = q
<1>1. p \in Seq(Byte) /\ q \in Seq(Byte) /\ a \o p = b \o q
  BY DEF Same
<1> QED
  BY <1>1, SplitAt, Zenon

(* Where a text ends, whatever follows it.                                 *)
LEMMA TextSplits ==
  ASSUME NEW w \in Word, NEW x \in Word, NEW u, NEW v,
         Same(TextBytes(w), u, TextBytes(x), v)
  PROVE  Spelling[w] = Spelling[x] /\ u = v
<1> DEFINE s == Spelling[w]
           t == Spelling[x]
           c == Digits(Len(s))
           d == Digits(Len(t))
           p == s \o u
           q == t \o v
<1>1. s \in Seq(Byte) /\ Len(s) \in Nat /\ Fits(Len(s)) /\ c \in Seq(Byte)
  BY WordType
<1>2. t \in Seq(Byte) /\ Len(t) \in Nat /\ Fits(Len(t)) /\ d \in Seq(Byte)
  BY WordType
<1>3. Same(c \o s, u, d \o t, v)
  BY DEF TextBytes
<1>4. Len(c) = Len(d)
  BY <1>1, <1>2, DigitsType
<1> HIDE DEF s, t, c, d
<1>5. Same(c, p, d, q)
  BY <1>1, <1>2, <1>3, SameRest
<1> HIDE DEF p, q
<1>6. c = d /\ p = q
  BY <1>1, <1>2, <1>4, <1>5, SameSplits
<1>7. Len(s) = Len(t)
  BY <1>1, <1>2, <1>6, DigitsTell DEF c, d
<1>8. Same(s, u, t, v)
  BY <1>3, <1>6 DEF Same, p, q
<1> QED
  BY <1>1, <1>2, <1>7, <1>8, SameSplits DEF s, t

(* The bytes of a list of texts.                                           *)
ListBytes(l) == FlattenSeq(Texts(l))

LEMMA TextsType ==
  ASSUME NEW l \in Seq(Word)
  PROVE  Texts(l) \in Seq(Seq(Byte)) /\ ListBytes(l) \in Seq(Byte)
<1> DEFINE B == Seq(Byte)
           f == [i \in DOMAIN l |-> Text(l[i])]
<1>1. Len(l) \in Nat /\ DOMAIN l = 1..Len(l) /\ \A i \in 1..Len(l) : l[i] \in Word
  OBVIOUS
<1>2. \A i \in 1..Len(l) : Text(l[i]) \in Seq(B)
  BY <1>1, WordType
<1> HIDE DEF B
<1>3. f \in Seq(Seq(B))
  BY <1>1, <1>2
<1> HIDE DEF f
<1>4. FlattenSeq(f) \in Seq(B)
  BY <1>3, FlattenType
<1>5. Texts(l) \in Seq(Seq(Byte))
  BY <1>4 DEF Texts, f, B
<1> QED
  BY <1>5, FlattenType DEF ListBytes

LEMMA TextsNone == ListBytes(<<>>) = <<>>
<1> DEFINE f == [i \in DOMAIN <<>> |-> Text(<<>>[i])]
<1>1. f = <<>>
  OBVIOUS
<1> QED
  BY <1>1, FlattenNone DEF ListBytes, Texts

LEMMA TextsMore ==
  ASSUME NEW l \in Seq(Word), NEW w \in Word
  PROVE  ListBytes(Append(l, w)) = ListBytes(l) \o TextBytes(w)
<1> DEFINE B == Seq(Byte)
           k == Append(l, w)
           f == [i \in DOMAIN l |-> Text(l[i])]
           g == [i \in DOMAIN k |-> Text(k[i])]
           x == Text(w)
<1>1. /\ Len(l) \in Nat /\ DOMAIN l = 1..Len(l) /\ \A i \in 1..Len(l) : l[i] \in Word
      /\ DOMAIN k = 1..(Len(l) + 1)
      /\ \A i \in 1..(Len(l) + 1) : k[i] = IF i <= Len(l) THEN l[i] ELSE w
  OBVIOUS
<1>2. x \in Seq(B) /\ \A i \in 1..Len(l) : Text(l[i]) \in Seq(B)
  BY <1>1, WordType
<1> HIDE DEF B, x, k
<1>3. f \in Seq(Seq(B)) /\ Len(f) = Len(l)
  BY <1>1, <1>2
<1>4. g = Append(f, x)
  <2> DEFINE C == Seq(B)
  <2>1. /\ \A i \in 1..(Len(l) + 1) : g[i] = IF i <= Len(l) THEN f[i] ELSE x
        /\ \A i \in 1..(Len(l) + 1) : g[i] \in C
    BY <1>1, <1>2 DEF x
  <2>2. f \in Seq(C) /\ Len(f) = Len(l) /\ x \in C
    BY <1>2, <1>3
  <2> HIDE DEF C
  <2>3. g \in Seq(C) /\ Len(g) = Len(l) + 1
    BY <1>1, <2>1
  <2> HIDE DEF f, g
  <2>4. /\ Append(f, x) \in Seq(C) /\ Len(Append(f, x)) = Len(l) + 1
        /\ \A i \in 1..(Len(l) + 1) : Append(f, x)[i] = IF i <= Len(l) THEN f[i] ELSE x
    BY <1>1, <2>2
  <2> QED
    BY <2>1, <2>3, <2>4, SeqEqual
<1>5. FlattenSeq(g) = FlattenSeq(f) \o x
  <2> HIDE DEF f, g
  <2> QED
    BY <1>2, <1>3, <1>4, FlattenMore
<1>6. Texts(Append(l, w)) = Texts(l) \o Text(w)
  BY <1>5 DEF Texts, k, x
<1>7. Texts(l) \in Seq(Seq(Byte)) /\ Text(w) \in Seq(Seq(Byte))
  BY TextsType, WordType
<1>8. FlattenSeq(Texts(l) \o Text(w)) = FlattenSeq(Texts(l)) \o FlattenSeq(Text(w))
  BY <1>7, FlattenConcat
<1> QED
  BY <1>6, <1>8, TextIs DEF ListBytes

(* The lists have the same spelling, text by text.                         *)
Alike(l, m) == \A i \in 1..Len(l) : Spelling[l[i]] = Spelling[m[i]]

(* Where a list ends whose length is known.                                *)
Splits(k) ==
  \A n \in Seq(Word) : \A p, q :
    Len(k) = Len(n) /\ Same(ListBytes(k), p, ListBytes(n), q) => Alike(k, n) /\ p = q

LEMMA NoneSplits == Splits(<<>>)
<1> SUFFICES ASSUME NEW n \in Seq(Word), NEW p, NEW q,
                    Len(<<>>) = Len(n), Same(ListBytes(<<>>), p, ListBytes(n), q)
             PROVE  Alike(<<>>, n) /\ p = q
  BY DEF Splits
<1>1. Len(<<>>) = 0
  OBVIOUS
<1>2. n = <<>>
  BY <1>1
<1>3. p \in Seq(Byte) /\ q \in Seq(Byte) /\ <<>> \o p = <<>> \o q
  BY <1>2, TextsNone DEF Same
<1>4. p = q
  BY <1>3, ConcatEmptySeq
<1>5. Alike(<<>>, n)
  BY <1>1 DEF Alike
<1> QED
  BY <1>4, <1>5

LEMMA MoreSplits ==
  ASSUME NEW k \in Seq(Word), Splits(k), NEW w \in Word
  PROVE  Splits(Append(k, w))
<1> SUFFICES ASSUME NEW n \in Seq(Word), NEW p, NEW q,
                    Len(Append(k, w)) = Len(n),
                    Same(ListBytes(Append(k, w)), p, ListBytes(n), q)
             PROVE  Alike(Append(k, w), n) /\ p = q
  BY Zenon DEF Splits
<1>1. Len(n) = Len(k) + 1 /\ Len(n) # 0
  OBVIOUS
<1>2. PICK r \in Seq(Word), x \in Word : Len(r) + 1 = Len(n) /\ n = Append(r, x)
  BY <1>1, LastOf
<1>3. Len(k) = Len(r)
  BY <1>1, <1>2
<1> DEFINE a == ListBytes(k)
           b == ListBytes(r)
           c == TextBytes(w)
           d == TextBytes(x)
           s == c \o p
           t == d \o q
<1>4. ListBytes(Append(k, w)) = a \o c /\ ListBytes(n) = b \o d
  BY <1>2, TextsMore
<1>5. a \in Seq(Byte) /\ b \in Seq(Byte) /\ c \in Seq(Byte) /\ d \in Seq(Byte)
  BY TextsType, WordType
<1>6. Same(a \o c, p, b \o d, q)
  BY <1>4
<1>7. Same(a, s, b, t)
  <2> HIDE DEF a, b, c, d
  <2> QED
    BY <1>5, <1>6, SameRest
<1>8. Alike(k, r) /\ s = t
  <2> HIDE DEF s, t
  <2> QED
    BY <1>3, <1>7 DEF Splits
<1>9. Same(c, p, d, q)
  BY <1>6, <1>8 DEF Same
<1>10. Spelling[w] = Spelling[x] /\ p = q
  BY <1>9, TextSplits
<1>11. Alike(Append(k, w), n)
  <2>1. SUFFICES ASSUME NEW i \in 1..(Len(k) + 1)
                 PROVE  Spelling[Append(k, w)[i]] = Spelling[n[i]]
    BY <1>1 DEF Alike
  <2>2. Len(k) \in Nat /\ Len(r) \in Nat
    OBVIOUS
  <2>3. CASE i <= Len(k)
    <3>1. i \in 1..Len(k) /\ i \in 1..Len(r)
      BY <1>3, <2>2, <2>3
    <3>2. Append(k, w)[i] = k[i] /\ Append(r, x)[i] = r[i]
      BY <3>1
    <3> QED
      BY <1>2, <1>8, <3>1, <3>2 DEF Alike
  <2>4. CASE ~(i <= Len(k))
    <3>1. i = Len(k) + 1 /\ i = Len(r) + 1
      BY <1>3, <2>2, <2>4
    <3>2. Append(k, w)[i] = w /\ Append(r, x)[i] = x
      BY <3>1
    <3> QED
      BY <1>2, <1>10, <3>2
  <2> QED
    BY <2>3, <2>4
<1> QED
  BY <1>10, <1>11

LEMMA TextsSplit == \A l \in Seq(Word) : Splits(l)
<1> DEFINE S == {k \in Seq(Word) : Splits(k)}
<1>1. <<>> \in S
  BY NoneSplits
<1>2. ASSUME NEW k \in S, NEW w \in Word PROVE Append(k, w) \in S
  <2>1. k \in Seq(Word) /\ Splits(k)
    OBVIOUS
  <2> QED
    BY <2>1, MoreSplits
<1>3. S = Seq(Word)
  <2> HIDE DEF S
  <2>1. S \in SUBSET Seq(Word)
    BY DEF S
  <2> QED
    BY <1>1, <1>2, <2>1, AllSequences
<1> QED
  BY <1>3

-----------------------------------------------------------------------------
(* Lists, flags and optional texts.                                        *)

LEMMA SameRestRight ==
  ASSUME NEW a \in Seq(Byte), NEW b \in Seq(Byte), NEW d \in Seq(Byte),
         NEW p, NEW q, Same(a, p, b \o d, q)
  PROVE  Same(a, p, b, d \o q)
<1>1. p \in Seq(Byte) /\ q \in Seq(Byte) /\ a \o p = (b \o d) \o q
  BY DEF Same
<1>2. Associate(b, d, q)
  BY <1>1, BytesAssociate
<1> QED
  BY <1>1, <1>2, Zenon DEF Same, Associate

LEMMA NumberSplits ==
  ASSUME NEW m \in Nat, NEW n \in Nat, Fits(m), Fits(n), NEW p, NEW q,
         Same(Digits(m), p, Digits(n), q)
  PROVE  m = n /\ p = q
<1> DEFINE c == Digits(m)
           d == Digits(n)
<1>1. c \in Seq(Byte) /\ d \in Seq(Byte) /\ Len(c) = Len(d)
  BY DigitsType DEF Byte
<1> HIDE DEF c, d
<1>2. Same(c, p, d, q)
  BY DEF c, d
<1>3. c = d /\ p = q
  BY <1>1, <1>2, SameSplits
<1> QED
  BY <1>3, DigitsTell DEF c, d

(* A flag fits.                                                            *)
LEMMA FlagsFit == Fits(0) /\ Fits(1)
<1>1. Width \in Nat \ {0} /\ Base \in Nat \ {0, 1}
  BY BaseAssumption
<1>2. 0 \div Base = 0 /\ 1 \div Base = 0
  BY <1>1
<1>3. ASSUME NEW n \in {0, 1} PROVE Shifted(n)[Width] = 0
  <2> DEFINE s == Shifted(n)
             N == {k \in Nat : k + 1 <= Width => s[k + 1] = 0}
  <2>1. s[0] = n /\ \A i \in 1..Width : s[i] = s[i - 1] \div Base
    BY ShiftedIs DEF Halves
  <2> HIDE DEF s
  <2>2. 0 \in N
    <3>1. s[1] = s[0] \div Base
      BY <1>1, <2>1
    <3> QED
      BY <1>2, <2>1, <3>1
  <2>3. ASSUME NEW k \in N PROVE k + 1 \in N
    <3>1. SUFFICES ASSUME (k + 1) + 1 <= Width PROVE s[(k + 1) + 1] = 0
      OBVIOUS
    <3>2. /\ (k + 1) + 1 \in 1..Width /\ ((k + 1) + 1) - 1 = k + 1 /\ k \in Nat
          /\ k + 1 <= Width
      BY <1>1, <3>1
    <3>3. s[(k + 1) + 1] = s[k + 1] \div Base
      BY <2>1, <3>2
    <3>4. s[k + 1] = 0
      BY <2>3, <3>2
    <3> QED
      BY <1>2, <3>3, <3>4
  <2>4. N = Nat
    <3> HIDE DEF N
    <3>1. N \in SUBSET Nat
      BY DEF N
    <3> QED
      BY <2>2, <2>3, <3>1, AllNumbers
  <2>5. Width - 1 \in Nat /\ (Width - 1) + 1 = Width /\ (Width - 1) + 1 <= Width
    BY <1>1
  <2>6. Width - 1 \in N
    BY <2>4, <2>5
  <2> QED
    BY <2>5, <2>6 DEF s
<1> QED
  BY <1>3 DEF Fits

(* A list of words that are told by their spelling, and where it ends.     *)
ListingBytes(l) == Digits(Len(l)) \o ListBytes(l)

LEMMA ListingIs ==
  ASSUME NEW l \in Seq(Word)
  PROVE  /\ Listing(l) \in Seq(Seq(Byte)) /\ FlattenSeq(Listing(l)) = ListingBytes(l)
         /\ ListingBytes(l) \in Seq(Byte)
<1> DEFINE c == Digits(Len(l))
           n == Number(Len(l))
           t == Texts(l)
<1>1. c \in Seq(Byte)
  BY DigitsType DEF Byte
<1>2. n \in Seq(Seq(Byte)) /\ FlattenSeq(n) = c
  BY <1>1, FlattenOne DEF Number
<1>3. t \in Seq(Seq(Byte)) /\ FlattenSeq(t) = ListBytes(l) /\ ListBytes(l) \in Seq(Byte)
  BY TextsType DEF ListBytes
<1>4. Listing(l) = n \o t
  BY DEF Listing
<1> HIDE DEF n, t, c
<1>5. n \o t \in Seq(Seq(Byte)) /\ FlattenSeq(n \o t) = FlattenSeq(n) \o FlattenSeq(t)
  BY <1>2, <1>3, FlattenConcat, ConcatProperties
<1>6. ListingBytes(l) = c \o ListBytes(l)
  BY DEF ListingBytes, c
<1>7. c \o ListBytes(l) \in Seq(Byte)
  BY <1>1, <1>3, ConcatProperties
<1> QED
  BY <1>2, <1>3, <1>4, <1>5, <1>6, <1>7

LEMMA ListingSplits ==
  ASSUME NEW D \in SUBSET Word, Distinct(D), NEW l \in ListOf(D), NEW m \in ListOf(D),
         NEW p, NEW q, Same(ListingBytes(l), p, ListingBytes(m), q)
  PROVE  l = m /\ p = q
<1>1. /\ l \in Seq(D) /\ m \in Seq(D) /\ l \in Seq(Word) /\ m \in Seq(Word)
      /\ Fits(Len(l)) /\ Fits(Len(m)) /\ Len(l) \in Nat /\ Len(m) \in Nat
  BY DEF ListOf
<1> DEFINE c == Digits(Len(l))
           d == Digits(Len(m))
           a == ListBytes(l)
           b == ListBytes(m)
           s == a \o p
           t == b \o q
<1>2. c \in Seq(Byte) /\ d \in Seq(Byte) /\ a \in Seq(Byte) /\ b \in Seq(Byte)
  BY <1>1, DigitsType, TextsType DEF Byte
<1>3. Same(c \o a, p, d \o b, q)
  BY DEF ListingBytes
<1>4. Same(c, s, d, t)
  <2> HIDE DEF a, b, c, d
  <2> QED
    BY <1>2, <1>3, SameRest
<1>5. Len(l) = Len(m) /\ s = t
  <2> HIDE DEF s, t
  <2> QED
    BY <1>1, <1>4, NumberSplits
<1>6. Same(a, p, b, q)
  BY <1>3, <1>5 DEF Same
<1>7. Alike(l, m) /\ p = q
  <2>1. Splits(l)
    BY <1>1, TextsSplit
  <2> QED
    BY <1>1, <1>5, <1>6, <2>1 DEF Splits
<1>8. \A i \in 1..Len(l) : l[i] = m[i]
  BY <1>1, <1>5, <1>7 DEF Alike, Distinct
<1> QED
  BY <1>1, <1>5, <1>7, <1>8, SeqEqual

(* An optional text.                                                       *)
OptionalBytes(w) == IF w = "none" THEN Digits(0) ELSE Digits(1) \o TextBytes(w)

LEMMA FlagIs ==
  ASSUME NEW b \in BOOLEAN
  PROVE  /\ Boolean(b) \in Seq(Seq(Byte))
         /\ FlattenSeq(Boolean(b)) = Digits(IF b THEN 1 ELSE 0)
         /\ Digits(IF b THEN 1 ELSE 0) \in Seq(Byte)
<1> DEFINE c == Digits(IF b THEN 1 ELSE 0)
<1>1. c \in Seq(Byte)
  <2>1. (IF b THEN 1 ELSE 0) \in Nat
    OBVIOUS
  <2> QED
    BY <2>1, DigitsType DEF Byte
<1>2. Boolean(b) = <<c>>
  BY DEF Boolean, Number
<1> HIDE DEF c
<1>3. <<c>> \in Seq(Seq(Byte)) /\ FlattenSeq(<<c>>) = c
  BY <1>1, FlattenOne
<1> QED
  BY <1>1, <1>2, <1>3 DEF c

LEMMA OptionalIs ==
  ASSUME NEW w \in Word \cup {"none"}
  PROVE  /\ Optional(w) \in Seq(Seq(Byte)) /\ FlattenSeq(Optional(w)) = OptionalBytes(w)
         /\ OptionalBytes(w) \in Seq(Byte)
<1>1. CASE w = "none"
  BY <1>1, FlagIs DEF Optional, OptionalBytes
<1>2. CASE w # "none"
  <2> DEFINE f == Boolean(TRUE)
             t == Text(w)
             c == Digits(1)
             s == TextBytes(w)
  <2>1. f \in Seq(Seq(Byte)) /\ FlattenSeq(f) = c /\ c \in Seq(Byte)
    BY FlagIs
  <2>2. t \in Seq(Seq(Byte)) /\ FlattenSeq(t) = s /\ s \in Seq(Byte)
    BY <1>2, WordType, TextIs
  <2>3. Optional(w) = f \o t /\ OptionalBytes(w) = c \o s
    BY <1>2 DEF Optional, OptionalBytes
  <2> HIDE DEF f, t, c, s
  <2>4. f \o t \in Seq(Seq(Byte)) /\ FlattenSeq(f \o t) = FlattenSeq(f) \o FlattenSeq(t)
    BY <2>1, <2>2, FlattenConcat, ConcatProperties
  <2>5. c \o s \in Seq(Byte)
    BY <2>1, <2>2, ConcatProperties
  <2> QED
    BY <2>1, <2>2, <2>3, <2>4, <2>5
<1> QED
  BY <1>1, <1>2

(* A flag of one value is not taken for a flag of the other.               *)
LEMMA FlagsDiffer ==
  ASSUME NEW c \in Seq(Byte), NEW p, NEW q, Same(Digits(0), p, Digits(1) \o c, q)
  PROVE  FALSE
<1> DEFINE a == Digits(0)
           b == Digits(1)
           s == c \o q
<1>1. a \in Seq(Byte) /\ b \in Seq(Byte)
  BY DigitsType DEF Byte
<1>2. Same(a, p, b, s)
  <2>1. Same(a, p, b \o c, q)
    OBVIOUS
  <2> HIDE DEF a, b
  <2> QED
    BY <1>1, <2>1, SameRestRight
<1> HIDE DEF s
<1>3. Same(Digits(0), p, Digits(1), s)
  BY <1>2
<1>4. 0 = 1
  BY <1>3, FlagsFit, NumberSplits
<1> QED
  BY <1>4

LEMMA SameTurned ==
  ASSUME NEW a, NEW b, NEW p, NEW q, Same(a, p, b, q)
  PROVE  Same(b, q, a, p)
BY DEF Same

LEMMA FlaggedSplits ==
  ASSUME NEW c \in Seq(Byte), NEW d \in Seq(Byte), NEW p, NEW q,
         Same(Digits(1) \o c, p, Digits(1) \o d, q)
  PROVE  Same(c, p, d, q)
<1> DEFINE a == Digits(1)
           s == c \o p
           t == d \o q
<1>1. a \in Seq(Byte)
  BY DigitsType DEF Byte
<1>2. Same(a, s, a, t)
  <2>1. Same(a \o c, p, a \o d, q)
    OBVIOUS
  <2> HIDE DEF a
  <2> QED
    BY <1>1, <2>1, SameRest
<1>3. s = t
  <2> HIDE DEF a, s, t
  <2> QED
    BY <1>1, <1>2, SameSplits
<1> QED
  BY <1>3 DEF Same

LEMMA OptionalSplits ==
  ASSUME NEW D \in SUBSET Word, Distinct(D), "none" \notin D,
         NEW w \in D \cup {"none"}, NEW x \in D \cup {"none"}, NEW p, NEW q,
         Same(OptionalBytes(w), p, OptionalBytes(x), q)
  PROVE  w = x /\ p = q
<1>1. CASE w = "none" /\ x = "none"
  <2>1. Same(Digits(0), p, Digits(0), q)
    BY <1>1 DEF OptionalBytes
  <2> QED
    BY <1>1, <2>1, FlagsFit, NumberSplits
<1>2. CASE w = "none" /\ x # "none"
  <2>1. Same(Digits(0), p, Digits(1) \o TextBytes(x), q) /\ TextBytes(x) \in Seq(Byte)
    BY <1>2, WordType DEF OptionalBytes
  <2> QED
    BY <2>1, FlagsDiffer
<1>3. CASE w # "none" /\ x = "none"
  <2>1. Same(Digits(0), q, Digits(1) \o TextBytes(w), p) /\ TextBytes(w) \in Seq(Byte)
    BY <1>3, WordType, SameTurned DEF OptionalBytes
  <2> QED
    BY <2>1, FlagsDiffer
<1>4. CASE w # "none" /\ x # "none"
  <2>1. /\ Same(Digits(1) \o TextBytes(w), p, Digits(1) \o TextBytes(x), q)
        /\ TextBytes(w) \in Seq(Byte) /\ TextBytes(x) \in Seq(Byte) /\ w \in Word /\ x \in Word
    BY <1>4, WordType DEF OptionalBytes
  <2>2. Same(TextBytes(w), p, TextBytes(x), q)
    BY <2>1, FlaggedSplits
  <2>3. Spelling[w] = Spelling[x] /\ p = q
    BY <2>1, <2>2, TextSplits
  <2> QED
    BY <1>4, <2>3 DEF Distinct
<1> QED
  BY <1>1, <1>2, <1>3, <1>4

(* The kind of a scope, its lifecycle action, and its bytes.               *)
ScopeKind(s) == IF s \in LifecycleName THEN "lifecycle" ELSE s

ScopeAction(s) == IF s \in LifecycleName THEN s ELSE "none"

ScopeBytes(s) == TextBytes(ScopeKind(s)) \o OptionalBytes(ScopeAction(s))

Scopes == (ScopeName \ {"lifecycle"}) \cup LifecycleName

LEMMA VocabulariesSpelled ==
  \A names \in Vocabularies : names \in SUBSET Word /\ Distinct(names)
BY SpellingAssumption DEF Word

LEMMA ScopeType ==
  ASSUME NEW s \in Scopes
  PROVE  /\ ScopeKind(s) \in ScopeName /\ ScopeKind(s) \in Word
         /\ ScopeAction(s) \in LifecycleName \cup {"none"}
         /\ ScopeAction(s) \in Word \cup {"none"}
<1>1. ScopeName \subseteq Word /\ LifecycleName \subseteq Word
  BY VocabulariesSpelled DEF Vocabularies
<1>2. "lifecycle" \in ScopeName
  BY DEF ScopeName
<1> QED
  BY <1>1, <1>2 DEF ScopeKind, ScopeAction, Scopes

LEMMA ScopeIs ==
  ASSUME NEW s \in Scopes
  PROVE  /\ Scope(s) \in Seq(Seq(Byte)) /\ FlattenSeq(Scope(s)) = ScopeBytes(s)
         /\ ScopeBytes(s) \in Seq(Byte)
<1> DEFINE t == Text(ScopeKind(s))
           o == Optional(ScopeAction(s))
           a == TextBytes(ScopeKind(s))
           b == OptionalBytes(ScopeAction(s))
<1>1. t \in Seq(Seq(Byte)) /\ FlattenSeq(t) = a /\ a \in Seq(Byte)
  BY ScopeType, WordType, TextIs
<1>2. o \in Seq(Seq(Byte)) /\ FlattenSeq(o) = b /\ b \in Seq(Byte)
  BY ScopeType, OptionalIs
<1>3. Scope(s) = t \o o
  BY DEF Scope, ScopeKind, ScopeAction
<1>4. ScopeBytes(s) = a \o b
  BY DEF ScopeBytes
<1> HIDE DEF t, o, a, b
<1>5. t \o o \in Seq(Seq(Byte)) /\ FlattenSeq(t \o o) = FlattenSeq(t) \o FlattenSeq(o)
  BY <1>1, <1>2, FlattenConcat, ConcatProperties
<1>6. a \o b \in Seq(Byte)
  BY <1>1, <1>2, ConcatProperties
<1> QED
  BY <1>1, <1>2, <1>3, <1>4, <1>5, <1>6

LEMMA ScopeSplits ==
  ASSUME NEW s \in Scopes, NEW t \in Scopes, NEW p, NEW q,
         Same(ScopeBytes(s), p, ScopeBytes(t), q)
  PROVE  s = t /\ p = q
<1> DEFINE a == TextBytes(ScopeKind(s))
           b == OptionalBytes(ScopeAction(s))
           c == TextBytes(ScopeKind(t))
           d == OptionalBytes(ScopeAction(t))
           u == b \o p
           v == d \o q
<1>1. a \in Seq(Byte) /\ b \in Seq(Byte) /\ c \in Seq(Byte) /\ d \in Seq(Byte)
  BY ScopeType, WordType, OptionalIs
<1>2. Same(a \o b, p, c \o d, q)
  BY DEF ScopeBytes
<1>3. Same(a, u, c, v)
  <2> HIDE DEF a, b, c, d
  <2> QED
    BY <1>1, <1>2, SameRest
<1>4. Spelling[ScopeKind(s)] = Spelling[ScopeKind(t)] /\ u = v
  <2> HIDE DEF u, v
  <2> QED
    BY <1>3, ScopeType, TextSplits
<1>5. Same(b, p, d, q)
  BY <1>2, <1>4 DEF Same
<1>6. ScopeKind(s) = ScopeKind(t)
  BY <1>4, ScopeType, VocabulariesSpelled DEF Vocabularies, Distinct
<1>7. ScopeAction(s) = ScopeAction(t) /\ p = q
  <2>1. LifecycleName \in SUBSET Word /\ Distinct(LifecycleName) /\ "none" \notin LifecycleName
    BY VocabulariesSpelled DEF Vocabularies, LifecycleName
  <2>2. Same(OptionalBytes(ScopeAction(s)), p, OptionalBytes(ScopeAction(t)), q)
    BY <1>5
  <2> QED
    BY <2>1, <2>2, ScopeType, OptionalSplits
<1>8. s = t
  <2>1. "none" \notin LifecycleName
    BY DEF LifecycleName
  <2> QED
    BY <1>6, <1>7, <2>1 DEF ScopeKind, ScopeAction, Scopes
<1> QED
  BY <1>7, <1>8

-----------------------------------------------------------------------------
(* What is written of a value: texts that begin with a domain, and up to   *)
(* three fields of no fixed length.                                        *)

LEMMA FlattenTwo ==
  ASSUME NEW h \in Seq(Seq(Byte)), NEW a \in Seq(Seq(Byte))
  PROVE  h \o a \in Seq(Seq(Byte)) /\ FlattenSeq(h \o a) = FlattenSeq(h) \o FlattenSeq(a)
BY FlattenConcat, ConcatProperties

LEMMA FlattenThree ==
  ASSUME NEW h \in Seq(Seq(Byte)), NEW a \in Seq(Seq(Byte)), NEW b \in Seq(Seq(Byte))
  PROVE  /\ (h \o a) \o b \in Seq(Seq(Byte))
         /\ FlattenSeq((h \o a) \o b) = (FlattenSeq(h) \o FlattenSeq(a)) \o FlattenSeq(b)
<1> DEFINE r == h \o a
<1>1. r \in Seq(Seq(Byte)) /\ FlattenSeq(r) = FlattenSeq(h) \o FlattenSeq(a)
  BY FlattenTwo
<1> HIDE DEF r
<1>2. r \o b \in Seq(Seq(Byte)) /\ FlattenSeq(r \o b) = FlattenSeq(r) \o FlattenSeq(b)
  BY <1>1, FlattenTwo
<1> QED
  BY <1>1, <1>2, Zenon DEF r

FlatInFour(h, a, b, c) ==
  /\ ((h \o a) \o b) \o c \in Seq(Seq(Byte))
  /\ FlattenSeq(((h \o a) \o b) \o c)
       = ((FlattenSeq(h) \o FlattenSeq(a)) \o FlattenSeq(b)) \o FlattenSeq(c)

LEMMA FlattenFour ==
  ASSUME NEW h \in Seq(Seq(Byte)), NEW a \in Seq(Seq(Byte)), NEW b \in Seq(Seq(Byte)),
         NEW c \in Seq(Seq(Byte))
  PROVE  FlatInFour(h, a, b, c)
<1> DEFINE r == (h \o a) \o b
<1>1. /\ r \in Seq(Seq(Byte))
      /\ FlattenSeq(r) = (FlattenSeq(h) \o FlattenSeq(a)) \o FlattenSeq(b)
  BY FlattenThree
<1> HIDE DEF r
<1>2. r \o c \in Seq(Seq(Byte)) /\ FlattenSeq(r \o c) = FlattenSeq(r) \o FlattenSeq(c)
  BY <1>1, FlattenTwo
<1> QED
  BY <1>1, <1>2, Zenon DEF r, FlatInFour

(* Each field is followed by the same bytes, if the one before it is.      *)
InParts(h, a, b, c, i, x, y, z) ==
  \E p1, p2, p3, p4, q1, q2, q3, q4 :
    /\ Same(h, p1, i, q1)
    /\ p1 = q1 => Same(a, p2, x, q2)
    /\ p2 = q2 => Same(b, p3, y, q3)
    /\ p3 = q3 => Same(c, p4, z, q4)

LEMMA FourParts ==
  ASSUME NEW h \in Seq(Byte), NEW a \in Seq(Byte), NEW b \in Seq(Byte), NEW c \in Seq(Byte),
         NEW i \in Seq(Byte), NEW x \in Seq(Byte), NEW y \in Seq(Byte), NEW z \in Seq(Byte),
         ((h \o a) \o b) \o c = ((i \o x) \o y) \o z
  PROVE  InParts(h, a, b, c, i, x, y, z)
<1> DEFINE e == <<>>
           s == h \o a
           t == i \o x
           u == s \o b
           v == t \o y
           p3 == c \o e
           q3 == z \o e
           p2 == b \o p3
           q2 == y \o q3
           p1 == a \o p2
           q1 == x \o q2
<1>1. e \in Seq(Byte)
  OBVIOUS
<1> HIDE DEF e
<1>2. s \in Seq(Byte) /\ t \in Seq(Byte)
  BY ConcatProperties
<1>3. u \in Seq(Byte) /\ v \in Seq(Byte)
  <2> HIDE DEF s, t
  <2> QED
    BY <1>2, ConcatProperties
<1>4. u \o c \in Seq(Byte) /\ v \o z \in Seq(Byte) /\ u \o c = v \o z
  <2>1. u \o c = v \o z
    OBVIOUS
  <2> HIDE DEF u, v
  <2> QED
    BY <1>3, <2>1, ConcatProperties
<1>5. Same(u \o c, e, v \o z, e)
  BY <1>1, <1>4 DEF Same
<1>6. Same(u, p3, v, q3)
  <2> HIDE DEF u, v
  <2> QED
    BY <1>3, <1>5, SameRest
<1>7. Same(s, p2, t, q2)
  <2>1. Same(s \o b, p3, t \o y, q3)
    BY <1>6
  <2> HIDE DEF s, t, p3, q3
  <2> QED
    BY <1>2, <2>1, SameRest
<1>8. Same(h, p1, i, q1)
  <2>1. Same(h \o a, p2, i \o x, q2)
    BY <1>7
  <2> HIDE DEF p2, q2
  <2> QED
    BY <2>1, SameRest
<1>9. /\ p3 \in Seq(Byte) /\ q3 \in Seq(Byte) /\ p2 \in Seq(Byte) /\ q2 \in Seq(Byte)
      /\ p1 \in Seq(Byte) /\ q1 \in Seq(Byte)
  BY <1>6, <1>7, <1>8, Zenon DEF Same
<1>10. p1 = q1 => Same(a, p2, x, q2)
  BY <1>9, Zenon DEF Same, p1, q1
<1>11. p2 = q2 => Same(b, p3, y, q3)
  BY <1>9, Zenon DEF Same, p2, q2
<1>12. p3 = q3 => Same(c, e, z, e)
  BY <1>1, Zenon DEF Same, p3, q3
<1> HIDE DEF p1, p2, p3, q1, q2, q3
<1> QED
  BY <1>8, <1>10, <1>11, <1>12, Zenon DEF InParts

(* The texts begin with the first.                                         *)
LEMMA FirstText ==
  ASSUME NEW l \in Seq(Word), Len(l) # 0
  PROVE  \E r \in Seq(Byte) : ListBytes(l) = TextBytes(l[1]) \o r
<1> DEFINE S == {k \in Seq(Word) : Len(k) # 0 =>
                   \E r \in Seq(Byte) : ListBytes(k) = TextBytes(k[1]) \o r}
<1>1. <<>> \in S
  OBVIOUS
<1>2. ASSUME NEW k \in S, NEW w \in Word PROVE Append(k, w) \in S
  <2>1. k \in Seq(Word) /\ Append(k, w) \in Seq(Word) /\ Len(k) \in Nat
    OBVIOUS
  <2>2. ListBytes(Append(k, w)) = ListBytes(k) \o TextBytes(w) /\ TextBytes(w) \in Seq(Byte)
    BY <2>1, TextsMore, WordType
  <2>3. CASE Len(k) = 0
    <3>1. k = <<>> /\ Append(k, w)[1] = w
      BY <2>1, <2>3
    <3>2. ListBytes(k) \o TextBytes(w) = TextBytes(w) /\ TextBytes(w) \o <<>> = TextBytes(w)
      BY <2>2, <3>1, TextsNone, ConcatEmptySeq
    <3>3. <<>> \in Seq(Byte)
      OBVIOUS
    <3> QED
      BY <2>1, <2>2, <3>1, <3>2, <3>3, Zenon
  <2>4. CASE Len(k) # 0
    <3>1. PICK r \in Seq(Byte) : ListBytes(k) = TextBytes(k[1]) \o r
      BY <2>4
    <3>2. Append(k, w)[1] = k[1] /\ k[1] \in Word
      BY <2>1, <2>4
    <3>3. Associate(TextBytes(k[1]), r, TextBytes(w))
      <4>1. TextBytes(k[1]) \in Seq(Byte)
        BY <3>2, WordType
      <4> QED
        BY <2>2, <4>1, BytesAssociate
    <3>4. /\ r \o TextBytes(w) \in Seq(Byte)
          /\ ListBytes(Append(k, w)) = TextBytes(Append(k, w)[1]) \o (r \o TextBytes(w))
      BY <2>2, <3>1, <3>2, <3>3, Zenon DEF Associate
    <3> QED
      BY <2>1, <3>4, Zenon
  <2> QED
    BY <2>3, <2>4
<1>3. S = Seq(Word)
  <2> HIDE DEF S
  <2>1. S \in SUBSET Seq(Word)
    BY DEF S
  <2> QED
    BY <1>1, <1>2, <2>1, AllSequences
<1> QED
  BY <1>3

LEMMA KindsSpelled ==
  \A kind \in WordKind : Words[kind] \in SUBSET Word /\ Distinct(Words[kind])
BY WordsAssumption DEF Word

-----------------------------------------------------------------------------
(* The five kinds of values.                                               *)

(* The texts a value begins with.                                          *)
Opening(v) ==
  IF v.domain = "request" THEN <<"request/1", v.resolution, v.mode>>
  ELSE IF v.domain = "node"
    THEN <<"node/1", v.request, v.action, v.environment, v.authority, v.of>>
  ELSE IF v.domain = "edge" THEN <<"edge/1", v.request, v.kind, v.before, v.after>>
  ELSE IF v.domain = "cohort" THEN <<"runtime-cohort/1", v.request>>
  ELSE <<"program/1", v.request>>

ScopeField(s) == IF s = "none" THEN Boolean(FALSE) ELSE Boolean(TRUE) \o Scope(s)

ScopeFieldBytes(s) == IF s = "none" THEN Digits(0) ELSE Digits(1) \o ScopeBytes(s)

LEMMA ListOfType ==
  ASSUME NEW D \in SUBSET Word, NEW l \in ListOf(D)
  PROVE  l \in Seq(Word)
BY DEF ListOf

LEMMA RequestIs ==
  ASSUME NEW r \in Requests
  PROVE  /\ Opening(r) \in Seq(Word) /\ r.removals \in ListOf(Words["name"])
         /\ RequestChunks(r) \in Seq(Seq(Byte))
         /\ FlattenSeq(RequestChunks(r)) = ListBytes(Opening(r)) \o ListingBytes(r.removals)
<1>1. /\ r.domain = "request" /\ r.resolution \in Words["resolution"] /\ r.mode \in ModeName
      /\ r.removals \in ListOf(Words["name"])
  BY DEF Requests
<1>2. "request/1" \in Word /\ r.resolution \in Word /\ r.mode \in Word
  <2>1. DomainName \in Vocabularies /\ ModeName \in Vocabularies /\ "resolution" \in WordKind
    BY DEF Vocabularies, WordKind
  <2>2. DomainName \in SUBSET Word /\ ModeName \in SUBSET Word
    BY <2>1, VocabulariesSpelled
  <2>3. Words["resolution"] \in SUBSET Word
    BY <2>1, KindsSpelled
  <2>4. "request/1" \in DomainName
    BY DEF DomainName
  <2> QED
    BY <1>1, <2>2, <2>3, <2>4
<1>3. Opening(r) = <<"request/1", r.resolution, r.mode>>
  BY <1>1 DEF Opening
<1>4. Opening(r) \in Seq(Word)
  <2> HIDE DEF Word
  <2> QED
    BY <1>2, <1>3
<1>5. r.removals \in Seq(Word)
  <2>1. Words["name"] \in SUBSET Word
    BY KindsSpelled DEF WordKind
  <2> QED
    BY <1>1, <2>1, ListOfType
<1>6. /\ Texts(Opening(r)) \in Seq(Seq(Byte)) /\ Listing(r.removals) \in Seq(Seq(Byte))
      /\ FlattenSeq(Listing(r.removals)) = ListingBytes(r.removals)
  BY <1>4, <1>5, TextsType, ListingIs
<1>7. RequestChunks(r) = Texts(Opening(r)) \o Listing(r.removals)
  BY <1>3 DEF RequestChunks
<1>8. /\ RequestChunks(r) \in Seq(Seq(Byte))
      /\ FlattenSeq(RequestChunks(r))
           = FlattenSeq(Texts(Opening(r))) \o FlattenSeq(Listing(r.removals))
  BY <1>6, <1>7, FlattenTwo
<1> QED
  BY <1>1, <1>4, <1>6, <1>8 DEF ListBytes

LEMMA NodeIs ==
  ASSUME NEW n \in Nodes
  PROVE  /\ Opening(n) \in Seq(Word) /\ n.lifecycle \in LifecycleName \cup {"none"}
         /\ NodeChunks(n) \in Seq(Seq(Byte))
         /\ FlattenSeq(NodeChunks(n)) = ListBytes(Opening(n)) \o OptionalBytes(n.lifecycle)
<1>1. /\ n.domain = "node" /\ n.request \in Words["request"] /\ n.action \in ActionName
      /\ n.environment \in EnvironmentName /\ n.authority \in AuthorityName
      /\ n.of \in Words[n.authority] /\ n.lifecycle \in LifecycleName \cup {"none"}
  BY DEF Nodes
<1>2. /\ "node/1" \in Word /\ n.request \in Word /\ n.action \in Word
      /\ n.environment \in Word /\ n.authority \in Word /\ n.of \in Word
      /\ n.lifecycle \in Word \cup {"none"}
  <2>1. /\ DomainName \in Vocabularies /\ ActionName \in Vocabularies
        /\ EnvironmentName \in Vocabularies /\ AuthorityName \in Vocabularies
        /\ LifecycleName \in Vocabularies
    BY DEF Vocabularies
  <2>2. /\ DomainName \in SUBSET Word /\ ActionName \in SUBSET Word
        /\ EnvironmentName \in SUBSET Word /\ AuthorityName \in SUBSET Word
        /\ LifecycleName \in SUBSET Word
    BY <2>1, VocabulariesSpelled
  <2>3. "request" \in WordKind /\ n.authority \in WordKind
    BY <1>1 DEF WordKind, AuthorityName
  <2>4. Words["request"] \in SUBSET Word /\ Words[n.authority] \in SUBSET Word
    BY <2>3, KindsSpelled
  <2>5. "node/1" \in DomainName
    BY DEF DomainName
  <2> QED
    BY <1>1, <2>2, <2>4, <2>5
<1>3. Opening(n) = <<"node/1", n.request, n.action, n.environment, n.authority, n.of>>
  BY <1>1 DEF Opening
<1>4. Opening(n) \in Seq(Word)
  BY <1>2, <1>3
<1>5. /\ Texts(Opening(n)) \in Seq(Seq(Byte)) /\ Optional(n.lifecycle) \in Seq(Seq(Byte))
      /\ FlattenSeq(Optional(n.lifecycle)) = OptionalBytes(n.lifecycle)
  BY <1>2, <1>4, TextsType, OptionalIs
<1>6. NodeChunks(n) = Texts(Opening(n)) \o Optional(n.lifecycle)
  BY <1>3 DEF NodeChunks
<1>7. /\ NodeChunks(n) \in Seq(Seq(Byte))
      /\ FlattenSeq(NodeChunks(n))
           = FlattenSeq(Texts(Opening(n))) \o FlattenSeq(Optional(n.lifecycle))
  BY <1>5, <1>6, FlattenTwo
<1> QED
  BY <1>1, <1>4, <1>5, <1>7 DEF ListBytes

LEMMA ScopeFieldIs ==
  ASSUME NEW s \in Scopes \cup {"none"}
  PROVE  /\ ScopeField(s) \in Seq(Seq(Byte)) /\ FlattenSeq(ScopeField(s)) = ScopeFieldBytes(s)
         /\ ScopeFieldBytes(s) \in Seq(Byte)
<1>1. CASE s = "none"
  BY <1>1, FlagIs DEF ScopeField, ScopeFieldBytes
<1>2. CASE s # "none"
  <2> DEFINE f == Boolean(TRUE)
             t == Scope(s)
             c == Digits(1)
             a == ScopeBytes(s)
  <2>1. f \in Seq(Seq(Byte)) /\ FlattenSeq(f) = c /\ c \in Seq(Byte)
    BY FlagIs
  <2>2. t \in Seq(Seq(Byte)) /\ FlattenSeq(t) = a /\ a \in Seq(Byte)
    BY <1>2, ScopeIs
  <2>3. ScopeField(s) = f \o t /\ ScopeFieldBytes(s) = c \o a
    BY <1>2 DEF ScopeField, ScopeFieldBytes
  <2> HIDE DEF f, t, c, a
  <2>4. f \o t \in Seq(Seq(Byte)) /\ FlattenSeq(f \o t) = FlattenSeq(f) \o FlattenSeq(t)
    BY <2>1, <2>2, FlattenConcat, ConcatProperties
  <2>5. c \o a \in Seq(Byte)
    BY <2>1, <2>2, ConcatProperties
  <2> QED
    BY <2>1, <2>2, <2>3, <2>4, <2>5
<1> QED
  BY <1>1, <1>2

LEMMA ScopeFieldSplits ==
  ASSUME NEW s \in Scopes \cup {"none"}, NEW t \in Scopes \cup {"none"}, NEW p, NEW q,
         Same(ScopeFieldBytes(s), p, ScopeFieldBytes(t), q)
  PROVE  s = t /\ p = q
<1>1. CASE s = "none" /\ t = "none"
  <2>1. Same(Digits(0), p, Digits(0), q)
    BY <1>1 DEF ScopeFieldBytes
  <2> QED
    BY <1>1, <2>1, FlagsFit, NumberSplits
<1>2. CASE s = "none" /\ t # "none"
  <2>1. Same(Digits(0), p, Digits(1) \o ScopeBytes(t), q) /\ ScopeBytes(t) \in Seq(Byte)
    BY <1>2, ScopeIs DEF ScopeFieldBytes
  <2> QED
    BY <2>1, FlagsDiffer
<1>3. CASE s # "none" /\ t = "none"
  <2>1. Same(Digits(0), q, Digits(1) \o ScopeBytes(s), p) /\ ScopeBytes(s) \in Seq(Byte)
    BY <1>3, ScopeIs, SameTurned DEF ScopeFieldBytes
  <2> QED
    BY <2>1, FlagsDiffer
<1>4. CASE s # "none" /\ t # "none"
  <2>1. /\ Same(Digits(1) \o ScopeBytes(s), p, Digits(1) \o ScopeBytes(t), q)
        /\ ScopeBytes(s) \in Seq(Byte) /\ ScopeBytes(t) \in Seq(Byte)
        /\ s \in Scopes /\ t \in Scopes
    BY <1>4, ScopeIs DEF ScopeFieldBytes
  <2>2. Same(ScopeBytes(s), p, ScopeBytes(t), q)
    BY <2>1, FlaggedSplits
  <2> QED
    BY <2>1, <2>2, ScopeSplits
<1> QED
  BY <1>1, <1>2, <1>3, <1>4

LEMMA EdgeIs ==
  ASSUME NEW e \in Edges
  PROVE  /\ Opening(e) \in Seq(Word) /\ e.scope \in Scopes \cup {"none"}
         /\ e.witness \in Words["witness"] \cup {"none"} /\ e.phase \in PhaseName \cup {"none"}
         /\ EdgeChunks(e) \in Seq(Seq(Byte))
         /\ FlattenSeq(EdgeChunks(e))
              = ((ListBytes(Opening(e)) \o ScopeFieldBytes(e.scope))
                   \o OptionalBytes(e.witness)) \o OptionalBytes(e.phase)
<1>1. /\ e.domain = "edge" /\ e.request \in Words["request"] /\ e.kind \in EdgeKindName
      /\ e.before \in Words["node"] /\ e.after \in Words["node"]
      /\ e.scope \in Scopes \cup {"none"} /\ e.witness \in Words["witness"] \cup {"none"}
      /\ e.phase \in PhaseName \cup {"none"}
  BY DEF Edges, Scopes
<1>2. /\ "edge/1" \in Word /\ e.request \in Word /\ e.kind \in Word
      /\ e.before \in Word /\ e.after \in Word /\ e.witness \in Word \cup {"none"}
      /\ e.phase \in Word \cup {"none"}
  <2>1. /\ DomainName \in Vocabularies /\ EdgeKindName \in Vocabularies
        /\ PhaseName \in Vocabularies
    BY DEF Vocabularies
  <2>2. /\ DomainName \in SUBSET Word /\ EdgeKindName \in SUBSET Word
        /\ PhaseName \in SUBSET Word
    BY <2>1, VocabulariesSpelled
  <2>3. "request" \in WordKind /\ "node" \in WordKind /\ "witness" \in WordKind
    BY DEF WordKind
  <2>4. /\ Words["request"] \in SUBSET Word /\ Words["node"] \in SUBSET Word
        /\ Words["witness"] \in SUBSET Word
    BY <2>3, KindsSpelled
  <2>5. "edge/1" \in DomainName
    BY DEF DomainName
  <2> QED
    BY <1>1, <2>2, <2>4, <2>5
<1>3. Opening(e) = <<"edge/1", e.request, e.kind, e.before, e.after>>
  BY <1>1 DEF Opening
<1>4. Opening(e) \in Seq(Word)
  BY <1>2, <1>3
<1> DEFINE h == Texts(Opening(e))
           a == ScopeField(e.scope)
           b == Optional(e.witness)
           c == Optional(e.phase)
<1>5. /\ h \in Seq(Seq(Byte)) /\ a \in Seq(Seq(Byte)) /\ b \in Seq(Seq(Byte))
      /\ c \in Seq(Seq(Byte)) /\ FlattenSeq(h) = ListBytes(Opening(e))
      /\ FlattenSeq(a) = ScopeFieldBytes(e.scope)
      /\ FlattenSeq(b) = OptionalBytes(e.witness) /\ FlattenSeq(c) = OptionalBytes(e.phase)
  BY <1>1, <1>2, <1>4, TextsType, OptionalIs, ScopeFieldIs DEF ListBytes
<1>6. EdgeChunks(e) = ((h \o a) \o b) \o c
  BY <1>3 DEF EdgeChunks, ScopeField
<1> HIDE DEF h, a, b, c
<1>7. FlatInFour(h, a, b, c)
  BY <1>5, FlattenFour
<1> QED
  BY <1>1, <1>4, <1>5, <1>6, <1>7, Zenon DEF FlatInFour

LEMMA CohortIs ==
  ASSUME NEW c \in Cohorts
  PROVE  /\ Opening(c) \in Seq(Word) /\ c.members \in ListOf(Words["node"])
         /\ c.witnesses \in ListOf(Words["witness"])
         /\ CohortChunks(c) \in Seq(Seq(Byte))
         /\ FlattenSeq(CohortChunks(c))
              = (ListBytes(Opening(c)) \o ListingBytes(c.members)) \o ListingBytes(c.witnesses)
<1>1. /\ c.domain = "cohort" /\ c.request \in Words["request"]
      /\ c.members \in ListOf(Words["node"]) /\ c.witnesses \in ListOf(Words["witness"])
  BY DEF Cohorts
<1>2. "request" \in WordKind /\ "node" \in WordKind /\ "witness" \in WordKind
  BY DEF WordKind
<1>3. /\ Words["request"] \in SUBSET Word /\ Words["node"] \in SUBSET Word
      /\ Words["witness"] \in SUBSET Word
  BY <1>2, KindsSpelled
<1>4. "runtime-cohort/1" \in Word /\ c.request \in Word
  <2>1. DomainName \in SUBSET Word
    BY VocabulariesSpelled DEF Vocabularies
  <2>2. "runtime-cohort/1" \in DomainName
    BY DEF DomainName
  <2> QED
    BY <1>1, <1>3, <2>1, <2>2
<1>5. c.members \in Seq(Word) /\ c.witnesses \in Seq(Word)
  BY <1>1, <1>3, ListOfType
<1>6. Opening(c) = <<"runtime-cohort/1", c.request>>
  BY <1>1 DEF Opening
<1>7. Opening(c) \in Seq(Word)
  BY <1>4, <1>6
<1> DEFINE h == Texts(Opening(c))
           a == Listing(c.members)
           b == Listing(c.witnesses)
<1>8. /\ h \in Seq(Seq(Byte)) /\ a \in Seq(Seq(Byte)) /\ b \in Seq(Seq(Byte))
      /\ FlattenSeq(h) = ListBytes(Opening(c)) /\ FlattenSeq(a) = ListingBytes(c.members)
      /\ FlattenSeq(b) = ListingBytes(c.witnesses)
  BY <1>5, <1>7, TextsType, ListingIs DEF ListBytes
<1>9. CohortChunks(c) = (h \o a) \o b
  BY <1>6 DEF CohortChunks
<1> HIDE DEF h, a, b
<1>10. /\ (h \o a) \o b \in Seq(Seq(Byte))
       /\ FlattenSeq((h \o a) \o b) = (FlattenSeq(h) \o FlattenSeq(a)) \o FlattenSeq(b)
  BY <1>8, FlattenThree
<1> QED
  BY <1>1, <1>7, <1>8, <1>9, <1>10, Zenon

LEMMA ProgramIs ==
  ASSUME NEW g \in Programs
  PROVE  /\ Opening(g) \in Seq(Word) /\ g.nodes \in ListOf(Words["node"])
         /\ g.edges \in ListOf(Words["edge"]) /\ g.cohorts \in ListOf(Words["cohort"])
         /\ ProgramChunks(g) \in Seq(Seq(Byte))
         /\ FlattenSeq(ProgramChunks(g))
              = ((ListBytes(Opening(g)) \o ListingBytes(g.nodes))
                   \o ListingBytes(g.edges)) \o ListingBytes(g.cohorts)
<1>1. /\ g.domain = "program" /\ g.request \in Words["request"]
      /\ g.nodes \in ListOf(Words["node"]) /\ g.edges \in ListOf(Words["edge"])
      /\ g.cohorts \in ListOf(Words["cohort"])
  BY DEF Programs
<1>2. /\ "request" \in WordKind /\ "node" \in WordKind /\ "edge" \in WordKind
      /\ "cohort" \in WordKind
  BY DEF WordKind
<1>3. /\ Words["request"] \in SUBSET Word /\ Words["node"] \in SUBSET Word
      /\ Words["edge"] \in SUBSET Word /\ Words["cohort"] \in SUBSET Word
  BY <1>2, KindsSpelled
<1>4. "program/1" \in Word /\ g.request \in Word
  <2>1. DomainName \in SUBSET Word
    BY VocabulariesSpelled DEF Vocabularies
  <2>2. "program/1" \in DomainName
    BY DEF DomainName
  <2> QED
    BY <1>1, <1>3, <2>1, <2>2
<1>5. g.nodes \in Seq(Word) /\ g.edges \in Seq(Word) /\ g.cohorts \in Seq(Word)
  BY <1>1, <1>3, ListOfType
<1>6. Opening(g) = <<"program/1", g.request>>
  BY <1>1 DEF Opening
<1>7. Opening(g) \in Seq(Word)
  BY <1>4, <1>6
<1> DEFINE h == Texts(Opening(g))
           a == Listing(g.nodes)
           b == Listing(g.edges)
           c == Listing(g.cohorts)
<1>8. /\ h \in Seq(Seq(Byte)) /\ a \in Seq(Seq(Byte)) /\ b \in Seq(Seq(Byte))
      /\ c \in Seq(Seq(Byte)) /\ FlattenSeq(h) = ListBytes(Opening(g))
      /\ FlattenSeq(a) = ListingBytes(g.nodes) /\ FlattenSeq(b) = ListingBytes(g.edges)
      /\ FlattenSeq(c) = ListingBytes(g.cohorts)
  BY <1>5, <1>7, TextsType, ListingIs DEF ListBytes
<1>9. ProgramChunks(g) = ((h \o a) \o b) \o c
  BY <1>6 DEF ProgramChunks
<1> HIDE DEF h, a, b, c
<1>10. FlatInFour(h, a, b, c)
  BY <1>8, FlattenFour
<1> QED
  BY <1>1, <1>7, <1>8, <1>9, <1>10, Zenon DEF FlatInFour

-----------------------------------------------------------------------------
(* Values are told by the bytes that are written of them.                  *)

ValueBytes(v) == FlattenSeq(Chunks(v))

LEMMA ChunksAre ==
  /\ \A v \in Requests : Chunks(v) = RequestChunks(v)
  /\ \A v \in Nodes : Chunks(v) = NodeChunks(v)
  /\ \A v \in Edges : Chunks(v) = EdgeChunks(v)
  /\ \A v \in Cohorts : Chunks(v) = CohortChunks(v)
  /\ \A v \in Programs : Chunks(v) = ProgramChunks(v)
BY DEF Chunks, Requests, Nodes, Edges, Cohorts, Programs

(* The texts of two openings of one length are told.                       *)
LEMMA OpeningSplits ==
  ASSUME NEW h \in Seq(Word), NEW k \in Seq(Word), Len(h) = Len(k), NEW p, NEW q,
         Same(ListBytes(h), p, ListBytes(k), q)
  PROVE  Alike(h, k) /\ p = q
<1>1. Splits(h)
  BY TextsSplit
<1> QED
  BY <1>1 DEF Splits

LEMMA RequestsTold ==
  ASSUME NEW r \in Requests, NEW s \in Requests, ValueBytes(r) = ValueBytes(s)
  PROVE  r = s
<1> DEFINE h == ListBytes(Opening(r))
           k == ListBytes(Opening(s))
           a == ListingBytes(r.removals)
           b == ListingBytes(s.removals)
           e == <<>>
<1>1. Opening(r) \in Seq(Word) /\ Opening(s) \in Seq(Word) /\ h \o a = k \o b
  BY RequestIs, ChunksAre DEF ValueBytes
<1>2. Words["name"] \in SUBSET Word /\ Distinct(Words["name"])
  BY KindsSpelled DEF WordKind
<1>3. r.removals \in ListOf(Words["name"]) /\ s.removals \in ListOf(Words["name"])
  BY RequestIs
<1>4. h \in Seq(Byte) /\ k \in Seq(Byte)
  BY <1>1, TextsType
<1>5. a \in Seq(Byte) /\ b \in Seq(Byte)
  BY <1>2, <1>3, ListOfType, ListingIs
<1>6. Same(h, a, k, b)
  BY <1>1, <1>5 DEF Same
<1>7. Opening(r) = <<"request/1", r.resolution, r.mode>>
      /\ Opening(s) = <<"request/1", s.resolution, s.mode>>
  BY DEF Opening, Requests
<1>8. Alike(Opening(r), Opening(s)) /\ a = b
  <2>1. Len(Opening(r)) = Len(Opening(s))
    BY <1>7
  <2> HIDE DEF a, b
  <2> QED
    BY <1>1, <1>6, <2>1, OpeningSplits
<1>9. Spelling[r.resolution] = Spelling[s.resolution] /\ Spelling[r.mode] = Spelling[s.mode]
  BY <1>7, <1>8 DEF Alike
<1>10. r.resolution = s.resolution /\ r.mode = s.mode
  <2>1. Distinct(Words["resolution"]) /\ Distinct(ModeName)
    BY KindsSpelled, VocabulariesSpelled DEF WordKind, Vocabularies
  <2> QED
    BY <1>9, <2>1 DEF Distinct, Requests
<1>11. r.removals = s.removals
  <2>1. Same(a, e, b, e)
    <3>1. a \o e = b \o e /\ e \in Seq(Byte)
      BY <1>8
    <3> QED
      BY <3>1 DEF Same
  <2> QED
    BY <1>2, <1>3, <2>1, ListingSplits
<1> QED
  BY <1>10, <1>11 DEF Requests

LEMMA NodesTold ==
  ASSUME NEW m \in Nodes, NEW n \in Nodes, ValueBytes(m) = ValueBytes(n)
  PROVE  m = n
<1> DEFINE h == ListBytes(Opening(m))
           k == ListBytes(Opening(n))
           a == OptionalBytes(m.lifecycle)
           b == OptionalBytes(n.lifecycle)
           e == <<>>
<1>1. Opening(m) \in Seq(Word) /\ Opening(n) \in Seq(Word) /\ h \o a = k \o b
  BY NodeIs, ChunksAre DEF ValueBytes
<1>2. LifecycleName \in SUBSET Word /\ Distinct(LifecycleName) /\ "none" \notin LifecycleName
  BY VocabulariesSpelled DEF Vocabularies, LifecycleName
<1>3. m.lifecycle \in LifecycleName \cup {"none"} /\ n.lifecycle \in LifecycleName \cup {"none"}
  BY NodeIs
<1>4. h \in Seq(Byte) /\ k \in Seq(Byte)
  BY <1>1, TextsType
<1>5. a \in Seq(Byte) /\ b \in Seq(Byte)
  BY <1>2, <1>3, OptionalIs
<1>6. Same(h, a, k, b)
  BY <1>1, <1>5 DEF Same
<1>7. /\ Opening(m) = <<"node/1", m.request, m.action, m.environment, m.authority, m.of>>
      /\ Opening(n) = <<"node/1", n.request, n.action, n.environment, n.authority, n.of>>
  BY DEF Opening, Nodes
<1>8. Alike(Opening(m), Opening(n)) /\ a = b
  <2>1. Len(Opening(m)) = Len(Opening(n))
    BY <1>7
  <2> HIDE DEF a, b
  <2> QED
    BY <1>1, <1>6, <2>1, OpeningSplits
<1>9. /\ Spelling[m.request] = Spelling[n.request] /\ Spelling[m.action] = Spelling[n.action]
      /\ Spelling[m.environment] = Spelling[n.environment]
      /\ Spelling[m.authority] = Spelling[n.authority] /\ Spelling[m.of] = Spelling[n.of]
  BY <1>7, <1>8 DEF Alike
<1>10. /\ m.request = n.request /\ m.action = n.action /\ m.environment = n.environment
       /\ m.authority = n.authority
  <2>1. /\ Distinct(Words["request"]) /\ Distinct(ActionName) /\ Distinct(EnvironmentName)
        /\ Distinct(AuthorityName)
    BY KindsSpelled, VocabulariesSpelled DEF WordKind, Vocabularies
  <2> QED
    BY <1>9, <2>1 DEF Distinct, Nodes
<1>11. m.of = n.of
  <2>1. m.authority \in WordKind
    BY DEF Nodes, AuthorityName, WordKind
  <2>2. Distinct(Words[m.authority])
    BY <2>1, KindsSpelled
  <2>3. m.of \in Words[m.authority] /\ n.of \in Words[m.authority]
    BY <1>10 DEF Nodes
  <2> QED
    BY <1>9, <2>2, <2>3 DEF Distinct
<1>12. m.lifecycle = n.lifecycle
  <2>1. Same(a, e, b, e)
    <3>1. a \o e = b \o e /\ e \in Seq(Byte)
      BY <1>8
    <3> QED
      BY <3>1 DEF Same
  <2> QED
    BY <1>2, <1>3, <2>1, OptionalSplits
<1> QED
  BY <1>10, <1>11, <1>12 DEF Nodes

LEMMA EdgesTold ==
  ASSUME NEW d \in Edges, NEW e \in Edges, ValueBytes(d) = ValueBytes(e)
  PROVE  d = e
<1> DEFINE h == ListBytes(Opening(d))
           i == ListBytes(Opening(e))
           a == ScopeFieldBytes(d.scope)
           x == ScopeFieldBytes(e.scope)
           b == OptionalBytes(d.witness)
           y == OptionalBytes(e.witness)
           c == OptionalBytes(d.phase)
           z == OptionalBytes(e.phase)
<1>1. /\ Opening(d) \in Seq(Word) /\ Opening(e) \in Seq(Word)
      /\ ((h \o a) \o b) \o c = ((i \o x) \o y) \o z
  BY EdgeIs, ChunksAre DEF ValueBytes
<1>2. /\ d.scope \in Scopes \cup {"none"} /\ e.scope \in Scopes \cup {"none"}
      /\ d.witness \in Words["witness"] \cup {"none"}
      /\ e.witness \in Words["witness"] \cup {"none"}
      /\ d.phase \in PhaseName \cup {"none"} /\ e.phase \in PhaseName \cup {"none"}
  BY EdgeIs
<1>3. PhaseName \in SUBSET Word /\ Distinct(PhaseName) /\ "none" \notin PhaseName
  BY VocabulariesSpelled DEF Vocabularies, PhaseName
<1>4. /\ Words["witness"] \in SUBSET Word /\ Distinct(Words["witness"])
      /\ "none" \notin Words["witness"]
  BY KindsSpelled, WordsAssumption DEF WordKind
<1>5. h \in Seq(Byte) /\ i \in Seq(Byte)
  BY <1>1, TextsType
<1>6. a \in Seq(Byte) /\ x \in Seq(Byte)
  BY <1>2, ScopeFieldIs
<1>7. b \in Seq(Byte) /\ y \in Seq(Byte)
  BY <1>2, <1>4, OptionalIs
<1>8. c \in Seq(Byte) /\ z \in Seq(Byte)
  BY <1>2, <1>3, OptionalIs
<1>9. InParts(h, a, b, c, i, x, y, z)
  <2> HIDE DEF h, a, b, c, i, x, y, z
  <2> QED
    BY <1>1, <1>5, <1>6, <1>7, <1>8, FourParts
<1>10. PICK p1, p2, p3, p4, q1, q2, q3, q4 :
         /\ Same(h, p1, i, q1)
         /\ p1 = q1 => Same(a, p2, x, q2)
         /\ p2 = q2 => Same(b, p3, y, q3)
         /\ p3 = q3 => Same(c, p4, z, q4)
  BY <1>9, Zenon DEF InParts
<1>11. /\ Opening(d) = <<"edge/1", d.request, d.kind, d.before, d.after>>
       /\ Opening(e) = <<"edge/1", e.request, e.kind, e.before, e.after>>
  BY DEF Opening, Edges
<1>12. Alike(Opening(d), Opening(e)) /\ p1 = q1
  <2>1. Len(Opening(d)) = Len(Opening(e))
    BY <1>11
  <2> QED
    BY <1>1, <1>10, <2>1, OpeningSplits
<1>13. d.scope = e.scope /\ p2 = q2
  <2>1. Same(ScopeFieldBytes(d.scope), p2, ScopeFieldBytes(e.scope), q2)
    BY <1>10, <1>12
  <2> QED
    BY <1>2, <2>1, ScopeFieldSplits
<1>14. d.witness = e.witness /\ p3 = q3
  <2>1. Same(OptionalBytes(d.witness), p3, OptionalBytes(e.witness), q3)
    BY <1>10, <1>13
  <2> QED
    BY <1>2, <1>4, <2>1, OptionalSplits
<1>15. d.phase = e.phase
  <2>1. Same(OptionalBytes(d.phase), p4, OptionalBytes(e.phase), q4)
    BY <1>10, <1>14
  <2> QED
    BY <1>2, <1>3, <2>1, OptionalSplits
<1>16. /\ Spelling[d.request] = Spelling[e.request] /\ Spelling[d.kind] = Spelling[e.kind]
       /\ Spelling[d.before] = Spelling[e.before] /\ Spelling[d.after] = Spelling[e.after]
  BY <1>11, <1>12 DEF Alike
<1>17. d.request = e.request /\ d.kind = e.kind /\ d.before = e.before /\ d.after = e.after
  <2>1. Distinct(Words["request"]) /\ Distinct(EdgeKindName) /\ Distinct(Words["node"])
    BY KindsSpelled, VocabulariesSpelled DEF WordKind, Vocabularies
  <2> QED
    BY <1>16, <2>1 DEF Distinct, Edges
<1> QED
  BY <1>13, <1>14, <1>15, <1>17 DEF Edges

LEMMA CohortsTold ==
  ASSUME NEW c \in Cohorts, NEW d \in Cohorts, ValueBytes(c) = ValueBytes(d)
  PROVE  c = d
<1> DEFINE h == ListBytes(Opening(c))
           i == ListBytes(Opening(d))
           a == ListingBytes(c.members)
           x == ListingBytes(d.members)
           b == ListingBytes(c.witnesses)
           y == ListingBytes(d.witnesses)
           o == <<>>
<1>1. /\ Opening(c) \in Seq(Word) /\ Opening(d) \in Seq(Word)
      /\ (h \o a) \o b = (i \o x) \o y
  BY CohortIs, ChunksAre DEF ValueBytes
<1>2. /\ c.members \in ListOf(Words["node"]) /\ d.members \in ListOf(Words["node"])
      /\ c.witnesses \in ListOf(Words["witness"]) /\ d.witnesses \in ListOf(Words["witness"])
  BY CohortIs
<1>3. Words["node"] \in SUBSET Word /\ Distinct(Words["node"])
  BY KindsSpelled DEF WordKind
<1>4. Words["witness"] \in SUBSET Word /\ Distinct(Words["witness"])
  BY KindsSpelled DEF WordKind
<1>5. h \in Seq(Byte) /\ i \in Seq(Byte)
  BY <1>1, TextsType
<1>6. a \in Seq(Byte) /\ x \in Seq(Byte)
  BY <1>2, <1>3, ListOfType, ListingIs
<1>7. b \in Seq(Byte) /\ y \in Seq(Byte)
  BY <1>2, <1>4, ListOfType, ListingIs
<1>8. o \in Seq(Byte)
  OBVIOUS
<1>9. InParts(h, a, b, o, i, x, y, o)
  <2>1. ((h \o a) \o b) \o o = ((i \o x) \o y) \o o
    BY <1>1
  <2> HIDE DEF h, a, b, o, i, x, y
  <2> QED
    BY <1>5, <1>6, <1>7, <1>8, <2>1, FourParts
<1>10. PICK p1, p2, p3, q1, q2, q3 :
         /\ Same(h, p1, i, q1)
         /\ p1 = q1 => Same(a, p2, x, q2)
         /\ p2 = q2 => Same(b, p3, y, q3)
  BY <1>9, Zenon DEF InParts
<1>11. /\ Opening(c) = <<"runtime-cohort/1", c.request>>
       /\ Opening(d) = <<"runtime-cohort/1", d.request>>
  BY DEF Opening, Cohorts
<1>12. Alike(Opening(c), Opening(d)) /\ p1 = q1
  <2>1. Len(Opening(c)) = Len(Opening(d))
    BY <1>11
  <2> QED
    BY <1>1, <1>10, <2>1, OpeningSplits
<1>13. c.members = d.members /\ p2 = q2
  <2>1. Same(ListingBytes(c.members), p2, ListingBytes(d.members), q2)
    BY <1>10, <1>12
  <2> QED
    BY <1>2, <1>3, <2>1, ListingSplits
<1>14. c.witnesses = d.witnesses
  <2>1. Same(ListingBytes(c.witnesses), p3, ListingBytes(d.witnesses), q3)
    BY <1>10, <1>13
  <2> QED
    BY <1>2, <1>4, <2>1, ListingSplits
<1>15. c.request = d.request
  <2>1. Spelling[c.request] = Spelling[d.request]
    BY <1>11, <1>12 DEF Alike
  <2>2. Distinct(Words["request"])
    BY KindsSpelled DEF WordKind
  <2> QED
    BY <2>1, <2>2 DEF Distinct, Cohorts
<1> QED
  BY <1>13, <1>14, <1>15 DEF Cohorts

LEMMA ProgramsTold ==
  ASSUME NEW f \in Programs, NEW g \in Programs, ValueBytes(f) = ValueBytes(g)
  PROVE  f = g
<1> DEFINE h == ListBytes(Opening(f))
           i == ListBytes(Opening(g))
           a == ListingBytes(f.nodes)
           x == ListingBytes(g.nodes)
           b == ListingBytes(f.edges)
           y == ListingBytes(g.edges)
           c == ListingBytes(f.cohorts)
           z == ListingBytes(g.cohorts)
<1>1. /\ Opening(f) \in Seq(Word) /\ Opening(g) \in Seq(Word)
      /\ ((h \o a) \o b) \o c = ((i \o x) \o y) \o z
  BY ProgramIs, ChunksAre DEF ValueBytes
<1>2. /\ f.nodes \in ListOf(Words["node"]) /\ g.nodes \in ListOf(Words["node"])
      /\ f.edges \in ListOf(Words["edge"]) /\ g.edges \in ListOf(Words["edge"])
      /\ f.cohorts \in ListOf(Words["cohort"]) /\ g.cohorts \in ListOf(Words["cohort"])
  BY ProgramIs
<1>3. Words["node"] \in SUBSET Word /\ Distinct(Words["node"])
  BY KindsSpelled DEF WordKind
<1>4. Words["edge"] \in SUBSET Word /\ Distinct(Words["edge"])
  BY KindsSpelled DEF WordKind
<1>5. Words["cohort"] \in SUBSET Word /\ Distinct(Words["cohort"])
  BY KindsSpelled DEF WordKind
<1>6. h \in Seq(Byte) /\ i \in Seq(Byte)
  BY <1>1, TextsType
<1>7. a \in Seq(Byte) /\ x \in Seq(Byte)
  BY <1>2, <1>3, ListOfType, ListingIs
<1>8. b \in Seq(Byte) /\ y \in Seq(Byte)
  BY <1>2, <1>4, ListOfType, ListingIs
<1>9. c \in Seq(Byte) /\ z \in Seq(Byte)
  BY <1>2, <1>5, ListOfType, ListingIs
<1>10. InParts(h, a, b, c, i, x, y, z)
  <2> HIDE DEF h, a, b, c, i, x, y, z
  <2> QED
    BY <1>1, <1>6, <1>7, <1>8, <1>9, FourParts
<1>11. PICK p1, p2, p3, p4, q1, q2, q3, q4 :
         /\ Same(h, p1, i, q1)
         /\ p1 = q1 => Same(a, p2, x, q2)
         /\ p2 = q2 => Same(b, p3, y, q3)
         /\ p3 = q3 => Same(c, p4, z, q4)
  BY <1>10, Zenon DEF InParts
<1>12. /\ Opening(f) = <<"program/1", f.request>> /\ Opening(g) = <<"program/1", g.request>>
  BY DEF Opening, Programs
<1>13. Alike(Opening(f), Opening(g)) /\ p1 = q1
  <2>1. Len(Opening(f)) = Len(Opening(g))
    BY <1>12
  <2> QED
    BY <1>1, <1>11, <2>1, OpeningSplits
<1>14. f.nodes = g.nodes /\ p2 = q2
  <2>1. Same(ListingBytes(f.nodes), p2, ListingBytes(g.nodes), q2)
    BY <1>11, <1>13
  <2> QED
    BY <1>2, <1>3, <2>1, ListingSplits
<1>15. f.edges = g.edges /\ p3 = q3
  <2>1. Same(ListingBytes(f.edges), p3, ListingBytes(g.edges), q3)
    BY <1>11, <1>14
  <2> QED
    BY <1>2, <1>4, <2>1, ListingSplits
<1>16. f.cohorts = g.cohorts
  <2>1. Same(ListingBytes(f.cohorts), p4, ListingBytes(g.cohorts), q4)
    BY <1>11, <1>15
  <2> QED
    BY <1>2, <1>5, <2>1, ListingSplits
<1>17. f.request = g.request
  <2>1. Spelling[f.request] = Spelling[g.request]
    BY <1>12, <1>13 DEF Alike
  <2>2. Distinct(Words["request"])
    BY KindsSpelled DEF WordKind
  <2> QED
    BY <2>1, <2>2 DEF Distinct, Programs
<1> QED
  BY <1>14, <1>15, <1>16, <1>17 DEF Programs

-----------------------------------------------------------------------------
(* Values of two domains.                                                  *)

Begins(t, s) == \E r \in Seq(Byte) : s = t \o r

LEMMA BeginsLonger ==
  ASSUME NEW t \in Seq(Byte), NEW s, Begins(t, s), NEW a \in Seq(Byte)
  PROVE  Begins(t, s \o a)
<1>1. PICK r \in Seq(Byte) : s = t \o r
  BY DEF Begins
<1>2. Associate(t, r, a)
  BY BytesAssociate
<1>3. r \o a \in Seq(Byte) /\ s \o a = t \o (r \o a)
  BY <1>1, <1>2, Zenon DEF Associate
<1> QED
  BY <1>3, Zenon DEF Begins

DomainText(v) ==
  IF v.domain = "request" THEN "request/1"
  ELSE IF v.domain = "node" THEN "node/1"
  ELSE IF v.domain = "edge" THEN "edge/1"
  ELSE IF v.domain = "cohort" THEN "runtime-cohort/1"
  ELSE "program/1"

Writable == Requests \cup Nodes \cup Edges \cup Cohorts \cup Programs

LEMMA DomainTextType ==
  ASSUME NEW v
  PROVE  DomainText(v) \in DomainName /\ DomainText(v) \in Word
<1>1. DomainName \in SUBSET Word
  BY VocabulariesSpelled DEF Vocabularies
<1> QED
  BY <1>1 DEF DomainText, DomainName

LEMMA OpeningBegins ==
  ASSUME NEW v, Opening(v) \in Seq(Word)
  PROVE  Begins(TextBytes(DomainText(v)), ListBytes(Opening(v)))
<1>1. Len(Opening(v)) # 0 /\ Opening(v)[1] = DomainText(v)
  BY DEF Opening, DomainText
<1> QED
  BY <1>1, FirstText DEF Begins

(* The bytes of a value begin with its domain, and are bytes.              *)
LEMMA ValueBegins ==
  ASSUME NEW v \in Writable
  PROVE  /\ Begins(TextBytes(DomainText(v)), ValueBytes(v))
         /\ Chunks(v) \in Seq(Seq(Byte)) /\ ValueBytes(v) \in Seq(Byte)
<1> DEFINE t == TextBytes(DomainText(v))
           h == ListBytes(Opening(v))
<1>1. t \in Seq(Byte)
  BY DomainTextType, WordType
<1>2. \A kind \in WordKind : Words[kind] \in SUBSET Word
  BY KindsSpelled
<1>3. LifecycleName \in SUBSET Word /\ PhaseName \in SUBSET Word
  BY VocabulariesSpelled DEF Vocabularies
<1>4. CASE v \in Requests
  <2> DEFINE a == ListingBytes(v.removals)
  <2>1. Opening(v) \in Seq(Word) /\ ValueBytes(v) = h \o a /\ Chunks(v) \in Seq(Seq(Byte))
    BY <1>4, RequestIs, ChunksAre DEF ValueBytes
  <2>2. a \in Seq(Byte)
    BY <1>2, <1>4, RequestIs, ListOfType, ListingIs DEF WordKind
  <2>3. Begins(t, h)
    BY <2>1, OpeningBegins
  <2> HIDE DEF t, h, a
  <2>4. Begins(t, h \o a)
    BY <1>1, <2>2, <2>3, BeginsLonger
  <2> QED
    BY <2>1, <2>4, FlattenType DEF ValueBytes, t
<1>5. CASE v \in Nodes
  <2> DEFINE a == OptionalBytes(v.lifecycle)
  <2>1. Opening(v) \in Seq(Word) /\ ValueBytes(v) = h \o a /\ Chunks(v) \in Seq(Seq(Byte))
    BY <1>5, NodeIs, ChunksAre DEF ValueBytes
  <2>2. a \in Seq(Byte)
    BY <1>3, <1>5, NodeIs, OptionalIs
  <2>3. Begins(t, h)
    BY <2>1, OpeningBegins
  <2> HIDE DEF t, h, a
  <2>4. Begins(t, h \o a)
    BY <1>1, <2>2, <2>3, BeginsLonger
  <2> QED
    BY <2>1, <2>4, FlattenType DEF ValueBytes, t
<1>6. CASE v \in Edges
  <2> DEFINE a == ScopeFieldBytes(v.scope)
             b == OptionalBytes(v.witness)
             c == OptionalBytes(v.phase)
  <2>1. /\ Opening(v) \in Seq(Word) /\ ValueBytes(v) = ((h \o a) \o b) \o c
        /\ Chunks(v) \in Seq(Seq(Byte))
    BY <1>6, EdgeIs, ChunksAre DEF ValueBytes
  <2>2. a \in Seq(Byte) /\ b \in Seq(Byte) /\ c \in Seq(Byte)
    BY <1>2, <1>3, <1>6, EdgeIs, ScopeFieldIs, OptionalIs DEF WordKind
  <2>3. Begins(t, h)
    BY <2>1, OpeningBegins
  <2> HIDE DEF t, h, a, b, c
  <2>4. Begins(t, h \o a)
    BY <1>1, <2>2, <2>3, BeginsLonger
  <2>5. Begins(t, (h \o a) \o b)
    BY <1>1, <2>2, <2>4, BeginsLonger
  <2>6. Begins(t, ((h \o a) \o b) \o c)
    BY <1>1, <2>2, <2>5, BeginsLonger
  <2> QED
    BY <2>1, <2>6, FlattenType DEF ValueBytes, t
<1>7. CASE v \in Cohorts
  <2> DEFINE a == ListingBytes(v.members)
             b == ListingBytes(v.witnesses)
  <2>1. /\ Opening(v) \in Seq(Word) /\ ValueBytes(v) = (h \o a) \o b
        /\ Chunks(v) \in Seq(Seq(Byte))
    BY <1>7, CohortIs, ChunksAre DEF ValueBytes
  <2>2. a \in Seq(Byte) /\ b \in Seq(Byte)
    BY <1>2, <1>7, CohortIs, ListOfType, ListingIs DEF WordKind
  <2>3. Begins(t, h)
    BY <2>1, OpeningBegins
  <2> HIDE DEF t, h, a, b
  <2>4. Begins(t, h \o a)
    BY <1>1, <2>2, <2>3, BeginsLonger
  <2>5. Begins(t, (h \o a) \o b)
    BY <1>1, <2>2, <2>4, BeginsLonger
  <2> QED
    BY <2>1, <2>5, FlattenType DEF ValueBytes, t
<1>8. CASE v \in Programs
  <2> DEFINE a == ListingBytes(v.nodes)
             b == ListingBytes(v.edges)
             c == ListingBytes(v.cohorts)
  <2>1. /\ Opening(v) \in Seq(Word) /\ ValueBytes(v) = ((h \o a) \o b) \o c
        /\ Chunks(v) \in Seq(Seq(Byte))
    BY <1>8, ProgramIs, ChunksAre DEF ValueBytes
  <2>2. a \in Seq(Byte) /\ b \in Seq(Byte) /\ c \in Seq(Byte)
    BY <1>2, <1>8, ProgramIs, ListOfType, ListingIs DEF WordKind
  <2>3. Begins(t, h)
    BY <2>1, OpeningBegins
  <2> HIDE DEF t, h, a, b, c
  <2>4. Begins(t, h \o a)
    BY <1>1, <2>2, <2>3, BeginsLonger
  <2>5. Begins(t, (h \o a) \o b)
    BY <1>1, <2>2, <2>4, BeginsLonger
  <2>6. Begins(t, ((h \o a) \o b) \o c)
    BY <1>1, <2>2, <2>5, BeginsLonger
  <2> QED
    BY <2>1, <2>6, FlattenType DEF ValueBytes, t
<1> QED
  BY <1>4, <1>5, <1>6, <1>7, <1>8 DEF Writable

LEMMA ValuesTold ==
  ASSUME NEW v \in Writable, NEW w \in Writable, ValueBytes(v) = ValueBytes(w)
  PROVE  v = w
<1>1. PICK r \in Seq(Byte) : ValueBytes(v) = TextBytes(DomainText(v)) \o r
  BY ValueBegins DEF Begins
<1>2. PICK s \in Seq(Byte) : ValueBytes(w) = TextBytes(DomainText(w)) \o s
  BY ValueBegins DEF Begins
<1>3. Same(TextBytes(DomainText(v)), r, TextBytes(DomainText(w)), s)
  BY <1>1, <1>2 DEF Same
<1>4. Spelling[DomainText(v)] = Spelling[DomainText(w)]
  BY <1>3, DomainTextType, TextSplits
<1>5. DomainText(v) = DomainText(w)
  <2>1. Distinct(DomainName)
    BY VocabulariesSpelled DEF Vocabularies
  <2> QED
    BY <1>4, <2>1, DomainTextType DEF Distinct
<1>6. /\ \A u \in Requests : DomainText(u) = "request/1"
      /\ \A u \in Nodes : DomainText(u) = "node/1"
      /\ \A u \in Edges : DomainText(u) = "edge/1"
      /\ \A u \in Cohorts : DomainText(u) = "runtime-cohort/1"
      /\ \A u \in Programs : DomainText(u) = "program/1"
  BY DEF DomainText, Requests, Nodes, Edges, Cohorts, Programs
<1>7. \/ v \in Requests /\ w \in Requests
      \/ v \in Nodes /\ w \in Nodes
      \/ v \in Edges /\ w \in Edges
      \/ v \in Cohorts /\ w \in Cohorts
      \/ v \in Programs /\ w \in Programs
  BY <1>5, <1>6 DEF Writable
<1> QED
  BY <1>7, RequestsTold, NodesTold, EdgesTold, CohortsTold, ProgramsTold

-----------------------------------------------------------------------------
(* What the digest has been given and what has still to be written are     *)
(* the bytes of the value, and nothing is left when there is an identity.  *)
EncodingInv ==
  /\ value \in Values
  /\ stream \in Seq(Byte)
  /\ chunks \in Seq(Seq(Byte))
  /\ stream \o FlattenSeq(chunks) = ValueBytes(value)
  /\ stage = "identified" => chunks = <<>>

LEMMA FlattenHead ==
  ASSUME NEW ss \in Seq(Seq(Byte)), ss # <<>>
  PROVE  /\ Head(ss) \in Seq(Byte) /\ Tail(ss) \in Seq(Seq(Byte))
         /\ FlattenSeq(ss) = Head(ss) \o FlattenSeq(Tail(ss))
<1> DEFINE B == Seq(Byte)
           x == Head(ss)
           r == Tail(ss)
<1>1. /\ x \in B /\ r \in Seq(B) /\ Len(r) = Len(ss) - 1 /\ Len(ss) \in Nat /\ Len(ss) # 0
      /\ x = ss[1] /\ \A i \in 1..Len(r) : r[i] = ss[i + 1]
  <2> HIDE DEF B
  <2>1. ss \in Seq(B)
    BY DEF B
  <2> QED
    BY <2>1, HeadTailProperties
<1>2. ss = <<x>> \o r
  <2> HIDE DEF B, x, r
  <2>1. ss \in Seq(B) /\ <<x>> \in Seq(B) /\ Len(<<x>>) = 1 /\ <<x>>[1] = x
    BY <1>1 DEF B
  <2>2. /\ <<x>> \o r \in Seq(B) /\ Len(<<x>> \o r) = Len(ss)
        /\ \A i \in 1..Len(ss) : (<<x>> \o r)[i] = IF i <= 1 THEN x ELSE r[i - 1]
    <3>1. /\ <<x>> \o r \in Seq(B) /\ Len(<<x>> \o r) = 1 + Len(r)
          /\ \A i \in 1..(1 + Len(r)) :
               (<<x>> \o r)[i] = IF i <= 1 THEN <<x>>[i] ELSE r[i - 1]
      BY <1>1, <2>1, ConcatProperties
    <3>2. 1 + Len(r) = Len(ss) /\ \A i \in 1..Len(ss) : i <= 1 => i = 1
      BY <1>1
    <3> QED
      BY <2>1, <3>1, <3>2
  <2>3. \A i \in 1..Len(ss) : (<<x>> \o r)[i] = ss[i]
    <3>1. SUFFICES ASSUME NEW i \in 1..Len(ss) PROVE (<<x>> \o r)[i] = ss[i]
      OBVIOUS
    <3>2. CASE i <= 1
      BY <1>1, <2>2, <3>2
    <3>3. CASE ~(i <= 1)
      <4>1. i - 1 \in 1..Len(r) /\ (i - 1) + 1 = i
        BY <1>1, <3>3
      <4>2. r[i - 1] = ss[i]
        BY <1>1, <4>1
      <4> QED
        BY <2>2, <3>3, <4>2
    <3> QED
      BY <3>2, <3>3
  <2> QED
    BY <2>1, <2>2, <2>3, SeqEqual
<1>3. <<x>> \in Seq(B) /\ FlattenSeq(<<x>>) = x
  BY <1>1, FlattenOne
<1>4. FlattenSeq(<<x>> \o r) = FlattenSeq(<<x>>) \o FlattenSeq(r)
  <2> HIDE DEF x, r
  <2> QED
    BY <1>1, <1>3, FlattenConcat
<1> QED
  BY <1>1, <1>2, <1>3, <1>4

LEMMA EncodingInit == Init => EncodingInv
<1> SUFFICES ASSUME Init PROVE EncodingInv
  OBVIOUS
<1>1. /\ value \in Values /\ chunks = Chunks(value) /\ stage = "unborn" /\ stream = <<>>
  BY DEF Init
<1>2. value \in Writable
  BY <1>1, ValuesAssumption DEF Writable
<1>3. chunks \in Seq(Seq(Byte)) /\ ValueBytes(value) \in Seq(Byte)
  BY <1>1, <1>2, ValueBegins
<1>4. stream \in Seq(Byte) /\ stream \o ValueBytes(value) = ValueBytes(value)
  BY <1>1, <1>3, ConcatEmptySeq
<1> QED
  BY <1>1, <1>3, <1>4 DEF EncodingInv, ValueBytes

LEMMA EncodingStep == EncodingInv /\ [Next]_vars => EncodingInv'
<1> SUFFICES ASSUME EncodingInv, [Next]_vars PROVE EncodingInv'
  OBVIOUS
<1>1. CASE Construct
  <2>1. UNCHANGED <<value, chunks, stream>> /\ stage' # "identified"
    BY <1>1 DEF Construct
  <2> QED
    BY <2>1 DEF EncodingInv, ValueBytes
<1>2. CASE Update
  <2>1. value' = value /\ chunks # <<>> /\ stage' # "identified"
    BY <1>2 DEF Update
  <2>2. CASE chunks' = Tail(chunks) /\ stream' = stream \o Head(chunks)
    <3> DEFINE x == Head(chunks)
               r == FlattenSeq(Tail(chunks))
    <3>1. /\ x \in Seq(Byte) /\ Tail(chunks) \in Seq(Seq(Byte)) /\ FlattenSeq(chunks) = x \o r
      BY <2>1, FlattenHead DEF EncodingInv
    <3>2. r \in Seq(Byte)
      BY <3>1, FlattenType
    <3> HIDE DEF x, r
    <3>3. stream \in Seq(Byte) /\ stream \o (x \o r) = ValueBytes(value)
      BY <3>1 DEF EncodingInv
    <3>4. Associate(stream, x, r)
      BY <3>1, <3>2, <3>3, BytesAssociate
    <3>5. stream \o x \in Seq(Byte)
      BY <3>1, <3>3, ConcatProperties
    <3>6. (stream \o x) \o r = ValueBytes(value)
      BY <3>3, <3>4, Zenon DEF Associate
    <3> QED
      BY <2>1, <2>2, <3>1, <3>5, <3>6 DEF EncodingInv, ValueBytes, x, r
  <2>3. CASE UNCHANGED <<chunks, stream>>
    BY <2>1, <2>3 DEF EncodingInv, ValueBytes
  <2> QED
    BY <1>2, <2>2, <2>3 DEF Update
<1>3. CASE Finish
  BY <1>3 DEF Finish, EncodingInv, ValueBytes
<1>4. CASE Destroy
  <2>1. UNCHANGED <<value, chunks, stream>> /\ stage' # "identified"
    BY <1>4 DEF Destroy
  <2> QED
    BY <2>1 DEF EncodingInv, ValueBytes
<1>5. CASE UNCHANGED vars
  BY <1>5 DEF vars, EncodingInv, ValueBytes
<1> QED
  BY <1>1, <1>2, <1>3, <1>4, <1>5 DEF Next

(* The bytes that an identity is the digest of are those of one value      *)
(* only, for any names and identities: so two values get one identity only *)
(* where SHA-256 collides.                                                 *)
THEOREM StreamsTellValues == Spec => []Unambiguous
<1>1. EncodingInv => Unambiguous
  <2> SUFFICES ASSUME EncodingInv, stage = "identified",
                      NEW v \in Values, Streams[v] = stream
               PROVE  v = value
    BY DEF Unambiguous
  <2>1. stream = ValueBytes(value)
    <3>1. stream \o <<>> = ValueBytes(value) /\ stream \in Seq(Byte)
      BY FlattenNone DEF EncodingInv
    <3> QED
      BY <3>1, ConcatEmptySeq
  <2>2. ValueBytes(v) = stream
    BY DEF Streams, ValueBytes
  <2>3. v \in Writable /\ value \in Writable
    BY ValuesAssumption DEF EncodingInv, Writable
  <2> QED
    BY <2>1, <2>2, <2>3, ValuesTold
<1> QED
  BY EncodingInit, EncodingStep, <1>1, PTL DEF Spec

-----------------------------------------------------------------------------
(* The keys of nodes.                                                      *)

Letter == Byte \cup {Separator}

(* The spelling of a name in a key.                                        *)
Name(w) == w \in Word /\ \A i \in 1..Len(Spelling[w]) : Spelling[w][i] # Separator

Tailed(w) == <<Separator>> \o Spelling[w]

LEMMA NameType ==
  ASSUME NEW w \in Word
  PROVE  /\ Spelling[w] \in Seq(Letter) /\ Len(Spelling[w]) \in Nat
         /\ Tailed(w) \in Seq(Letter) /\ Len(Tailed(w)) = Len(Spelling[w]) + 1
         /\ Tailed(w)[1] = Separator
<1>1. Spelling[w] \in Seq(Letter)
  BY WordType DEF Letter
<1> DEFINE s == Spelling[w]
           o == <<Separator>>
<1>2. o \in Seq(Letter) /\ Len(o) = 1 /\ o[1] = Separator
  BY DEF Letter
<1>3. Len(s) \in Nat /\ s \in Seq(Letter)
  BY <1>1
<1> HIDE DEF s, o
<1>4. /\ o \o s \in Seq(Letter) /\ Len(o \o s) = Len(o) + Len(s)
      /\ \A i \in 1..(Len(o) + Len(s)) :
           (o \o s)[i] = IF i <= Len(o) THEN o[i] ELSE s[i - Len(o)]
  BY <1>2, <1>3, ConcatProperties
<1>5. (o \o s)[1] = Separator /\ Len(o \o s) = Len(s) + 1
  BY <1>2, <1>3, <1>4
<1> QED
  BY <1>3, <1>4, <1>5 DEF Tailed, s, o

LEMMA AppendIs ==
  ASSUME NEW B, NEW s \in Seq(B), NEW x \in B
  PROVE  /\ Append(s, x) \in Seq(B) /\ Len(Append(s, x)) = Len(s) + 1
         /\ \A i \in 1..(Len(s) + 1) : Append(s, x)[i] = IF i <= Len(s) THEN s[i] ELSE x
OBVIOUS

LEMMA Listed ==
  ASSUME NEW B, NEW x \in B, NEW y \in B
  PROVE  <<x>> \in Seq(B) /\ <<x, y>> \in Seq(B) /\ Append(<<x>>, y) = <<x, y>>
<1> DEFINE s == <<x>>
           t == <<x, y>>
<1>1. s \in Seq(B) /\ Len(s) = 1 /\ s[1] = x
  OBVIOUS
<1>2. t \in Seq(B) /\ Len(t) = 2 /\ t[1] = x /\ t[2] = y
  OBVIOUS
<1> HIDE DEF s, t
<1>3. /\ Append(s, y) \in Seq(B) /\ Len(Append(s, y)) = 2
      /\ Append(s, y)[1] = x /\ Append(s, y)[2] = y
  <2>1. /\ Append(s, y) \in Seq(B) /\ Len(Append(s, y)) = Len(s) + 1
        /\ \A i \in 1..(Len(s) + 1) : Append(s, y)[i] = IF i <= Len(s) THEN s[i] ELSE y
    BY <1>1, AppendIs
  <2> QED
    BY <1>1, <2>1
<1>4. \A i \in 1..2 : i = 1 \/ i = 2
  OBVIOUS
<1>5. Append(s, y) = t
  BY <1>2, <1>3, <1>4, SeqEqual
<1> QED
  BY <1>1, <1>2, <1>5 DEF s, t

LEMMA ListedThree ==
  ASSUME NEW B, NEW x \in B, NEW y \in B, NEW z \in B
  PROVE  Append(<<x, y>>, z) = <<x, y, z>>
<1> DEFINE s == <<x, y>>
           t == <<x, y, z>>
<1>1. s \in Seq(B) /\ Len(s) = 2 /\ s[1] = x /\ s[2] = y
  OBVIOUS
<1>2. t \in Seq(B) /\ Len(t) = 3 /\ t[1] = x /\ t[2] = y /\ t[3] = z
  OBVIOUS
<1> HIDE DEF s, t
<1>3. /\ Append(s, z) \in Seq(B) /\ Len(Append(s, z)) = 3
      /\ Append(s, z)[1] = x /\ Append(s, z)[2] = y /\ Append(s, z)[3] = z
  <2>1. /\ Append(s, z) \in Seq(B) /\ Len(Append(s, z)) = Len(s) + 1
        /\ \A i \in 1..(Len(s) + 1) : Append(s, z)[i] = IF i <= Len(s) THEN s[i] ELSE z
    BY <1>1, AppendIs
  <2> QED
    BY <1>1, <2>1
<1>4. \A i \in 1..3 : i = 1 \/ i = 2 \/ i = 3
  OBVIOUS
<1>5. Append(s, z) = t
  BY <1>2, <1>3, <1>4, SeqEqual
<1> QED
  BY <1>5 DEF s, t

LEMMA FlattenPair ==
  ASSUME NEW x \in Seq(Letter), NEW y \in Seq(Letter)
  PROVE  FlattenSeq(<<x, y>>) = x \o y
<1> DEFINE B == Seq(Letter)
<1>1. <<x>> \in Seq(B) /\ Append(<<x>>, y) = <<x, y>>
  <2>1. x \in B /\ y \in B
    OBVIOUS
  <2> HIDE DEF B
  <2> QED
    BY <2>1, Listed
<1>2. FlattenSeq(Append(<<x>>, y)) = FlattenSeq(<<x>>) \o y /\ FlattenSeq(<<x>>) = x
  BY <1>1, FlattenMore, FlattenOne
<1> QED
  BY <1>1, <1>2

LEMMA FlattenTriple ==
  ASSUME NEW x \in Seq(Letter), NEW y \in Seq(Letter), NEW z \in Seq(Letter)
  PROVE  FlattenSeq(<<x, y, z>>) = (x \o y) \o z
<1> DEFINE B == Seq(Letter)
<1>1. <<x, y>> \in Seq(B) /\ Append(<<x, y>>, z) = <<x, y, z>>
  <2>1. x \in B /\ y \in B /\ z \in B
    OBVIOUS
  <2> HIDE DEF B
  <2> QED
    BY <2>1, Listed, ListedThree
<1>2. FlattenSeq(Append(<<x, y>>, z)) = FlattenSeq(<<x, y>>) \o z
  BY <1>1, FlattenMore
<1> QED
  BY <1>1, <1>2, FlattenPair

LEMMA KeyOfTwo ==
  ASSUME NEW v \in Word, NEW w \in Word
  PROVE  Path(<<v, w>>) = Spelling[v] \o Tailed(w)
<1> DEFINE l == <<v, w>>
           f == [i \in DOMAIN l |->
                   IF i = 1 THEN Spelling[l[i]] ELSE <<Separator>> \o Spelling[l[i]]]
<1>1. f = <<Spelling[v], Tailed(w)>>
  BY DEF Tailed
<1>2. Spelling[v] \in Seq(Letter) /\ Tailed(w) \in Seq(Letter)
  BY NameType
<1>3. Path(l) = FlattenSeq(f)
  BY DEF Path
<1> QED
  BY <1>1, <1>2, <1>3, FlattenPair

LEMMA KeyOfThree ==
  ASSUME NEW v \in Word, NEW w \in Word, NEW x \in Word
  PROVE  Path(<<v, w, x>>) = (Spelling[v] \o Tailed(w)) \o Tailed(x)
<1> DEFINE l == <<v, w, x>>
           f == [i \in DOMAIN l |->
                   IF i = 1 THEN Spelling[l[i]] ELSE <<Separator>> \o Spelling[l[i]]]
<1>1. f = <<Spelling[v], Tailed(w), Tailed(x)>>
  BY DEF Tailed
<1>2. Spelling[v] \in Seq(Letter) /\ Tailed(w) \in Seq(Letter) /\ Tailed(x) \in Seq(Letter)
  BY NameType
<1>3. Path(l) = FlattenSeq(f)
  BY DEF Path
<1> DEFINE a == Spelling[v]
           b == Tailed(w)
           c == Tailed(x)
<1>4. a \in Seq(Letter) /\ b \in Seq(Letter) /\ c \in Seq(Letter)
  BY <1>2
<1>5. Path(<<v, w, x>>) = FlattenSeq(<<a, b, c>>)
  BY <1>1, <1>3
<1> HIDE DEF a, b, c
<1>6. FlattenSeq(<<a, b, c>>) = (a \o b) \o c
  BY <1>4, FlattenTriple
<1> QED
  BY <1>5, <1>6 DEF a, b, c

(* A name does not go on beyond the first separator.                       *)
LEMMA NameNotLonger ==
  ASSUME NEW s \in Seq(Letter), NEW t \in Seq(Letter), NEW u \in Seq(Letter),
         NEW v \in Seq(Letter), \A i \in 1..Len(t) : t[i] # Separator,
         Len(u) # 0, u[1] = Separator, s \o u = t \o v
  PROVE  ~(Len(s) < Len(t))
<1> SUFFICES ASSUME Len(s) < Len(t) PROVE FALSE
  OBVIOUS
<1>1. /\ Len(s) \in Nat /\ Len(t) \in Nat /\ Len(u) \in Nat /\ Len(v) \in Nat
  OBVIOUS
<1> DEFINE k == Len(s) + 1
<1>2. /\ k \in 1..(Len(s) + Len(u)) /\ ~(k <= Len(s)) /\ k - Len(s) = 1
      /\ k \in 1..(Len(t) + Len(v)) /\ k <= Len(t) /\ k \in 1..Len(t)
  BY <1>1
<1> HIDE DEF k
<1>3. (s \o u)[k] = u[k - Len(s)]
  BY <1>2, ConcatProperties
<1>4. (t \o v)[k] = t[k]
  BY <1>2, ConcatProperties
<1> QED
  BY <1>2, <1>3, <1>4

(* A name, and what follows it.                                            *)
Ends(s, u) ==
  /\ s \in Seq(Letter) /\ \A i \in 1..Len(s) : s[i] # Separator
  /\ u \in Seq(Letter) /\ Len(u) # 0 /\ u[1] = Separator

LEMMA NameSplits ==
  ASSUME NEW s, NEW t, NEW u, NEW v, Ends(s, u), Ends(t, v), s \o u = t \o v
  PROVE  s = t /\ u = v
<1>1. ~(Len(s) < Len(t))
  BY NameNotLonger DEF Ends
<1>2. ~(Len(t) < Len(s))
  BY NameNotLonger DEF Ends
<1>3. Len(s) = Len(t)
  BY <1>1, <1>2 DEF Ends
<1> QED
  BY <1>3, SplitAt DEF Ends

LEMMA NodeNames ==
  ASSUME NEW n \in Nodes
  PROVE  /\ Name(n.of) /\ Name(n.action)
         /\ n.lifecycle # "none" => Name(n.lifecycle)
<1>1. /\ n.action \in ActionName /\ n.authority \in AuthorityName
      /\ n.of \in Words[n.authority] /\ n.lifecycle \in LifecycleName \cup {"none"}
  BY DEF Nodes
<1>2. n.authority = "selection" \/ n.authority = "installed"
  BY <1>1 DEF AuthorityName
<1>3. ActionName \in SUBSET Word /\ LifecycleName \in SUBSET Word
  BY VocabulariesSpelled DEF Vocabularies
<1>4. Words["selection"] \in SUBSET Word /\ Words["installed"] \in SUBSET Word
  BY KindsSpelled DEF WordKind
<1>5. ASSUME NEW w \in ActionName \cup LifecycleName \cup Words["selection"] \cup Words["installed"]
      PROVE  Name(w)
  <2>1. w \in Word
    BY <1>3, <1>4
  <2>2. Spelling[w] \in Seq(Byte)
    BY <2>1, WordType
  <2>3. DOMAIN Spelling[w] = 1..Len(Spelling[w])
    BY <2>2
  <2> QED
    BY <2>1, <2>3, SeparatorAssumption DEF Name
<1> QED
  BY <1>1, <1>2, <1>5

LEMMA KeyIs ==
  ASSUME NEW n \in Nodes
  PROVE  Key(n) = IF n.lifecycle = "none"
                    THEN Spelling[n.of] \o Tailed(n.action)
                    ELSE (Spelling[n.of] \o Tailed(n.action)) \o Tailed(n.lifecycle)
BY NodeNames, KeyOfTwo, KeyOfThree DEF Key, Name

(* The key from the action on.                                             *)
KeyRest(n) ==
  IF n.lifecycle = "none" THEN Spelling[n.action]
  ELSE Spelling[n.action] \o Tailed(n.lifecycle)

LEMMA LetterAssociate ==
  ASSUME NEW s \in Seq(Letter), NEW t \in Seq(Letter), NEW u \in Seq(Letter)
  PROVE  (s \o t) \o u = s \o (t \o u) /\ t \o u \in Seq(Letter)
BY ConcatAssociative, ConcatProperties

LEMMA KeyInTwo ==
  ASSUME NEW n \in Nodes
  PROVE  /\ Key(n) = Spelling[n.of] \o (<<Separator>> \o KeyRest(n))
         /\ KeyRest(n) \in Seq(Letter)
<1> DEFINE s == Spelling[n.of]
           o == <<Separator>>
           a == Spelling[n.action]
           t == Tailed(n.lifecycle)
<1>1. n.of \in Word /\ n.action \in Word /\ (n.lifecycle # "none" => n.lifecycle \in Word)
  BY NodeNames DEF Name
<1>2. s \in Seq(Letter) /\ a \in Seq(Letter) /\ o \in Seq(Letter)
  BY <1>1, NameType DEF Letter
<1>3. CASE n.lifecycle = "none"
  BY <1>2, <1>3, KeyIs DEF KeyRest, Tailed
<1>4. CASE n.lifecycle # "none"
  <2>1. t \in Seq(Letter)
    BY <1>1, <1>4, NameType
  <2>2. Key(n) = (s \o (o \o a)) \o t /\ KeyRest(n) = a \o t
    BY <1>4, KeyIs DEF KeyRest, Tailed
  <2> HIDE DEF s, o, a, t
  <2>3. o \o a \in Seq(Letter)
    BY <1>2, ConcatProperties
  <2>4. (s \o (o \o a)) \o t = s \o ((o \o a) \o t)
    <3> DEFINE b == o \o a
    <3>1. b \in Seq(Letter)
      BY <2>3
    <3> HIDE DEF b
    <3>2. (s \o b) \o t = s \o (b \o t)
      BY <1>2, <2>1, <3>1, LetterAssociate
    <3> QED
      BY <3>2 DEF b
  <2>5. (o \o a) \o t = o \o (a \o t) /\ a \o t \in Seq(Letter)
    BY <1>2, <2>1, LetterAssociate
  <2> QED
    BY <2>2, <2>4, <2>5 DEF s, o
<1> QED
  BY <1>3, <1>4

(* Keys that are one are of one package and go on alike.                   *)
LEMMA KeysAgree ==
  ASSUME NEW m \in Nodes, NEW n \in Nodes, Key(m) = Key(n)
  PROVE  Spelling[m.of] = Spelling[n.of] /\ KeyRest(m) = KeyRest(n)
<1> DEFINE s == Spelling[m.of]
           t == Spelling[n.of]
           o == <<Separator>>
           u == o \o KeyRest(m)
           v == o \o KeyRest(n)
<1>1. /\ s \in Seq(Letter) /\ t \in Seq(Letter)
      /\ \A i \in 1..Len(s) : s[i] # Separator
      /\ \A i \in 1..Len(t) : t[i] # Separator
  BY NodeNames, NameType DEF Name
<1>2. o \in Seq(Letter) /\ Len(o) = 1 /\ o[1] = Separator
  BY DEF Letter
<1>3. KeyRest(m) \in Seq(Letter) /\ KeyRest(n) \in Seq(Letter) /\ s \o u = t \o v
  BY KeyInTwo
<1>4. ASSUME NEW r \in Seq(Letter)
      PROVE  o \o r \in Seq(Letter) /\ Len(o \o r) # 0 /\ (o \o r)[1] = Separator
  <2> HIDE DEF o
  <2>1. /\ o \o r \in Seq(Letter) /\ Len(o \o r) = Len(o) + Len(r)
        /\ \A i \in 1..(Len(o) + Len(r)) :
             (o \o r)[i] = IF i <= Len(o) THEN o[i] ELSE r[i - Len(o)]
    BY <1>2, <1>4, ConcatProperties
  <2>2. Len(r) \in Nat /\ 1 \in 1..(Len(o) + Len(r)) /\ 1 <= Len(o)
    BY <1>2, <1>4
  <2> QED
    BY <1>2, <2>1, <2>2
<1>5. /\ u \in Seq(Letter) /\ Len(u) # 0 /\ u[1] = Separator
      /\ v \in Seq(Letter) /\ Len(v) # 0 /\ v[1] = Separator
  BY <1>3, <1>4
<1>6. s = t /\ u = v
  <2>1. Ends(s, u) /\ Ends(t, v)
    BY <1>1, <1>5 DEF Ends
  <2> HIDE DEF s, t, u, v
  <2> QED
    BY <1>3, <2>1, NameSplits
<1>7. KeyRest(m) = KeyRest(n)
  <2> HIDE DEF o
  <2> QED
    BY <1>2, <1>3, <1>6, SplitAt
<1> QED
  BY <1>6, <1>7

(* A bare action is not an action that something follows.                  *)
LEMMA RestsDiffer ==
  ASSUME NEW s \in Seq(Letter), NEW t \in Seq(Letter), NEW u \in Seq(Letter),
         \A i \in 1..Len(s) : s[i] # Separator, Len(u) # 0, u[1] = Separator, s = t \o u
  PROVE  FALSE
<1>1. /\ Len(t) \in Nat /\ Len(u) \in Nat /\ Len(s) = Len(t) + Len(u)
  BY ConcatProperties
<1> DEFINE k == Len(t) + 1
<1>2. k \in 1..(Len(t) + Len(u)) /\ k \in 1..Len(s) /\ ~(k <= Len(t)) /\ k - Len(t) = 1
  BY <1>1
<1> HIDE DEF k
<1>3. (t \o u)[k] = u[k - Len(t)]
  BY <1>2, ConcatProperties
<1> QED
  BY <1>2, <1>3

LEMMA LifecycleTailed ==
  ASSUME NEW n \in Nodes, n.lifecycle # "none"
  PROVE  /\ n.lifecycle \in Word /\ Tailed(n.lifecycle) \in Seq(Letter)
         /\ Len(Tailed(n.lifecycle)) # 0 /\ Tailed(n.lifecycle)[1] = Separator
<1> DEFINE w == n.lifecycle
<1>1. w \in Word
  BY NodeNames DEF Name
<1> HIDE DEF w
<1>2. /\ Tailed(w) \in Seq(Letter) /\ Len(Tailed(w)) = Len(Spelling[w]) + 1
      /\ Len(Spelling[w]) \in Nat /\ Tailed(w)[1] = Separator
  BY <1>1, NameType
<1> QED
  BY <1>1, <1>2 DEF w

LEMMA RestsTold ==
  ASSUME NEW m \in Nodes, NEW n \in Nodes, KeyRest(m) = KeyRest(n)
  PROVE  m.action = n.action /\ m.lifecycle = n.lifecycle
<1> DEFINE a == Spelling[m.action]
           b == Spelling[n.action]
           s == Tailed(m.lifecycle)
           t == Tailed(n.lifecycle)
<1>1. /\ m.action \in ActionName /\ n.action \in ActionName
      /\ m.lifecycle \in LifecycleName \cup {"none"}
      /\ n.lifecycle \in LifecycleName \cup {"none"}
  BY DEF Nodes
<1>2. Distinct(ActionName) /\ Distinct(LifecycleName)
  BY VocabulariesSpelled DEF Vocabularies
<1>3. /\ a \in Seq(Letter) /\ b \in Seq(Letter)
      /\ \A i \in 1..Len(a) : a[i] # Separator
      /\ \A i \in 1..Len(b) : b[i] # Separator
  BY NodeNames, NameType DEF Name
<1>4. m.lifecycle # "none" =>
        m.lifecycle \in Word /\ s \in Seq(Letter) /\ Len(s) # 0 /\ s[1] = Separator
  BY LifecycleTailed
<1>5. n.lifecycle # "none" =>
        n.lifecycle \in Word /\ t \in Seq(Letter) /\ Len(t) # 0 /\ t[1] = Separator
  BY LifecycleTailed
<1>6. /\ KeyRest(m) = IF m.lifecycle = "none" THEN a ELSE a \o s
      /\ KeyRest(n) = IF n.lifecycle = "none" THEN b ELSE b \o t
  BY DEF KeyRest
<1>7. CASE m.lifecycle = "none" /\ n.lifecycle = "none"
  BY <1>1, <1>2, <1>6, <1>7 DEF Distinct
<1>8. CASE m.lifecycle = "none" /\ n.lifecycle # "none"
  <2>1. a = b \o t
    BY <1>6, <1>8
  <2> HIDE DEF a, b, s, t
  <2> QED
    BY <1>3, <1>5, <1>8, <2>1, RestsDiffer
<1>9. CASE m.lifecycle # "none" /\ n.lifecycle = "none"
  <2>1. b = a \o s
    BY <1>6, <1>9
  <2> HIDE DEF a, b, s, t
  <2> QED
    BY <1>3, <1>4, <1>9, <2>1, RestsDiffer
<1>10. CASE m.lifecycle # "none" /\ n.lifecycle # "none"
  <2>1. a \o s = b \o t
    BY <1>6, <1>10
  <2>2. a = b /\ s = t
    <3>1. Ends(a, s) /\ Ends(b, t)
      BY <1>3, <1>4, <1>5, <1>10 DEF Ends
    <3> HIDE DEF a, b, s, t
    <3> QED
      BY <2>1, <3>1, NameSplits
  <2>3. Spelling[m.lifecycle] = Spelling[n.lifecycle]
    <3> DEFINE o == <<Separator>>
               x == Spelling[m.lifecycle]
               y == Spelling[n.lifecycle]
    <3>1. o \in Seq(Letter) /\ o \o x = o \o y
      BY <2>2 DEF Letter, Tailed
    <3>2. x \in Seq(Letter) /\ y \in Seq(Letter)
      BY <1>4, <1>5, <1>10, NameType
    <3> HIDE DEF o, x, y
    <3>3. x = y
      BY <3>1, <3>2, SplitAt
    <3> QED
      BY <3>3 DEF x, y
  <2>4. m.lifecycle \in LifecycleName /\ n.lifecycle \in LifecycleName
    BY <1>1, <1>10
  <2> QED
    BY <1>1, <1>2, <2>2, <2>3, <2>4 DEF Distinct
<1> QED
  BY <1>7, <1>8, <1>9, <1>10

(* Two nodes of one request never share a key: the map from keys to nodes  *)
(* loses none, though a key is names with a separator and nothing else.    *)
THEOREM KeysTellNodes == Spec => []KeysDistinct
<1>1. EncodingInv => KeysDistinct
  <2> SUFFICES ASSUME value \in Values, value.domain = "node",
                      NEW v \in Values, v.domain = "node", Key(v) = Key(value)
               PROVE  v = value
    BY DEF EncodingInv, KeysDistinct
  <2>1. v \in Nodes /\ value \in Nodes
    BY ValuesAssumption DEF Requests, Edges, Cohorts, Programs
  <2>2. Spelling[v.of] = Spelling[value.of] /\ KeyRest(v) = KeyRest(value)
    BY <2>1, KeysAgree
  <2>3. v.action = value.action /\ v.lifecycle = value.lifecycle
    BY <2>1, <2>2, RestsTold
  <2>4. /\ v.request = value.request
        /\ (v.action = "remove") = (v.authority = "installed")
        /\ (value.action = "remove") = (value.authority = "installed")
        /\ v.authority = value.authority /\ v.of = value.of
             => v.environment = value.environment
    BY <2>1, OneGraphAssumption
  <2>5. v.authority = value.authority
    BY <2>1, <2>3, <2>4 DEF Nodes, AuthorityName
  <2>6. v.of = value.of
    <3>1. v.authority \in WordKind
      BY <2>1 DEF Nodes, AuthorityName, WordKind
    <3>2. Distinct(Words[v.authority])
      BY <3>1, KindsSpelled
    <3>3. v.of \in Words[v.authority] /\ value.of \in Words[v.authority]
      BY <2>1, <2>5 DEF Nodes
    <3> QED
      BY <2>2, <3>2, <3>3 DEF Distinct
  <2> QED
    BY <2>1, <2>3, <2>4, <2>5, <2>6 DEF Nodes
<1> QED
  BY EncodingInit, EncodingStep, <1>1, PTL DEF Spec

=============================================================================
