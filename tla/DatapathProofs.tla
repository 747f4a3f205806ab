--------------------------- MODULE DatapathProofs ---------------------------
(***************************************************************************)
(* Theorems about the instructions without memory or traps, for every      *)
(* width of a word: immediates, products, quotients and the laws of the    *)
(* integer instructions.                                                   *)
(***************************************************************************)
EXTENDS DatapathLaws, NaturalsInduction, FiniteSetTheorems, TLAPS

\* Induction, as a fact about sets: what holds of 0 and of every successor
\* holds of every number.
LEMMA SetInduction ==
  ASSUME NEW S \in SUBSET Nat, 0 \in S, \A n \in S : n + 1 \in S
  PROVE  S = Nat
<1> DEFINE T == {n \in Nat : \A k \in 0 .. n : k \in S}
           f == [i \in Nat |-> IF i \in T THEN 1 ELSE 0]
           g == [i \in Nat |-> 1]
<1>1. 0 \in T
  OBVIOUS
<1>2. ASSUME NEW n \in Nat, n # 0 PROVE n \in T <=> n - 1 \in T
  <2>1. n - 1 \in Nat /\ (n - 1) + 1 = n /\ 0 .. n = (0 .. n - 1) \cup {n}
    BY <1>2
  <2>2. n - 1 \in T => n - 1 \in S
    BY <2>1
  <2>3. n - 1 \in T => n \in S
    BY <2>1, <2>2
  <2> QED
    BY <2>1, <2>3
<1>t. \A n \in T : n \in S
  OBVIOUS
<1> HIDE DEF T
<1>3. NatInductiveDefConclusion(f, 1, LAMBDA v, n : v)
  BY <1>1, <1>2 DEF NatInductiveDefConclusion
<1>4. NatInductiveDefConclusion(g, 1, LAMBDA v, n : v)
  BY DEF NatInductiveDefConclusion
<1>5. f = g
  <2> HIDE DEF f, g
  <2> QED
    BY <1>3, <1>4, NatInductiveUnique
<1>6. ASSUME NEW i \in Nat PROVE i \in S
  <2>1. f[i] = g[i]
    BY <1>5
  <2> QED
    BY <2>1, <1>t
<1> QED
  BY <1>6

\* The powers of two, which count the subsets of an interval.
LEMMA Powers ==
  /\ 2^0 = 1
  /\ \A n \in Nat : 2^n \in Nat /\ 2^n > 0 /\ 2^(n + 1) = 2 * 2^n
<1>1. ASSUME NEW n \in Nat
      PROVE  /\ IsFiniteSet(1 .. n) /\ IsFiniteSet(SUBSET (1 .. n)) /\ Cardinality(SUBSET (1 .. n)) = 2^n
             /\ 2^n \in Nat
  <2>1. IsFiniteSet(1 .. n) /\ Cardinality(1 .. n) = n
    BY FS_Interval
  <2>2. IsFiniteSet(SUBSET (1 .. n)) /\ Cardinality(SUBSET (1 .. n)) = 2^n
    BY <2>1, FS_SUBSET
  <2> QED
    BY <2>1, <2>2, FS_CardinalityType
<1>2. ASSUME NEW n \in Nat PROVE 2^n > 0
  <2>1. SUBSET (1 .. n) # {}
    BY Zenon
  <2>2. Cardinality(SUBSET (1 .. n)) # 0
    BY <1>1, <2>1, FS_EmptySet
  <2> DEFINE p == 2^n
  <2>3. p \in Nat /\ p # 0
    BY <1>1, <2>2
  <2> HIDE DEF p
  <2>4. p > 0
    BY <2>3
  <2> QED
    BY <2>4 DEF p
<1>3. ASSUME NEW n \in Nat PROVE 2^(n + 1) = 2 * 2^n
  <2> DEFINE A == SUBSET (1 .. n)
             extend == [s \in A |-> s \cup {n + 1}]
             B == {s \cup {n + 1} : s \in A}
  <2>1. IsFiniteSet(A) /\ Cardinality(A) = 2^n
    BY <1>1
  <2>2. SUBSET (1 .. n + 1) = A \cup B
    <3>1. ASSUME NEW s \in SUBSET (1 .. n + 1), n + 1 \in s PROVE s \in B
      <4>1. s \ {n + 1} \in A /\ s = (s \ {n + 1}) \cup {n + 1}
        BY <3>1
      <4> QED
        BY <4>1
    <3>2. ASSUME NEW s \in SUBSET (1 .. n + 1), n + 1 \notin s PROVE s \in A
      BY <3>2
    <3>3. ASSUME NEW s \in A PROVE s \in SUBSET (1 .. n + 1) /\ s \cup {n + 1} \in SUBSET (1 .. n + 1)
      OBVIOUS
    <3>4. SUBSET (1 .. n + 1) \subseteq A \cup B
      BY <3>1, <3>2
    <3>5. A \cup B \subseteq SUBSET (1 .. n + 1)
      <4>1. ASSUME NEW t \in B PROVE t \in SUBSET (1 .. n + 1)
        <5>1. PICK s \in A : t = s \cup {n + 1}
          OBVIOUS
        <5> QED
          BY <5>1, <3>3
      <4> HIDE DEF B
      <4> QED
        BY <4>1, <3>3
    <3> QED
      BY <3>4, <3>5
  <2>3. A \cap B = {}
    OBVIOUS
  <2>4. ExistsBijection(A, B)
    <3>1. extend \in [A -> B]
      OBVIOUS
    <3>2. ASSUME NEW s \in A, NEW t \in A, extend[s] = extend[t] PROVE s = t
      <4>1. s \cup {n + 1} = t \cup {n + 1} /\ n + 1 \notin s /\ n + 1 \notin t
        BY <3>2
      <4> QED
        BY <4>1
    <3>3. \A u \in B : \E s \in A : extend[s] = u
      OBVIOUS
    <3> HIDE DEF extend, A, B
    <3>4. extend \in Bijection(A, B)
      BY <3>1, <3>2, <3>3 DEF Bijection, Injection, Surjection, IsInjective
    <3> QED
      BY <3>4 DEF ExistsBijection
  <2> HIDE DEF A, B
  <2>5. IsFiniteSet(B) /\ Cardinality(B) = 2^n
    BY <2>1, <2>4, FS_Bijection
  <2>6. Cardinality(A \cup B) = 2^n + 2^n - 0
    BY <2>1, <2>3, <2>5, FS_Union, FS_EmptySet
  <2>7. Cardinality(A \cup B) = 2^(n + 1)
    <3>1. n + 1 \in Nat
      OBVIOUS
    <3> QED
      BY <2>2, <3>1, <1>1
  <2> QED
    BY <2>6, <2>7, <1>1
<1> QED
  BY <1>1, <1>2, <1>3

-----------------------------------------------------------------------------
(***************************************************************************)
(* Words.                                                                  *)
(***************************************************************************)
HalfModulus == Modulus \div 2

\* Division rounds down and leaves a remainder, uniquely.
LEMMA DivMod ==
  ASSUME NEW M \in Nat, M > 0, NEW n \in Int
  PROVE  /\ n % M \in 0 .. M - 1 /\ n \div M \in Int
         /\ n = M * (n \div M) + (n % M)
OBVIOUS

\* Quotient and remainder are determined by the number they make.
LEMMA DivModUnique ==
  ASSUME NEW M \in Nat, M > 0, NEW q \in Int, NEW r \in 0 .. M - 1
  PROVE  (M * q + r) % M = r /\ (M * q + r) \div M = q
OBVIOUS

\* The number of words is even and at least four.
LEMMA ModulusFacts ==
  /\ Modulus \in Nat /\ HalfModulus \in Nat /\ Modulus = 2 * HalfModulus /\ HalfModulus >= 2
  /\ XLEN \in Nat /\ XLEN > 1
<1> DEFINE p == 2^(XLEN - 2)
           q == 2^(XLEN - 1)
           r == 2^XLEN
<1>1. XLEN - 2 \in Nat /\ XLEN - 1 \in Nat /\ (XLEN - 2) + 1 = XLEN - 1 /\ (XLEN - 1) + 1 = XLEN
  BY XlenAssumption
<1>2. p \in Nat /\ p > 0 /\ q = 2 * p /\ r = 2 * q
  <2>1. 2^(XLEN - 2) \in Nat /\ 2^(XLEN - 2) > 0 /\ 2^((XLEN - 2) + 1) = 2 * 2^(XLEN - 2)
    BY <1>1, Powers
  <2>2. 2^((XLEN - 1) + 1) = 2 * 2^(XLEN - 1)
    BY <1>1, Powers
  <2> QED
    BY <1>1, <2>1, <2>2
<1>3. Modulus = r
  BY DEF Modulus
<1> HIDE DEF p, q, r
<1>4. r \in Nat /\ r \div 2 = q /\ q \in Nat /\ q >= 2
  BY <1>2
<1> QED
  BY <1>2, <1>3, <1>4, XlenAssumption DEF HalfModulus

\* Wrapping keeps a number up to a multiple of the modulus.
LEMMA WordFacts ==
  ASSUME NEW n \in Int
  PROVE  word(n) \in Words /\ word(n) \in Int /\ \E k \in Int : n = Modulus * k + word(n)
<1>1. Modulus \in Nat /\ Modulus > 0
  BY ModulusFacts
<1>2. /\ n % Modulus \in 0 .. Modulus - 1 /\ n \div Modulus \in Int
      /\ n = Modulus * (n \div Modulus) + (n % Modulus)
  BY <1>1, DivMod
<1>3. word(n) \in Words /\ word(n) \in Int
  BY <1>1, <1>2 DEF word, Words
<1>4. \E k \in Int : n = Modulus * k + word(n)
  <2> DEFINE d == n \div Modulus
  <2>1. d \in Int /\ n = Modulus * d + word(n)
    BY <1>2 DEF word
  <2> HIDE DEF d
  <2> QED
    BY <2>1
<1> QED
  BY <1>3, <1>4

\* Numbers a multiple of the modulus apart wrap to the same word.
LEMMA SameWord ==
  ASSUME NEW w \in Words, NEW k \in Int
  PROVE  word(Modulus * k + w) = w
<1>1. Modulus \in Nat /\ Modulus > 0
  BY ModulusFacts
<1> QED
  BY <1>1, DivModUnique DEF word, Words

\* Numbers a multiple of Modulus apart are the same word.
LEMMA Congruent ==
  ASSUME NEW m \in Int, NEW n \in Int, NEW k \in Int, m = n + Modulus * k
  PROVE  word(m) = word(n)
<1>1. PICK j \in Int : n = Modulus * j + word(n)
  BY WordFacts
<1>2. Modulus \in Nat /\ word(n) \in Words /\ word(n) \in Int
  BY ModulusFacts, WordFacts
<1>3. m = Modulus * (j + k) + word(n) /\ j + k \in Int
  BY <1>1, <1>2
<1> QED
  BY <1>2, <1>3, SameWord

\* A summand may be wrapped before the sum.
LEMMA SumOfWord ==
  ASSUME NEW m \in Int, NEW n \in Int
  PROVE  word(word(n) + m) = word(n + m)
<1> DEFINE w == word(n)
           p == n + m
           q == w + m
<1>1. PICK k \in Int : n = Modulus * k + w
  BY WordFacts
<1>2. w \in Int /\ Modulus \in Nat /\ Modulus * k \in Int
  BY WordFacts, ModulusFacts
<1>3. p = q + Modulus * k /\ p \in Int /\ q \in Int
  <2> HIDE DEF w
  <2> QED
    BY <1>1, <1>2
<1> HIDE DEF p, q, w
<1>4. word(p) = word(q)
  BY <1>3, Congruent
<1> QED
  BY <1>4 DEF p, q, w

\* A signed word is the word or a modulus less, and wraps back to it.
LEMMA SignedFacts ==
  ASSUME NEW w \in Words
  PROVE  /\ w \in Nat /\ w < Modulus
         /\ sword(w) \in Int /\ -HalfModulus <= sword(w) /\ sword(w) < HalfModulus
         /\ sword(w) = (IF w >= HalfModulus THEN w - Modulus ELSE w)
         /\ word(sword(w)) = w /\ word(w) = w
<1>1. /\ Modulus \in Nat /\ HalfModulus \in Nat /\ Modulus = 2 * HalfModulus
      /\ w \in Nat /\ w < Modulus
  BY ModulusFacts DEF Words
<1>2. sword(w) = (IF w >= HalfModulus THEN w - Modulus ELSE w)
  BY DEF sword, HalfModulus
<1>3. word(Modulus * (-1) + w) = w /\ word(Modulus * 0 + w) = w
  BY SameWord
<1>4. Modulus * (-1) + w = w - Modulus /\ Modulus * 0 + w = w
  BY <1>1
<1>5. word(w - Modulus) = w /\ word(w) = w
  BY <1>3, <1>4
<1> QED
  BY <1>1, <1>2, <1>5

\* A number that a signed word holds is read back.
LEMMA SignedWord ==
  ASSUME NEW n \in Int, -HalfModulus <= n, n < HalfModulus
  PROVE  sword(word(n)) = n
<1>1. Modulus \in Nat /\ HalfModulus \in Nat /\ Modulus = 2 * HalfModulus
  BY ModulusFacts
<1>2. CASE n >= 0
  <2>1. n \in Words
    BY <1>1, <1>2 DEF Words
  <2> QED
    BY <1>1, <1>2, <2>1, SignedFacts
<1>3. CASE n < 0
  <2>1. n + Modulus \in Words
    BY <1>1, <1>3 DEF Words
  <2>2. word(Modulus * (-1) + (n + Modulus)) = n + Modulus
    BY <2>1, SameWord
  <2>3. Modulus * (-1) + (n + Modulus) = n
    BY <1>1
  <2>4. word(n) = n + Modulus
    BY <2>2, <2>3
  <2>5. sword(n + Modulus) = n
    BY <1>1, <1>3, <2>1, SignedFacts
  <2> QED
    BY <2>4, <2>5
<1> QED
  BY <1>2, <1>3

-----------------------------------------------------------------------------
(***************************************************************************)
(* Immediates.  A word is a set of bits.                                   *)
(***************************************************************************)

\* The bits of a field.
LEMMA FieldBits ==
  ASSUME NEW value \in SUBSET D!Bit, NEW start \in Nat, NEW len \in Nat
  PROVE  /\ D!bextr(value, start, len) \subseteq Int
         /\ \A k \in Int : k \in D!bextr(value, start, len) <=> k \in 0 .. len - 1 /\ k + start \in value
<1>v. value \subseteq Int
  BY DEF D!Bit
<1>1. ASSUME NEW k \in Int
      PROVE  k \in D!bextr(value, start, len) <=> k \in 0 .. len - 1 /\ k + start \in value
  <2>1. ASSUME k \in D!bextr(value, start, len) PROVE k \in 0 .. len - 1 /\ k + start \in value
    BY <1>v, <2>1 DEF D!bextr
  <2>2. ASSUME k \in 0 .. len - 1, k + start \in value PROVE k \in D!bextr(value, start, len)
    <3>1. k = (k + start) - start /\ start <= k + start /\ k + start < start + len
      BY <2>2
    <3> QED
      BY <2>2, <3>1 DEF D!bextr
  <2> QED
    BY <2>1, <2>2
<1>2. D!bextr(value, start, len) \subseteq Int
  BY <1>v DEF D!bextr
<1> QED
  BY <1>1, <1>2

\* The bits of a shifted word.
LEMMA ShiftedBits ==
  ASSUME NEW bits \in SUBSET Int, NEW n \in Nat
  PROVE  \A k \in Int : k \in D!ShiftedLeft(bits, n) <=> k \in 0 .. 31 /\ k - n \in bits
<1> SUFFICES ASSUME NEW k \in Int
             PROVE  k \in D!ShiftedLeft(bits, n) <=> k \in 0 .. 31 /\ k - n \in bits
  OBVIOUS
<1>1. k = (k - n) + n
  OBVIOUS
<1> QED
  BY <1>1 DEF D!ShiftedLeft, D!Bit

\* A field put to its place in an immediate.
LEMMA PlacedField ==
  ASSUME NEW value \in SUBSET D!Bit, NEW start \in Nat, NEW len \in Nat, NEW n \in Nat, NEW k \in 0 .. 31
  PROVE  k \in D!ShiftedLeft(D!bextr(value, start, len), n) <=>
           k - n \in 0 .. len - 1 /\ (k - n) + start \in value
<1>1. k \in Int /\ k - n \in Int
  OBVIOUS
<1>2. D!bextr(value, start, len) \in SUBSET Int
  BY FieldBits
<1>3. k \in D!ShiftedLeft(D!bextr(value, start, len), n) <=> k \in 0 .. 31 /\ k - n \in D!bextr(value, start, len)
  BY <1>1, <1>2, ShiftedBits
<1>4. k - n \in D!bextr(value, start, len) <=> k - n \in 0 .. len - 1 /\ (k - n) + start \in value
  BY <1>1, FieldBits
<1> QED
  BY <1>3, <1>4

\* Immediates have no bits but those of a word.
LEMMA ImmediatesAreWords ==
  ASSUME NEW value \in SUBSET D!Bit
  PROVE  /\ D!get_b_imm(value) \subseteq 0 .. 31 /\ D!get_i_imm(value) \subseteq 0 .. 31
         /\ D!get_s_imm(value) \subseteq 0 .. 31 /\ D!get_j_imm(value) \subseteq 0 .. 31
         /\ D!u_imm(value) \subseteq 0 .. 31
<1>1. \A bits : \A n : D!ShiftedLeft(bits, n) \subseteq 0 .. 31
  BY DEF D!ShiftedLeft, D!Bit
<1>2. ASSUME NEW start \in Nat, NEW len \in 0 .. 32 PROVE D!bextr(value, start, len) \subseteq 0 .. 31
  <2> SUFFICES ASSUME NEW k \in D!bextr(value, start, len) PROVE k \in 0 .. 31
    OBVIOUS
  <2>n. len \in Nat
    OBVIOUS
  <2>1. k \in Int
    BY <2>n, FieldBits
  <2>2. k \in 0 .. len - 1
    BY <2>n, <2>1, FieldBits
  <2> QED
    BY <2>1, <2>2
<1>3. /\ D!bextr(value, 7, 1) \subseteq 0 .. 31 /\ D!bextr(value, 20, 12) \subseteq 0 .. 31
      /\ D!bextr(value, 7, 5) \subseteq 0 .. 31
  BY <1>2
<1>4. (IF 31 \in value THEN 12 .. 31 ELSE {}) \subseteq 0 .. 31 /\ (IF 31 \in value THEN 20 .. 31 ELSE {}) \subseteq 0 .. 31
  OBVIOUS
<1>5. D!get_b_imm(value) \subseteq 0 .. 31
  BY <1>1 DEF D!get_b_imm
<1>6. D!get_i_imm(value) \subseteq 0 .. 31
  BY <1>3, <1>4 DEF D!get_i_imm, D!Extended
<1>7. D!get_s_imm(value) \subseteq 0 .. 31
  BY <1>1, <1>3, <1>4 DEF D!get_s_imm, D!Extended
<1>8. D!get_j_imm(value) \subseteq 0 .. 31
  BY <1>1, <1>4 DEF D!get_j_imm, D!Extended
<1>9. D!u_imm(value) \subseteq 0 .. 31
  BY <1>1 DEF D!u_imm
<1> QED
  BY <1>5, <1>6, <1>7, <1>8, <1>9

\* Each immediate has, for every bit, the bit of the instruction its format says.
LEMMA ImmediateBits ==
  ASSUME NEW value \in SUBSET D!Bit, NEW k \in 0 .. 31
  PROVE  /\ k \in D!get_b_imm(value) <=> k # 0 /\ BPlace(k) \in value
         /\ k \in D!get_i_imm(value) <=> IPlace(k) \in value
         /\ k \in D!get_s_imm(value) <=> SPlace(k) \in value
         /\ k \in D!get_j_imm(value) <=> k # 0 /\ JPlace(k) \in value
         /\ k \in D!u_imm(value) <=> k >= 12 /\ k \in value
<1> DEFINE Field(start, len, n) == k - n \in 0 .. len - 1 /\ (k - n) + start \in value
           Sign(from) == k >= from /\ 31 \in value
<1>f. \A start, len, n \in Nat : k \in D!ShiftedLeft(D!bextr(value, start, len), n) <=> Field(start, len, n)
  BY PlacedField
<1>g. \A start, len \in Nat : k \in D!bextr(value, start, len) <=> Field(start, len, 0)
  <2>1. ASSUME NEW start \in Nat, NEW len \in Nat
        PROVE  k \in D!bextr(value, start, len) <=> k \in 0 .. len - 1 /\ k + start \in value
    BY FieldBits
  <2> QED
    BY <2>1
<1>h. k \in D!ShiftedLeft(D!imm_sign(value), 12) <=> Sign(12)
  <2>1. D!imm_sign(value) \in SUBSET Int
    BY DEF D!imm_sign, D!Bit
  <2>2. k \in D!ShiftedLeft(D!imm_sign(value), 12) <=> k \in 0 .. 31 /\ k - 12 \in D!imm_sign(value)
    BY <2>1, ShiftedBits
  <2> QED
    BY <2>2 DEF D!imm_sign, D!Bit
<1>1. k \in D!get_b_imm(value) <=> Field(8, 4, 1) \/ Field(25, 6, 5) \/ Field(7, 1, 11) \/ Sign(12)
  BY <1>f, <1>h DEF D!get_b_imm
<1>2. k \in D!get_i_imm(value) <=> Field(20, 12, 0) \/ Sign(12)
  BY <1>g DEF D!get_i_imm, D!Extended
<1>3. k \in D!get_s_imm(value) <=> Field(7, 5, 0) \/ Field(25, 7, 5) \/ Sign(12)
  BY <1>f, <1>g DEF D!get_s_imm, D!Extended
<1>4. k \in D!get_j_imm(value) <=>
        Field(21, 10, 1) \/ Field(20, 1, 11) \/ Field(12, 8, 12) \/ Field(31, 1, 20) \/ Sign(20)
  BY <1>f DEF D!get_j_imm, D!Extended
<1>5. k \in D!u_imm(value) <=> Field(12, 20, 12)
  BY <1>f DEF D!u_imm
<1>b. (Field(8, 4, 1) \/ Field(25, 6, 5) \/ Field(7, 1, 11) \/ Sign(12)) <=> k # 0 /\ BPlace(k) \in value
  <2>1. CASE k = 0
    BY <2>1
  <2>2. CASE k \in 1 .. 4
    BY <2>2 DEF BPlace
  <2>3. CASE k \in 5 .. 10
    BY <2>3 DEF BPlace
  <2>4. CASE k = 11
    BY <2>4 DEF BPlace
  <2>5. CASE k \in 12 .. 31
    BY <2>5 DEF BPlace
  <2> QED
    BY <2>1, <2>2, <2>3, <2>4, <2>5
<1>i. (Field(20, 12, 0) \/ Sign(12)) <=> IPlace(k) \in value
  BY DEF IPlace
<1>s. (Field(7, 5, 0) \/ Field(25, 7, 5) \/ Sign(12)) <=> SPlace(k) \in value
  <2>1. CASE k \in 0 .. 4
    BY <2>1 DEF SPlace
  <2>2. CASE k \in 5 .. 10
    BY <2>2 DEF SPlace
  <2>3. CASE k \in 11 .. 31
    BY <2>3 DEF SPlace
  <2> QED
    BY <2>1, <2>2, <2>3
<1>j. (Field(21, 10, 1) \/ Field(20, 1, 11) \/ Field(12, 8, 12) \/ Field(31, 1, 20) \/ Sign(20))
        <=> k # 0 /\ JPlace(k) \in value
  <2>1. CASE k = 0
    BY <2>1
  <2>2. CASE k \in 1 .. 10
    BY <2>2 DEF JPlace
  <2>3. CASE k = 11
    BY <2>3 DEF JPlace
  <2>4. CASE k \in 12 .. 19
    BY <2>4 DEF JPlace
  <2>5. CASE k \in 20 .. 31
    BY <2>5 DEF JPlace
  <2> QED
    BY <2>1, <2>2, <2>3, <2>4, <2>5
<1>u. Field(12, 20, 12) <=> k >= 12 /\ k \in value
  BY DEF D!Bit
<1> HIDE DEF Field, Sign
<1> QED
  BY <1>1, <1>2, <1>3, <1>4, <1>5, <1>b, <1>i, <1>s, <1>j, <1>u

\* The immediates of every word, not only of the encodings TLC decodes.
LEMMA FormatsFollowed == ASSUME instruction \in SUBSET D!Bit PROVE ImmediatesFollowFormats
<1>1. /\ D!get_b_imm(instruction) = {k \in 1 .. 31 : BPlace(k) \in instruction}
      /\ D!get_i_imm(instruction) = {k \in 0 .. 31 : IPlace(k) \in instruction}
      /\ D!get_s_imm(instruction) = {k \in 0 .. 31 : SPlace(k) \in instruction}
      /\ D!get_j_imm(instruction) = {k \in 1 .. 31 : JPlace(k) \in instruction}
      /\ D!u_imm(instruction) = {k \in 12 .. 31 : k \in instruction}
  BY ImmediatesAreWords, ImmediateBits
<1> QED
  BY <1>1 DEF ImmediatesFollowFormats

-----------------------------------------------------------------------------
(***************************************************************************)
(* Products.                                                               *)
(***************************************************************************)

\* A factor may be replaced by its signed word: the low half of the product stays.
LEMMA LowProduct ==
  ASSUME NEW x \in Words, NEW y \in Words
  PROVE  /\ word(sword(x) * sword(y)) = word(x * y)
         /\ word(sword(x) * y) = word(x * y)
<1> DEFINE u == IF x >= HalfModulus THEN -1 ELSE 0
           v == IF y >= HalfModulus THEN -1 ELSE 0
<1>m. Modulus \in Nat
  BY ModulusFacts
<1>1. /\ x \in Int /\ y \in Int /\ u \in Int /\ v \in Int
      /\ sword(x) = x + Modulus * u /\ sword(y) = y + Modulus * v
  BY <1>m, SignedFacts
<1> HIDE DEF u, v
<1>2. sword(x) * y = x * y + Modulus * (u * y)
  BY <1>1, <1>m
<1>3. sword(x) * sword(y) = sword(x) * y + Modulus * (sword(x) * v)
  BY <1>1, <1>m, SignedFacts
<1>4. sword(x) * sword(y) = x * y + Modulus * (u * y + sword(x) * v)
  BY <1>1, <1>2, <1>3, <1>m, SignedFacts
<1>5. x * y \in Int /\ u * y \in Int /\ u * y + sword(x) * v \in Int /\ sword(x) * y \in Int
      /\ sword(x) * sword(y) \in Int
  BY <1>1, SignedFacts
<1> QED
  BY <1>2, <1>4, <1>5, Congruent

\* The bounds of a product.
LEMMA ProductBound ==
  ASSUME NEW B \in Nat, NEW C \in Nat, NEW m \in Int, NEW n \in Int,
         -B <= m, m <= B, -C <= n, n <= C
  PROVE  -(B * C) <= m * n /\ m * n <= B * C
<1> DEFINE p == IF m < 0 THEN -m ELSE m
           q == IF n < 0 THEN -n ELSE n
<1>1. p \in Nat /\ q \in Nat /\ p <= B /\ q <= C
  OBVIOUS
<1>2. p * q <= B * C
  <2> HIDE DEF p, q
  <2>1. p * q <= B * q
    BY <1>1
  <2>2. B * q <= B * C
    BY <1>1
  <2>3. p * q \in Int /\ B * q \in Int /\ B * C \in Int
    BY <1>1
  <2> QED
    BY <2>1, <2>2, <2>3
<1>3. m * n = p * q \/ m * n = -(p * q)
  <2>1. CASE m < 0 /\ n < 0
    BY <2>1
  <2>2. CASE m < 0 /\ n >= 0
    BY <2>2
  <2>3. CASE m >= 0 /\ n < 0
    BY <2>3
  <2>4. CASE m >= 0 /\ n >= 0
    BY <2>4
  <2> QED
    BY <2>1, <2>2, <2>3, <2>4
<1>4. p * q >= 0 /\ p * q \in Int /\ B * C \in Int
  BY <1>1
<1> HIDE DEF p, q
<1> QED
  BY <1>2, <1>3, <1>4

\* The quotient of a bounded number.
LEMMA QuotientBound ==
  ASSUME NEW M \in Nat, M > 0, NEW n \in Int, NEW lower \in Int, NEW upper \in Int,
         M * lower <= n, n < M * upper
  PROVE  lower <= n \div M /\ n \div M < upper
<1> DEFINE q == n \div M
           r == n % M
<1>1. q \in Int /\ r \in 0 .. M - 1 /\ n = M * q + r
  BY DivMod
<1> HIDE DEF q, r
<1>2. ASSUME q < lower PROVE FALSE
  <2>1. q + 1 <= lower
    BY <1>1, <1>2
  <2>2. M * (q + 1) <= M * lower
    BY <1>1, <2>1
  <2>3. M * (q + 1) = M * q + M
    BY <1>1
  <2>4. M * q \in Int /\ M * lower \in Int
    BY <1>1
  <2> QED
    BY <1>1, <2>2, <2>3, <2>4
<1>3. ASSUME q >= upper PROVE FALSE
  <2>1. M * upper <= M * q
    BY <1>1, <1>3
  <2>2. M * q \in Int /\ M * upper \in Int
    BY <1>1
  <2> QED
    BY <1>1, <2>1, <2>2
<1> QED
  BY <1>1, <1>2, <1>3 DEF q

\* The high half of a product whose high half a signed word holds.
LEMMA SignedHighHalf ==
  ASSUME NEW n \in Int, -(HalfModulus * Modulus) <= n, n < HalfModulus * Modulus
  PROVE  sword(word(n \div Modulus)) * Modulus + word(n) = n
<1> DEFINE H == HalfModulus
           M == Modulus
<1>m. M \in Nat /\ H \in Nat /\ M > 0
  BY ModulusFacts
<1>1. M * (-H) = -(H * M) /\ M * H = H * M
  BY <1>m
<1>2. -H \in Int /\ -H <= n \div M /\ n \div M < H
  <2>1. M * (-H) <= n /\ n < M * H
    BY <1>1
  <2> HIDE DEF M, H
  <2> QED
    BY <1>m, <2>1, QuotientBound
<1>3. n \div M \in Int /\ n = M * (n \div M) + word(n) /\ word(n) \in Int
  <2>1. word(n) = n % M
    BY DEF word
  <2> HIDE DEF M
  <2> QED
    BY <1>m, <2>1, DivMod
<1>4. sword(word(n \div M)) = n \div M
  BY <1>2, <1>3, SignedWord
<1>5. (n \div M) * M = M * (n \div M)
  BY <1>m, <1>3
<1> QED
  BY <1>3, <1>4, <1>5

\* mulh and mul.
LEMMA SignedProduct ==
  ASSUME NEW x \in Words, NEW y \in Words
  PROVE  sword(mulh32(x, y)) * Modulus + mul32(x, y) = sword(x) * sword(y)
<1> DEFINE H == HalfModulus
           n == sword(x) * sword(y)
<1>1. /\ H \in Nat /\ H >= 2 /\ Modulus = 2 * H /\ Modulus \in Nat
      /\ sword(x) \in Int /\ sword(y) \in Int
      /\ -H <= sword(x) /\ sword(x) < H /\ -H <= sword(y) /\ sword(y) < H
  BY ModulusFacts, SignedFacts
<1>2. -(H * H) <= n /\ n <= H * H /\ n \in Int
  BY <1>1, ProductBound
<1>3. H * Modulus = 2 * (H * H) /\ H * H > 0 /\ H * H \in Int
  BY <1>1
<1>4. -(H * Modulus) <= n /\ n < H * Modulus
  <2> HIDE DEF H, n
  <2> QED
    BY <1>2, <1>3
<1>5. sword(word(n \div Modulus)) * Modulus + word(n) = n
  BY <1>2, <1>4, SignedHighHalf
<1> QED
  BY <1>5 DEF mulh32, mul32

\* mulhsu and mul.
LEMMA MixedProduct ==
  ASSUME NEW x \in Words, NEW y \in Words
  PROVE  sword(mulhsu32(x, y)) * Modulus + mul32(x, y) = sword(x) * y
<1> DEFINE H == HalfModulus
           n == sword(x) * y
<1>1. /\ H \in Nat /\ H >= 2 /\ Modulus \in Nat
      /\ sword(x) \in Int /\ y \in Nat /\ y < Modulus
      /\ -H <= sword(x) /\ sword(x) < H
  BY ModulusFacts, SignedFacts
<1>2. -(H * (Modulus - 1)) <= n /\ n <= H * (Modulus - 1) /\ n \in Int
  <2>1. Modulus - 1 \in Nat /\ -(Modulus - 1) <= y /\ y <= Modulus - 1
    BY <1>1
  <2> QED
    BY <1>1, <2>1, ProductBound
<1>3. H * (Modulus - 1) = H * Modulus - H /\ H * Modulus \in Int
  BY <1>1
<1>4. -(H * Modulus) <= n /\ n < H * Modulus
  <2> HIDE DEF n
  <2> QED
    BY <1>1, <1>2, <1>3
<1>5. sword(word(n \div Modulus)) * Modulus + word(n) = n
  BY <1>2, <1>4, SignedHighHalf
<1>6. word(n) = mul32(x, y)
  BY LowProduct DEF mul32
<1> QED
  BY <1>5, <1>6 DEF mulhsu32

\* mulhu and mul: the product as an int64_t may be short by the square of the
\* modulus, of which the high word keeps nothing.
LEMMA UnsignedProduct ==
  ASSUME NEW x \in Words, NEW y \in Words
  PROVE  mulhu32(x, y) * Modulus + mul32(x, y) = x * y
<1> DEFINE M == Modulus
           n == x * y
           k == IF n >= (M * M) \div 2 THEN -1 ELSE 0
<1>1. M \in Nat /\ M > 0 /\ x \in Nat /\ y \in Nat /\ x < M /\ y < M
  BY ModulusFacts, SignedFacts
<1>2. n \in Nat /\ n <= (M - 1) * (M - 1)
  <2>1. M - 1 \in Nat /\ -(M - 1) <= x /\ x <= M - 1 /\ -(M - 1) <= y /\ y <= M - 1
    BY <1>1
  <2>2. n <= (M - 1) * (M - 1)
    BY <1>1, <2>1, ProductBound
  <2> QED
    BY <1>1, <2>2
<1>3. Int64(n) = n + M * (M * k) /\ k \in {-1, 0} /\ M * (M * k) \in Int
  BY <1>1, <1>2 DEF Int64
<1>4. /\ n \div M \in Int /\ word(n) \in 0 .. M - 1 /\ n = M * (n \div M) + word(n)
  <2>1. word(n) = n % M
    BY DEF word
  <2> HIDE DEF M, n
  <2> QED
    BY <1>1, <1>2, <2>1, DivMod
<1>5. n \div M \in Words
  <2>1. M * 0 <= n /\ n < M * M
    <3>1. (M - 1) * (M - 1) = M * M - 2 * M + 1 /\ M * M \in Int
      BY <1>1
    <3> HIDE DEF n
    <3> QED
      BY <1>1, <1>2, <3>1
  <2> HIDE DEF n
  <2>2. 0 <= n \div M /\ n \div M < M
    BY <1>1, <1>2, <2>1, QuotientBound
  <2> QED
    BY <1>1, <1>4, <2>2 DEF Words
<1> HIDE DEF n, k
<1>6. Int64(n) \div M = (n \div M) + M * k
  <2> DEFINE q == n \div M
             r == word(n)
             j == M * k
  <2>1. n = M * q + r /\ q \in Int /\ r \in 0 .. M - 1 /\ j \in Int /\ M \in Nat /\ M > 0
    BY <1>1, <1>3, <1>4
  <2>2. Int64(n) = n + M * j
    BY <1>3
  <2> HIDE DEF q, r, j, M
  <2>3. M * (q + j) = M * q + M * j /\ q + j \in Int /\ M * q \in Int /\ M * j \in Int
    BY <2>1
  <2>4. Int64(n) = M * (q + j) + r
    BY <2>1, <2>2, <2>3
  <2>5. Int64(n) \div M = q + j
    BY <2>1, <2>3, <2>4, DivModUnique
  <2> QED
    BY <2>5 DEF q, j
<1>7. word(Int64(n) \div M) = n \div M
  <2> DEFINE q == n \div M
  <2>1. q \in Int /\ k \in Int /\ q \in Words /\ q + M * k \in Int /\ M = Modulus
    BY <1>1, <1>3, <1>4, <1>5
  <2> HIDE DEF q, M
  <2>2. word(q + M * k) = word(q)
    BY <2>1, Congruent
  <2>3. word(q) = q
    BY <2>1, SignedFacts
  <2> QED
    BY <2>2, <2>3, <1>6 DEF q
<1>8. word(n) = mul32(x, y)
  BY LowProduct DEF mul32, n
<1>9. (n \div M) * M = M * (n \div M)
  BY <1>1, <1>4
<1> QED
  BY <1>4, <1>7, <1>8, <1>9 DEF mulhu32, n

-----------------------------------------------------------------------------
(***************************************************************************)
(* Quotients.                                                              *)
(***************************************************************************)

\* C's division truncates: the remainder is smaller than the divisor and has the
\* dividend's sign.
LEMMA Truncation ==
  ASSUME NEW s \in Int, NEW d \in Int, d # 0
  PROVE  /\ Quotient(s, d) \in Int /\ Remainder(s, d) \in Int
         /\ s = d * Quotient(s, d) + Remainder(s, d)
         /\ Abs(Remainder(s, d)) < Abs(d)
         /\ Remainder(s, d) = 0 \/ (Remainder(s, d) < 0) = (s < 0)
         /\ Quotient(s, d) = Abs(s) \div Abs(d) \/ Quotient(s, d) = -(Abs(s) \div Abs(d))
         /\ s < 0 /\ d > 0 => Quotient(s, d) = -(Abs(s) \div Abs(d))
         /\ Abs(s) \div Abs(d) \in Nat
<1> DEFINE S == Abs(s)
           D0 == Abs(d)
           Q == S \div D0
           R == S % D0
           q == Quotient(s, d)
           r == Remainder(s, d)
<1>1. S \in Nat /\ D0 \in Nat /\ D0 > 0
  BY DEF Abs
<1>2. Q \in Int /\ R \in 0 .. D0 - 1 /\ S = D0 * Q + R
  <2> HIDE DEF S, D0
  <2> QED
    BY <1>1, DivMod
<1>3. Q \in Nat
  <2> HIDE DEF S, D0
  <2> QED
    BY <1>1
<1>4. q = (IF (s < 0) = (d < 0) THEN Q ELSE -Q) /\ r = s - d * q
  BY DEF Quotient, Remainder
<1>5. /\ s >= 0 => S = s
      /\ s < 0 => S = -s
      /\ d > 0 => D0 = d
      /\ d < 0 => D0 = -d
  BY DEF Abs
<1> HIDE DEF S, D0, Q, R, q, r
<1>6. CASE s >= 0 /\ d > 0
  <2>1. q = Q /\ r = R
    BY <1>1, <1>2, <1>3, <1>4, <1>5, <1>6
  <2> QED
    BY <2>1, <1>1, <1>2, <1>3, <1>5, <1>6 DEF Abs, q, r, Q, S, D0
<1>7. CASE s < 0 /\ d < 0
  <2>1. q = Q
    BY <1>4, <1>7
  <2>2. d * Q = -(D0 * Q)
    BY <1>1, <1>3, <1>5, <1>7
  <2>3. D0 * Q \in Int
    BY <1>1, <1>3
  <2>4. r = -R
    BY <2>1, <2>2, <2>3, <1>1, <1>2, <1>4, <1>5, <1>7
  <2>5. s = d * q + r
    BY <2>1, <2>2, <2>3, <2>4, <1>2, <1>5, <1>7
  <2> QED
    BY <2>1, <2>4, <2>5, <1>1, <1>2, <1>3, <1>5, <1>7 DEF Abs, q, r, Q, S, D0
<1>8. CASE s >= 0 /\ d < 0
  <2>1. q = -Q
    BY <1>4, <1>8
  <2>2. d * (-Q) = D0 * Q
    BY <1>1, <1>3, <1>5, <1>8
  <2>3. D0 * Q \in Int
    BY <1>1, <1>3
  <2>4. r = R
    BY <2>1, <2>2, <2>3, <1>1, <1>2, <1>4, <1>5, <1>8
  <2>5. s = d * q + r
    BY <2>1, <2>2, <2>3, <2>4, <1>2, <1>5, <1>8
  <2> QED
    BY <2>1, <2>4, <2>5, <1>1, <1>2, <1>3, <1>5, <1>8 DEF Abs, q, r, Q, S, D0
<1>9. CASE s < 0 /\ d > 0
  <2>1. q = -Q
    BY <1>4, <1>9
  <2>2. d * (-Q) = -(D0 * Q)
    BY <1>1, <1>3, <1>5, <1>9
  <2>3. D0 * Q \in Int
    BY <1>1, <1>3
  <2>4. r = -R
    BY <2>1, <2>2, <2>3, <1>1, <1>2, <1>4, <1>5, <1>9
  <2>5. s = d * q + r
    BY <2>1, <2>2, <2>3, <2>4, <1>2, <1>5, <1>9
  <2> QED
    BY <2>1, <2>4, <2>5, <1>1, <1>2, <1>3, <1>5, <1>9 DEF Abs, q, r, Q, S, D0
<1> QED
  BY <1>6, <1>7, <1>8, <1>9

\* Except for the overflow, a signed word holds the quotient of two signed words.
LEMMA QuotientFits ==
  ASSUME NEW x \in Words, NEW y \in Words, y # 0, ~Overflows(x, y)
  PROVE  /\ sword(y) # 0
         /\ -HalfModulus <= Quotient(sword(x), sword(y)) /\ Quotient(sword(x), sword(y)) < HalfModulus
<1> DEFINE H == HalfModulus
           s == sword(x)
           d == sword(y)
           Q == Abs(s) \div Abs(d)
<1>1. /\ H \in Nat /\ H >= 2 /\ Modulus = 2 * H /\ Modulus \in Nat
      /\ s \in Int /\ d \in Int /\ -H <= s /\ s < H /\ -H <= d /\ d < H
      /\ x \in Nat /\ y \in Nat /\ x < Modulus /\ y < Modulus
      /\ s = (IF x >= H THEN x - Modulus ELSE x) /\ d = (IF y >= H THEN y - Modulus ELSE y)
  BY ModulusFacts, SignedFacts
<1>2. d # 0 /\ ~(s = -H /\ d = -1)
  <2>1. d # 0
    BY <1>1
  <2>2. ASSUME s = -H, d = -1 PROVE FALSE
    <3>1. x = H
      BY <1>1, <2>2
    <3> QED
      BY <2>2, <3>1 DEF Overflows, HalfModulus
  <2> QED
    BY <2>1, <2>2
<1>3. /\ Quotient(s, d) = Q \/ Quotient(s, d) = -Q
      /\ s < 0 /\ d > 0 => Quotient(s, d) = -Q
      /\ Q \in Nat /\ Quotient(s, d) \in Int
  <2> HIDE DEF s, d
  <2> QED
    BY <1>1, <1>2, Truncation
<1>a. Abs(s) \in Nat /\ Abs(s) <= H /\ Abs(d) \in Nat /\ Abs(d) > 0 /\ (d < -1 \/ d > 1 => Abs(d) >= 2)
      /\ (s # -H => Abs(s) < H)
  BY <1>1, <1>2 DEF Abs
<1> HIDE DEF H, s, d
<1>4. Q <= H
  <2>1. Abs(d) * 0 <= Abs(s) /\ Abs(d) * (H + 1) >= H + 1
    BY <1>1, <1>a
  <2>2. Abs(s) < Abs(d) * (H + 1)
    BY <1>1, <1>a, <2>1
  <2>3. Q < H + 1
    BY <1>1, <1>a, <2>1, <2>2, QuotientBound
  <2> QED
    BY <1>1, <1>3, <2>3
<1>5. CASE s # -H \/ d < -1 \/ d > 1
  <2>1. Abs(s) < Abs(d) * H /\ Abs(d) * 0 <= Abs(s)
    <3>1. CASE s # -H
      <4>1. Abs(d) * H >= H
        BY <1>1, <1>a
      <4> QED
        BY <1>1, <1>a, <3>1, <4>1
    <3>2. CASE d < -1 \/ d > 1
      <4>1. Abs(d) * H >= 2 * H
        BY <1>1, <1>a, <3>2
      <4> QED
        BY <1>1, <1>a, <4>1
    <3> QED
      BY <1>5, <3>1, <3>2
  <2>2. Q < H
    BY <1>1, <1>a, <2>1, QuotientBound
  <2> HIDE DEF Q
  <2>3. -H <= Quotient(s, d) /\ Quotient(s, d) < H
    BY <1>1, <1>3, <2>2
  <2> QED
    BY <2>3, <1>2 DEF H, s, d
<1>6. CASE s = -H /\ d = 1
  <2> HIDE DEF Q
  <2>1. Quotient(s, d) = -Q
    BY <1>1, <1>3, <1>6
  <2>2. -H <= Quotient(s, d) /\ Quotient(s, d) < H
    BY <1>1, <1>3, <1>4, <2>1
  <2> QED
    BY <2>2, <1>2 DEF H, s, d
<1> QED
  BY <1>1, <1>2, <1>5, <1>6

\* div and rem.
LEMMA SignedDivision ==
  ASSUME NEW x \in Words, NEW y \in Words
  PROVE  /\ word(sword(div32(x, y)) * sword(y) + sword(rem32(x, y))) = x
         /\ y = 0 => div32(x, y) = Modulus - 1
         /\ y # 0 => /\ Abs(sword(rem32(x, y))) < Abs(sword(y))
                     /\ sword(rem32(x, y)) = 0 \/ (sword(rem32(x, y)) < 0) = (sword(x) < 0)
<1> DEFINE H == HalfModulus
           s == sword(x)
           d == sword(y)
           q == Quotient(s, d)
           r == Remainder(s, d)
<1>1. /\ H \in Nat /\ H >= 2 /\ Modulus = 2 * H /\ Modulus \in Nat
      /\ s \in Int /\ d \in Int /\ -H <= s /\ s < H /\ -H <= d /\ d < H
      /\ word(s) = x /\ x \in Nat /\ y \in Nat /\ x < Modulus /\ y < Modulus
      /\ s = (IF x >= H THEN x - Modulus ELSE x) /\ d = (IF y >= H THEN y - Modulus ELSE y)
  BY ModulusFacts, SignedFacts
<1>2. CASE y = 0
  <2>1. word(-1) = Modulus - 1
    <3>1. Modulus - 1 \in Words /\ Modulus * (-1) + (Modulus - 1) = -1
      BY <1>1 DEF Words
    <3> QED
      BY <3>1, SameWord
  <2>2. div32(x, y) = Modulus - 1 /\ rem32(x, y) = x /\ sword(y) = 0
    BY <1>1, <1>2, <2>1 DEF div32, rem32
  <2>3. Modulus - 1 \in Words /\ sword(Modulus - 1) \in Int
    <3>1. Modulus - 1 \in Words
      BY <1>1 DEF Words
    <3> QED
      BY <3>1, SignedFacts
  <2>4. sword(div32(x, y)) * sword(y) + sword(rem32(x, y)) = s
    BY <1>1, <2>2, <2>3
  <2> QED
    BY <1>1, <1>2, <2>2, <2>4
<1>3. CASE y # 0 /\ Overflows(x, y)
  <2>1. x = H /\ d = -1 /\ s = -H
    BY <1>1, <1>3 DEF Overflows, HalfModulus
  <2>2. div32(x, y) = x /\ rem32(x, y) = 0
    BY <1>3 DEF div32, rem32
  <2>3. sword(0) = 0 /\ 0 \in Words
    <3>1. 0 \in Words
      BY <1>1 DEF Words
    <3> QED
      BY <1>1, <3>1, SignedFacts
  <2>4. sword(div32(x, y)) * sword(y) + sword(rem32(x, y)) = H
    BY <1>1, <2>1, <2>2, <2>3
  <2>5. word(x) = x
    BY SignedFacts
  <2>6. Abs(sword(rem32(x, y))) < Abs(sword(y))
    BY <2>1, <2>2, <2>3 DEF Abs
  <2> QED
    BY <1>3, <2>1, <2>2, <2>3, <2>4, <2>5, <2>6
<1>4. CASE y # 0 /\ ~Overflows(x, y)
  <2>1. div32(x, y) = word(q) /\ rem32(x, y) = word(r)
    BY <1>4 DEF div32, rem32
  <2>2. d # 0 /\ -H <= q /\ q < H
    BY <1>4, QuotientFits
  <2>3. /\ q \in Int /\ r \in Int /\ s = d * q + r /\ Abs(r) < Abs(d)
        /\ r = 0 \/ (r < 0) = (s < 0)
    BY <1>1, <2>2, Truncation
  <2>4. -H <= r /\ r < H
    BY <1>1, <2>3 DEF Abs
  <2> HIDE DEF q, r
  <2>5. sword(word(q)) = q /\ sword(word(r)) = r
    BY <2>2, <2>3, <2>4, SignedWord
  <2>6. q * d = d * q
    BY <1>1, <2>3
  <2> QED
    BY <1>1, <1>4, <2>1, <2>3, <2>5, <2>6
<1> QED
  BY <1>2, <1>3, <1>4

\* divu and remu.
LEMMA UnsignedDivision ==
  ASSUME NEW x \in Words, NEW y \in Words
  PROVE  /\ word(divu32(x, y) * y + remu32(x, y)) = x
         /\ IF y = 0 THEN divu32(x, y) = Modulus - 1 ELSE remu32(x, y) < y
<1>1. Modulus \in Nat /\ Modulus > 0 /\ x \in Nat /\ y \in Nat /\ word(x) = x
  BY ModulusFacts, SignedFacts
<1>2. CASE y = 0
  <2>1. word(-1) = Modulus - 1
    <3>1. Modulus - 1 \in Words /\ Modulus * (-1) + (Modulus - 1) = -1
      BY <1>1 DEF Words
    <3> QED
      BY <3>1, SameWord
  <2>2. divu32(x, y) = Modulus - 1 /\ remu32(x, y) = x
    BY <1>2, <2>1 DEF divu32, remu32
  <2>3. divu32(x, y) * y + remu32(x, y) = x
    BY <1>1, <1>2, <2>2
  <2> QED
    BY <1>1, <1>2, <2>2, <2>3
<1>3. CASE y # 0
  <2>1. divu32(x, y) = x \div y /\ remu32(x, y) = x % y
    BY <1>3 DEF divu32, remu32
  <2>2. x % y \in 0 .. y - 1 /\ x \div y \in Int /\ x = y * (x \div y) + (x % y)
    BY <1>1, <1>3, DivMod
  <2>3. (x \div y) * y = y * (x \div y)
    BY <1>1, <2>2
  <2> QED
    BY <1>1, <1>3, <2>1, <2>2, <2>3
<1> QED
  BY <1>2, <1>3

-----------------------------------------------------------------------------
(***************************************************************************)
(* Immediates and orders.                                                  *)
(***************************************************************************)

\* A negative shift count counts as its low bits, which are those of the amount.
LEMMA ShiftAmount ==
  ASSUME NEW n \in 0 .. XLEN - 1
  PROVE  ShiftCount(ShamtField(n)) = n % XLEN
<1>1. XLEN \in Nat /\ XLEN > 0 /\ n \in Int
  BY XlenAssumption
<1>2. (XLEN * (-1) + n) % XLEN = n /\ (XLEN * 0 + n) % XLEN = n
  BY <1>1, DivModUnique
<1>3. XLEN * (-1) + n = n - XLEN /\ XLEN * 0 + n = n
  BY <1>1
<1> QED
  BY <1>2, <1>3 DEF ShiftCount, ShamtField

\* The immediate instructions.
LEMMA ImmediateForms ==
  ASSUME NEW x, NEW y \in Words
  PROVE  /\ andi(x, sword(y)) = and(x, y) /\ ori(x, sword(y)) = or(x, y) /\ xori(x, sword(y)) = xor(x, y)
         /\ slti(x, sword(y)) = slt(x, y) /\ sltiu(x, sword(y)) = sltu(x, y)
         /\ y \in 0 .. XLEN - 1 =>
              slli(x, y) = sll(x, y) /\ srli(x, y) = srl(x, y) /\ srai(x, y) = sra(x, y)
<1>1. word(sword(y)) = y
  BY SignedFacts
<1>2. y \in 0 .. XLEN - 1 => ShiftCount(ShamtField(y)) = y % XLEN
  BY ShiftAmount
<1> QED
  BY <1>1, <1>2 DEF andi, ori, xori, slti, slt, sltiu, sltu, slli, sll, srli, srl, srai, sra

\* Adding half the modulus turns a signed order into an unsigned one.
LEMMA Biased ==
  ASSUME NEW x \in Words
  PROVE  add(x, HalfModulus) = sword(x) + HalfModulus
<1>1. /\ HalfModulus \in Nat /\ Modulus = 2 * HalfModulus /\ Modulus \in Nat
      /\ x \in Nat /\ x < Modulus /\ sword(x) = (IF x >= HalfModulus THEN x - Modulus ELSE x)
  BY ModulusFacts, SignedFacts
<1>2. CASE x < HalfModulus
  <2>1. x + HalfModulus \in Words
    BY <1>1, <1>2 DEF Words
  <2>2. word(x + HalfModulus) = x + HalfModulus
    BY <2>1, SignedFacts
  <2> QED
    BY <1>1, <1>2, <2>2 DEF add
<1>3. CASE x >= HalfModulus
  <2>1. x - HalfModulus \in Words /\ x + HalfModulus = Modulus * 1 + (x - HalfModulus)
    BY <1>1, <1>3 DEF Words
  <2>2. word(x + HalfModulus) = x - HalfModulus
    BY <2>1, SameWord
  <2> QED
    BY <1>1, <1>3, <2>2 DEF add
<1> QED
  BY <1>1, <1>2, <1>3

\* The branches and comparisons.
LEMMA Orders ==
  ASSUME NEW x \in Words, NEW y \in Words
  PROVE  /\ Flag(beq(x, y)) = 1 - Flag(bne(x, y))
         /\ Flag(blt(x, y)) = 1 - Flag(bge(x, y))
         /\ Flag(bltu(x, y)) = 1 - Flag(bgeu(x, y))
         /\ slt(x, y) = Flag(blt(x, y)) /\ sltu(x, y) = Flag(bltu(x, y))
         /\ Flag(bltu(x, y)) = 1 <=> sub(x, y) # x - y
         /\ Flag(blt(x, y)) = Flag(bltu(add(x, HalfModulus), add(y, HalfModulus)))
         /\ Flag(beq(x, y)) = 1 <=> ~blt(x, y) /\ ~blt(y, x)
<1>1. /\ HalfModulus \in Nat /\ Modulus = 2 * HalfModulus /\ Modulus \in Nat
      /\ x \in Nat /\ x < Modulus /\ y \in Nat /\ y < Modulus
      /\ sword(x) \in Int /\ sword(y) \in Int
      /\ sword(x) = (IF x >= HalfModulus THEN x - Modulus ELSE x)
      /\ sword(y) = (IF y >= HalfModulus THEN y - Modulus ELSE y)
  BY ModulusFacts, SignedFacts
<1>2. /\ Flag(beq(x, y)) = 1 - Flag(bne(x, y))
      /\ slt(x, y) = Flag(blt(x, y)) /\ sltu(x, y) = Flag(bltu(x, y))
  BY DEF Flag, beq, bne, slt, blt, sltu, bltu
<1>3. /\ Flag(blt(x, y)) = 1 - Flag(bge(x, y))
      /\ Flag(bltu(x, y)) = 1 - Flag(bgeu(x, y))
  BY <1>1 DEF Flag, blt, bge, bltu, bgeu
<1>4. Flag(bltu(x, y)) = 1 <=> sub(x, y) # x - y
  <2>1. CASE x < y
    <3>1. word(x - y) \in Words
      BY <1>1, WordFacts
    <3>2. word(x - y) # x - y
      BY <1>1, <2>1, <3>1 DEF Words
    <3> QED
      BY <2>1, <3>2 DEF Flag, bltu, sub
  <2>2. CASE x >= y
    <3>1. x - y \in Words
      BY <1>1, <2>2 DEF Words
    <3>2. word(x - y) = x - y
      BY <3>1, SignedFacts
    <3> QED
      BY <1>1, <2>2, <3>2 DEF Flag, bltu, sub
  <2> QED
    BY <1>1, <2>1, <2>2
<1>5. Flag(blt(x, y)) = Flag(bltu(add(x, HalfModulus), add(y, HalfModulus)))
  <2>1. add(x, HalfModulus) = sword(x) + HalfModulus /\ add(y, HalfModulus) = sword(y) + HalfModulus
    BY Biased
  <2>2. sword(x) < sword(y) <=> sword(x) + HalfModulus < sword(y) + HalfModulus
    BY <1>1
  <2> QED
    BY <2>1, <2>2 DEF Flag, blt, bltu
<1>6. Flag(beq(x, y)) = 1 <=> ~blt(x, y) /\ ~blt(y, x)
  <2>1. x = y <=> ~(sword(x) < sword(y)) /\ ~(sword(y) < sword(x))
    BY <1>1
  <2> QED
    BY <2>1 DEF Flag, beq, blt
<1> QED
  BY <1>2, <1>3, <1>4, <1>5, <1>6

-----------------------------------------------------------------------------
(***************************************************************************)
(* Bits.                                                                   *)
(***************************************************************************)
\* What the truth tables of two bits say of their sum.
LEMMA Tables ==
  ASSUME NEW x \in 0 .. 1, NEW y \in 0 .. 1
  PROVE  /\ And[x][y] \in 0 .. 1 /\ Or[x][y] \in 0 .. 1 /\ Xor[x][y] \in 0 .. 1
         /\ x + y = Xor[x][y] + 2 * And[x][y]
         /\ Or[x][y] = Xor[x][y] + And[x][y]
<1>1. /\ And[x][y] = Flag(x = 1 /\ y = 1)
      /\ Or[x][y] = Flag(x = 1 \/ y = 1)
      /\ Xor[x][y] = Flag(x # y)
  BY DEF And, Or, Xor
<1>2. (x = 0 \/ x = 1) /\ (y = 0 \/ y = 1)
  OBVIOUS
<1> QED
  BY <1>1, <1>2 DEF Flag

\* The word made of bits, one bit at a time.
LEMMA BitByBitStep ==
  ASSUME NEW table, NEW x, NEW y
  PROVE  /\ BitByBit(table, x, y)[0] = 0
         /\ \A k \in Nat : BitByBit(table, x, y)[k + 1] =
                             BitByBit(table, x, y)[k] + table[BitOf(x, k)][BitOf(y, k)] * 2^k
<1> DEFINE low == BitByBit(table, x, y)
<1>1. NatInductiveDefHypothesis(low, 0, LAMBDA v, k : v + table[BitOf(x, k - 1)][BitOf(y, k - 1)] * 2^(k - 1))
  BY DEF NatInductiveDefHypothesis, BitByBit
<1> HIDE DEF low
<1>2. NatInductiveDefConclusion(low, 0, LAMBDA v, k : v + table[BitOf(x, k - 1)][BitOf(y, k - 1)] * 2^(k - 1))
  BY <1>1, NatInductiveDef
<1>3. low = [k \in Nat |-> IF k = 0 THEN 0
                           ELSE low[k - 1] + table[BitOf(x, k - 1)][BitOf(y, k - 1)] * 2^(k - 1)]
  BY <1>2 DEF NatInductiveDefConclusion
<1>4. ASSUME NEW k \in Nat
      PROVE  low[k + 1] = low[k] + table[BitOf(x, k)][BitOf(y, k)] * 2^k
  <2>1. k + 1 \in Nat /\ k + 1 # 0 /\ (k + 1) - 1 = k
    OBVIOUS
  <2> QED
    BY <1>3, <2>1
<1>5. low[0] = 0
  BY <1>3
<1> QED
  BY <1>4, <1>5 DEF low

\* A number's low bits: the bits below and bit k.
LEMMA LowBits ==
  ASSUME NEW x \in Nat, NEW k \in Nat
  PROVE  /\ BitOf(x, k) \in 0 .. 1
         /\ x % (2^(k + 1)) = (x % (2^k)) + BitOf(x, k) * 2^k
<1> DEFINE p == 2^k
           q == x \div p
           r == x % p
           bit == q % 2
           h == q \div 2
<1>1. p \in Nat /\ p > 0 /\ 2^(k + 1) = 2 * p
  BY Powers
<1>2. BitOf(x, k) = bit
  BY DEF BitOf
<1> HIDE DEF p
<1>3. q \in Int /\ r \in 0 .. p - 1 /\ x = p * q + r
  BY <1>1, DivMod
<1> HIDE DEF q, r
<1>4. h \in Int /\ bit \in 0 .. 1 /\ q = 2 * h + bit
  <2>1. h \in Int /\ bit \in 0 .. 2 - 1 /\ q = 2 * h + bit
    BY <1>3
  <2> QED
    BY <2>1
<1> HIDE DEF bit, h
<1>5. p * q = (2 * p) * h + p * bit
  BY <1>1, <1>3, <1>4
<1>6. p * bit + r \in 0 .. (2 * p) - 1
  <2>1. CASE bit = 0
    BY <2>1, <1>1, <1>3
  <2>2. CASE bit = 1
    BY <2>2, <1>1, <1>3
  <2> QED
    BY <2>1, <2>2, <1>4
<1>7. x = (2 * p) * h + (p * bit + r)
  <2>1. p * q \in Int /\ (2 * p) * h \in Int /\ p * bit \in Int
    BY <1>1, <1>3, <1>4
  <2> QED
    BY <2>1, <1>3, <1>5
<1>8. x % (2 * p) = p * bit + r
  <2>1. 2 * p \in Nat /\ 2 * p > 0
    BY <1>1
  <2> QED
    BY <2>1, <1>4, <1>6, <1>7, DivModUnique
<1>9. p * bit + r = r + bit * p
  BY <1>1, <1>3, <1>4
<1> QED
  BY <1>1, <1>2, <1>4, <1>8, <1>9 DEF p, r

\* A sum is the exclusive or of its bits and twice their conjunction, and a
\* disjunction is the exclusive or and the conjunction.
LEMMA BitSums ==
  ASSUME NEW x \in Nat, NEW y \in Nat
  PROVE  \A k \in Nat :
           /\ BitByBit(And, x, y)[k] \in 0 .. 2^k - 1
           /\ BitByBit(Or, x, y)[k] \in 0 .. 2^k - 1
           /\ BitByBit(Xor, x, y)[k] \in 0 .. 2^k - 1
           /\ (x % (2^k)) + (y % (2^k)) = BitByBit(Xor, x, y)[k] + 2 * BitByBit(And, x, y)[k]
           /\ BitByBit(Or, x, y)[k] = BitByBit(Xor, x, y)[k] + BitByBit(And, x, y)[k]
<1> DEFINE A == BitByBit(And, x, y)
           O == BitByBit(Or, x, y)
           X == BitByBit(Xor, x, y)
           Sums(k) == /\ A[k] \in 0 .. 2^k - 1 /\ O[k] \in 0 .. 2^k - 1 /\ X[k] \in 0 .. 2^k - 1
                      /\ (x % (2^k)) + (y % (2^k)) = X[k] + 2 * A[k]
                      /\ O[k] = X[k] + A[k]
           S == {k \in Nat : Sums(k)}
<1>1. 0 \in S
  <2>1. A[0] = 0 /\ O[0] = 0 /\ X[0] = 0
    BY BitByBitStep
  <2>2. 2^0 = 1 /\ x % 1 = 0 /\ y % 1 = 0
    BY Powers
  <2> HIDE DEF A, O, X
  <2>3. Sums(0)
    BY <2>1, <2>2
  <2> QED
    BY <2>3
<1>2. ASSUME NEW k \in Nat, Sums(k) PROVE Sums(k + 1)
  <2> DEFINE i == BitOf(x, k)
             j == BitOf(y, k)
             p == 2^k
             u == x % p
             v == y % p
             Ad == And[i][j]
             Od == Or[i][j]
             Xd == Xor[i][j]
  <2>1. /\ A[k + 1] = A[k] + Ad * p
        /\ O[k + 1] = O[k] + Od * p
        /\ X[k + 1] = X[k] + Xd * p
    BY BitByBitStep
  <2>2. /\ p \in Nat /\ p > 0 /\ 2^(k + 1) = 2 * p
    BY Powers
  <2>3. /\ i \in 0 .. 1 /\ j \in 0 .. 1
        /\ x % (2^(k + 1)) = u + i * p /\ y % (2^(k + 1)) = v + j * p
    BY LowBits
  <2>4. /\ Ad \in 0 .. 1 /\ Od \in 0 .. 1 /\ Xd \in 0 .. 1
        /\ i + j = Xd + 2 * Ad /\ Od = Xd + Ad
    BY <2>3, Tables
  <2>5. u \in Int /\ v \in Int
    <3> HIDE DEF p
    <3> QED
      BY <2>2
  <2>6. /\ A[k] \in 0 .. p - 1 /\ O[k] \in 0 .. p - 1 /\ X[k] \in 0 .. p - 1
        /\ u + v = X[k] + 2 * A[k] /\ O[k] = X[k] + A[k]
    BY <1>2
  <2> DEFINE q == 2^(k + 1)
             s == x % q
             t == y % q
  <2>7. q = 2 * p /\ s = u + i * p /\ t = v + j * p
    BY <2>2, <2>3
  <2> HIDE DEF i, j, p, u, v, Ad, Od, Xd, A, O, X, q, s, t
  <2>8. /\ A[k + 1] \in 0 .. q - 1 /\ O[k + 1] \in 0 .. q - 1 /\ X[k + 1] \in 0 .. q - 1
        /\ s + t = X[k + 1] + 2 * A[k + 1]
        /\ O[k + 1] = X[k + 1] + A[k + 1]
    <3>1. CASE i = 0 /\ j = 0
      <4>1. Ad = 0 /\ Xd = 0 /\ Od = 0
        BY <2>4, <3>1
      <4> QED
        BY <2>1, <2>2, <2>5, <2>6, <2>7, <3>1, <4>1
    <3>2. CASE i + j = 1
      <4>1. Ad = 0 /\ Xd = 1 /\ Od = 1
        BY <2>3, <2>4, <3>2
      <4>2. i * p + j * p = p /\ i * p \in Int /\ j * p \in Int
        BY <2>2, <2>3, <3>2
      <4> QED
        BY <2>1, <2>2, <2>5, <2>6, <2>7, <4>1, <4>2
    <3>3. CASE i = 1 /\ j = 1
      <4>1. Ad = 1 /\ Xd = 0 /\ Od = 1
        BY <2>4, <3>3
      <4>2. A[k + 1] = A[k] + p /\ X[k + 1] = X[k] /\ O[k + 1] = O[k] + p
        BY <2>1, <2>2, <2>6, <4>1
      <4>3. s = u + p /\ t = v + p
        BY <2>2, <2>7, <3>3
      <4>4. p \in Nat /\ p > 0 /\ q = 2 * p
        BY <2>2, <2>7
      <4>5. A[k + 1] \in 0 .. q - 1 /\ O[k + 1] \in 0 .. q - 1 /\ X[k + 1] \in 0 .. q - 1
        BY <2>6, <4>2, <4>4
      <4>6. s + t = (u + v) + 2 * p
        BY <2>5, <4>3, <4>4
      <4>7. X[k + 1] + 2 * A[k + 1] = (X[k] + 2 * A[k]) + 2 * p
        BY <2>6, <4>2, <4>4
      <4>8. O[k + 1] = X[k + 1] + A[k + 1]
        BY <2>6, <4>2, <4>4
      <4> QED
        BY <2>6, <4>5, <4>6, <4>7, <4>8
    <3> QED
      BY <2>3, <3>1, <3>2, <3>3
  <2> QED
    BY <2>8 DEF q, s, t
<1> HIDE DEF Sums
<1>3. S = Nat
  <2>1. \A k \in S : k + 1 \in S
    BY <1>2
  <2> HIDE DEF S
  <2>2. S \in SUBSET Nat
    BY DEF S
  <2> QED
    BY <1>1, <2>1, <2>2, SetInduction
<1>4. \A k \in Nat : Sums(k)
  BY <1>3
<1> QED
  BY <1>4 DEF Sums

\* The bitwise instructions and the sum.
LEMMA BitwiseSums ==
  ASSUME NEW x \in Words, NEW y \in Words
  PROVE  /\ and(x, y) \in Words /\ or(x, y) \in Words /\ xor(x, y) \in Words
         /\ x + y = xor(x, y) + 2 * and(x, y)
         /\ or(x, y) = xor(x, y) + and(x, y)
<1>1. /\ Modulus \in Nat /\ Modulus > 0 /\ XLEN \in Nat /\ x \in Nat /\ y \in Nat
      /\ word(x) = x /\ word(y) = y
  BY ModulusFacts, SignedFacts
<1>2. /\ BitByBit(And, x, y)[XLEN] \in 0 .. 2^XLEN - 1
      /\ BitByBit(Or, x, y)[XLEN] \in 0 .. 2^XLEN - 1
      /\ BitByBit(Xor, x, y)[XLEN] \in 0 .. 2^XLEN - 1
      /\ (x % (2^XLEN)) + (y % (2^XLEN)) = BitByBit(Xor, x, y)[XLEN] + 2 * BitByBit(And, x, y)[XLEN]
      /\ BitByBit(Or, x, y)[XLEN] = BitByBit(Xor, x, y)[XLEN] + BitByBit(And, x, y)[XLEN]
  BY <1>1, BitSums
<1>3. x % (2^XLEN) = x /\ y % (2^XLEN) = y /\ Words = 0 .. 2^XLEN - 1
  BY <1>1 DEF word, Modulus, Words
<1> QED
  BY <1>2, <1>3 DEF and, or, xor

\* What adding the bits gives, and that sub undoes add.
LEMMA Sums ==
  ASSUME NEW x \in Words, NEW y \in Words
  PROVE  /\ add(xor(x, y), ShiftedLeft(and(x, y), 1)) = add(x, y)
         /\ add(xor(x, y), and(x, y)) = or(x, y)
         /\ sub(add(x, y), y) = x /\ add(sub(x, y), y) = x
<1> DEFINE e == xor(x, y)
           c == and(x, y)
<1>1. /\ Modulus \in Nat /\ x \in Int /\ y \in Int /\ word(x) = x
  BY ModulusFacts, SignedFacts
<1>2. e \in Int /\ c \in Int /\ x + y = e + 2 * c /\ or(x, y) = e + c /\ or(x, y) \in Words
  <2>1. e \in Words /\ c \in Words /\ x + y = e + 2 * c /\ or(x, y) = e + c /\ or(x, y) \in Words
    BY BitwiseSums
  <2> QED
    BY <2>1, SignedFacts
<1> HIDE DEF e, c
<1>3. ShiftedLeft(c, 1) = word(2 * c)
  <2>1. 2^1 = 2
    OBVIOUS
  <2>2. c * 2^1 = 2 * c
    BY <1>2, <2>1
  <2> QED
    BY <2>2 DEF ShiftedLeft
<1>4. word(e + word(2 * c)) = word(x + y)
  <2>1. 2 * c \in Int
    BY <1>2
  <2>2. word(word(2 * c) + e) = word(2 * c + e)
    BY <1>2, <2>1, SumOfWord
  <2>3. word(2 * c) \in Int
    BY <2>1, WordFacts
  <2>4. word(2 * c) + e = e + word(2 * c) /\ 2 * c + e = x + y
    BY <1>2, <2>1, <2>3
  <2> QED
    BY <2>2, <2>4
<1>5. word(e + c) = or(x, y)
  BY <1>2, SignedFacts
<1>6. word(word(x + y) - y) = x
  <2>1. x + y \in Int /\ -y \in Int /\ (x + y) + (-y) = x
    BY <1>1
  <2>2. word(word(x + y) + (-y)) = word((x + y) + (-y)) /\ word(x + y) \in Int
    BY <2>1, SumOfWord, WordFacts
  <2>3. word(x + y) + (-y) = word(x + y) - y
    BY <1>1, <2>2
  <2> QED
    BY <1>1, <2>1, <2>2, <2>3
<1>7. word(word(x - y) + y) = x
  <2>1. x - y \in Int /\ (x - y) + y = x
    BY <1>1
  <2>2. word(word(x - y) + y) = word((x - y) + y)
    BY <1>1, <2>1, SumOfWord
  <2> QED
    BY <1>1, <2>1, <2>2
<1> QED
  BY <1>3, <1>4, <1>5, <1>6, <1>7 DEF add, sub, e, c

-----------------------------------------------------------------------------
(***************************************************************************)
(* Decoding: the fields of an instruction that the masks compare, and why  *)
(* no word matches the patterns of two instructions.                       *)
(***************************************************************************)
\* The powers of two that the halves of a word are taken apart with.
LEMMA PowerValues ==
  /\ 2^0 = 1 /\ 2^1 = 2 /\ 2^2 = 4 /\ 2^3 = 8 /\ 2^4 = 16 /\ 2^5 = 32 /\ 2^6 = 64 /\ 2^7 = 128
  /\ 2^8 = 256 /\ 2^9 = 512 /\ 2^10 = 1024 /\ 2^11 = 2048 /\ 2^12 = 4096 /\ 2^13 = 8192
  /\ 2^14 = 16384 /\ 2^15 = 32768
<1> DEFINE p == [n \in Nat |-> 2^n]
<1>2. \A n \in Nat : p[n] = 2^n
  OBVIOUS
<1>1. p[0] = 1 /\ \A n \in Nat : p[n + 1] = 2 * p[n]
  <2>1. \A n \in Nat : n + 1 \in Nat /\ p[n + 1] = 2^(n + 1)
    BY <1>2
  <2> HIDE DEF p
  <2> QED
    BY <1>2, <2>1, Powers
<1> HIDE DEF p
<1>3. p[1] = 2 /\ p[2] = 4 /\ p[3] = 8 /\ p[4] = 16 /\ p[5] = 32
  <2>1. p[0 + 1] = 2 * p[0] /\ p[1 + 1] = 2 * p[1] /\ p[2 + 1] = 2 * p[2]
        /\ p[3 + 1] = 2 * p[3] /\ p[4 + 1] = 2 * p[4]
    BY <1>1
  <2> QED
    BY <1>1, <2>1
<1>4. p[6] = 64 /\ p[7] = 128 /\ p[8] = 256 /\ p[9] = 512 /\ p[10] = 1024
  <2>1. p[5 + 1] = 2 * p[5] /\ p[6 + 1] = 2 * p[6] /\ p[7 + 1] = 2 * p[7]
        /\ p[8 + 1] = 2 * p[8] /\ p[9 + 1] = 2 * p[9]
    BY <1>1
  <2> QED
    BY <1>3, <2>1
<1>5. p[11] = 2048 /\ p[12] = 4096 /\ p[13] = 8192 /\ p[14] = 16384 /\ p[15] = 32768
  <2>1. p[10 + 1] = 2 * p[10] /\ p[11 + 1] = 2 * p[11] /\ p[12 + 1] = 2 * p[12]
        /\ p[13 + 1] = 2 * p[13] /\ p[14 + 1] = 2 * p[14]
    BY <1>1
  <2> QED
    BY <1>4, <2>1
<1> QED
  BY <1>1, <1>2, <1>3, <1>4, <1>5

\* A word given by its halves has the bits of both.
LEMMA BitsOf ==
  ASSUME NEW high \in Nat, NEW low \in Nat
  PROVE  /\ \A i \in 0 .. 15 : i \in D!Bits(high, low) <=> (low \div 2^i) % 2 = 1
         /\ \A i \in 0 .. 15 : i + 16 \in D!Bits(high, low) <=> (high \div 2^i) % 2 = 1
<1>1. ASSUME NEW n \in Nat, NEW i \in Int
      PROVE  i \in D!Ones(n) <=> i \in 0 .. 15 /\ (n \div 2^i) % 2 = 1
  BY DEF D!Ones
<1>2. ASSUME NEW i \in Int
      PROVE  i \in D!Bits(high, low) <=> i - 16 \in D!Ones(high) \/ i \in D!Ones(low)
  <2>1. D!Ones(high) \subseteq Int
    BY DEF D!Ones
  <2> QED
    BY <2>1 DEF D!Bits
<1>3. ASSUME NEW i \in 0 .. 15
      PROVE  /\ i \in D!Bits(high, low) <=> (low \div 2^i) % 2 = 1
             /\ i + 16 \in D!Bits(high, low) <=> (high \div 2^i) % 2 = 1
  <2>1. i \in D!Ones(low) <=> (low \div 2^i) % 2 = 1
    BY <1>1
  <2>2. i \in D!Ones(high) <=> (high \div 2^i) % 2 = 1
    BY <1>1
  <2>3. (i - 16) \notin D!Ones(high) /\ (i + 16) \notin D!Ones(low) /\ (i + 16) - 16 = i
    BY <1>1
  <2>4. /\ i \in D!Bits(high, low) <=> i - 16 \in D!Ones(high) \/ i \in D!Ones(low)
        /\ i + 16 \in D!Bits(high, low) <=> (i + 16) - 16 \in D!Ones(high) \/ i + 16 \in D!Ones(low)
    BY <1>2
  <2> QED
    BY <2>1, <2>2, <2>3, <2>4
<1> QED
  BY <1>3

\* Each bit of a word that is given by its halves.
LEMMA BitValues ==
  ASSUME NEW high \in Nat, NEW low \in Nat, NEW bits, bits = D!Bits(high, low)
  PROVE  /\ (0 \in bits <=> (low \div 1) % 2 = 1) /\ (1 \in bits <=> (low \div 2) % 2 = 1)
         /\ (2 \in bits <=> (low \div 4) % 2 = 1) /\ (3 \in bits <=> (low \div 8) % 2 = 1)
         /\ (4 \in bits <=> (low \div 16) % 2 = 1) /\ (5 \in bits <=> (low \div 32) % 2 = 1)
         /\ (6 \in bits <=> (low \div 64) % 2 = 1) /\ (7 \in bits <=> (low \div 128) % 2 = 1)
         /\ (8 \in bits <=> (low \div 256) % 2 = 1) /\ (9 \in bits <=> (low \div 512) % 2 = 1)
         /\ (10 \in bits <=> (low \div 1024) % 2 = 1) /\ (11 \in bits <=> (low \div 2048) % 2 = 1)
         /\ (12 \in bits <=> (low \div 4096) % 2 = 1) /\ (13 \in bits <=> (low \div 8192) % 2 = 1)
         /\ (14 \in bits <=> (low \div 16384) % 2 = 1) /\ (15 \in bits <=> (low \div 32768) % 2 = 1)
         /\ (16 \in bits <=> (high \div 1) % 2 = 1) /\ (17 \in bits <=> (high \div 2) % 2 = 1)
         /\ (18 \in bits <=> (high \div 4) % 2 = 1) /\ (19 \in bits <=> (high \div 8) % 2 = 1)
         /\ (20 \in bits <=> (high \div 16) % 2 = 1) /\ (21 \in bits <=> (high \div 32) % 2 = 1)
         /\ (22 \in bits <=> (high \div 64) % 2 = 1) /\ (23 \in bits <=> (high \div 128) % 2 = 1)
         /\ (24 \in bits <=> (high \div 256) % 2 = 1) /\ (25 \in bits <=> (high \div 512) % 2 = 1)
         /\ (26 \in bits <=> (high \div 1024) % 2 = 1) /\ (27 \in bits <=> (high \div 2048) % 2 = 1)
         /\ (28 \in bits <=> (high \div 4096) % 2 = 1) /\ (29 \in bits <=> (high \div 8192) % 2 = 1)
         /\ (30 \in bits <=> (high \div 16384) % 2 = 1)
         /\ (31 \in bits <=> (high \div 32768) % 2 = 1)
<1>1. /\ \A i \in 0 .. 15 : i \in bits <=> (low \div 2^i) % 2 = 1
      /\ \A i \in 0 .. 15 : i + 16 \in bits <=> (high \div 2^i) % 2 = 1
  BY BitsOf
<1>2. /\ (0 \in bits <=> (low \div 1) % 2 = 1) /\ (1 \in bits <=> (low \div 2) % 2 = 1)
      /\ (2 \in bits <=> (low \div 4) % 2 = 1) /\ (3 \in bits <=> (low \div 8) % 2 = 1)
      /\ (4 \in bits <=> (low \div 16) % 2 = 1) /\ (5 \in bits <=> (low \div 32) % 2 = 1)
      /\ (6 \in bits <=> (low \div 64) % 2 = 1) /\ (7 \in bits <=> (low \div 128) % 2 = 1)
  <2>1. \A i \in {0, 1, 2, 3, 4, 5, 6, 7} : i \in 0 .. 15
    OBVIOUS
  <2>2. \A i \in {0, 1, 2, 3, 4, 5, 6, 7} : i \in bits <=> (low \div 2^i) % 2 = 1
    BY <1>1, <2>1, Zenon
  <2> QED
    BY <2>2, PowerValues
<1>3. /\ (16 \in bits <=> (high \div 1) % 2 = 1) /\ (17 \in bits <=> (high \div 2) % 2 = 1)
      /\ (18 \in bits <=> (high \div 4) % 2 = 1) /\ (19 \in bits <=> (high \div 8) % 2 = 1)
      /\ (20 \in bits <=> (high \div 16) % 2 = 1) /\ (21 \in bits <=> (high \div 32) % 2 = 1)
      /\ (22 \in bits <=> (high \div 64) % 2 = 1) /\ (23 \in bits <=> (high \div 128) % 2 = 1)
  <2>1. \A i \in {0, 1, 2, 3, 4, 5, 6, 7} : i \in 0 .. 15
    OBVIOUS
  <2>2. \A i \in {0, 1, 2, 3, 4, 5, 6, 7} : i + 16 \in bits <=> (high \div 2^i) % 2 = 1
    BY <1>1, <2>1, Zenon
  <2> QED
    BY <2>2, PowerValues
<1>4. /\ (8 \in bits <=> (low \div 256) % 2 = 1) /\ (9 \in bits <=> (low \div 512) % 2 = 1)
      /\ (10 \in bits <=> (low \div 1024) % 2 = 1) /\ (11 \in bits <=> (low \div 2048) % 2 = 1)
      /\ (12 \in bits <=> (low \div 4096) % 2 = 1) /\ (13 \in bits <=> (low \div 8192) % 2 = 1)
      /\ (14 \in bits <=> (low \div 16384) % 2 = 1) /\ (15 \in bits <=> (low \div 32768) % 2 = 1)
  <2>1. \A i \in {8, 9, 10, 11, 12, 13, 14, 15} : i \in 0 .. 15
    OBVIOUS
  <2>2. \A i \in {8, 9, 10, 11, 12, 13, 14, 15} : i \in bits <=> (low \div 2^i) % 2 = 1
    BY <1>1, <2>1, Zenon
  <2> QED
    BY <2>2, PowerValues
<1>5. /\ (24 \in bits <=> (high \div 256) % 2 = 1) /\ (25 \in bits <=> (high \div 512) % 2 = 1)
      /\ (26 \in bits <=> (high \div 1024) % 2 = 1) /\ (27 \in bits <=> (high \div 2048) % 2 = 1)
      /\ (28 \in bits <=> (high \div 4096) % 2 = 1) /\ (29 \in bits <=> (high \div 8192) % 2 = 1)
      /\ (30 \in bits <=> (high \div 16384) % 2 = 1) /\ (31 \in bits <=> (high \div 32768) % 2 = 1)
  <2>1. \A i \in {8, 9, 10, 11, 12, 13, 14, 15} : i \in 0 .. 15
    OBVIOUS
  <2>2. \A i \in {8, 9, 10, 11, 12, 13, 14, 15} : i + 16 \in bits <=> (high \div 2^i) % 2 = 1
    BY <1>1, <2>1, Zenon
  <2> QED
    BY <2>2, PowerValues
<1> QED
  BY <1>2, <1>3, <1>4, <1>5

\* The fields of a number by its binary digits.
LEMMA DigitsOf ==
  ASSUME NEW n \in Nat
  PROVE  /\ n % 128 = (n % 2) + 2 * ((n \div 2) % 2) + 4 * ((n \div 4) % 2) + 8 * ((n \div 8) % 2)
              + 16 * ((n \div 16) % 2) + 32 * ((n \div 32) % 2) + 64 * ((n \div 64) % 2)
         /\ (n \div 4096) % 8 =
              ((n \div 4096) % 2) + 2 * ((n \div 8192) % 2) + 4 * ((n \div 16384) % 2)
         /\ (n \div 16) % 32 =
              ((n \div 16) % 2) + 2 * ((n \div 32) % 2) + 4 * ((n \div 64) % 2)
              + 8 * ((n \div 128) % 2) + 16 * ((n \div 256) % 2)
         /\ (n \div 2048) % 32 =
              ((n \div 2048) % 2) + 2 * ((n \div 4096) % 2) + 4 * ((n \div 8192) % 2)
              + 8 * ((n \div 16384) % 2) + 16 * ((n \div 32768) % 2)
         /\ (n \div 512) % 128 =
              ((n \div 512) % 2) + 2 * ((n \div 1024) % 2) + 4 * ((n \div 2048) % 32)
<1>2. ASSUME NEW k \in Nat
      PROVE k % 8 = (k % 2) + 2 * ((k \div 2) % 2) + 4 * ((k \div 4) % 2)
  OBVIOUS
<1>3. ASSUME NEW k \in Nat
      PROVE k % 32 = (k % 2) + 2 * ((k \div 2) % 2) + 4 * ((k \div 4) % 2)
                     + 8 * ((k \div 8) % 2) + 16 * ((k \div 16) % 2)
  <2>1. k % 32 = (k % 8) + 8 * ((k \div 8) % 2) + 16 * ((k \div 16) % 2)
    OBVIOUS
  <2> QED
    BY <1>2, <2>1
<1>1. n % 128 = (n % 2) + 2 * ((n \div 2) % 2) + 4 * ((n \div 4) % 2) + 8 * ((n \div 8) % 2)
        + 16 * ((n \div 16) % 2) + 32 * ((n \div 32) % 2) + 64 * ((n \div 64) % 2)
  <2>1. n % 32 = (n % 2) + 2 * ((n \div 2) % 2) + 4 * ((n \div 4) % 2) + 8 * ((n \div 8) % 2)
                 + 16 * ((n \div 16) % 2)
    BY <1>3
  <2>2. n % 128 = (n % 32) + 32 * ((n \div 32) % 2) + 64 * ((n \div 64) % 2)
    OBVIOUS
  <2> QED
    BY <2>1, <2>2
<1>4. /\ (n \div 4096) \in Nat /\ n \div 8192 = (n \div 4096) \div 2
      /\ n \div 16384 = (n \div 4096) \div 4
  OBVIOUS
<1>5. /\ (n \div 16) \in Nat /\ n \div 32 = (n \div 16) \div 2 /\ n \div 64 = (n \div 16) \div 4
      /\ n \div 128 = (n \div 16) \div 8 /\ n \div 256 = (n \div 16) \div 16
  OBVIOUS
<1>6. /\ (n \div 2048) \in Nat /\ n \div 4096 = (n \div 2048) \div 2
      /\ n \div 8192 = (n \div 2048) \div 4 /\ n \div 16384 = (n \div 2048) \div 8
      /\ n \div 32768 = (n \div 2048) \div 16
  OBVIOUS
<1>7. (n \div 512) % 128 =
              ((n \div 512) % 2) + 2 * ((n \div 1024) % 2) + 4 * ((n \div 2048) % 32)
  <2> DEFINE m == n \div 512
  <2>1. m \in Nat /\ n \div 1024 = m \div 2 /\ n \div 2048 = m \div 4
    OBVIOUS
  <2> HIDE DEF m
  <2>2. m % 128 = (m % 2) + 2 * ((m \div 2) % 2) + 4 * ((m \div 4) % 32)
    BY <2>1
  <2> QED
    BY <2>1, <2>2 DEF m
<1>8. (n \div 4096) % 8 =
              ((n \div 4096) % 2) + 2 * ((n \div 8192) % 2) + 4 * ((n \div 16384) % 2)
  <2> DEFINE m == n \div 4096
  <2>1. m % 8 = (m % 2) + 2 * ((m \div 2) % 2) + 4 * ((m \div 4) % 2)
    BY <1>2, <1>4
  <2> QED
    BY <1>4, <2>1
<1>9. (n \div 16) % 32 =
              ((n \div 16) % 2) + 2 * ((n \div 32) % 2) + 4 * ((n \div 64) % 2)
              + 8 * ((n \div 128) % 2) + 16 * ((n \div 256) % 2)
  <2> DEFINE m == n \div 16
  <2>1. m % 32 = (m % 2) + 2 * ((m \div 2) % 2) + 4 * ((m \div 4) % 2)
                     + 8 * ((m \div 8) % 2) + 16 * ((m \div 16) % 2)
    BY <1>3, <1>5
  <2> QED
    BY <1>5, <2>1
<1>10. (n \div 2048) % 32 =
              ((n \div 2048) % 2) + 2 * ((n \div 4096) % 2) + 4 * ((n \div 8192) % 2)
              + 8 * ((n \div 16384) % 2) + 16 * ((n \div 32768) % 2)
  <2> DEFINE m == n \div 2048
  <2>1. m % 32 = (m % 2) + 2 * ((m \div 2) % 2) + 4 * ((m \div 4) % 2)
                     + 8 * ((m \div 8) % 2) + 16 * ((m \div 16) % 2)
    BY <1>3, <1>6
  <2> QED
    BY <1>6, <2>1
<1> QED
  BY <1>1, <1>7, <1>8, <1>9, <1>10

\* A binary digit of a word.
Digit(ins, i) == IF i \in ins THEN 1 ELSE 0

\* The fields of an instruction that tell it from others.
Funct3(ins) == Digit(ins, 12) + 2 * Digit(ins, 13) + 4 * Digit(ins, 14)

Opcode(ins) ==
  Digit(ins, 0) + 2 * Digit(ins, 1) + 4 * Digit(ins, 2) + 8 * Digit(ins, 3)
    + 16 * Digit(ins, 4) + 32 * Digit(ins, 5) + 64 * Digit(ins, 6)

Rs2(ins) ==
  Digit(ins, 20) + 2 * Digit(ins, 21) + 4 * Digit(ins, 22) + 8 * Digit(ins, 23)
    + 16 * Digit(ins, 24)

Funct5(ins) ==
  Digit(ins, 27) + 2 * Digit(ins, 28) + 4 * Digit(ins, 29) + 8 * Digit(ins, 30)
    + 16 * Digit(ins, 31)

Funct7(ins) == Digit(ins, 25) + 2 * Digit(ins, 26) + 4 * Funct5(ins)

\* The opcode that a mask compares is that of the match's lower half.
LEMMA OpcodeOf ==
  ASSUME NEW ins, NEW mask, NEW high \in Nat, NEW low \in Nat,
         ins \cap mask = D!Bits(high, low), 0 .. 6 \subseteq mask
  PROVE  Opcode(ins) = low % 128
<1> DEFINE bits == D!Bits(high, low)
<1>1. \A i \in mask : Digit(ins, i) = Digit(bits, i)
  BY DEF Digit
<1> HIDE DEF bits
<1>2. /\ Digit(bits, 0) = (low \div 1) % 2 /\ Digit(bits, 1) = (low \div 2) % 2
      /\ Digit(bits, 2) = (low \div 4) % 2 /\ Digit(bits, 3) = (low \div 8) % 2
      /\ Digit(bits, 4) = (low \div 16) % 2 /\ Digit(bits, 5) = (low \div 32) % 2
      /\ Digit(bits, 6) = (low \div 64) % 2
  <2>1. /\ (low \div 1) % 2 \in {0, 1}
        /\ (low \div 2) % 2 \in {0, 1}
        /\ (low \div 4) % 2 \in {0, 1}
        /\ (low \div 8) % 2 \in {0, 1}
        /\ (low \div 16) % 2 \in {0, 1}
        /\ (low \div 32) % 2 \in {0, 1}
        /\ (low \div 64) % 2 \in {0, 1}
    OBVIOUS
  <2> QED
    BY <2>1, BitValues DEF bits, Digit
<1>3. /\ Digit(ins, 0) = Digit(bits, 0) /\ Digit(ins, 1) = Digit(bits, 1)
      /\ Digit(ins, 2) = Digit(bits, 2) /\ Digit(ins, 3) = Digit(bits, 3)
      /\ Digit(ins, 4) = Digit(bits, 4) /\ Digit(ins, 5) = Digit(bits, 5)
      /\ Digit(ins, 6) = Digit(bits, 6)
  BY <1>1
<1>4. low % 128
      = ((low \div 1) % 2) + 2 * ((low \div 2) % 2) + 4 * ((low \div 4) % 2)
        + 8 * ((low \div 8) % 2) + 16 * ((low \div 16) % 2) + 32 * ((low \div 32) % 2)
        + 64 * ((low \div 64) % 2)
  <2>1. low \div 1 = low
    OBVIOUS
  <2> QED
    BY <2>1, DigitsOf
<1>5. /\ Digit(ins, 0) = (low \div 1) % 2 /\ Digit(ins, 1) = (low \div 2) % 2
      /\ Digit(ins, 2) = (low \div 4) % 2 /\ Digit(ins, 3) = (low \div 8) % 2
      /\ Digit(ins, 4) = (low \div 16) % 2 /\ Digit(ins, 5) = (low \div 32) % 2
      /\ Digit(ins, 6) = (low \div 64) % 2
  BY <1>2, <1>3
<1> QED
  BY <1>4, <1>5, Zenon DEF Opcode

\* So is funct3.
LEMMA Funct3Of ==
  ASSUME NEW ins, NEW mask, NEW high \in Nat, NEW low \in Nat,
         ins \cap mask = D!Bits(high, low), 12 .. 14 \subseteq mask
  PROVE  Funct3(ins) = (low \div 4096) % 8
<1> DEFINE bits == D!Bits(high, low)
<1>1. \A i \in mask : Digit(ins, i) = Digit(bits, i)
  BY DEF Digit
<1> HIDE DEF bits
<1>2. /\ Digit(bits, 12) = (low \div 4096) % 2 /\ Digit(bits, 13) = (low \div 8192) % 2
      /\ Digit(bits, 14) = (low \div 16384) % 2
  <2>1. /\ (low \div 4096) % 2 \in {0, 1}
        /\ (low \div 8192) % 2 \in {0, 1}
        /\ (low \div 16384) % 2 \in {0, 1}
    OBVIOUS
  <2> QED
    BY <2>1, BitValues DEF bits, Digit
<1>3. /\ Digit(ins, 12) = Digit(bits, 12) /\ Digit(ins, 13) = Digit(bits, 13)
      /\ Digit(ins, 14) = Digit(bits, 14)
  BY <1>1
<1>4. (low \div 4096) % 8
      = ((low \div 4096) % 2) + 2 * ((low \div 8192) % 2) + 4 * ((low \div 16384) % 2)
  BY DigitsOf
<1> QED
  BY <1>2, <1>3, <1>4 DEF Funct3

\* The bits of rs2 are those of the upper half.
LEMMA Rs2Of ==
  ASSUME NEW ins, NEW mask, NEW high \in Nat, NEW low \in Nat,
         ins \cap mask = D!Bits(high, low), 20 .. 24 \subseteq mask
  PROVE  Rs2(ins) = (high \div 16) % 32
<1> DEFINE bits == D!Bits(high, low)
<1>1. \A i \in mask : Digit(ins, i) = Digit(bits, i)
  BY DEF Digit
<1> HIDE DEF bits
<1>2. /\ Digit(bits, 20) = (high \div 16) % 2 /\ Digit(bits, 21) = (high \div 32) % 2
      /\ Digit(bits, 22) = (high \div 64) % 2 /\ Digit(bits, 23) = (high \div 128) % 2
      /\ Digit(bits, 24) = (high \div 256) % 2
  <2>1. /\ (high \div 16) % 2 \in {0, 1}
        /\ (high \div 32) % 2 \in {0, 1}
        /\ (high \div 64) % 2 \in {0, 1}
        /\ (high \div 128) % 2 \in {0, 1}
        /\ (high \div 256) % 2 \in {0, 1}
    OBVIOUS
  <2> QED
    BY <2>1, BitValues DEF bits, Digit
<1>3. /\ Digit(ins, 20) = Digit(bits, 20) /\ Digit(ins, 21) = Digit(bits, 21)
      /\ Digit(ins, 22) = Digit(bits, 22) /\ Digit(ins, 23) = Digit(bits, 23)
      /\ Digit(ins, 24) = Digit(bits, 24)
  BY <1>1
<1>4. (high \div 16) % 32
      = ((high \div 16) % 2) + 2 * ((high \div 32) % 2) + 4 * ((high \div 64) % 2)
        + 8 * ((high \div 128) % 2) + 16 * ((high \div 256) % 2)
  BY DigitsOf
<1> QED
  BY <1>2, <1>3, <1>4 DEF Rs2

\* So are the five high bits.
LEMMA Funct5Of ==
  ASSUME NEW ins, NEW mask, NEW high \in Nat, NEW low \in Nat,
         ins \cap mask = D!Bits(high, low), 27 .. 31 \subseteq mask
  PROVE  Funct5(ins) = (high \div 2048) % 32
<1> DEFINE bits == D!Bits(high, low)
<1>1. \A i \in mask : Digit(ins, i) = Digit(bits, i)
  BY DEF Digit
<1> HIDE DEF bits
<1>2. /\ Digit(bits, 27) = (high \div 2048) % 2 /\ Digit(bits, 28) = (high \div 4096) % 2
      /\ Digit(bits, 29) = (high \div 8192) % 2 /\ Digit(bits, 30) = (high \div 16384) % 2
      /\ Digit(bits, 31) = (high \div 32768) % 2
  <2>1. /\ (high \div 2048) % 2 \in {0, 1} /\ (high \div 4096) % 2 \in {0, 1}
        /\ (high \div 8192) % 2 \in {0, 1} /\ (high \div 16384) % 2 \in {0, 1}
        /\ (high \div 32768) % 2 \in {0, 1}
    OBVIOUS
  <2> QED
    BY <2>1, BitValues DEF bits, Digit
<1>3. /\ Digit(ins, 27) = Digit(bits, 27) /\ Digit(ins, 28) = Digit(bits, 28)
      /\ Digit(ins, 29) = Digit(bits, 29) /\ Digit(ins, 30) = Digit(bits, 30)
      /\ Digit(ins, 31) = Digit(bits, 31)
  BY <1>1
<1>4. (high \div 2048) % 32
      = ((high \div 2048) % 2) + 2 * ((high \div 4096) % 2) + 4 * ((high \div 8192) % 2)
        + 8 * ((high \div 16384) % 2) + 16 * ((high \div 32768) % 2)
  BY DigitsOf
<1> DEFINE one     == (high \div 2048) % 2
           two     == (high \div 4096) % 2
           four    == (high \div 8192) % 2
           eight   == (high \div 16384) % 2
           sixteen == (high \div 32768) % 2
<1>5. (high \div 2048) % 32 = one + 2 * two + 4 * four + 8 * eight + 16 * sixteen
  BY <1>4
<1>6. /\ Digit(ins, 27) = one /\ Digit(ins, 28) = two /\ Digit(ins, 29) = four
      /\ Digit(ins, 30) = eight /\ Digit(ins, 31) = sixteen
  BY <1>2, <1>3
<1> HIDE DEF one, two, four, eight, sixteen
<1> QED
  BY <1>5, <1>6 DEF Funct5

\* So is funct7.
LEMMA Funct7Of ==
  ASSUME NEW ins, NEW mask, NEW high \in Nat, NEW low \in Nat,
         ins \cap mask = D!Bits(high, low), 25 .. 31 \subseteq mask
  PROVE  Funct7(ins) = (high \div 512) % 128
<1> DEFINE bits == D!Bits(high, low)
<1>1. \A i \in mask : Digit(ins, i) = Digit(bits, i)
  BY DEF Digit
<1> HIDE DEF bits
<1>2. Digit(bits, 25) = (high \div 512) % 2 /\ Digit(bits, 26) = (high \div 1024) % 2
  <2>1. (high \div 512) % 2 \in {0, 1} /\ (high \div 1024) % 2 \in {0, 1}
    OBVIOUS
  <2> QED
    BY <2>1, BitValues DEF bits, Digit
<1>3. /\ Digit(ins, 25) = Digit(bits, 25) /\ Digit(ins, 26) = Digit(bits, 26)
      /\ 27 .. 31 \subseteq mask
  BY <1>1
<1>4. (high \div 512) % 128
      = ((high \div 512) % 2) + 2 * ((high \div 1024) % 2) + 4 * ((high \div 2048) % 32)
  BY DigitsOf
<1> DEFINE one  == (high \div 512) % 2
           two  == (high \div 1024) % 2
           rest == (high \div 2048) % 32
<1>5. (high \div 512) % 128 = one + 2 * two + 4 * rest
  BY <1>4
<1>6. Digit(ins, 25) = one /\ Digit(ins, 26) = two
  BY <1>2, <1>3
<1>7. Funct5(ins) = rest
  BY <1>3, Funct5Of DEF bits
<1> HIDE DEF one, two, rest
<1> QED
  BY <1>5, <1>6, <1>7 DEF Funct7

\* A mask compares a field whose digits are all set in its halves.
LEMMA MaskOf ==
  ASSUME NEW high \in Nat, NEW low \in Nat
  PROVE  /\ low % 128 = 127 => 0 .. 6 \subseteq D!Bits(high, low)
         /\ (low \div 4096) % 8 = 7 => 12 .. 14 \subseteq D!Bits(high, low)
         /\ (high \div 2048) % 32 = 31 => 27 .. 31 \subseteq D!Bits(high, low)
         /\ (high \div 512) % 128 = 127 => 25 .. 31 \subseteq D!Bits(high, low)
<1>0. PICK bits : bits = D!Bits(high, low)
  OBVIOUS
<1>1. /\ Opcode(bits) = low % 128 /\ Funct3(bits) = (low \div 4096) % 8
      /\ Funct5(bits) = (high \div 2048) % 32 /\ Funct7(bits) = (high \div 512) % 128
  <2>1. bits \cap (0 .. 31) = D!Bits(high, low)
    BY <1>0 DEF D!Bits, D!Ones
  <2>2. PICK mask : mask = 0 .. 31
    OBVIOUS
  <2>3. bits \cap mask = D!Bits(high, low)
    BY <2>1, <2>2
  <2>4. /\ 0 .. 6 \subseteq mask /\ 12 .. 14 \subseteq mask
        /\ 27 .. 31 \subseteq mask /\ 25 .. 31 \subseteq mask
    BY <2>2
  <2>5. Opcode(bits) = low % 128 /\ Funct3(bits) = (low \div 4096) % 8
    BY <2>3, <2>4, OpcodeOf, Funct3Of
  <2>6. Funct5(bits) = (high \div 2048) % 32
    BY <2>3, <2>4, Funct5Of
  <2>7. Funct7(bits) = (high \div 512) % 128
    BY <2>3, <2>4, Funct7Of
  <2> QED
    BY <2>5, <2>6, <2>7
<1>2. \A i : Digit(bits, i) \in 0 .. 1 /\ (Digit(bits, i) = 1 => i \in bits)
  BY DEF Digit
<1>3. Opcode(bits) = 127 => 0 .. 6 \subseteq bits
  BY <1>2 DEF Opcode
<1>4. Funct3(bits) = 7 => 12 .. 14 \subseteq bits
  BY <1>2 DEF Funct3
<1>5. Funct5(bits) = 31 => 27 .. 31 \subseteq bits
  BY <1>2 DEF Funct5
<1>6. Funct7(bits) = 127 => 25 .. 31 \subseteq bits
  BY <1>2 DEF Funct7, Funct5
<1> QED
  BY <1>0, <1>1, <1>3, <1>4, <1>5, <1>6

\* The fields that the masks of opcodes.h compare.
LEMMA Masks ==
  /\ 0 .. 6 \subseteq D!MaskRegisters /\ 12 .. 14 \subseteq D!MaskRegisters
  /\ 25 .. 31 \subseteq D!MaskRegisters
  /\ 0 .. 6 \subseteq D!Bits(0, \h707f) /\ 12 .. 14 \subseteq D!Bits(0, \h707f)
  /\ 0 .. 6 \subseteq D!Bits(0, \h7f)
  /\ 0 .. 6 \subseteq D!Bits(\hfc00, \h707f) /\ 12 .. 14 \subseteq D!Bits(\hfc00, \h707f)
  /\ 27 .. 31 \subseteq D!Bits(\hfc00, \h707f)
  /\ 0 .. 6 \subseteq D!Bits(\hfe00, \h7fff) /\ 12 .. 14 \subseteq D!Bits(\hfe00, \h7fff)
  /\ 25 .. 31 \subseteq D!Bits(\hfe00, \h7fff)
  /\ 0 .. 6 \subseteq D!Bits(\hf800, \h707f) /\ 12 .. 14 \subseteq D!Bits(\hf800, \h707f)
  /\ 27 .. 31 \subseteq D!Bits(\hf800, \h707f)
  /\ 0 .. 6 \subseteq D!Bits(\hf9f0, \h707f) /\ 12 .. 14 \subseteq D!Bits(\hf9f0, \h707f)
  /\ 27 .. 31 \subseteq D!Bits(\hf9f0, \h707f)
<1>1. /\ \h707f \in Nat /\ \h7f \in Nat /\ \h7fff \in Nat /\ \hfc00 \in Nat /\ \hfe00 \in Nat
      /\ \hf800 \in Nat /\ \hf9f0 \in Nat /\ 0 \in Nat
  BY SMT
<1>2. /\ \h707f % 128 = 127 /\ \h7f % 128 = 127 /\ \h7fff % 128 = 127
      /\ (\h707f \div 4096) % 8 = 7 /\ (\h7fff \div 4096) % 8 = 7
      /\ (\hfc00 \div 2048) % 32 = 31 /\ (\hf800 \div 2048) % 32 = 31
      /\ (\hf9f0 \div 2048) % 32 = 31 /\ (\hfe00 \div 512) % 128 = 127
  BY SMT
<1> QED
  BY <1>1, <1>2, MaskOf, SMT DEF D!MaskRegisters

\* The encodings of the register instructions differ in funct3 or funct7.
LEMMA RegistersApart ==
  \A c, d \in D!RegisterCodes :
    /\ c[1] \in Nat /\ c[2] \in Nat /\ c[2] % 128 = 51
    /\ (c[2] \div 4096) % 8 = (d[2] \div 4096) % 8 /\ (c[1] \div 512) % 128 = (d[1] \div 512) % 128
         => c[3] = d[3]
BY SMTT(60) DEF D!RegisterCodes

\* The encodings with an immediate differ in opcode or funct3, and from all others.
LEMMA ImmediatesApart ==
  \A c, d \in D!ImmediateCodes :
    /\ c[1] \in Nat
    /\ c[1] % 128 \notin {51, 23, 111, 55, 47}
    /\ c[1] % 128 = 19 => (c[1] \div 4096) % 8 \notin {1, 5}
    /\ c[1] % 128 = 115 => (c[1] \div 4096) % 8 # 0
    /\ c[1] % 128 = d[1] % 128 /\ (c[1] \div 4096) % 8 = (d[1] \div 4096) % 8 => c[2] = d[2]
BY SMTT(60) DEF D!ImmediateCodes

\* So do those of the other groups, in the fields that their masks compare.
LEMMA UppersApart ==
  \A c, d \in D!UpperCodes :
    /\ c[1] \in Nat /\ c[1] % 128 \in {23, 111, 55}
    /\ c[1] % 128 = d[1] % 128 => c[2] = d[2]
BY SMTT(30) DEF D!UpperCodes

\* Shifts by a constant are told by funct3 and the five high bits.
LEMMA ShiftsApart ==
  \A c, d \in D!ShiftCodes :
    /\ c[1] \in Nat /\ c[2] \in Nat /\ c[2] % 128 = 19 /\ (c[2] \div 4096) % 8 \in {1, 5}
    /\ /\ (c[2] \div 4096) % 8 = (d[2] \div 4096) % 8
       /\ (c[1] \div 2048) % 32 = (d[1] \div 2048) % 32
       => c[3] = d[3]
BY SMTT(30) DEF D!ShiftCodes

\* The privileged instructions are told by funct7 and the five bits of rs2.
LEMMA SystemsApart ==
  \A c, d \in D!SystemCodes :
    /\ c[1] \in Nat /\ (c[1] \div 512) % 128 # 9
    /\ /\ (c[1] \div 512) % 128 = (d[1] \div 512) % 128
       /\ (c[1] \div 16) % 32 = (d[1] \div 16) % 32
       => c[2] = d[2]
BY SMTT(60) DEF D!SystemCodes

\* The atomic instructions are told by the five high bits.
LEMMA AtomicsApart ==
  \A c, d \in D!AtomicCodes :
    /\ c[1] \in Nat /\ (c[1] \div 2048) % 32 # 2
    /\ (c[1] \div 2048) % 32 = (d[1] \div 2048) % 32 => c[2] = d[2]
BY SMTT(60) DEF D!AtomicCodes

\* What a word that matches a pattern has in its fields.

\* What a word that matches a pattern has in its fields.
RegisterWord(ins, name) ==
  \E c \in D!RegisterCodes :
    /\ name = c[3] /\ Opcode(ins) = 51
    /\ Funct3(ins) = (c[2] \div 4096) % 8 /\ Funct7(ins) = (c[1] \div 512) % 128

ImmediateWord(ins, name) ==
  \E c \in D!ImmediateCodes :
    name = c[2] /\ Opcode(ins) = c[1] % 128 /\ Funct3(ins) = (c[1] \div 4096) % 8

UpperWord(ins, name) ==
  \E c \in D!UpperCodes : name = c[2] /\ Opcode(ins) = c[1] % 128

ShiftWord(ins, name) ==
  \E c \in D!ShiftCodes :
    /\ name = c[3] /\ Opcode(ins) = 19
    /\ Funct3(ins) = (c[2] \div 4096) % 8 /\ Funct5(ins) = (c[1] \div 2048) % 32

SystemWord(ins, name) ==
  /\ Opcode(ins) = 115 /\ Funct3(ins) = 0
  /\ \/ \E c \in D!SystemCodes :
          name = c[2] /\ Funct7(ins) = (c[1] \div 512) % 128 /\ Rs2(ins) = (c[1] \div 16) % 32
     \/ name = "sfence_vma" /\ Funct7(ins) = 9

AtomicWord(ins, name) ==
  /\ Opcode(ins) = 47
  /\ \/ \E c \in D!AtomicCodes : name = c[2] /\ Funct5(ins) = (c[1] \div 2048) % 32
     \/ name = "lr" /\ Funct5(ins) = 2

Says(ins, name) ==
  \/ RegisterWord(ins, name) \/ ImmediateWord(ins, name) \/ UpperWord(ins, name)
  \/ ShiftWord(ins, name) \/ SystemWord(ins, name) \/ AtomicWord(ins, name)

\* A word that matches a pattern says so in its fields.
LEMMA MatchSays ==
  ASSUME NEW ins, NEW p \in D!Patterns, ins \cap p.mask = p.match
  PROVE  Says(ins, p.handler)
<1>1. CASE p \in D!Registers
  <2>1. PICK c \in D!RegisterCodes : p = D!Pattern(D!MaskRegisters, c[1], c[2], c[3])
    BY <1>1 DEF D!Registers
  <2>2. ins \cap D!MaskRegisters = D!Bits(c[1], c[2]) /\ p.handler = c[3]
    BY <2>1 DEF D!Pattern
  <2>3. c[1] \in Nat /\ c[2] \in Nat /\ c[2] % 128 = 51
    BY RegistersApart
  <2> DEFINE mask == D!MaskRegisters
             high == c[1]
             low  == c[2]
  <2>4. ins \cap mask = D!Bits(high, low) /\ high \in Nat /\ low \in Nat
    BY <2>2, <2>3
  <2>5. 0 .. 6 \subseteq mask /\ 12 .. 14 \subseteq mask /\ 25 .. 31 \subseteq mask
    BY Masks
  <2> HIDE DEF mask, high, low
  <2>6. /\ Opcode(ins) = low % 128 /\ Funct3(ins) = (low \div 4096) % 8
        /\ Funct7(ins) = (high \div 512) % 128
    BY <2>4, <2>5, OpcodeOf, Funct3Of, Funct7Of
  <2>7. /\ Opcode(ins) = c[2] % 128 /\ Funct3(ins) = (c[2] \div 4096) % 8
        /\ Funct7(ins) = (c[1] \div 512) % 128
    BY <2>6 DEF high, low
  <2> QED
    BY <2>2, <2>3, <2>7 DEF Says, RegisterWord
<1>2. CASE p \in D!Immediates
  <2>1. PICK c \in D!ImmediateCodes : p = D!Pattern(D!Bits(0, \h707f), 0, c[1], c[2])
    BY <1>2 DEF D!Immediates
  <2>2. ins \cap D!Bits(0, \h707f) = D!Bits(0, c[1]) /\ p.handler = c[2]
    BY <2>1 DEF D!Pattern
  <2>3. c[1] \in Nat /\ 0 \in Nat
    BY ImmediatesApart
  <2> DEFINE mask == D!Bits(0, \h707f)
             none == 0
  <2>4. 0 .. 6 \subseteq mask /\ 12 .. 14 \subseteq mask
    BY Masks
  <2>5. ins \cap mask = D!Bits(none, c[1]) /\ none \in Nat
    BY <2>2
  <2> HIDE DEF mask, none
  <2>6. Opcode(ins) = c[1] % 128 /\ Funct3(ins) = (c[1] \div 4096) % 8
    BY <2>3, <2>4, <2>5, OpcodeOf, Funct3Of
  <2> QED
    BY <2>2, <2>6 DEF Says, ImmediateWord
<1>3. CASE p \in D!Uppers
  <2>1. PICK c \in D!UpperCodes : p = D!Pattern(D!Bits(0, \h7f), 0, c[1], c[2])
    BY <1>3 DEF D!Uppers
  <2>2. ins \cap D!Bits(0, \h7f) = D!Bits(0, c[1]) /\ p.handler = c[2]
    BY <2>1 DEF D!Pattern
  <2>3. c[1] \in Nat /\ 0 \in Nat
    BY UppersApart
  <2> DEFINE mask == D!Bits(0, \h7f)
             none == 0
  <2>4. 0 .. 6 \subseteq mask
    BY Masks
  <2>5. ins \cap mask = D!Bits(none, c[1]) /\ none \in Nat
    BY <2>2
  <2> HIDE DEF mask, none
  <2>6. Opcode(ins) = c[1] % 128
    BY <2>3, <2>4, <2>5, OpcodeOf
  <2> QED
    BY <2>2, <2>6 DEF Says, UpperWord
<1>4. CASE p \in D!Shifts
  <2>1. PICK c \in D!ShiftCodes : p = D!Pattern(D!Bits(\hfc00, \h707f), c[1], c[2], c[3])
    BY <1>4 DEF D!Shifts
  <2>2. ins \cap D!Bits(\hfc00, \h707f) = D!Bits(c[1], c[2]) /\ p.handler = c[3]
    BY <2>1 DEF D!Pattern
  <2>3. c[1] \in Nat /\ c[2] \in Nat /\ c[2] % 128 = 19
    BY ShiftsApart
  <2> DEFINE mask == D!Bits(\hfc00, \h707f)
             high == c[1]
             low  == c[2]
  <2>4. ins \cap mask = D!Bits(high, low) /\ high \in Nat /\ low \in Nat
    BY <2>2, <2>3
  <2>5. 0 .. 6 \subseteq mask /\ 12 .. 14 \subseteq mask /\ 27 .. 31 \subseteq mask
    BY Masks
  <2> HIDE DEF mask, high, low
  <2>6. /\ Opcode(ins) = low % 128 /\ Funct3(ins) = (low \div 4096) % 8
        /\ Funct5(ins) = (high \div 2048) % 32
    BY <2>4, <2>5, OpcodeOf, Funct3Of, Funct5Of
  <2>7. /\ Opcode(ins) = c[2] % 128 /\ Funct3(ins) = (c[2] \div 4096) % 8
        /\ Funct5(ins) = (c[1] \div 2048) % 32
    BY <2>6 DEF high, low
  <2> QED
    BY <2>2, <2>3, <2>7 DEF Says, ShiftWord
<1>5. CASE p \in D!Systems
  <2>0. \h0073 \in Nat /\ \h1200 \in Nat /\ \h0073 % 128 = 115 /\ (\h0073 \div 4096) % 8 = 0
        /\ (\h1200 \div 512) % 128 = 9
    BY SMT
  <2>a. 0 .. 6 \subseteq D!Bit /\ 12 .. 14 \subseteq D!Bit /\ 20 .. 24 \subseteq D!Bit
        /\ 25 .. 31 \subseteq D!Bit
    BY DEF D!Bit
  <2>1. CASE \E c \in D!SystemCodes : p = D!Pattern(D!Bit, c[1], \h0073, c[2])
    <3>1. PICK c \in D!SystemCodes : p = D!Pattern(D!Bit, c[1], \h0073, c[2])
      BY <2>1
    <3>2. ins \cap D!Bit = D!Bits(c[1], \h0073) /\ p.handler = c[2]
      BY <3>1 DEF D!Pattern
    <3>3. c[1] \in Nat
      BY SystemsApart
    <3> DEFINE low  == \h0073
               high == c[1]
               mask == D!Bit
    <3>4. ins \cap mask = D!Bits(high, low) /\ low \in Nat /\ high \in Nat
      BY <2>0, <3>2, <3>3
    <3> HIDE DEF low, high, mask
    <3>7. /\ 0 .. 6 \subseteq mask /\ 12 .. 14 \subseteq mask
          /\ 20 .. 24 \subseteq mask /\ 25 .. 31 \subseteq mask
      BY <2>a DEF mask
    <3>5. /\ Opcode(ins) = low % 128 /\ Funct3(ins) = (low \div 4096) % 8
          /\ Funct7(ins) = (high \div 512) % 128 /\ Rs2(ins) = (high \div 16) % 32
      BY <3>4, <3>7, OpcodeOf, Funct3Of, Rs2Of, Funct7Of
    <3>6. Opcode(ins) = 115 /\ Funct3(ins) = 0
      BY <2>0, <3>5 DEF low
    <3>8. Funct7(ins) = (c[1] \div 512) % 128 /\ Rs2(ins) = (c[1] \div 16) % 32
      BY <3>5 DEF high
    <3> QED
      BY <3>2, <3>6, <3>8 DEF Says, SystemWord
  <2>2. CASE p = D!Pattern(D!Bits(\hfe00, \h7fff), \h1200, \h0073, "sfence_vma")
    <3>1. ins \cap D!Bits(\hfe00, \h7fff) = D!Bits(\h1200, \h0073) /\ p.handler = "sfence_vma"
      BY <2>2 DEF D!Pattern
    <3> DEFINE low  == \h0073
               high == \h1200
               mask == D!Bits(\hfe00, \h7fff)
    <3>2. ins \cap mask = D!Bits(high, low) /\ low \in Nat /\ high \in Nat
      BY <2>0, <3>1
    <3>3. 0 .. 6 \subseteq mask /\ 12 .. 14 \subseteq mask /\ 25 .. 31 \subseteq mask
      BY Masks
    <3> HIDE DEF low, high, mask
    <3>4. /\ Opcode(ins) = low % 128 /\ Funct3(ins) = (low \div 4096) % 8
          /\ Funct7(ins) = (high \div 512) % 128
      BY <3>2, <3>3, OpcodeOf, Funct3Of, Funct7Of
    <3>5. Opcode(ins) = 115 /\ Funct3(ins) = 0 /\ Funct7(ins) = 9
      BY <2>0, <3>4 DEF low, high
    <3> QED
      BY <3>1, <3>5 DEF Says, SystemWord
  <2> QED
    BY <1>5, <2>1, <2>2 DEF D!Systems
<1>6. CASE p \in D!Atomics
  <2>0. \h202f \in Nat /\ \h1000 \in Nat /\ \h202f % 128 = 47 /\ (\h1000 \div 2048) % 32 = 2
    BY SMT
  <2>1. CASE \E c \in D!AtomicCodes : p = D!Pattern(D!Bits(\hf800, \h707f), c[1], \h202f, c[2])
    <3>1. PICK c \in D!AtomicCodes : p = D!Pattern(D!Bits(\hf800, \h707f), c[1], \h202f, c[2])
      BY <2>1
    <3>2. ins \cap D!Bits(\hf800, \h707f) = D!Bits(c[1], \h202f) /\ p.handler = c[2]
      BY <3>1 DEF D!Pattern
    <3>3. c[1] \in Nat
      BY AtomicsApart
    <3> DEFINE low  == \h202f
               high == c[1]
               mask == D!Bits(\hf800, \h707f)
    <3>4. ins \cap mask = D!Bits(high, low) /\ low \in Nat /\ high \in Nat
      BY <2>0, <3>2, <3>3
    <3>5. 0 .. 6 \subseteq mask /\ 27 .. 31 \subseteq mask
      BY Masks
    <3> HIDE DEF low, high, mask
    <3>6. Opcode(ins) = low % 128 /\ Funct5(ins) = (high \div 2048) % 32
      BY <3>4, <3>5, OpcodeOf, Funct5Of
    <3>7. Opcode(ins) = 47
      BY <2>0, <3>6 DEF low
    <3>8. Funct5(ins) = (c[1] \div 2048) % 32
      BY <3>6 DEF high
    <3> QED
      BY <3>2, <3>7, <3>8 DEF Says, AtomicWord
  <2>2. CASE p = D!Pattern(D!Bits(\hf9f0, \h707f), \h1000, \h202f, "lr")
    <3>1. ins \cap D!Bits(\hf9f0, \h707f) = D!Bits(\h1000, \h202f) /\ p.handler = "lr"
      BY <2>2 DEF D!Pattern
    <3> DEFINE low  == \h202f
               high == \h1000
               mask == D!Bits(\hf9f0, \h707f)
    <3>2. ins \cap mask = D!Bits(high, low) /\ low \in Nat /\ high \in Nat
      BY <2>0, <3>1
    <3>3. 0 .. 6 \subseteq mask /\ 27 .. 31 \subseteq mask
      BY Masks
    <3> HIDE DEF low, high, mask
    <3>4. Opcode(ins) = low % 128 /\ Funct5(ins) = (high \div 2048) % 32
      BY <3>2, <3>3, OpcodeOf, Funct5Of
    <3>5. Opcode(ins) = 47 /\ Funct5(ins) = 2
      BY <2>0, <3>4 DEF low, high
    <3> QED
      BY <3>1, <3>5 DEF Says, AtomicWord
  <2> QED
    BY <1>6, <2>1, <2>2 DEF D!Atomics
<1> QED
  BY <1>1, <1>2, <1>3, <1>4, <1>5, <1>6 DEF D!Patterns

\* The fields name one instruction at most.
LEMMA SaysOne ==
  ASSUME NEW ins, NEW p, NEW q, Says(ins, p), Says(ins, q)
  PROVE  p = q
<1> DEFINE opcode == Opcode(ins)
           funct3 == Funct3(ins)
<1>1. ASSUME NEW name
      PROVE  /\ RegisterWord(ins, name) => opcode = 51
             /\ ImmediateWord(ins, name) => opcode \notin {51, 23, 111, 55, 47}
             /\ ImmediateWord(ins, name) /\ opcode = 19 => funct3 \notin {1, 5}
             /\ ImmediateWord(ins, name) /\ opcode = 115 => funct3 # 0
             /\ UpperWord(ins, name) => opcode \in {23, 111, 55}
             /\ ShiftWord(ins, name) => opcode = 19 /\ funct3 \in {1, 5}
             /\ SystemWord(ins, name) => opcode = 115 /\ funct3 = 0
             /\ AtomicWord(ins, name) => opcode = 47
  <2>1. RegisterWord(ins, name) => opcode = 51
    BY DEF RegisterWord
  <2>2. /\ ImmediateWord(ins, name) => opcode \notin {51, 23, 111, 55, 47}
        /\ ImmediateWord(ins, name) /\ opcode = 19 => funct3 \notin {1, 5}
        /\ ImmediateWord(ins, name) /\ opcode = 115 => funct3 # 0
    BY ImmediatesApart DEF ImmediateWord
  <2>3. UpperWord(ins, name) => opcode \in {23, 111, 55}
    BY UppersApart DEF UpperWord
  <2>4. ShiftWord(ins, name) => opcode = 19 /\ funct3 \in {1, 5}
    BY ShiftsApart DEF ShiftWord
  <2>5. SystemWord(ins, name) => opcode = 115 /\ funct3 = 0
    BY DEF SystemWord
  <2>6. AtomicWord(ins, name) => opcode = 47
    BY DEF AtomicWord
  <2> HIDE DEF opcode, funct3
  <2> QED
    BY <2>1, <2>2, <2>3, <2>4, <2>5, <2>6
<1>2. RegisterWord(ins, p) /\ RegisterWord(ins, q) => p = q
  BY RegistersApart DEF RegisterWord
<1>3. ImmediateWord(ins, p) /\ ImmediateWord(ins, q) => p = q
  BY ImmediatesApart DEF ImmediateWord
<1>4. UpperWord(ins, p) /\ UpperWord(ins, q) => p = q
  BY UppersApart DEF UpperWord
<1>5. ShiftWord(ins, p) /\ ShiftWord(ins, q) => p = q
  BY ShiftsApart DEF ShiftWord
<1>6. SystemWord(ins, p) /\ SystemWord(ins, q) => p = q
  BY SystemsApart DEF SystemWord
<1>7. AtomicWord(ins, p) /\ AtomicWord(ins, q) => p = q
  BY AtomicsApart DEF AtomicWord
<1> HIDE DEF opcode, funct3
<1>8. ASSUME NEW name, Says(ins, name)
      PROVE  \/ RegisterWord(ins, name) /\ opcode = 51
             \/ /\ ImmediateWord(ins, name) /\ opcode \notin {51, 23, 111, 55, 47}
                /\ opcode = 19 => funct3 \notin {1, 5}
                /\ opcode = 115 => funct3 # 0
             \/ UpperWord(ins, name) /\ opcode \in {23, 111, 55}
             \/ ShiftWord(ins, name) /\ opcode = 19 /\ funct3 \in {1, 5}
             \/ SystemWord(ins, name) /\ opcode = 115 /\ funct3 = 0
             \/ AtomicWord(ins, name) /\ opcode = 47
  <2>1. CASE RegisterWord(ins, name)
    BY <1>1, <2>1
  <2>2. CASE ImmediateWord(ins, name)
    <3>1. /\ opcode \notin {51, 23, 111, 55, 47}
          /\ opcode = 19 => funct3 \notin {1, 5}
          /\ opcode = 115 => funct3 # 0
      BY <1>1, <2>2
    <3> QED
      BY <2>2, <3>1
  <2>3. CASE UpperWord(ins, name)
    BY <1>1, <2>3
  <2>4. CASE ShiftWord(ins, name)
    BY <1>1, <2>4
  <2>5. CASE SystemWord(ins, name)
    BY <1>1, <2>5
  <2>6. CASE AtomicWord(ins, name)
    BY <1>1, <2>6
  <2> QED
    BY <1>8, <2>1, <2>2, <2>3, <2>4, <2>5, <2>6 DEF Says
<1>9. \/ RegisterWord(ins, p) /\ RegisterWord(ins, q)
      \/ ImmediateWord(ins, p) /\ ImmediateWord(ins, q)
      \/ UpperWord(ins, p) /\ UpperWord(ins, q)
      \/ ShiftWord(ins, p) /\ ShiftWord(ins, q)
      \/ SystemWord(ins, p) /\ SystemWord(ins, q)
      \/ AtomicWord(ins, p) /\ AtomicWord(ins, q)
  <2>1. Says(ins, p) /\ Says(ins, q)
    OBVIOUS
  <2> QED
    BY <1>8, <2>1
<1> QED
  BY <1>2, <1>3, <1>4, <1>5, <1>6, <1>7, <1>9

\* The bits that are clear in the halves of an encoding.
LEMMA ClearBits ==
  ASSUME NEW high \in Nat, NEW low \in Nat, (low \div 128) % 32 = 0, low \div 32768 = 0
  PROVE  /\ high % 512 = 0 => D!Bits(high, low) \subseteq 0 .. 6 \cup 12 .. 14 \cup 25 .. 31
         /\ high % 2048 = 0 => D!Bits(high, low) \subseteq 0 .. 6 \cup 12 .. 14 \cup 27 .. 31
         /\ high = 0 => D!Bits(high, low) \subseteq 0 .. 6 \cup 12 .. 14
         /\ high = 0 /\ low \div 128 = 0 => D!Bits(high, low) \subseteq 0 .. 6
<1> DEFINE bits == D!Bits(high, low)
<1>2. bits \subseteq 0 .. 31
  BY DEF D!Bits, D!Ones
<1> HIDE DEF bits
<1>3. /\ (low \div 128) % 2 = 0 /\ (low \div 256) % 2 = 0 /\ (low \div 512) % 2 = 0
      /\ (low \div 1024) % 2 = 0 /\ (low \div 2048) % 2 = 0 /\ (low \div 32768) % 2 = 0
  OBVIOUS
<1>4. /\ 7 \notin bits /\ 8 \notin bits /\ 9 \notin bits
      /\ 10 \notin bits /\ 11 \notin bits /\ 15 \notin bits
  BY <1>3, BitValues DEF bits
<1>5. low \div 128 = 0 => 12 \notin bits /\ 13 \notin bits /\ 14 \notin bits
  <2>1. low \div 128 = 0 => low \div 4096 = 0 /\ low \div 8192 = 0 /\ low \div 16384 = 0
    OBVIOUS
  <2> QED
    BY <2>1, BitValues DEF bits
<1>6. high % 512 = 0 => \A k \in 16 .. 24 : k \notin bits
  <2>1. high % 512 = 0 => /\ (high \div 1) % 2 = 0 /\ (high \div 2) % 2 = 0 /\ (high \div 4) % 2 = 0
                          /\ (high \div 8) % 2 = 0 /\ (high \div 16) % 2 = 0
                          /\ (high \div 32) % 2 = 0 /\ (high \div 64) % 2 = 0
                          /\ (high \div 128) % 2 = 0 /\ (high \div 256) % 2 = 0
    OBVIOUS
  <2> QED
    BY <2>1, BitValues DEF bits
<1>7. high % 2048 = 0 => high % 512 = 0 /\ 25 \notin bits /\ 26 \notin bits
  <2>1. high % 2048 = 0 => high % 512 = 0 /\ (high \div 512) % 2 = 0 /\ (high \div 1024) % 2 = 0
    OBVIOUS
  <2> QED
    BY <2>1, BitValues DEF bits
<1>8. high = 0 => \A k \in 16 .. 31 : k \notin bits
  BY BitValues DEF bits
<1> QED
  BY <1>2, <1>4, <1>5, <1>6, <1>7, <1>8 DEF bits

\* No pattern asks for a bit outside its mask, which no word could match.
LEMMA MatchInMask == ASSUME NEW p \in D!Patterns PROVE p.match \subseteq p.mask
<1>1. CASE p \in D!Registers
  <2>1. \A c \in D!RegisterCodes :
          /\ c[1] \in Nat /\ c[2] \in Nat /\ (c[2] \div 128) % 32 = 0 /\ c[2] \div 32768 = 0
          /\ c[1] % 512 = 0
    BY SMT DEF D!RegisterCodes
  <2>2. PICK c \in D!RegisterCodes : p = D!Pattern(D!MaskRegisters, c[1], c[2], c[3])
    BY <1>1 DEF D!Registers
  <2>3. D!Bits(c[1], c[2]) \subseteq 0 .. 6 \cup 12 .. 14 \cup 25 .. 31
    BY <2>1, ClearBits
  <2>4. p.match = D!Bits(c[1], c[2]) /\ p.mask = D!MaskRegisters
    BY <2>2 DEF D!Pattern
  <2> QED
    BY <2>3, <2>4, Masks
<1>2. CASE p \in D!Immediates
  <2>1. \A c \in D!ImmediateCodes :
          c[1] \in Nat /\ (c[1] \div 128) % 32 = 0 /\ c[1] \div 32768 = 0
    BY SMT DEF D!ImmediateCodes
  <2>2. PICK c \in D!ImmediateCodes : p = D!Pattern(D!Bits(0, \h707f), 0, c[1], c[2])
    BY <1>2 DEF D!Immediates
  <2>3. D!Bits(0, c[1]) \subseteq 0 .. 6 \cup 12 .. 14
    BY <2>1, ClearBits
  <2>4. p.match = D!Bits(0, c[1]) /\ p.mask = D!Bits(0, \h707f)
    BY <2>2 DEF D!Pattern
  <2> QED
    BY <2>3, <2>4, Masks
<1>3. CASE p \in D!Uppers
  <2>1. \A c \in D!UpperCodes :
          c[1] \in Nat /\ (c[1] \div 128) % 32 = 0 /\ c[1] \div 32768 = 0 /\ c[1] \div 128 = 0
    BY SMT DEF D!UpperCodes
  <2>2. PICK c \in D!UpperCodes : p = D!Pattern(D!Bits(0, \h7f), 0, c[1], c[2])
    BY <1>3 DEF D!Uppers
  <2>3. D!Bits(0, c[1]) \subseteq 0 .. 6
    BY <2>1, ClearBits
  <2>4. p.match = D!Bits(0, c[1]) /\ p.mask = D!Bits(0, \h7f)
    BY <2>2 DEF D!Pattern
  <2> QED
    BY <2>3, <2>4, Masks
<1>4. CASE p \in D!Shifts
  <2>1. \A c \in D!ShiftCodes :
          /\ c[1] \in Nat /\ c[2] \in Nat /\ (c[2] \div 128) % 32 = 0 /\ c[2] \div 32768 = 0
          /\ c[1] % 2048 = 0
    BY SMT DEF D!ShiftCodes
  <2>2. PICK c \in D!ShiftCodes : p = D!Pattern(D!Bits(\hfc00, \h707f), c[1], c[2], c[3])
    BY <1>4 DEF D!Shifts
  <2>3. D!Bits(c[1], c[2]) \subseteq 0 .. 6 \cup 12 .. 14 \cup 27 .. 31
    BY <2>1, ClearBits
  <2>4. p.match = D!Bits(c[1], c[2]) /\ p.mask = D!Bits(\hfc00, \h707f)
    BY <2>2 DEF D!Pattern
  <2> QED
    BY <2>3, <2>4, Masks
<1>5. CASE p \in D!Systems
  <2>1. CASE \E c \in D!SystemCodes : p = D!Pattern(D!Bit, c[1], \h0073, c[2])
    <3>1. \A high, low : D!Bits(high, low) \subseteq D!Bit
      BY DEF D!Bits, D!Ones, D!Bit
    <3> QED
      BY <2>1, <3>1 DEF D!Pattern
  <2>2. CASE p = D!Pattern(D!Bits(\hfe00, \h7fff), \h1200, \h0073, "sfence_vma")
    <3>1. /\ \h1200 \in Nat /\ \h0073 \in Nat /\ (\h0073 \div 128) % 32 = 0 /\ \h0073 \div 32768 = 0
          /\ \h1200 % 512 = 0
      BY SMT
    <3>2. D!Bits(\h1200, \h0073) \subseteq 0 .. 6 \cup 12 .. 14 \cup 25 .. 31
      BY <3>1, ClearBits
    <3>3. p.match = D!Bits(\h1200, \h0073) /\ p.mask = D!Bits(\hfe00, \h7fff)
      BY <2>2 DEF D!Pattern
    <3> QED
      BY <3>2, <3>3, Masks
  <2> QED
    BY <1>5, <2>1, <2>2 DEF D!Systems
<1>6. CASE p \in D!Atomics
  <2>1. \A c \in D!AtomicCodes : c[1] \in Nat /\ c[1] % 2048 = 0
    BY SMT DEF D!AtomicCodes
  <2>2. \h202f \in Nat /\ (\h202f \div 128) % 32 = 0 /\ \h202f \div 32768 = 0
        /\ \h1000 \in Nat /\ \h1000 % 2048 = 0
    BY SMT
  <2>3. CASE \E c \in D!AtomicCodes : p = D!Pattern(D!Bits(\hf800, \h707f), c[1], \h202f, c[2])
    <3>1. PICK c \in D!AtomicCodes : p = D!Pattern(D!Bits(\hf800, \h707f), c[1], \h202f, c[2])
      BY <2>3
    <3>2. D!Bits(c[1], \h202f) \subseteq 0 .. 6 \cup 12 .. 14 \cup 27 .. 31
      BY <2>1, <2>2, ClearBits
    <3>3. p.match = D!Bits(c[1], \h202f) /\ p.mask = D!Bits(\hf800, \h707f)
      BY <3>1 DEF D!Pattern
    <3> QED
      BY <3>2, <3>3, Masks
  <2>4. CASE p = D!Pattern(D!Bits(\hf9f0, \h707f), \h1000, \h202f, "lr")
    <3>1. D!Bits(\h1000, \h202f) \subseteq 0 .. 6 \cup 12 .. 14 \cup 27 .. 31
      BY <2>2, ClearBits
    <3>2. p.match = D!Bits(\h1000, \h202f) /\ p.mask = D!Bits(\hf9f0, \h707f)
      BY <2>4 DEF D!Pattern
    <3> QED
      BY <3>1, <3>2, Masks
  <2> QED
    BY <1>6, <2>3, <2>4 DEF D!Atomics
<1> QED
  BY <1>1, <1>2, <1>3, <1>4, <1>5, <1>6 DEF D!Patterns

\* No word matches the patterns of two handlers.
LEMMA OneMatch ==
  ASSUME NEW ins, NEW p \in D!Patterns, ins \cap p.mask = p.match
  PROVE  {q.handler : q \in D!Matching(ins)} = {p.handler}
<1>1. p \in D!Matching(ins)
  BY DEF D!Matching
<1>2. ASSUME NEW q \in D!Matching(ins) PROVE q.handler = p.handler
  <2>1. q \in D!Patterns /\ ins \cap q.mask = q.match
    BY DEF D!Matching
  <2> QED
    BY <2>1, MatchSays, SaysOne
<1> QED
  BY <1>1, <1>2

\* Operand bits do not change which pattern a word matches.
LEMMA FetchedMatches ==
  ASSUME NEW p \in D!Patterns, NEW i \in (D!Bit \ p.mask) \cup p.match,
         NEW j \in (D!Bit \ p.mask) \cup p.match
  PROVE  (p.match \cup {i, j}) \cap p.mask = p.match
BY MatchInMask

-----------------------------------------------------------------------------
(***************************************************************************)
(* The theorems.                                                           *)
(***************************************************************************)

\* What is executed is computed from two words, the second a shift amount where
\* it has to be.
Executed ==
  /\ a \in Words /\ b \in Words
  /\ handler \in ShiftsByImmediate => b \in 0 .. XLEN - 1
  /\ rd = Result(handler, a, b)
  /\ handler \in DOMAIN Counterpart => twin = Result(Counterpart[handler], a, b)

\* What is fetched is a word of the instruction it was assembled from.
Fetched ==
  \E p \in D!Patterns : assembled = p.handler /\ instruction \cap p.mask = p.match

DatapathInv ==
  /\ instruction \in SUBSET D!Bit
  /\ instruction # {} => Fetched
  /\ handler # "" => Executed

\* A shift amount is a word.
LEMMA AmountsAreWords == 0 .. XLEN - 1 \subseteq Words
<1> DEFINE S == {n \in Nat : n < 2^n}
<1>1. 0 \in S
  BY Powers
<1>2. ASSUME NEW n \in S PROVE n + 1 \in S
  <2> DEFINE p == 2^n
             q == 2^(n + 1)
  <2>1. n \in Nat /\ n < p /\ q = 2 * p /\ p \in Nat /\ p > 0
    BY Powers
  <2> HIDE DEF p, q
  <2>2. n + 1 \in Nat /\ n + 1 < q
    BY <2>1
  <2> QED
    BY <2>2 DEF q
<1>3. S = Nat
  <2>1. S \in SUBSET Nat
    OBVIOUS
  <2> HIDE DEF S
  <2> QED
    BY <1>1, <1>2, <2>1, SetInduction
<1>4. XLEN < Modulus /\ XLEN \in Nat /\ Modulus \in Nat
  <2>1. XLEN \in S
    BY <1>3, ModulusFacts
  <2> QED
    BY <2>1, ModulusFacts DEF Modulus
<1> QED
  BY <1>4 DEF Words

\* The match of every encoding is made of bits of a word.
LEMMA MatchesAreWords == \A p \in D!Patterns : p.match \subseteq D!Bit
<1>1. \A n : D!Ones(n) \subseteq 0 .. 15
  BY DEF D!Ones
<1>2. ASSUME NEW high, NEW low PROVE D!Bits(high, low) \subseteq D!Bit
  BY <1>1 DEF D!Bits, D!Bit
<1>3. ASSUME NEW mask, NEW high, NEW low, NEW name
      PROVE  D!Pattern(mask, high, low, name).match \subseteq D!Bit
  BY <1>2 DEF D!Pattern
<1>4. \A p \in D!Registers : p.match \subseteq D!Bit
  BY <1>3 DEF D!Registers
<1>5. \A p \in D!Immediates : p.match \subseteq D!Bit
  BY <1>3 DEF D!Immediates
<1>6. \A p \in D!Uppers : p.match \subseteq D!Bit
  BY <1>3 DEF D!Uppers
<1>7. \A p \in D!Shifts : p.match \subseteq D!Bit
  BY <1>3 DEF D!Shifts
<1>8. \A p \in D!Systems : p.match \subseteq D!Bit
  BY <1>3 DEF D!Systems
<1>9. \A p \in D!Atomics : p.match \subseteq D!Bit
  BY <1>3 DEF D!Atomics
<1> QED
  BY <1>4, <1>5, <1>6, <1>7, <1>8, <1>9 DEF D!Patterns

\* Every step keeps the invariant.
LEMMA DatapathInvariant == DatapathSpec => []DatapathInv
<1>1. DatapathInit => DatapathInv
  BY DEF DatapathInit, DatapathInv
<1>2. DatapathInv /\ [DatapathNext]_datapathVars => DatapathInv'
  <2> SUFFICES ASSUME DatapathInv, [DatapathNext]_datapathVars PROVE DatapathInv'
    OBVIOUS
  <2>1. CASE Fetch
    <3>0. PICK p \in D!Patterns : \E i, j \in (D!Bit \ p.mask) \cup p.match :
            instruction' = p.match \cup {i, j} /\ assembled' = p.handler
      BY <2>1 DEF Fetch
    <3>1. PICK i \in (D!Bit \ p.mask) \cup p.match, j \in (D!Bit \ p.mask) \cup p.match :
            instruction' = p.match \cup {i, j} /\ assembled' = p.handler
      BY <3>0
    <3>2. p.match \subseteq D!Bit
      BY MatchesAreWords
    <3>3. instruction' \in SUBSET D!Bit /\ handler' = ""
      BY <2>1, <3>1, <3>2 DEF Fetch, Idle
    <3>4. Fetched'
      BY <3>1, FetchedMatches DEF Fetched
    <3> QED
      BY <3>3, <3>4 DEF DatapathInv
  <2>2. CASE Execute
    <3>1. a' \in Words /\ b' \in Words /\ (handler' \in ShiftsByImmediate => b' \in 0 .. XLEN - 1)
      BY <2>2, AmountsAreWords DEF Execute
    <3>2. /\ instruction' = instruction /\ assembled' = assembled /\ rd' = Result(handler', a', b')
          /\ handler' \in DOMAIN Counterpart => twin' = Result(Counterpart[handler'], a', b')
      BY <2>2 DEF Execute
    <3> QED
      BY <3>1, <3>2 DEF DatapathInv, Executed, Fetched
  <2>3. CASE UNCHANGED datapathVars
    BY <2>3 DEF datapathVars, DatapathInv, Executed, Fetched
  <2> QED
    BY <2>1, <2>2, <2>3 DEF DatapathNext
<1> QED
  BY <1>1, <1>2, PTL DEF DatapathSpec

\* The counterparts, by name.
LEMMA Counterparts ==
  /\ Counterpart["addi"] = "add" /\ Counterpart["andi"] = "and" /\ Counterpart["ori"] = "or"
  /\ Counterpart["xori"] = "xor" /\ Counterpart["slti"] = "slt" /\ Counterpart["sltiu"] = "sltu"
  /\ Counterpart["slli"] = "sll" /\ Counterpart["srli"] = "srl" /\ Counterpart["srai"] = "sra"
  /\ Counterpart["mulh"] = "mul" /\ Counterpart["mulhsu"] = "mul" /\ Counterpart["mulhu"] = "mul"
  /\ Counterpart["op_div"] = "rem" /\ Counterpart["divu"] = "remu"
  /\ Counterpart["beq"] = "bne" /\ Counterpart["blt"] = "bge" /\ Counterpart["bltu"] = "bgeu"
  /\ Counterpart["slt"] = "blt" /\ Counterpart["sltu"] = "bltu"
  /\ Counterpart["add"] = "sub" /\ Counterpart["and"] = "xor" /\ Counterpart["or"] = "xor"
  /\ \A name \in {"addi", "andi", "ori", "xori", "slti", "sltiu", "slli", "srli", "srai", "mulh", "mulhsu",
                  "mulhu", "op_div", "divu", "beq", "blt", "bltu", "slt", "sltu", "add", "and", "or"} :
       name \in DOMAIN Counterpart
BY DEF Counterpart

\* mul, mulh, mulhsu and mulhu give the exact product, for every width.
THEOREM ExactProducts == DatapathSpec => []ProductsAreExact
<1>1. ASSUME DatapathInv PROVE ProductsAreExact
  <2>1. CASE handler \in {"mulh", "mulhsu", "mulhu"}
    <3>1. Executed /\ twin = Result("mul", a, b)
      BY <1>1, <2>1, Counterparts DEF DatapathInv, Executed
    <3>2. /\ twin = mul32(a, b) /\ a \in Words /\ b \in Words
          /\ handler = "mulh" => rd = mulh32(a, b)
          /\ handler = "mulhsu" => rd = mulhsu32(a, b)
          /\ handler = "mulhu" => rd = mulhu32(a, b)
      BY <3>1 DEF Executed, Result
    <3> QED
      BY <3>2, SignedProduct, MixedProduct, UnsignedProduct DEF ProductsAreExact
  <2>2. CASE handler \notin {"mulh", "mulhsu", "mulhu"}
    BY <2>2 DEF ProductsAreExact
  <2> QED
    BY <2>1, <2>2
<1> QED
  BY <1>1, DatapathInvariant, PTL

\* Quotient and remainder belong together, for every width.
THEOREM DivisionsBelongTogether == DatapathSpec => []DivisionsAgree
<1>1. ASSUME DatapathInv PROVE DivisionsAgree
  <2>1. CASE handler = "op_div"
    <3>1. Executed /\ twin = Result("rem", a, b)
      BY <1>1, <2>1, Counterparts DEF DatapathInv, Executed
    <3>2. twin = rem32(a, b) /\ rd = div32(a, b) /\ a \in Words /\ b \in Words
      BY <2>1, <3>1 DEF Executed, Result
    <3> QED
      BY <2>1, <3>2, SignedDivision DEF DivisionsAgree
  <2>2. CASE handler = "divu"
    <3>1. Executed /\ twin = Result("remu", a, b)
      BY <1>1, <2>2, Counterparts DEF DatapathInv, Executed
    <3>2. twin = remu32(a, b) /\ rd = divu32(a, b) /\ a \in Words /\ b \in Words
      BY <2>2, <3>1 DEF Executed, Result
    <3> QED
      BY <2>2, <3>2, UnsignedDivision DEF DivisionsAgree
  <2>3. CASE handler \notin {"op_div", "divu"}
    BY <2>3 DEF DivisionsAgree
  <2> QED
    BY <2>1, <2>2, <2>3
<1> QED
  BY <1>1, DatapathInvariant, PTL

\* An instruction with an immediate does what the one with registers does, for
\* every width and every shift amount.
THEOREM ImmediatesMeanRegisters == DatapathSpec => []ImmediatesAgree
<1>1. ASSUME DatapathInv PROVE ImmediatesAgree
  <2>1. CASE handler \in {"addi", "andi", "ori", "xori", "slti", "sltiu"} \cup ShiftsByImmediate
    <3>0. handler \in {"addi", "andi", "ori", "xori", "slti", "sltiu", "slli", "srli", "srai"}
      BY <2>1 DEF ShiftsByImmediate
    <3>1. Executed /\ twin = Result(Counterpart[handler], a, b)
      BY <1>1, <3>0, Counterparts DEF DatapathInv, Executed
    <3>2. a \in Words /\ b \in Words /\ rd = Result(handler, a, b)
          /\ (handler \in ShiftsByImmediate => b \in 0 .. XLEN - 1)
      BY <3>1 DEF Executed
    <3>3. /\ Result("addi", a, b) = Result("add", a, b)
          /\ Result("andi", a, b) = Result("and", a, b)
          /\ Result("ori", a, b) = Result("or", a, b)
          /\ Result("xori", a, b) = Result("xor", a, b)
          /\ Result("slti", a, b) = Result("slt", a, b)
          /\ Result("sltiu", a, b) = Result("sltu", a, b)
      BY <3>2, ImmediateForms DEF Result
    <3>4. b \in 0 .. XLEN - 1 => /\ Result("slli", a, b) = Result("sll", a, b)
                                 /\ Result("srli", a, b) = Result("srl", a, b)
                                 /\ Result("srai", a, b) = Result("sra", a, b)
      BY <3>2, ImmediateForms DEF Result
    <3>5. rd = twin
      BY <3>0, <3>1, <3>2, <3>3, <3>4, Counterparts DEF ShiftsByImmediate
    <3> QED
      BY <3>5 DEF ImmediatesAgree
  <2>2. CASE handler \notin {"addi", "andi", "ori", "xori", "slti", "sltiu"} \cup ShiftsByImmediate
    BY <2>2 DEF ImmediatesAgree
  <2> QED
    BY <2>1, <2>2
<1> QED
  BY <1>1, DatapathInvariant, PTL

\* Sums, orders and bits form one arithmetic, for every width.
THEOREM IntegersAreCoherent == DatapathSpec => []IntegersCohere
<1>1. ASSUME DatapathInv PROVE OrdersAgree
  <2>1. CASE handler \in {"beq", "blt", "bltu", "slt", "sltu"}
    <3>1. Executed /\ twin = Result(Counterpart[handler], a, b)
      BY <1>1, <2>1, Counterparts DEF DatapathInv, Executed
    <3>2. a \in Words /\ b \in Words /\ rd = Result(handler, a, b)
      BY <3>1 DEF Executed
    <3>3. /\ handler = "beq" => rd = Flag(beq(a, b)) /\ twin = Flag(bne(a, b))
          /\ handler = "blt" => rd = Flag(blt(a, b)) /\ twin = Flag(bge(a, b))
          /\ handler = "bltu" => rd = Flag(bltu(a, b)) /\ twin = Flag(bgeu(a, b))
          /\ handler = "slt" => rd = slt(a, b) /\ twin = Flag(blt(a, b))
          /\ handler = "sltu" => rd = sltu(a, b) /\ twin = Flag(bltu(a, b))
      BY <3>1, <3>2, Counterparts DEF Result
    <3> QED
      BY <2>1, <3>2, <3>3, Orders DEF OrdersAgree, HalfModulus
  <2>2. CASE handler \notin {"beq", "blt", "bltu", "slt", "sltu"}
    BY <2>2 DEF OrdersAgree
  <2> QED
    BY <2>1, <2>2
<1>2. ASSUME DatapathInv PROVE BitsAddUp
  <2>1. CASE handler \in {"and", "or", "add"}
    <3>1. Executed /\ twin = Result(Counterpart[handler], a, b)
      BY <1>2, <2>1, Counterparts DEF DatapathInv, Executed
    <3>2. a \in Words /\ b \in Words /\ rd = Result(handler, a, b)
      BY <3>1 DEF Executed
    <3>3. /\ handler = "and" => rd = and(a, b) /\ twin = xor(a, b)
          /\ handler = "or" => rd = or(a, b) /\ twin = xor(a, b)
          /\ handler = "add" => rd = add(a, b) /\ twin = sub(a, b)
      BY <3>1, <3>2, Counterparts DEF Result
    <3> QED
      BY <2>1, <3>2, <3>3, Sums DEF BitsAddUp
  <2>2. CASE handler \notin {"and", "or", "add"}
    BY <2>2 DEF BitsAddUp
  <2> QED
    BY <2>1, <2>2
<1>3. DatapathInv => IntegersCohere
  BY <1>1, <1>2 DEF IntegersCohere
<1> QED
  BY <1>3, DatapathInvariant, PTL

\* The immediates follow the formats, for every word that is fetched.
THEOREM ImmediatesOfFormats == DatapathSpec => []ImmediatesFollowFormats
<1>1. DatapathInv => ImmediatesFollowFormats
  BY FormatsFollowed DEF DatapathInv
<1> QED
  BY <1>1, DatapathInvariant, PTL

\* Every word that is fetched has one handler in the INS_MATCH chain, its own.
THEOREM HandlersAreUnique == DatapathSpec => []OneHandler
<1>1. DatapathInv => OneHandler
  BY OneMatch DEF DatapathInv, Fetched, OneHandler
<1> QED
  BY <1>1, DatapathInvariant, PTL

=============================================================================
