--------------------------- MODULE DbusPathProofs ---------------------------
(***************************************************************************)
(* Paths are legal and unique for strings of any length and characters.    *)
(***************************************************************************)
EXTENDS DbusPath, SequenceTheorems, WellFoundedInduction, TLAPS

Byte == 0 .. 255

\* Induction up to n, over the set of the numbers that something holds for
LEMMA UpTo ==
  ASSUME NEW n \in Nat, NEW T, 0 \in T, \A m \in 0 .. n - 1 : m \in T => m + 1 \in T
  PROVE  0 .. n \subseteq T
  <1> SUFFICES ASSUME ~(0 .. n \subseteq T) PROVE FALSE
    OBVIOUS
  <1>1. PICK R : R = OpToRel(<, Nat)
    OBVIOUS
  <1>2. IsWellFoundedOn(R, Nat)
    BY <1>1, NatLessThanWellFounded
  <1>3. \A k, m \in Nat : <<k, m>> \in R <=> k < m
    BY <1>1 DEF OpToRel
  <1>4. PICK U : U = (0 .. n) \ T
    OBVIOUS
  <1>5. U \subseteq Nat /\ U # {}
    BY <1>4
  <1>6. PICK x \in U : \A y \in U : ~(<<y, x>> \in R)
    BY <1>2, <1>5, WFMin
  <1>7. x \in 0 .. n /\ x \notin T
    BY <1>4, <1>6
  <1>8. x # 0
    BY <1>7
  <1>9. x - 1 \in 0 .. n - 1 /\ (x - 1) + 1 = x
    BY <1>7, <1>8
  <1>10. x - 1 \notin T
    BY <1>7, <1>9
  <1>11. x - 1 \in U
    BY <1>4, <1>9, <1>10
  <1>12. <<x - 1, x>> \in R
    BY <1>3, <1>7, <1>9
  <1> QED BY <1>6, <1>11, <1>12

\* x is three sequences, one after another.
Joined(x, u, b, w) ==
  /\ Len(x) = Len(u) + Len(b) + Len(w)
  /\ \A i \in 1 .. Len(u) + Len(b) + Len(w) :
       x[i] = IF i <= Len(u) THEN u[i]
              ELSE IF i <= Len(u) + Len(b) THEN b[i - Len(u)]
              ELSE w[i - (Len(u) + Len(b))]

LEMMA Concat3 ==
  ASSUME NEW S, NEW u \in Seq(S), NEW b \in Seq(S), NEW w \in Seq(S)
  PROVE  u \o b \o w \in Seq(S) /\ Joined(u \o b \o w, u, b, w)
  BY DEF Joined

-----------------------------------------------------------------------------
(* What is written for a character, and in front of the element.           *)

Alnum == Digit \cup Letter
Wide(ch) == SignedChar /\ ch >= 128

LEMMA SanitizedShape ==
  ASSUME NEW ch \in Byte
  PROVE  /\ Sanitized(ch) \in Seq(Legal)
         /\ ch \in Alnum => Len(Sanitized(ch)) = 1 /\ Sanitized(ch)[1] = ch
         /\ ch \notin Alnum =>
              /\ Len(Sanitized(ch)) = IF Wide(ch) THEN 9 ELSE 3
              /\ Sanitized(ch)[1] = Underscore
              /\ SignedChar => (Sanitized(ch)[2] = F <=> Wide(ch))
              /\ 16 * Value(Sanitized(ch)[Len(Sanitized(ch)) - 1])
                   + Value(Sanitized(ch)[Len(Sanitized(ch))]) = ch
  <1>1. PICK q \in 0 .. 15, r \in 0 .. 15 : q = ch \div 16 /\ r = ch % 16 /\ ch = 16 * q + r
    <2>1. ch \div 16 \in 0 .. 15
      BY DEF Byte
    <2>2. ch % 16 \in 0 .. 15
      BY DEF Byte
    <2>3. ch = 16 * (ch \div 16) + (ch % 16)
      BY DEF Byte
    <2> QED BY <2>1, <2>2, <2>3
  <1>2. \A d \in 0 .. 15 : HexDigit(d) \in Legal /\ Value(HexDigit(d)) = d
    BY DEF HexDigit, Value, Legal, Digit, Letter
  <1>3. PICK high, low : high = HexDigit(q) /\ low = HexDigit(r)
    OBVIOUS
  <1>4. /\ high \in Legal /\ low \in Legal /\ 16 * Value(high) + Value(low) = ch
        /\ F = 102 /\ (high = F => ch >= 128)
    <2>1. F = 102
      BY DEF F, HexDigit
    <2>2. high = 102 => q = 15
      BY <1>3 DEF HexDigit
    <2> QED BY <1>1, <1>2, <1>3, <2>1, <2>2
  <1>5. Underscore \in Legal /\ F \in Legal
    BY <1>4 DEF Legal, Letter
  <1>6. CASE ch \in Alnum
    BY <1>6 DEF Sanitized, Alnum, Legal
  <1>7. CASE ch \notin Alnum /\ Wide(ch)
    <2>1. PICK u, m, w : u = <<Underscore>> /\ m = <<F, F, F, F, F, F>> /\ w = <<high, low>>
      OBVIOUS
    <2>2. Sanitized(ch) = u \o m \o w
      BY <1>1, <1>3, <1>7, <2>1 DEF Sanitized, Escaped, Alnum, Wide
    <2>3. /\ u \in Seq(Legal) /\ Len(u) = 1 /\ u[1] = Underscore
          /\ m \in Seq(Legal) /\ Len(m) = 6 /\ m[1] = F
          /\ w \in Seq(Legal) /\ Len(w) = 2 /\ w[1] = high /\ w[2] = low
      BY <1>4, <1>5, <2>1
    <2>4. PICK x : x = Sanitized(ch) /\ x \in Seq(Legal) /\ Joined(x, u, m, w)
      BY <2>2, <2>3, Concat3
    <2>5. Len(x) = 9 /\ x[1] = Underscore /\ x[2] = F /\ x[8] = high /\ x[9] = low
      BY <2>3, <2>4 DEF Joined
    <2> QED BY <1>4, <1>7, <2>4, <2>5
  <1>8. CASE ch \notin Alnum /\ ~Wide(ch)
    <2>1. PICK u, m, w : u = <<Underscore>> /\ m = <<>> /\ w = <<high, low>>
      OBVIOUS
    <2>2. Sanitized(ch) = u \o m \o w
      BY <1>1, <1>3, <1>8, <2>1 DEF Sanitized, Escaped, Alnum, Wide
    <2>3. /\ u \in Seq(Legal) /\ Len(u) = 1 /\ u[1] = Underscore
          /\ m \in Seq(Legal) /\ Len(m) = 0
          /\ w \in Seq(Legal) /\ Len(w) = 2 /\ w[1] = high /\ w[2] = low
      BY <1>4, <1>5, <2>1
    <2>4. PICK x : x = Sanitized(ch) /\ x \in Seq(Legal) /\ Joined(x, u, m, w)
      BY <2>2, <2>3, Concat3
    <2>5. Len(x) = 3 /\ x[1] = Underscore /\ x[2] = high /\ x[3] = low
      BY <2>3, <2>4 DEF Joined
    <2> QED BY <1>4, <1>8, <2>4, <2>5 DEF Wide
  <1> QED BY <1>6, <1>7, <1>8

\* A '/' if there is none already
LEMMA SlashUnless ==
  ASSUME NEW c
  PROVE  \E u \in Seq(Byte), n \in Nat :
           /\ n <= 1 /\ u = IF c = Slash THEN <<>> ELSE <<Slash>>
           /\ Len(u) = n /\ (n = 0 <=> c = Slash)
           /\ n = 1 => u[1] = Slash
  <1>1. PICK e, f : e = <<>> /\ f = <<Slash>>
    OBVIOUS
  <1>2. e \in Seq(Byte) /\ Len(e) = 0
    BY <1>1
  <1>3. f \in Seq(Byte) /\ Len(f) = 1 /\ f[1] = Slash
    BY <1>1 DEF Slash, Byte
  <1>4. CASE c = Slash
    <2> e \in Seq(Byte) /\ 0 \in Nat
      BY <1>2
    <2> WITNESS e \in Seq(Byte), 0 \in Nat
    <2> QED BY <1>1, <1>2, <1>4
  <1>5. CASE c # Slash
    <2> f \in Seq(Byte) /\ 1 \in Nat
      BY <1>3
    <2> WITNESS f \in Seq(Byte), 1 \in Nat
    <2> QED BY <1>1, <1>3, <1>5
  <1> QED BY <1>4, <1>5

\* Where a position is, in front of the k in the middle, in them or after them
LEMMA Positions ==
  ASSUME NEW m \in {0, 1}, NEW k \in Nat, k # 0, NEW n \in {0, 1}, NEW i \in 1 .. m + k + n
  PROVE  /\ \/ i = 1 /\ m = 1
            \/ i - m \in 1 .. k /\ i = m + (i - m)
            \/ i = m + k + 1 /\ n = 1
         /\ i < m + k + n => \/ i = 1 /\ m = 1
                             \/ i = m + k /\ n = 1
                             \/ i - m \in 1 .. k - 1
  <1>1. CASE m = 0
    BY <1>1
  <1>2. CASE m = 1
    BY <1>2
  <1> QED BY <1>1, <1>2

\* b, of length k, with u, of length m, and w, of length n, around it: a '/'
\* where b has none
SlashAround(x, u, b, w, m, k, n) ==
  /\ \A i \in 1 .. m + k + n :
       x[i] = IF i <= m THEN u[i] ELSE IF i <= m + k THEN b[i - m] ELSE w[i - (m + k)]
  /\ (m = 0 <=> b[1] = Slash) /\ (m = 1 => u[1] = Slash)
  /\ (n = 0 <=> b[k] = Slash) /\ (n = 1 => w[1] = Slash)

LegalChars(x, k) == \A i \in 1 .. k : x[i] \in Legal \cup {Slash}
NoDouble(x, k)   == \A i \in 1 .. k - 1 : x[i] = Slash => x[i + 1] # Slash

LEMMA SlashAroundIsLegal ==
  ASSUME NEW x, NEW u, NEW b, NEW w, NEW m \in Nat, NEW k \in Nat, NEW n \in Nat,
         m <= 1, k # 0, n <= 1, SlashAround(x, u, b, w, m, k, n)
  PROVE  /\ x[1] = Slash /\ x[m + k + n] = Slash
         /\ LegalChars(b, k) => LegalChars(x, m + k + n)
         /\ NoDouble(b, k) => NoDouble(x, m + k + n)
  <1> USE DEF SlashAround
  <1> m \in {0, 1} /\ n \in {0, 1}
    OBVIOUS
  <1>1. /\ m = 1 => x[1] = Slash
        /\ \A i \in 1 .. k : x[m + i] = b[i]
        /\ n = 1 => x[m + k + 1] = Slash
    <2>1. ASSUME m = 1 PROVE x[1] = Slash
      BY <2>1
    <2>2. ASSUME NEW i \in 1 .. k PROVE x[m + i] = b[i]
      <3>1. m + i \in 1 .. m + k + n /\ ~(m + i <= m) /\ m + i <= m + k /\ (m + i) - m = i
        OBVIOUS
      <3> QED BY <3>1
    <2>3. ASSUME n = 1 PROVE x[m + k + 1] = Slash
      <3>1. /\ m + k + 1 \in 1 .. m + k + n /\ ~(m + k + 1 <= m) /\ ~(m + k + 1 <= m + k)
            /\ (m + k + 1) - (m + k) = 1
        BY <2>3
      <3> QED BY <2>3, <3>1
    <2> QED BY <2>1, <2>2, <2>3
  <1>2. ASSUME NEW i \in 1 .. m + k + n
        PROVE  \/ i = 1 /\ m = 1
               \/ i - m \in 1 .. k /\ i = m + (i - m)
               \/ i = m + k + 1 /\ n = 1
    BY Positions
  <1>3. x[1] = Slash
    <2>1. CASE m = 0
      BY <1>1, <2>1
    <2>2. CASE m = 1
      BY <1>1, <2>2
    <2> QED BY <2>1, <2>2
  <1>4. x[m + k + n] = Slash
    <2>1. CASE n = 0
      <3>1. m + k + n = m + k /\ k \in 1 .. k
        BY <2>1
      <3> QED BY <1>1, <2>1, <3>1
    <2>2. CASE n = 1
      BY <1>1, <2>2
    <2> QED BY <2>1, <2>2
  <1>5. ASSUME LegalChars(b, k), NEW i \in 1 .. m + k + n
        PROVE  x[i] \in Legal \cup {Slash}
    <2>1. CASE i = 1 /\ m = 1
      BY <1>1, <2>1
    <2>2. CASE i - m \in 1 .. k /\ i = m + (i - m)
      BY <1>1, <1>5, <2>2 DEF LegalChars
    <2>3. CASE i = m + k + 1 /\ n = 1
      BY <1>1, <2>3
    <2> QED BY <1>2, <2>1, <2>2, <2>3
  <1>6. ASSUME NoDouble(b, k), NEW i \in 1 .. m + k + n - 1, x[i] = Slash, x[i + 1] = Slash
        PROVE  FALSE
    <2>1. CASE i = 1 /\ m = 1
      <3>1. x[m + 1] = b[1]
        BY <1>1
      <3> QED BY <1>6, <2>1, <3>1
    <2>2. CASE i = m + k /\ n = 1
      <3>1. x[m + k] = b[k]
        BY <1>1
      <3> QED BY <1>6, <2>2, <3>1
    <2>3. CASE i - m \in 1 .. k - 1
      <3>1. PICK j \in 1 .. k - 1 : j = i - m /\ i = m + j /\ i + 1 = m + (j + 1) /\ j + 1 \in 1 .. k
        BY <2>3
      <3>2. x[i] = b[j] /\ x[i + 1] = b[j + 1]
        BY <1>1, <3>1
      <3> QED BY <1>6, <3>1, <3>2 DEF NoDouble
    <2>4. (i = 1 /\ m = 1) \/ (i = m + k /\ n = 1) \/ i - m \in 1 .. k - 1
      <3>1. i \in 1 .. m + k + n /\ i < m + k + n /\ k \in Nat /\ k # 0
        OBVIOUS
      <3> QED BY <3>1, Positions, Zenon
    <2> QED BY <2>1, <2>2, <2>3, <2>4
  <1> QED BY <1>3, <1>4, <1>5, <1>6 DEF LegalChars, NoDouble

LEMMA PrefixIsLegal ==
  ASSUME NEW b \in Seq(Byte), b # <<>>
  PROVE  /\ Prefix(b) \in Seq(Byte) /\ Len(Prefix(b)) > 0
         /\ Prefix(b)[1] = Slash /\ Prefix(b)[Len(Prefix(b))] = Slash
         /\ LegalBase(b) =>
              /\ LegalChars(Prefix(b), Len(Prefix(b)))
              /\ NoDouble(Prefix(b), Len(Prefix(b)))
  <1>1. PICK k \in Nat : k = Len(b) /\ k # 0
    OBVIOUS
  <1>2. PICK u \in Seq(Byte), m \in Nat :
           /\ m <= 1 /\ u = IF b[1] = Slash THEN <<>> ELSE <<Slash>>
           /\ Len(u) = m /\ (m = 0 <=> b[1] = Slash)
           /\ m = 1 => u[1] = Slash
    BY SlashUnless
  <1>3. PICK w \in Seq(Byte), n \in Nat :
           /\ n <= 1 /\ w = IF b[k] = Slash THEN <<>> ELSE <<Slash>>
           /\ Len(w) = n /\ (n = 0 <=> b[k] = Slash)
           /\ n = 1 => w[1] = Slash
    BY SlashUnless
  <1>4. Prefix(b) = u \o b \o w
    BY <1>1, <1>2, <1>3 DEF Prefix, Last
  <1>5. u \o b \o w \in Seq(Byte) /\ Joined(u \o b \o w, u, b, w)
    BY Concat3
  <1>6. PICK x : x = Prefix(b) /\ x \in Seq(Byte) /\ Joined(x, u, b, w)
    BY <1>4, <1>5
  <1>7. Len(x) = m + k + n /\ SlashAround(x, u, b, w, m, k, n)
    BY ONLY <1>1, <1>2, <1>3, <1>6, Zenon DEF Joined, SlashAround
  <1>8. /\ x[1] = Slash /\ x[m + k + n] = Slash
        /\ LegalChars(b, k) => LegalChars(x, m + k + n)
        /\ NoDouble(b, k) => NoDouble(x, m + k + n)
    BY <1>1, <1>2, <1>3, <1>7, SlashAroundIsLegal
  <1>9. m + k + n > 0
    BY <1>1
  <1>10. LegalBase(b) => LegalChars(b, k) /\ NoDouble(b, k)
    BY <1>1 DEF LegalBase, ToSet, LegalChars, NoDouble
  <1> QED BY <1>6, <1>7, <1>8, <1>9, <1>10

-----------------------------------------------------------------------------
(* The element of the path is what is written after the prefix.            *)

\* x is u, of length m, and after it w, of length n.
Beside(x, u, w, m, n) ==
  /\ m = Len(u) /\ n = Len(w) /\ Len(x) = m + n
  /\ \A i \in 1 .. m : x[i] = u[i]
  /\ \A i \in 1 .. n : x[m + i] = w[i]

LEMMA Concat2 ==
  ASSUME NEW S, NEW u \in Seq(S), NEW w \in Seq(S)
  PROVE  u \o w \in Seq(S) /\ \E m, n \in Nat : Beside(u \o w, u, w, m, n)
  <1>1. u \o w \in Seq(S)
    OBVIOUS
  <1>2. Len(u) \in Nat /\ Len(w) \in Nat
    OBVIOUS
  <1>3. Beside(u \o w, u, w, Len(u), Len(w))
    BY <1>2 DEF Beside
  <1> QED BY <1>1, <1>2, <1>3

\* Where the last '/' is
LEMMA LastOf ==
  ASSUME NEW I, NEW m \in Nat, m \in I, \A i \in I : i \in Nat /\ i <= m
  PROVE  Max(I) = m
  <1>1. m \in I /\ \A y \in I : m >= y
    OBVIOUS
  <1>2. PICK x : x = Max(I)
    OBVIOUS
  <1>3. x \in I /\ \A y \in I : x >= y
    BY <1>1, <1>2, Zenon DEF Max
  <1>4. x >= m /\ x \in Nat /\ x <= m
    BY <1>1, <1>3
  <1> QED BY <1>2, <1>4

LEMMA ElementIs ==
  ASSUME NEW b \in Seq(Byte), b # <<>>, b[Len(b)] = Slash, NEW e \in Seq(Legal), output = b \o e
  PROVE  LastSlash = Len(b) /\ Element = e
  <1>1. b \in Seq(Byte) /\ e \in Seq(Byte)
    <2>1. Legal \subseteq Byte
      BY DEF Legal, Digit, Letter, Underscore, Byte
    <2> QED BY <2>1
  <1>2. PICK m, n \in Nat :
          /\ m = Len(b) /\ n = Len(e) /\ Len(output) = m + n
          /\ \A i \in 1 .. m : output[i] = b[i]
          /\ \A i \in 1 .. n : output[m + i] = e[i]
    <2>1. \E m, n \in Nat : Beside(output, b, e, m, n)
      BY <1>1, Concat2, Zenon
    <2> QED BY <2>1 DEF Beside
  <1>3. m # 0
    BY <1>2
  <1>4. \A i \in 1 .. n : e[i] \in Legal
    BY <1>2
  <1>5. Slash \notin Legal
    BY DEF Legal, Digit, Letter, Underscore, Slash
  <1>6. PICK I : I = {i \in 1 .. Len(output) : output[i] = Slash}
    OBVIOUS
  <1>7. m \in I
    BY <1>2, <1>3, <1>6
  <1>8. ASSUME NEW i \in I PROVE i \in Nat /\ i <= m
    <2>1. i \in 1 .. m + n /\ output[i] = Slash
      BY <1>2, <1>6
    <2>2. ASSUME i > m PROVE FALSE
      <3>1. PICK j \in 1 .. n : i = m + j
        <4>1. i - m \in 1 .. n /\ i = m + (i - m)
          BY <2>1, <2>2
        <4> QED BY <4>1
      <3> QED BY <1>2, <1>4, <1>5, <2>1, <3>1
    <2> QED BY <2>1, <2>2
  <1>9. LastSlash = m
    <2>1. Max(I) = m
      BY <1>7, <1>8, LastOf
    <2>2. LastSlash = IF I # {} THEN Max(I) ELSE 0
      BY <1>6 DEF LastSlash, SelectLastInSeq
    <2> QED BY <1>7, <2>1, <2>2
  <1>10. Element = e
    <2>1. Element = SubSeq(output, m + 1, m + n)
      BY <1>2, <1>9 DEF Element
    <2>2. CASE n = 0
      <3>1. m + n < m + 1 /\ m + 1 \in Int /\ m + n \in Int
        BY <2>2
      <3>2. SubSeq(output, m + 1, m + n) = <<>>
        BY <3>1, SubSeqEmpty
      <3>3. e = <<>>
        BY <1>2, <2>2
      <3> QED BY <2>1, <3>2, <3>3
    <2>3. CASE n # 0
      <3>1. SubSeq(output, Len(b) + 1, Len(b) + Len(e))
              = SubSeq(e, (Len(b) + 1) - Len(b), (Len(b) + Len(e)) - Len(b))
        <4>1. /\ Len(b) + 1 \in Len(b) + 1 .. Len(b) + Len(e)
              /\ Len(b) + Len(e) \in Len(b) + 1 .. Len(b) + Len(e)
          BY ONLY <1>2, <2>3, m \in Nat, n \in Nat
        <4> QED BY <1>1, <4>1, SubSeqOfConcat2, Zenon
      <3>2. (Len(b) + 1) - Len(b) = 1 /\ (Len(b) + Len(e)) - Len(b) = Len(e)
        BY ONLY <1>2, m \in Nat, n \in Nat
      <3>3. SubSeq(e, 1, Len(e)) = e
        BY <1>1, SubSeqFull
      <3> QED BY <1>2, <2>1, <3>1, <3>2, <3>3, Zenon
    <2> QED BY <2>2, <2>3
  <1> QED BY <1>2, <1>9, <1>10

-----------------------------------------------------------------------------
(* p[k] is where the k-th character of s ends in e.                        *)

Written(s, e, p, n) ==
  /\ p \in [0 .. n -> Nat] /\ p[0] = 0 /\ p[n] = Len(e)
  /\ \A k \in 0 .. n : p[k] <= Len(e)
  /\ \A k \in 1 .. n : p[k] = p[k - 1] + Len(Sanitized(s[k]))
  /\ \A k \in 1 .. n : \A j \in 1 .. Len(Sanitized(s[k])) : e[p[k - 1] + j] = Sanitized(s[k])[j]

IInv ==
  /\ pc \in {"idle", "loop"}
  /\ pc = "loop" =>
       /\ base \in Seq(Byte) /\ base # <<>>
       /\ str \in Seq(Byte) /\ at \in 0 .. Len(str)
       /\ \E e \in Seq(Legal) : \E p :
            output = Prefix(base) \o e /\ (at > 0 => e # <<>>) /\ Written(str, e, p, at)

LEMMA Initially == Init => IInv
  BY DEF Init, IInv

LEMMA StringsAreBytes ==
  ASSUME NEW s \in String
  PROVE  s \in Seq(Byte)
  <1>1. PICK n \in 0 .. MaxLength : s \in [1 .. n -> Char]
    BY Zenon DEF String
  <1>2. n \in Nat
    BY DbusPathAssumption
  <1>3. s \in [1 .. n -> Byte]
    BY ONLY <1>1, DbusPathAssumption DEF Byte
  <1> QED BY <1>2, <1>3, SeqDef

LEMMA NextCall ==
  ASSUME IInv, NEW b \in Base, NEW s \in String, Call(b, s)
  PROVE  IInv'
  <1>1. b \in Seq(Byte) /\ b # <<>>
    BY DbusPathAssumption DEF Byte
  <1>2. s \in Seq(Byte) /\ Len(s) \in Nat
    BY StringsAreBytes
  <1>3. PICK e : e = <<>>
    OBVIOUS
  <1>4. e \in Seq(Legal) /\ Len(e) = 0
    BY <1>3
  <1>5. Prefix(b) = Prefix(b) \o e
    <2>1. Prefix(b) \in Seq(Byte)
      BY <1>1, PrefixIsLegal
    <2> QED BY <1>3, <2>1
  <1>6. Written(s, e, [k \in 0 .. 0 |-> 0], 0)
    BY <1>4 DEF Written
  <1>7. /\ pc' = "loop" /\ base' = b /\ str' = s /\ at' = 0
        /\ output' = Prefix(b) \o e
    BY <1>5 DEF Call
  <1>8. /\ at' \in 0 .. Len(str') /\ ~(at' > 0)
        /\ Written(str', e, [k \in 0 .. 0 |-> 0], at')
    BY <1>2, <1>6, <1>7
  <1> QED BY <1>1, <1>2, <1>4, <1>7, <1>8, Zenon DEF IInv

\* What is written for one more character
LEMMA WrittenNext ==
  ASSUME NEW s \in Seq(Byte), NEW n \in Nat, n < Len(s),
         NEW e \in Seq(Legal), NEW p, Written(s, e, p, n)
  PROVE  /\ e \o Sanitized(s[n + 1]) \in Seq(Legal) /\ e \o Sanitized(s[n + 1]) # <<>>
         /\ \E q : Written(s, e \o Sanitized(s[n + 1]), q, n + 1)
  <1>1. s[n + 1] \in Byte
    BY Len(s) \in Nat
  <1>2. PICK z : z = Sanitized(s[n + 1])
    OBVIOUS
  <1>3. z \in Seq(Legal) /\ Len(z) # 0
    <2>1. z \in Seq(Legal) /\ (Len(z) = 1 \/ Len(z) = 9 \/ Len(z) = 3)
      BY <1>1, <1>2, SanitizedShape, Zenon
    <2>2. ASSUME NEW l, (l = 1 \/ l = 9 \/ l = 3) PROVE l # 0
      BY <2>2
    <2> QED BY <2>1, <2>2, Zenon
  <1>4. PICK x : x = e \o z
    OBVIOUS
  <1>5. PICK k, m \in Nat :
          /\ k = Len(e) /\ m = Len(z) /\ Len(x) = k + m /\ x \in Seq(Legal)
          /\ \A i \in 1 .. k : x[i] = e[i]
          /\ \A i \in 1 .. m : x[k + i] = z[i]
    <2>1. x \in Seq(Legal) /\ \E k, m \in Nat : Beside(x, e, z, k, m)
      BY <1>3, <1>4, Concat2, Zenon
    <2> QED BY <2>1 DEF Beside
  <1>6. PICK q : q = [i \in 0 .. n + 1 |-> IF i = n + 1 THEN k + m ELSE p[i]]
    OBVIOUS
  <1>7. /\ p \in [0 .. n -> Nat] /\ p[0] = 0 /\ p[n] = k
        /\ \A i \in 0 .. n : p[i] <= k
        /\ \A i \in 1 .. n : p[i] = p[i - 1] + Len(Sanitized(s[i]))
        /\ \A i \in 1 .. n : \A j \in 1 .. Len(Sanitized(s[i])) :
             e[p[i - 1] + j] = Sanitized(s[i])[j]
    BY <1>5 DEF Written
  <1>8. /\ q \in [0 .. n + 1 -> Nat] /\ q[0] = 0 /\ q[n + 1] = k + m /\ q[n] = k
        /\ \A i \in 0 .. n : q[i] = p[i]
        /\ \A i \in 0 .. n + 1 : q[i] <= k + m
    BY <1>6, <1>7
  <1>9. ASSUME NEW i \in 1 .. n + 1
        PROVE  /\ q[i] = q[i - 1] + Len(Sanitized(s[i]))
               /\ \A j \in 1 .. Len(Sanitized(s[i])) : x[q[i - 1] + j] = Sanitized(s[i])[j]
    <2>1. CASE i = n + 1
      <3>1. Sanitized(s[i]) = z /\ q[i - 1] = k /\ q[i] = k + m
        BY <1>2, <1>8, <2>1
      <3> QED BY <1>5, <3>1
    <2>2. CASE i # n + 1
      <3>1. i \in 1 .. n /\ i - 1 \in 0 .. n
        BY <2>2
      <3>2. /\ q[i] = p[i] /\ q[i - 1] = p[i - 1] /\ p[i] <= k
            /\ p[i] \in Nat /\ p[i - 1] \in Nat
            /\ p[i] = p[i - 1] + Len(Sanitized(s[i]))
            /\ \A j \in 1 .. Len(Sanitized(s[i])) : e[p[i - 1] + j] = Sanitized(s[i])[j]
        <4>1. i \in 0 .. n
          BY <3>1
        <4>2. q[i] = p[i] /\ q[i - 1] = p[i - 1] /\ p[i] <= k
          BY <1>7, <1>8, <3>1, <4>1, Zenon
        <4>3. p[i] \in Nat /\ p[i - 1] \in Nat
          BY <1>7, <3>1, <4>1, Zenon
        <4>4. /\ p[i] = p[i - 1] + Len(Sanitized(s[i]))
              /\ \A j \in 1 .. Len(Sanitized(s[i])) : e[p[i - 1] + j] = Sanitized(s[i])[j]
          BY <1>7, <3>1, Zenon
        <4> QED BY <4>2, <4>3, <4>4, Zenon
      <3>3. PICK y : y = Sanitized(s[i])
        OBVIOUS
      <3>4. Len(y) \in Nat
        <4>1. s[i] \in Byte
          BY <3>1
        <4> QED BY <3>3, <4>1, SanitizedShape
      <3>5. ASSUME NEW j \in 1 .. Len(y) PROVE x[p[i - 1] + j] = y[j]
        <4>1. p[i - 1] + j \in 1 .. k
          BY <3>2, <3>3, <3>4
        <4>2. e[p[i - 1] + j] = y[j]
          BY <3>2, <3>3
        <4> QED BY <1>5, <4>1, <4>2
      <3> QED BY <3>2, <3>3, <3>5
    <2> QED BY <2>1, <2>2
  <1>10. Written(s, x, q, n + 1)
    BY <1>5, <1>8, <1>9 DEF Written
  <1>11. x # <<>>
    BY <1>3, <1>5
  <1> QED BY <1>2, <1>4, <1>5, <1>10, <1>11

LEMMA NextPush == IInv /\ Push => IInv'
  <1> SUFFICES ASSUME IInv, Push PROVE IInv'
    OBVIOUS
  <1>1. /\ pc = "loop" /\ base \in Seq(Byte) /\ base # <<>>
        /\ str \in Seq(Byte) /\ at \in 0 .. Len(str)
    BY DEF IInv, Push
  <1>e. PICK e \in Seq(Legal) : \E p : output = Prefix(base) \o e /\ Written(str, e, p, at)
    BY <1>1 DEF IInv
  <1>2. PICK p : output = Prefix(base) \o e /\ Written(str, e, p, at)
    BY <1>e
  <1>3. /\ pc' = pc /\ base' = base /\ str' = str /\ at' = at + 1
        /\ output' = output \o Sanitized(str[at + 1])
    BY DEF Push
  <1>4. at \in Nat /\ at < Len(str) /\ at + 1 \in 0 .. Len(str)
    BY <1>1 DEF Push
  <1>5. PICK x : x = e \o Sanitized(str[at + 1])
    OBVIOUS
  <1>6. x \in Seq(Legal) /\ x # <<>> /\ \E q : Written(str, x, q, at + 1)
    BY <1>1, <1>2, <1>4, <1>5, WrittenNext, Zenon
  <1>7. output' = Prefix(base) \o x
    <2>1. Prefix(base) \in Seq(Byte)
      BY <1>1, PrefixIsLegal
    <2>2. str[at + 1] \in Byte
      BY <1>1, <1>4
    <2>3. Sanitized(str[at + 1]) \in Seq(Legal)
      BY <2>2, SanitizedShape, Zenon
    <2>4. e \in Seq(Byte) /\ Sanitized(str[at + 1]) \in Seq(Byte)
      <3>1. Legal \subseteq Byte
        BY DEF Legal, Digit, Letter, Underscore, Byte
      <3> QED BY <2>3, <3>1, SeqMonotonic
    <2>5. PICK b, w : b = Prefix(base) /\ w = Sanitized(str[at + 1])
      OBVIOUS
    <2>6. b \in Seq(Byte) /\ e \in Seq(Byte) /\ w \in Seq(Byte)
      BY ONLY <2>1, <2>4, <2>5
    <2>7. (b \o e) \o w = b \o (e \o w)
      BY ONLY <2>6, ConcatAssociative, SMTT(30)
    <2>8. output' = (b \o e) \o w /\ x = e \o w
      BY ONLY <1>2, <1>3, <1>5, <2>5
    <2> QED BY ONLY <2>5, <2>7, <2>8
  <1> QED BY <1>1, <1>3, <1>4, <1>6, <1>7, Zenon DEF IInv

LEMMA NextReturn == IInv /\ Return => IInv'
  BY DEF IInv, Return

LEMMA Inductive == IInv /\ [Next]_vars => IInv'
  <1> SUFFICES ASSUME IInv, [Next]_vars PROVE IInv'
    OBVIOUS
  <1>1. CASE Push
    BY <1>1, NextPush
  <1>2. CASE Return
    BY <1>2, NextReturn
  <1>3. CASE \E b \in Base, s \in String : Call(b, s)
    BY <1>3, NextCall
  <1>4. CASE UNCHANGED vars
    BY <1>4 DEF vars, IInv
  <1> QED BY <1>1, <1>2, <1>3, <1>4 DEF Next

\* While a call lasts, output is base with '/' around it, followed by what
\* stands for the characters that are done, and this part has no '/'.
THEOREM Invariance == Spec => []IInv
  <1>1. Init => IInv
    BY Initially
  <1>2. IInv /\ [Next]_vars => IInv'
    BY Inductive
  <1> QED BY <1>1, <1>2, PTL DEF Spec

-----------------------------------------------------------------------------
LEMMA LegalWhole == IInv => PathIsLegal
  <1> SUFFICES ASSUME IInv, pc = "loop", LegalBase(base)
               PROVE  /\ output[1] = Slash
                      /\ \A i \in 1 .. Len(output) - 1 : output[i] = Slash => output[i + 1] # Slash
                      /\ ToSet(output) \subseteq Legal \cup {Slash}
                      /\ at > 0 => Element # <<>>
    BY DEF PathIsLegal
  <1>1. base \in Seq(Byte) /\ base # <<>>
    BY DEF IInv
  <1>2. PICK e \in Seq(Legal) : output = Prefix(base) \o e /\ (at > 0 => e # <<>>)
    BY DEF IInv
  <1>3. PICK b : b = Prefix(base)
    OBVIOUS
  <1>4. /\ b \in Seq(Byte) /\ Len(b) > 0 /\ b[1] = Slash /\ b[Len(b)] = Slash
        /\ LegalChars(b, Len(b)) /\ NoDouble(b, Len(b))
    BY <1>1, <1>3, PrefixIsLegal
  <1>5. e \in Seq(Byte) /\ Slash \notin Legal
    <2>1. Legal \subseteq Byte /\ Slash \notin Legal
      BY DEF Legal, Digit, Letter, Underscore, Byte, Slash
    <2> QED BY <2>1, SeqMonotonic
  <1>6. PICK m, n \in Nat :
          /\ m = Len(b) /\ n = Len(e) /\ Len(output) = m + n
          /\ \A i \in 1 .. m : output[i] = b[i]
          /\ \A i \in 1 .. n : output[m + i] = e[i]
    <2>1. \E m, n \in Nat : Beside(output, b, e, m, n)
      BY <1>2, <1>3, <1>4, <1>5, Concat2, Zenon
    <2> QED BY <2>1 DEF Beside
  <1>7. /\ m > 0 /\ output[1] = Slash
        /\ \A i \in 1 .. m : output[i] \in Legal \cup {Slash}
        /\ \A i \in 1 .. n : output[m + i] \in Legal
        /\ \A i \in 1 .. m - 1 : output[i] = Slash => output[i + 1] # Slash
    <2>1. m > 0 /\ output[1] = Slash
      BY <1>4, <1>6
    <2>2. \A i \in 1 .. m : output[i] \in Legal \cup {Slash}
      BY <1>4, <1>6 DEF LegalChars
    <2>3. \A i \in 1 .. n : output[m + i] \in Legal
      BY <1>6
    <2>4. \A i \in 1 .. m - 1 : output[i] = Slash => output[i + 1] # Slash
      BY <1>4, <1>6 DEF NoDouble
    <2> QED BY <2>1, <2>2, <2>3, <2>4
  <1>8. output \in Seq(Byte)
    BY <1>2, <1>3, <1>4, <1>5
  <1>9. ASSUME NEW i \in 1 .. Len(output) PROVE output[i] \in Legal \cup {Slash}
    <2>1. i \in 1 .. m \/ \E j \in 1 .. n : i = m + j
      <3>1. i \in 1 .. m + n
        BY <1>6
      <3>2. i \in 1 .. m \/ (i - m \in 1 .. n /\ i = m + (i - m))
        BY <3>1
      <3> QED BY <3>2
    <2> QED BY <1>7, <2>1
  <1>10. ASSUME NEW i \in 1 .. Len(output) - 1, output[i] = Slash PROVE output[i + 1] # Slash
    <2>1. i \in 1 .. m + n - 1
      BY <1>6
    <2>2. CASE i < m
      BY <1>7, <1>10, <2>1, <2>2
    <2>3. CASE i = m
      <3>1. 1 \in 1 .. n
        BY <2>1, <2>3
      <3> QED BY <1>5, <1>7, <2>3, <3>1
    <2>4. CASE i > m
      <3>1. PICK j \in 1 .. n : i = m + j
        <4>1. i - m \in 1 .. n /\ i = m + (i - m)
          BY <2>1, <2>4
        <4> QED BY <4>1
      <3> QED BY <1>5, <1>7, <1>10, <3>1
    <2> QED BY <2>1, <2>2, <2>3, <2>4
  <1>11. at > 0 => Element # <<>>
    <2>1. b # <<>>
      BY <1>4
    <2>2. Element = e
      BY <1>2, <1>3, <1>4, <2>1, ElementIs
    <2> QED BY <1>2, <2>2
  <1>12. ToSet(output) \subseteq Legal \cup {Slash}
    BY <1>8, <1>9 DEF ToSet
  <1> QED BY <1>7, <1>10, <1>11, <1>12

\* Whatever string is appended to a base that is a legal beginning of a path,
\* what dbus_sanitized_path() returns is a legal object path; so is what it
\* has made of any part of the string.
THEOREM PathIsLegalHolds == Spec => []PathIsLegal
  <1>1. IInv => PathIsLegal
    BY LegalWhole
  <1> QED BY <1>1, Invariance, PTL

-----------------------------------------------------------------------------
(* What Decoded() makes of an element: rest[i] is what is decoded from the *)
(* i-th character on.                                                      *)

RestAt(e, g, i) ==
  IF i > Len(e) THEN <<>>
  ELSE IF e[i] # Underscore THEN <<e[i]>> \o g[i + 1]
  ELSE LET wide == SignedChar /\ i < Len(e) /\ e[i + 1] = F
           last == IF wide THEN i + 8 ELSE i + 2
       IN  IF last > Len(e) THEN <<>>
           ELSE <<16 * Value(e[last - 1]) + Value(e[last])>> \o g[last + 1]

IsRest(e, g) == g = [i \in 1 .. Len(e) + 9 |-> RestAt(e, g, i)]

\* rest[i] is made of later ones only.
LEMMA RestIsLocal ==
  ASSUME NEW e \in Seq(Legal), NEW i \in 1 .. Len(e) + 9, NEW f, NEW g,
         \A j \in i + 1 .. Len(e) + 9 : f[j] = g[j]
  PROVE  RestAt(e, f, i) = RestAt(e, g, i)
  <1>1. PICK n \in Nat : n = Len(e)
    OBVIOUS
  <1>2. i <= n => f[i + 1] = g[i + 1]
    BY <1>1
  <1>3. i + 2 <= n => f[(i + 2) + 1] = g[(i + 2) + 1]
    BY <1>1
  <1>4. i + 8 <= n => f[(i + 8) + 1] = g[(i + 8) + 1]
    BY <1>1
  <1>5. /\ ~(i > n) <=> i <= n
        /\ ~(i + 2 > n) <=> i + 2 <= n
        /\ ~(i + 8 > n) <=> i + 8 <= n
    OBVIOUS
  <1> QED BY <1>1, <1>2, <1>3, <1>4, <1>5, Zenon DEF RestAt

LEMMA RestExists ==
  ASSUME NEW e \in Seq(Legal)
  PROVE  \E g : IsRest(e, g)
  <1>1. PICK n \in Nat : n = Len(e) + 9
    OBVIOUS
  <1>2. PICK T : T = {m \in 0 .. n : \E g : /\ g = [i \in 1 .. n |-> g[i]]
                                          /\ \A i \in 1 .. n : n - m < i => g[i] = RestAt(e, g, i)}
    OBVIOUS
  <1>3. 0 \in T
    <2>1. PICK g : g = [i \in 1 .. n |-> 0]
      OBVIOUS
    <2>2. g = [i \in 1 .. n |-> g[i]]
      BY <2>1
    <2>3. 0 \in 0 .. n /\ \A i \in 1 .. n : n - 0 < i => g[i] = RestAt(e, g, i)
      OBVIOUS
    <2> QED BY <1>2, <2>2, <2>3
  <1>4. ASSUME NEW m \in 0 .. n - 1, m \in T PROVE m + 1 \in T
    <2>1. PICK g : /\ g = [i \in 1 .. n |-> g[i]]
                   /\ \A i \in 1 .. n : n - m < i => g[i] = RestAt(e, g, i)
      BY <1>2, <1>4
    <2>2. PICK k \in 1 .. n : k = n - m
      <3>1. n - m \in 1 .. n
        OBVIOUS
      <3> QED BY <3>1
    <2>3. PICK f : f = [i \in 1 .. n |-> IF i = k THEN RestAt(e, g, k) ELSE g[i]]
      OBVIOUS
    <2>4. f = [i \in 1 .. n |-> f[i]]
      BY <2>3
    <2>5. ASSUME NEW i \in 1 .. n, n - (m + 1) < i PROVE f[i] = RestAt(e, f, i)
      <3>1. i = k \/ (n - m < i /\ i # k)
        BY <2>2, <2>5
      <3>2. \A j \in i + 1 .. Len(e) + 9 : f[j] = g[j]
        <4>1. ASSUME NEW j \in i + 1 .. n PROVE f[j] = g[j]
          <5>1. j \in 1 .. n /\ j # k
            BY <2>2, <3>1
          <5> QED BY <2>3, <5>1
        <4> QED BY <1>1, <4>1
      <3>3. RestAt(e, f, i) = RestAt(e, g, i)
        <4>1. i \in 1 .. Len(e) + 9
          BY <1>1
        <4> QED BY <3>2, <4>1, RestIsLocal
      <3>4. f[i] = RestAt(e, g, i)
        <4>1. CASE i = k
          BY <2>3, <4>1
        <4>2. CASE n - m < i /\ i # k
          BY <2>1, <2>3, <4>2
        <4> QED BY <3>1, <4>1, <4>2
      <3> QED BY <3>3, <3>4
    <2>6. m + 1 \in 0 .. n
      OBVIOUS
    <2> QED BY <1>2, <2>4, <2>5, <2>6
  <1>5. n \in T
    <2>1. 0 .. n \subseteq T
      BY <1>3, <1>4, UpTo
    <2> QED BY <2>1
  <1>6. PICK g : /\ g = [i \in 1 .. n |-> g[i]]
                 /\ \A i \in 1 .. n : n - n < i => g[i] = RestAt(e, g, i)
    BY <1>2, <1>5
  <1>7. \A i \in 1 .. n : g[i] = RestAt(e, g, i)
    BY <1>6
  <1>8. g = [i \in 1 .. n |-> RestAt(e, g, i)]
    BY <1>6, <1>7
  <1> QED BY <1>1, <1>8 DEF IsRest

LEMMA DecodedIsRest ==
  ASSUME NEW e \in Seq(Legal)
  PROVE  \E g : IsRest(e, g) /\ Decoded(e) = g[1]
  <1>1. PICK h : h = CHOOSE g : IsRest(e, g)
    OBVIOUS
  <1>2. IsRest(e, h)
    BY <1>1, RestExists
  <1>3. Decoded(e) = h[1]
    BY <1>1, Zenon DEF Decoded, IsRest, RestAt
  <1> QED BY <1>2, <1>3

\* The characters of s from the k-th on, from where the one before it ends
LEMMA DecodedBefore ==
  ASSUME NEW s \in Seq(Byte), NEW n \in 0 .. Len(s), NEW e \in Seq(Legal), NEW p,
         Written(s, e, p, n), NEW g, IsRest(e, g), NEW k \in 1 .. n,
         g[p[k] + 1] = SubSeq(s, k + 1, n)
  PROVE  g[p[k - 1] + 1] = SubSeq(s, k, n)
  <1>1. PICK c \in Byte : c = s[k]
    <2>1. s[k] \in Byte
      OBVIOUS
    <2> QED BY <2>1
  <1>2. PICK z : z = Sanitized(c)
    OBVIOUS
  <1>3. PICK i, j, l, m \in Nat : i = p[k - 1] /\ j = p[k] /\ l = Len(e) /\ m = Len(z)
    <2>1. k \in 0 .. n /\ k - 1 \in 0 .. n
      OBVIOUS
    <2>2. p[k] \in Nat /\ p[k - 1] \in Nat
      BY <2>1, Zenon DEF Written
    <2>3. Len(e) \in Nat /\ Len(z) \in Nat
      <3>1. z \in Seq(Legal)
        BY <1>2, SanitizedShape, Zenon
      <3> QED BY <3>1
    <2> QED BY <2>2, <2>3
  <1>4. j = i + m /\ j <= l
    <2>1. p[k] = p[k - 1] + Len(z) /\ p[k] <= Len(e)
      <3>1. k \in 0 .. n
        OBVIOUS
      <3> QED BY <1>1, <1>2, <3>1, Zenon DEF Written
    <2> QED BY <1>3, <2>1
  <1>5. \A h \in 1 .. m : e[i + h] = z[h]
    BY <1>1, <1>2, <1>3, Zenon DEF Written
  <1>6. \A h \in 1 .. l + 9 : g[h] = RestAt(e, g, h)
    BY <1>3 DEF IsRest
  <1>7. g[j + 1] = SubSeq(s, k + 1, n)
    BY <1>3
  <1>8. SubSeq(s, k, n) = <<c>> \o g[j + 1]
    <2>1. k \in 1 .. Len(s) /\ n \in k .. Len(s)
      OBVIOUS
    <2> QED BY <1>1, <1>7, <2>1, SubSeqRecursiveFirst
  <1>9. PICK a \in Nat : a = i + 1
    OBVIOUS
  <1>10. g[a] = <<c>> \o g[j + 1]
    <2>1. CASE c \in Alnum
      <3>1. m = 1 /\ z[1] = c
        BY <1>2, <1>3, <2>1, SanitizedShape
      <3>2. a \in 1 .. l + 9 /\ ~(a > l) /\ a + 1 = j + 1 /\ 1 \in 1 .. m
        BY <1>4, <1>9, <3>1
      <3>3. e[a] = c /\ c # Underscore
        BY <1>5, <1>9, <2>1, <3>1, <3>2 DEF Alnum, Digit, Letter, Underscore
      <3>4. g[a] = RestAt(e, g, a)
        BY <1>6, <3>2
      <3>5. RestAt(e, g, a) = <<c>> \o g[j + 1]
        BY <1>3, <3>2, <3>3, Zenon DEF RestAt
      <3> QED BY <3>4, <3>5
    <2>2. CASE c \notin Alnum
      <3>1. /\ m = IF Wide(c) THEN 9 ELSE 3
            /\ z[1] = Underscore
            /\ SignedChar => (z[2] = F <=> Wide(c))
            /\ 16 * Value(z[m - 1]) + Value(z[m]) = c
        BY <1>2, <1>3, <2>2, SanitizedShape, Zenon
      <3>2. /\ a \in 1 .. l + 9 /\ ~(a > l) /\ a < l /\ ~(j > l)
            /\ 1 \in 1 .. m /\ 2 \in 1 .. m /\ m - 1 \in 1 .. m /\ m \in 1 .. m
            /\ a = i + 1 /\ a + 1 = i + 2 /\ j = i + m /\ j - 1 = i + (m - 1)
            /\ j = IF Wide(c) THEN a + 8 ELSE a + 2
        BY <1>4, <1>9, <3>1
      <3>3. /\ e[a] = Underscore
            /\ SignedChar => (e[a + 1] = F <=> Wide(c))
            /\ e[j - 1] = z[m - 1] /\ e[j] = z[m]
        BY <1>5, <3>1, <3>2, Zenon
      <3>4. PICK wide : wide = (SignedChar /\ a < l /\ e[a + 1] = F)
        OBVIOUS
      <3>5. PICK last : last = IF wide THEN a + 8 ELSE a + 2
        OBVIOUS
      <3>6. last = j
        BY <3>2, <3>3, <3>4, <3>5, Zenon DEF Wide
      <3>7. RestAt(e, g, a) = IF last > l THEN <<>>
                              ELSE <<16 * Value(e[last - 1]) + Value(e[last])>> \o g[last + 1]
        BY <1>3, <3>2, <3>3, <3>4, <3>5, Zenon DEF RestAt
      <3>8. RestAt(e, g, a) = <<c>> \o g[j + 1]
        BY <3>1, <3>2, <3>3, <3>6, <3>7, Zenon
      <3>9. g[a] = RestAt(e, g, a)
        BY <1>6, <3>2
      <3> QED BY <3>8, <3>9
    <2> QED BY <2>1, <2>2
  <1> QED BY <1>3, <1>8, <1>9, <1>10

LEMMA DecodedIsString ==
  ASSUME NEW s \in Seq(Byte), NEW n \in 0 .. Len(s), NEW e \in Seq(Legal), NEW p,
         Written(s, e, p, n)
  PROVE  Decoded(e) = SubSeq(s, 1, n)
  <1>1. PICK g : IsRest(e, g) /\ Decoded(e) = g[1]
    BY DecodedIsRest
  <1>2. PICK T : T = {m \in 0 .. n : g[p[n - m] + 1] = SubSeq(s, (n - m) + 1, n)}
    OBVIOUS
  <1>3. n \in Nat
    OBVIOUS
  <1>4. 0 \in T
    <2>1. PICK l \in Nat : l = Len(e)
      OBVIOUS
    <2>2. p[n - 0] = l
      BY <1>3, <2>1 DEF Written
    <2>3. g[l + 1] = <<>>
      <3>1. l + 1 \in 1 .. Len(e) + 9 /\ l + 1 > Len(e)
        BY <2>1
      <3>2. g[l + 1] = RestAt(e, g, l + 1)
        BY <1>1, <3>1 DEF IsRest
      <3> QED BY <3>1, <3>2, Zenon DEF RestAt
    <2>4. SubSeq(s, (n - 0) + 1, n) = <<>>
      <3>1. (n - 0) + 1 \in Int /\ n \in Int /\ n < (n - 0) + 1
        BY <1>3
      <3> QED BY <3>1, SubSeqEmpty
    <2>5. 0 \in 0 .. n
      BY <1>3
    <2> QED BY <1>2, <2>2, <2>3, <2>4, <2>5
  <1>5. ASSUME NEW m \in 0 .. n - 1, m \in T PROVE m + 1 \in T
    <2>1. PICK k \in 1 .. n : k = n - m
      <3>1. n - m \in 1 .. n
        BY <1>3
      <3> QED BY <3>1
    <2>2. g[p[k] + 1] = SubSeq(s, k + 1, n)
      BY <1>2, <1>5, <2>1
    <2>3. g[p[k - 1] + 1] = SubSeq(s, k, n)
      BY <1>1, <2>2, DecodedBefore, Zenon
    <2>4. m + 1 \in 0 .. n /\ n - (m + 1) = k - 1 /\ (k - 1) + 1 = k
      BY <1>3, <2>1
    <2> QED BY <1>2, <2>3, <2>4
  <1>6. n \in T
    <2>1. 0 .. n \subseteq T
      BY <1>3, <1>4, <1>5, UpTo
    <2> QED BY <1>3, <2>1
  <1>7. g[p[n - n] + 1] = SubSeq(s, (n - n) + 1, n)
    BY <1>2, <1>6
  <1>8. n - n = 0 /\ 0 + 1 = 1 /\ p[0] = 0
    BY <1>3 DEF Written
  <1> QED BY <1>1, <1>7, <1>8

LEMMA UniqueWhole == IInv => PathIsUnique
  <1> SUFFICES ASSUME IInv, pc = "loop" PROVE Decoded(Element) = SubSeq(str, 1, at)
    BY DEF PathIsUnique
  <1>1. base \in Seq(Byte) /\ base # <<>> /\ str \in Seq(Byte) /\ at \in 0 .. Len(str)
    BY DEF IInv
  <1>e. PICK e \in Seq(Legal) : \E p : output = Prefix(base) \o e /\ Written(str, e, p, at)
    BY DEF IInv
  <1>2. PICK p : output = Prefix(base) \o e /\ Written(str, e, p, at)
    BY <1>e
  <1>3. PICK b : b = Prefix(base)
    OBVIOUS
  <1>4. b \in Seq(Byte) /\ b # <<>> /\ b[Len(b)] = Slash
    BY <1>1, <1>3, PrefixIsLegal
  <1>5. Element = e
    BY <1>2, <1>3, <1>4, ElementIs
  <1> QED BY <1>1, <1>2, <1>5, DecodedIsString, Zenon

\* The last element of the path tells what the string was, so two strings
\* never get the same path from dbus_sanitized_path(), whatever bytes they
\* are made of and whether char is signed or not.
THEOREM PathIsUniqueHolds == Spec => []PathIsUnique
  <1>1. IInv => PathIsUnique
    BY UniqueWhole
  <1> QED BY <1>1, Invariance, PTL
=============================================================================
