---------------------------- MODULE AsnText_proofs ----------------------------
(***************************************************************************)
(* Proofs about AsnText for texts of any length and any numbers.           *)
(***************************************************************************)
EXTENDS AsnText, WellFoundedInduction, TLAPS

(***************************************************************************)
(* Induction over the natural numbers, for a set.                          *)
(***************************************************************************)

\* A set with 0 and with every successor has every natural number.
LEMMA SetInduction ==
  ASSUME NEW S, 0 \in S, \A n \in Nat : n \in S => n + 1 \in S
  PROVE  \A n \in Nat : n \in S
<1> DEFINE T == Nat \ S
           R == {p \in Nat \X Nat : p[1] < p[2]}
<1>1. IsWellFoundedOn(R, Nat)
  <2>1. OpToRel(<, Nat) = R
    BY DEF OpToRel
  <2> QED
    BY <2>1, NatLessThanWellFounded
<1>2. SUFFICES ASSUME T # {} PROVE FALSE
  OBVIOUS
<1>3. PICK x \in T : \A y \in T : <<y, x>> \notin R
  <2>1. T \subseteq Nat
    OBVIOUS
  <2> HIDE DEF T, R
  <2> QED
    BY <1>1, <1>2, <2>1, WFMin
<1>4. x \in Nat /\ x # 0
  OBVIOUS
<1>5. x - 1 \in Nat /\ (x - 1) + 1 = x
  BY <1>4
<1>6. x - 1 \notin S
  BY <1>5
<1>7. <<x - 1, x>> \in R
  BY <1>4, <1>5
<1> QED
  BY <1>3, <1>5, <1>6, <1>7

(***************************************************************************)
(* The recursive functions.                                                *)
(***************************************************************************)

\* Quotients is what its definition says.
LEMMA QuotientsUnfold ==
  ASSUME NEW v, NEW base
  PROVE  /\ Quotients(v, base)[0] = v
         /\ \A j \in 1..16 : Quotients(v, base)[j] = Quotients(v, base)[j - 1] \div base
<1> DEFINE Div(q, n) == [j \in 0..n |-> IF j = 0 THEN v ELSE q[j - 1] \div base]
           S == {n \in Nat : \E q : q = Div(q, n)}
<1>1. 0 \in S
  <2>1. [j \in 0..0 |-> v] = Div([j \in 0..0 |-> v], 0)
    OBVIOUS
  <2> QED
    BY <2>1
<1>2. ASSUME NEW n \in Nat, n \in S PROVE n + 1 \in S
  <2>1. PICK q : q = Div(q, n)
    BY <1>2
  <2> DEFINE r == [j \in 0..(n + 1) |-> IF j = 0 THEN v ELSE q[j - 1] \div base]
  <2>2. r = Div(r, n + 1)
    <3>1. ASSUME NEW j \in 0..(n + 1), j # 0 PROVE q[j - 1] = r[j - 1]
      <4>1. j - 1 \in 0..n
        BY <3>1
      <4>2. q[j - 1] = IF j - 1 = 0 THEN v ELSE q[(j - 1) - 1] \div base
        BY <2>1, <4>1
      <4> QED
        BY <4>1, <4>2
    <3> QED
      BY <3>1
  <2>3. \E g : g = Div(g, n + 1)
    <3> HIDE DEF Div, r
    <3> QED
      BY <2>2
  <2> QED
    BY <2>3
<1>3. PICK q : q = Div(q, 16)
  <2> HIDE DEF S
  <2>1. 16 \in S
    BY <1>1, <1>2, SetInduction
  <2> QED
    BY <2>1 DEF S
<1>4. Quotients(v, base) = CHOOSE f : f = Div(f, 16)
  BY DEF Quotients
<1>5. Quotients(v, base) = Div(Quotients(v, base), 16)
  <2> HIDE DEF Div
  <2> QED
    BY <1>3, <1>4
<1> QED
  BY <1>5

\* Scan is what its definition says.
LEMMA ScanUnfolds ==
  ASSUME NEW chars, Len(chars) \in Nat, NEW base
  PROVE  /\ Scan(chars, base)[0] = [read |-> 0, value |-> Zero]
         /\ \A i \in 1..Len(chars) :
              Scan(chars, base)[i] = Reads(Scan(chars, base)[i - 1], i, chars[i], base)
<1> DEFINE Init0 == [read |-> 0, value |-> Zero]
           Read(f, n) == [i \in 0..n |-> IF i = 0 THEN Init0
                                         ELSE Reads(f[i - 1], i, chars[i], base)]
           S == {n \in Nat : \E f : f = Read(f, n)}
<1> HIDE DEF Init0
<1>1. 0 \in S
  <2>1. [i \in 0..0 |-> Init0] = Read([i \in 0..0 |-> Init0], 0)
    OBVIOUS
  <2> QED
    BY <2>1
<1>2. ASSUME NEW n \in Nat, n \in S PROVE n + 1 \in S
  <2>1. PICK f : f = Read(f, n)
    BY <1>2
  <2> DEFINE h == [i \in 0..(n + 1) |-> IF i = 0 THEN Init0
                                        ELSE Reads(f[i - 1], i, chars[i], base)]
  <2>2. h = Read(h, n + 1)
    <3>1. ASSUME NEW i \in 0..(n + 1), i # 0 PROVE f[i - 1] = h[i - 1]
      <4>1. i - 1 \in 0..n
        BY <3>1
      <4>2. f[i - 1] = IF i - 1 = 0 THEN Init0
                       ELSE Reads(f[(i - 1) - 1], i - 1, chars[i - 1], base)
        BY <2>1, <4>1
      <4> QED
        BY <4>1, <4>2
    <3> QED
      BY <3>1
  <2>3. \E g : g = Read(g, n + 1)
    <3> HIDE DEF Read, h
    <3> QED
      BY <2>2
  <2> QED
    BY <2>3
<1>3. PICK f : f = Read(f, Len(chars))
  <2> HIDE DEF S
  <2>1. Len(chars) \in S
    BY <1>1, <1>2, SetInduction
  <2> QED
    BY <2>1 DEF S
<1>4. Scan(chars, base) = CHOOSE g : g = Read(g, Len(chars))
  BY DEF Scan, Init0
<1>5. Scan(chars, base) = Read(Scan(chars, base), Len(chars))
  <2> HIDE DEF Read
  <2> QED
    BY <1>3, <1>4
<1> QED
  BY <1>5 DEF Init0

(***************************************************************************)
(* Appending a digit to a number of four groups.                           *)
(***************************************************************************)
Words == [1..4 -> Group16]
Bases == {2, 10, 16}

\* The number x < 2^32 as four groups.
Groups(x) == <<0, 0, x \div Radix, x % Radix>>

LEMMA RadixIs == Radix \in Nat /\ Radix > 0
BY SMT DEF Radix

LEMMA GroupIs ==
  ASSUME NEW x
  PROVE  x \in Group16 <=> x \in Nat /\ x < Radix
BY RadixIs, SMT DEF Group16

LEMMA DivMod ==
  ASSUME NEW q \in Nat, NEW r \in Group16
  PROVE  (q * Radix + r) \div Radix = q /\ (q * Radix + r) % Radix = r
<1>1. r \in Nat /\ r < Radix
  BY GroupIs
<1>2. (q * Radix + r) \div Radix = q
  BY <1>1, SMT DEF Radix
<1>3. (q * Radix + r) % Radix = r
  BY <1>1, SMT DEF Radix
<1> QED
  BY <1>2, <1>3

LEMMA Split ==
  ASSUME NEW x \in Nat
  PROVE  /\ x \div Radix \in Nat /\ x % Radix \in Group16
         /\ x = (x \div Radix) * Radix + (x % Radix)
<1>1. x \div Radix \in Nat /\ x % Radix \in Nat /\ x % Radix < Radix
  BY SMT DEF Radix
<1>2. x = (x \div Radix) * Radix + (x % Radix)
  BY SMT DEF Radix
<1> QED
  BY <1>1, <1>2, GroupIs

LEMMA Small ==
  ASSUME NEW x \in Nat, x < Radix
  PROVE  x \div Radix = 0 /\ x % Radix = x
BY SMT DEF Radix

\* What a number and a digit are made of.
LEMMA DigitTypes ==
  ASSUME NEW v \in Words, NEW base \in Bases, NEW d \in 0..(base - 1)
  PROVE  /\ base \in Nat /\ base > 0 /\ d \in Nat /\ d < base
         /\ \A i \in 1..4 : v[i] \in Group16 /\ v[i] \in Nat /\ v[i] < Radix
BY GroupIs, SMT DEF Words, Bases

\* The groups of v * base + d, with what is carried over.
Carries(v, base, d, a, b, c, e) ==
  /\ a = v[4] * base + d
  /\ b = v[3] * base + (a \div Radix)
  /\ c = v[2] * base + (b \div Radix)
  /\ e = v[1] * base + (c \div Radix)
  /\ Appended(v, base, d) =
       IF e >= Radix THEN Invalid ELSE <<e, c % Radix, b % Radix, a % Radix>>

LEMMA AppendedCarries ==
  ASSUME NEW v \in Words, NEW base \in Bases, NEW d \in 0..(base - 1)
  PROVE  \E a, b, c, e \in Nat : Carries(v, base, d, a, b, c, e)
<1> DEFINE a == v[4] * base + d
           b == v[3] * base + (a \div Radix)
           c == v[2] * base + (b \div Radix)
           e == v[1] * base + (c \div Radix)
<1>1. base \in Nat /\ d \in Nat /\ \A i \in 1..4 : v[i] \in Nat
  BY DigitTypes
<1>2. \A i \in 1..4 : v[i] * base \in Nat
  BY <1>1
<1>3. a \in Nat
  BY <1>1, <1>2
<1>4. b \in Nat
  <2> HIDE DEF a
  <2>1. a \div Radix \in Nat
    BY <1>3, Split
  <2> QED
    BY <1>2, <2>1
<1>5. c \in Nat
  <2> HIDE DEF b
  <2>1. b \div Radix \in Nat
    BY <1>4, Split
  <2> QED
    BY <1>2, <2>1
<1>6. e \in Nat
  <2> HIDE DEF c
  <2>1. c \div Radix \in Nat
    BY <1>5, Split
  <2> QED
    BY <1>2, <2>1
<1>7. Appended(v, base, d) =
        IF e >= Radix THEN Invalid ELSE <<e, c % Radix, b % Radix, a % Radix>>
  BY Zenon DEF Appended
<1> HIDE DEF e
<1>8. e = v[1] * base + (c \div Radix)
  BY DEF e
<1> HIDE DEF c
<1>9. c = v[2] * base + (b \div Radix)
  BY DEF c
<1> HIDE DEF b
<1>10. b = v[3] * base + (a \div Radix)
  BY DEF b
<1> HIDE DEF a
<1>11. a = v[4] * base + d
  BY DEF a
<1>12. Carries(v, base, d, a, b, c, e)
  BY <1>7, <1>8, <1>9, <1>10, <1>11, Zenon DEF Carries
<1> QED
  BY <1>3, <1>4, <1>5, <1>6, <1>12, Zenon

\* The result is again four groups, if it is valid.
LEMMA AppendedType ==
  ASSUME NEW v \in Words, NEW base \in Bases, NEW d \in 0..(base - 1)
  PROVE  Appended(v, base, d) \in Words \union {Invalid}
<1>1. PICK a, b, c, e \in Nat : Carries(v, base, d, a, b, c, e)
  BY AppendedCarries
<1>2. a % Radix \in Group16 /\ b % Radix \in Group16 /\ c % Radix \in Group16
  BY Split
<1>3. CASE e >= Radix
  BY <1>1, <1>3, Zenon DEF Carries
<1>4. CASE ~(e >= Radix)
  <2>1. e \in Group16
    BY <1>4, GroupIs, RadixIs
  <2>2. Appended(v, base, d) = <<e, c % Radix, b % Radix, a % Radix>>
    BY <1>1, <1>4, Zenon DEF Carries
  <2> QED
    BY <1>2, <2>1, <2>2 DEF Words
<1> QED
  BY <1>3, <1>4

\* Four groups are not Invalid.
LEMMA WordIsValid ==
  ASSUME NEW v \in Words
  PROVE  v # Invalid
<1>1. DOMAIN v = 1..4 /\ 1 \in DOMAIN v
  BY DEF Words
<1>2. DOMAIN Invalid = {}
  BY DEF Invalid
<1> QED
  BY <1>1, <1>2

\* A number of more than 16 bits stays one.
LEMMA StaysLarge ==
  ASSUME NEW v \in Words, ~IsGroup(v), NEW base \in Bases, NEW d \in 0..(base - 1)
  PROVE  Appended(v, base, d) = Invalid \/ ~IsGroup(Appended(v, base, d))
<1>1. PICK a, b, c, e \in Nat : Carries(v, base, d, a, b, c, e)
  BY AppendedCarries
<1> SUFFICES ASSUME Appended(v, base, d) # Invalid, IsGroup(Appended(v, base, d))
             PROVE  FALSE
  OBVIOUS
<1>2. e = 0 /\ c % Radix = 0 /\ b % Radix = 0
  <2>1. Appended(v, base, d) = <<e, c % Radix, b % Radix, a % Radix>>
    BY <1>1, Zenon DEF Carries
  <2> QED
    BY <2>1 DEF IsGroup
<1>3. base > 0 /\ base \in Nat /\ d \in Nat /\ \A i \in 1..4 : v[i] \in Nat
  BY DigitTypes
<1>4. \A i \in 1..4 : v[i] * base \in Nat /\ (v[i] # 0 => v[i] * base > 0)
  BY <1>3
<1>5. c \div Radix \in Nat /\ b \div Radix \in Nat /\ a \div Radix \in Nat
  BY Split
<1>6. v[1] = 0 /\ c \div Radix = 0
  BY <1>1, <1>2, <1>4, <1>5 DEF Carries
<1>7. c = 0
  BY <1>2, <1>6, Split, RadixIs
<1>8. v[2] = 0 /\ b \div Radix = 0
  BY <1>1, <1>4, <1>5, <1>7 DEF Carries
<1>9. b = 0
  BY <1>2, <1>8, Split, RadixIs
<1>10. v[3] = 0
  BY <1>1, <1>4, <1>5, <1>9 DEF Carries
<1> QED
  BY <1>6, <1>8, <1>10 DEF IsGroup

\* Below 2^32, appending a digit is what it is for numbers.
LEMMA AppendedGroups ==
  ASSUME NEW x \in Nat, NEW base \in Bases, NEW d \in 0..(base - 1),
         x * base + d < Radix * Radix
  PROVE  Groups(x) \in Words /\ Appended(Groups(x), base, d) = Groups(x * base + d)
<1> DEFINE h == x \div Radix
           l == x % Radix
           v == Groups(x)
           y == x * base + d
<1>1. h \in Nat /\ l \in Group16 /\ l \in Nat /\ l < Radix /\ x = h * Radix + l
  BY Split, GroupIs
<1> HIDE DEF h, l
<1>2. base \in Nat /\ d \in Nat /\ y \in Nat
  BY DEF Bases
<1>3. h \in Group16
  <2>1. x <= x * base
    BY DEF Bases
  <2>2. x < Radix * Radix
    <3>1. x * base \in Nat /\ Radix * Radix \in Nat
      BY <1>2, RadixIs
    <3> QED
      BY <1>2, <2>1, <3>1
  <2>3. h < Radix
    BY <1>1, <2>2, SMT DEF Radix
  <2> QED
    BY <1>1, <2>3, GroupIs
<1>4. v = <<0, 0, h, l>>
  BY DEF Groups, h, l
<1>5. v \in Words
  <2>1. 0 \in Group16
    BY GroupIs, RadixIs
  <2> QED
    BY <1>1, <1>3, <1>4, <2>1 DEF Words
<1>6. PICK a, b, c, e \in Nat : Carries(v, base, d, a, b, c, e)
  BY <1>5, AppendedCarries
<1>7. v[1] = 0 /\ v[2] = 0 /\ v[3] = h /\ v[4] = l
  BY <1>4
<1> DEFINE A == a \div Radix
           B == a % Radix
<1>8. A \in Nat /\ B \in Group16 /\ B \in Nat /\ B < Radix /\ a = A * Radix + B
  BY Split, GroupIs
<1> HIDE DEF A, B
<1>9. a = l * base + d /\ b = h * base + A
  BY <1>6, <1>7 DEF A, Carries
<1>10. y = b * Radix + B
  <2>1. CASE base = 10
    BY <1>1, <1>2, <1>8, <1>9, <2>1, SMT DEF Radix
  <2>2. CASE base = 16
    BY <1>1, <1>2, <1>8, <1>9, <2>2, SMT DEF Radix
  <2>3. CASE base = 2
    BY <1>1, <1>2, <1>8, <1>9, <2>3, SMT DEF Radix
  <2> QED
    BY <2>1, <2>2, <2>3 DEF Bases
<1>11. y \div Radix = b /\ y % Radix = B
  <2> HIDE DEF y
  <2> QED
    BY <1>8, <1>10, DivMod
<1>12. b \in Nat /\ b < Radix
  BY <1>2, <1>8, <1>10, SMT DEF Radix
<1>13. b \div Radix = 0 /\ b % Radix = b
  BY <1>12, Small
<1>14. c = 0
  <2>1. c = 0 * base + 0
    BY <1>6, <1>7, <1>13 DEF Carries
  <2> QED
    BY <1>2, <2>1
<1>15. e = 0
  <2>1. e = 0 * base + 0
    <3>1. 0 \div Radix = 0
      BY SMT DEF Radix
    <3> QED
      BY <1>6, <1>7, <1>14, <3>1 DEF Carries
  <2> QED
    BY <1>2, <2>1
<1>16. Appended(v, base, d) = <<0, 0, b, B>>
  <2>1. 0 % Radix = 0 /\ ~(0 >= Radix)
    BY SMT DEF Radix
  <2>2. Appended(v, base, d) =
          IF e >= Radix THEN Invalid ELSE <<e, c % Radix, b % Radix, a % Radix>>
    BY <1>6 DEF Carries
  <2> QED
    BY <1>13, <1>14, <1>15, <2>1, <2>2 DEF B
<1> QED
  BY <1>5, <1>11, <1>16 DEF Groups

(***************************************************************************)
(* Reading digits.                                                         *)
(***************************************************************************)
Chars == Seq(0..16)

\* What has been read after i characters, s, is the digits they begin with.
ReadSoFar(chars, base, i, s) ==
  /\ DOMAIN s = {"read", "value"}
  /\ s.read \in 0..i
  /\ s.value \in Words \union {Invalid}
  /\ \A j \in 1..s.read : chars[j] < base
  /\ s.read < i => chars[s.read + 1] >= base

LEMMA CharTypes ==
  ASSUME NEW chars \in Chars
  PROVE  /\ Len(chars) \in Nat /\ DOMAIN chars = 1..Len(chars)
         /\ \A i \in 1..Len(chars) : chars[i] \in 0..16
<1> DEFINE C == 0..16
<1>1. chars \in Seq(C)
  BY DEF Chars
<1> HIDE DEF C
<1>2. /\ Len(chars) \in Nat /\ DOMAIN chars = 1..Len(chars)
      /\ \A i \in 1..Len(chars) : chars[i] \in C
  BY <1>1
<1> QED
  BY <1>2 DEF C

LEMMA ZeroIsWord == Zero \in Words /\ Zero = <<0, 0, 0, 0>> /\ Zero # Invalid
<1>1. 0 \in Group16
  BY GroupIs, RadixIs
<1>2. Zero \in Words
  BY <1>1 DEF Zero, Words
<1>3. Zero # Invalid
  BY <1>2, WordIsValid
<1> QED
  BY <1>2, <1>3 DEF Zero

LEMMA IsDigit ==
  ASSUME NEW c \in 0..16, NEW base \in Nat, ~(c >= base)
  PROVE  c \in Nat /\ c < base /\ c \in 0..(base - 1)
<1>1. c \in Nat /\ c < base
  OBVIOUS
<1> QED
  BY <1>1

LEMMA ReadsOn ==
  ASSUME NEW chars \in Chars, NEW base \in Bases, NEW i \in 1..Len(chars),
         NEW s, ReadSoFar(chars, base, i - 1, s)
  PROVE  ReadSoFar(chars, base, i, Reads(s, i, chars[i], base))
<1>1. i \in Nat /\ i > 0 /\ s.read \in Nat /\ s.read <= i - 1
  BY CharTypes DEF ReadSoFar
<1>2. chars[i] \in 0..16 /\ base \in Nat
  BY CharTypes DEF Bases
<1>3. CASE s.read < i - 1 \/ chars[i] >= base
  <2>1. Reads(s, i, chars[i], base) = s
    BY <1>3 DEF Reads
  <2>2. s.read \in 0..i
    BY <1>1
  <2>3. s.read < i => chars[s.read + 1] >= base
    <3>1. CASE s.read < i - 1
      BY <3>1 DEF ReadSoFar
    <3>2. CASE ~(s.read < i - 1)
      BY <1>1, <1>3, <3>2
    <3> QED
      BY <3>1, <3>2
  <2> QED
    BY <2>1, <2>2, <2>3 DEF ReadSoFar
<1>4. CASE ~(s.read < i - 1 \/ chars[i] >= base)
  <2> DEFINE v == IF s.value = Invalid THEN Invalid ELSE Appended(s.value, base, chars[i])
             r == [read |-> i, value |-> v]
  <2>1. Reads(s, i, chars[i], base) = r
    BY <1>4 DEF Reads
  <2>2. s.read = i - 1 /\ chars[i] \in 0..(base - 1)
    <3>1. ~(s.read < i - 1) /\ ~(chars[i] >= base)
      BY <1>4
    <3>2. s.read = i - 1
      BY <1>1, <3>1
    <3>3. chars[i] \in 0..(base - 1)
      BY <1>2, <3>1, IsDigit
    <3> QED
      BY <3>2, <3>3
  <2>3. v \in Words \union {Invalid}
    <3>1. CASE s.value = Invalid
      BY <3>1
    <3>2. CASE s.value # Invalid
      <4>1. s.value \in Words
        BY <3>2 DEF ReadSoFar
      <4> QED
        BY <2>2, <3>2, <4>1, AppendedType
    <3> QED
      BY <3>1, <3>2
  <2>4. \A j \in 1..i : chars[j] < base
    BY <1>1, <1>2, <1>4, <2>2 DEF ReadSoFar
  <2> HIDE DEF v
  <2>5. DOMAIN r = {"read", "value"} /\ r.read = i /\ r.value = v
    OBVIOUS
  <2> HIDE DEF r
  <2> QED
    BY <1>1, <2>1, <2>3, <2>4, <2>5 DEF ReadSoFar
<1> QED
  BY <1>3, <1>4

LEMMA ScanReads ==
  ASSUME NEW chars \in Chars, NEW base \in Bases
  PROVE  \A i \in 0..Len(chars) : ReadSoFar(chars, base, i, Scan(chars, base)[i])
<1> DEFINE f == Scan(chars, base)
           S == {i \in Nat : i <= Len(chars) => ReadSoFar(chars, base, i, f[i])}
<1>1. Len(chars) \in Nat
  BY CharTypes
<1>2. /\ f[0] = [read |-> 0, value |-> Zero]
      /\ \A i \in 1..Len(chars) : f[i] = Reads(f[i - 1], i, chars[i], base)
  BY <1>1, ScanUnfolds
<1> HIDE DEF f
<1>3. 0 \in S
  <2> DEFINE s == [read |-> 0, value |-> Zero]
  <2>1. DOMAIN s = {"read", "value"} /\ s.read = 0 /\ s.value \in Words
    BY ZeroIsWord
  <2>2. ReadSoFar(chars, base, 0, s)
    <3> HIDE DEF s
    <3> QED
      BY <2>1 DEF ReadSoFar
  <2> QED
    BY <1>2, <2>2
<1>4. ASSUME NEW i \in Nat, i \in S PROVE i + 1 \in S
  <2> SUFFICES ASSUME i + 1 <= Len(chars) PROVE ReadSoFar(chars, base, i + 1, f[i + 1])
    OBVIOUS
  <2>1. ReadSoFar(chars, base, i, f[i])
    BY <1>1, <1>4
  <2> DEFINE k == i + 1
  <2>2. k \in 1..Len(chars) /\ k - 1 = i
    BY <1>1
  <2> HIDE DEF k
  <2>3. f[k] = Reads(f[k - 1], k, chars[k], base)
    BY <1>2, <2>2
  <2>4. ReadSoFar(chars, base, k - 1, f[k - 1])
    BY <2>1, <2>2
  <2>5. ReadSoFar(chars, base, k, Reads(f[k - 1], k, chars[k], base))
    BY <2>2, <2>4, ReadsOn
  <2> QED
    BY <2>3, <2>5 DEF k
<1>5. \A i \in Nat : i \in S
  <2> HIDE DEF S
  <2> QED
    BY <1>3, <1>4, SetInduction
<1> QED
  BY <1>1, <1>5 DEF f

\* What std::from_chars and Python's int make of a text of digits is the same.
LEMMA DigitsRead ==
  ASSUME NEW chars \in Chars, NEW base \in Bases, PythonInt(chars, base) # Invalid
  PROVE  /\ chars # <<>> /\ PythonInt(chars, base) \in Words
         /\ Scanned(chars, base).value = PythonInt(chars, base)
         /\ FromChars(chars, base).read = Len(chars)
         /\ FromChars(chars, base).value = PythonInt(chars, base)
         /\ \A i \in 1..Len(chars) : chars[i] \in 0..(base - 1)
<1> DEFINE s == Scanned(chars, base)
<1>1. Len(chars) \in Nat
  BY CharTypes
<1>2. ReadSoFar(chars, base, Len(chars), s)
  BY <1>1, ScanReads DEF Scanned
<1>3. chars # <<>> /\ ~(s.read < Len(chars)) /\ PythonInt(chars, base) = s.value
  BY DEF PythonInt
<1>4. s.read = Len(chars)
  <2>1. s.read \in 0..Len(chars)
    BY <1>2 DEF ReadSoFar
  <2> QED
    BY <1>1, <1>3, <2>1
<1>5. s.value \in Words
  BY <1>2, <1>3 DEF ReadSoFar
<1>6. FromChars(chars, base).read = s.read /\ FromChars(chars, base).value = s.value
  <2> HIDE DEF s
  <2>1. FromChars(chars, base) = [s EXCEPT !.value = IF @ = Invalid THEN Zero ELSE @]
    BY DEF FromChars, s
  <2> QED
    BY <1>2, <1>3, <2>1 DEF ReadSoFar
<1>7. \A i \in 1..Len(chars) : chars[i] < base
  BY <1>2, <1>4 DEF ReadSoFar
<1>8. ASSUME NEW i \in 1..Len(chars) PROVE chars[i] \in 0..(base - 1)
  <2>1. chars[i] \in 0..16 /\ base \in Nat
    BY CharTypes DEF Bases
  <2>2. ~(chars[i] >= base)
    BY <1>7, <2>1
  <2> QED
    BY <2>1, <2>2, IsDigit
<1> QED
  BY <1>3, <1>4, <1>5, <1>6, <1>8

\* Something is always read.
LEMMA FromCharsType ==
  ASSUME NEW chars \in Chars, NEW base \in Bases
  PROVE  FromChars(chars, base).value \in Words
<1> DEFINE s == Scanned(chars, base)
<1>1. ReadSoFar(chars, base, Len(chars), s)
  BY CharTypes, ScanReads DEF Scanned
<1>2. FromChars(chars, base) = [s EXCEPT !.value = IF @ = Invalid THEN Zero ELSE @]
  BY DEF FromChars
<1> HIDE DEF s
<1>3. FromChars(chars, base).value = IF s.value = Invalid THEN Zero ELSE s.value
  BY <1>1, <1>2 DEF ReadSoFar
<1> QED
  BY <1>1, <1>3, ZeroIsWord DEF ReadSoFar

\* Appending to a number below 2^12 gives a group.
LEMMA AppendedGroup ==
  ASSUME NEW v \in Words, IsGroup(v), NEW base \in Bases, NEW d \in 0..(base - 1),
         v[4] * base + d < Radix
  PROVE  Appended(v, base, d) = <<0, 0, 0, v[4] * base + d>>
<1>1. v[4] \in Nat /\ v[4] < Radix /\ v[1] = 0 /\ v[2] = 0 /\ v[3] = 0 /\ base \in Nat /\ d \in Nat
  BY DigitTypes DEF IsGroup
<1>2. v = Groups(v[4])
  <2>1. v[4] \div Radix = 0 /\ v[4] % Radix = v[4]
    BY <1>1, Small
  <2>2. v = <<v[1], v[2], v[3], v[4]>>
    BY DEF Words
  <2> QED
    BY <1>1, <2>1, <2>2 DEF Groups
<1> DEFINE x == v[4]
           y == x * base + d
<1>3. x \in Nat /\ y \in Nat /\ y < Radix
  BY <1>1
<1> HIDE DEF x
<1>4. y < Radix * Radix /\ y \div Radix = 0 /\ y % Radix = y
  <2> HIDE DEF y
  <2>1. y < Radix * Radix
    BY <1>3, SMT DEF Radix
  <2> QED
    BY <1>3, <2>1, Small
<1>5. Appended(Groups(x), base, d) = Groups(y)
  BY <1>3, <1>4, AppendedGroups
<1>6. Appended(v, base, d) = <<0, 0, 0, y>>
  BY <1>2, <1>4, <1>5 DEF x, Groups
<1> QED
  BY <1>6 DEF x

\* If appending gives a group, nothing was carried.
LEMMA GroupAppended ==
  ASSUME NEW v \in Words, NEW base \in Bases, NEW d \in 0..(base - 1),
         Appended(v, base, d) # Invalid, IsGroup(Appended(v, base, d))
  PROVE  /\ IsGroup(v) /\ v[4] * base + d < Radix
         /\ Appended(v, base, d)[4] = v[4] * base + d
<1>1. IsGroup(v)
  BY StaysLarge
<1>2. PICK a, b, c, e \in Nat : Carries(v, base, d, a, b, c, e)
  BY AppendedCarries
<1>3. Appended(v, base, d) = <<e, c % Radix, b % Radix, a % Radix>>
  BY <1>2, Zenon DEF Carries
<1>4. e = 0 /\ c % Radix = 0 /\ b % Radix = 0
  BY <1>3 DEF IsGroup
<1>5. v[1] = 0 /\ v[2] = 0 /\ v[3] = 0 /\ v[4] \in Nat /\ base \in Nat /\ d \in Nat
  BY <1>1, DigitTypes DEF IsGroup
<1>6. a = v[4] * base + d /\ b = 0 * base + (a \div Radix) /\ c = 0 * base + (b \div Radix)
      /\ e = 0 * base + (c \div Radix)
  BY <1>2, <1>5 DEF Carries
<1>7. a \div Radix \in Nat /\ b \div Radix \in Nat /\ c \div Radix \in Nat
  BY Split
<1>8. b = a \div Radix /\ c = b \div Radix /\ e = c \div Radix
  BY <1>5, <1>6, <1>7
<1>9. c = 0
  BY <1>4, <1>8, Split, RadixIs
<1>10. b = 0
  BY <1>4, <1>8, <1>9, Split, RadixIs
<1>11. a % Radix = a /\ a < Radix
  <2>1. a = a % Radix /\ a % Radix \in Group16
    BY <1>8, <1>10, Split, RadixIs
  <2> QED
    BY <2>1, GroupIs
<1> QED
  BY <1>1, <1>3, <1>6, <1>11

\* Up to four hexadecimal digits are a group.
LEMMA ShortIsGroup ==
  ASSUME NEW chars \in Chars, Len(chars) \in 1..4, PythonInt(chars, 16) # Invalid
  PROVE  IsGroup(PythonInt(chars, 16))
<1> DEFINE f == Scan(chars, 16)
           Below(i, max) == /\ f[i].read = i /\ f[i].value \in Words
                            /\ IsGroup(f[i].value) /\ f[i].value[4] < max
<1>1. 16 \in Bases
  BY DEF Bases
<1>2. /\ \A i \in 1..Len(chars) : chars[i] \in 0..15
      /\ Scanned(chars, 16).value = PythonInt(chars, 16)
  <2>1. 16 - 1 = 15
    OBVIOUS
  <2> QED
    BY <1>1, <2>1, DigitsRead
<1>3. /\ f[0] = [read |-> 0, value |-> Zero]
      /\ \A i \in 1..Len(chars) : f[i] = Reads(f[i - 1], i, chars[i], 16)
  BY ScanUnfolds
<1> HIDE DEF f
<1>4. Below(0, 1)
  BY <1>3, ZeroIsWord DEF IsGroup
<1>5. ASSUME NEW i \in 1..Len(chars), NEW max \in Nat, max * 16 <= Radix, Below(i - 1, max)
      PROVE  Below(i, max * 16)
  <2> DEFINE v == f[i - 1].value
             d == chars[i]
             y == v[4] * 16 + d
  <2>1. d \in 0..15 /\ v \in Words /\ IsGroup(v) /\ v[4] < max /\ v[4] \in Nat
    BY <1>1, <1>2, <1>5, DigitTypes
  <2>2. y \in Nat /\ y < max * 16 /\ y < Radix
    <3>1. ASSUME NEW p \in Nat, NEW r \in 0..15, p < max
          PROVE  p * 16 + r \in Nat /\ p * 16 + r < max * 16
      <4>1. r \in Nat /\ r < 16 /\ p + 1 <= max
        BY <3>1
      <4> QED
        BY <4>1
    <3> HIDE DEF v, d
    <3>2. v[4] * 16 + d \in Nat /\ v[4] * 16 + d < max * 16
      BY <2>1, <3>1
    <3>3. v[4] * 16 + d < Radix
      BY <1>5, <3>2, RadixIs
    <3> QED
      BY <3>2, <3>3
  <2>3. Appended(v, 16, d) = <<0, 0, 0, y>>
    <3> HIDE DEF v, d
    <3>1. d \in 0..(16 - 1)
      BY <2>1
    <3> QED
      BY <1>1, <2>1, <2>2, <3>1, AppendedGroup
  <2>4. f[i] = [read |-> i, value |-> Appended(v, 16, d)]
    <3>1. ~(f[i - 1].read < i - 1) /\ v # Invalid
      BY <1>5, <2>1, WordIsValid
    <3>2. ~(d >= 16)
      <4>1. \A r \in 0..15 : ~(r >= 16)
        OBVIOUS
      <4> QED
        BY <2>1, <4>1
    <3>3. f[i] = Reads(f[i - 1], i, d, 16)
      BY <1>3
    <3> QED
      BY <3>1, <3>2, <3>3 DEF Reads
  <2> HIDE DEF v, d, y
  <2>5. <<0, 0, 0, y>> \in Words
    BY <2>2, GroupIs, RadixIs DEF Words
  <2> QED
    BY <2>2, <2>3, <2>4, <2>5 DEF IsGroup
<1>6. IsGroup(f[Len(chars)].value)
  <2> HIDE DEF Below
  <2>1. 1 * 16 <= Radix /\ 16 * 16 <= Radix /\ 256 * 16 <= Radix /\ 4096 * 16 <= Radix
    BY SMT DEF Radix
  <2>2. /\ 1 * 16 = 16 /\ 16 * 16 = 256 /\ 256 * 16 = 4096
        /\ 1 - 1 = 0 /\ 2 - 1 = 1 /\ 3 - 1 = 2 /\ 4 - 1 = 3
    OBVIOUS
  <2>3. Below(1, 16)
    <3>1. 1 \in 1..Len(chars)
      OBVIOUS
    <3>2. Below(1 - 1, 1)
      BY <1>4, <2>2
    <3>3. Below(1, 1 * 16)
      BY <1>5, <2>1, <3>1, <3>2
    <3> QED
      BY <2>2, <3>3
  <2>4. Len(chars) >= 2 => Below(2, 256)
    BY <1>5, <2>1, <2>2, <2>3, SMT
  <2>5. Len(chars) >= 3 => Below(3, 4096)
    BY <1>5, <2>1, <2>2, <2>4, SMT
  <2>6. Len(chars) >= 4 => Below(4, 4096 * 16)
    BY <1>5, <2>1, <2>2, <2>5, SMT
  <2>7. CASE Len(chars) = 1
    BY <2>3, <2>7 DEF Below
  <2>8. CASE Len(chars) = 2
    BY <2>4, <2>8 DEF Below
  <2>9. CASE Len(chars) = 3
    BY <2>5, <2>9 DEF Below
  <2>10. CASE Len(chars) = 4
    BY <2>6, <2>10 DEF Below
  <2> QED
    BY <2>7, <2>8, <2>9, <2>10
<1> QED
  BY <1>2, <1>6 DEF f, Scanned

\* What a text begins with, read as a decimal number, is no more than what it
\* is as a hexadecimal one.
LEMMA DecimalIsGroup ==
  ASSUME NEW chars \in Chars, PythonInt(chars, 16) # Invalid, IsGroup(PythonInt(chars, 16))
  PROVE  IsGroup(FromChars(chars, 10).value)
<1> DEFINE hex == Scan(chars, 16)
           dec == Scan(chars, 10)
           Smaller(i) ==
             /\ dec[i].read <= hex[i].read
             /\ hex[i].value # Invalid /\ IsGroup(hex[i].value) =>
                  /\ dec[i].value # Invalid /\ IsGroup(dec[i].value)
                  /\ dec[i].value[4] <= hex[i].value[4]
           S == {i \in Nat : i <= Len(chars) => Smaller(i)}
<1>1. 10 \in Bases /\ 16 \in Bases
  BY DEF Bases
<1>2. Len(chars) \in Nat /\ \A i \in 1..Len(chars) : chars[i] \in 0..16
  BY CharTypes
<1>3. \A i \in 0..Len(chars) : ReadSoFar(chars, 10, i, dec[i]) /\ ReadSoFar(chars, 16, i, hex[i])
  BY <1>1, ScanReads
<1>4. /\ hex[0] = [read |-> 0, value |-> Zero] /\ dec[0] = [read |-> 0, value |-> Zero]
      /\ \A i \in 1..Len(chars) : /\ hex[i] = Reads(hex[i - 1], i, chars[i], 16)
                                  /\ dec[i] = Reads(dec[i - 1], i, chars[i], 10)
  BY <1>2, ScanUnfolds
<1>5. Scanned(chars, 16) = hex[Len(chars)] /\ Scanned(chars, 10) = dec[Len(chars)]
  BY DEF Scanned
<1> HIDE DEF hex, dec
<1>6. 0 \in S
  BY <1>4, ZeroIsWord DEF IsGroup
<1>7. ASSUME NEW n \in Nat, n \in S PROVE n + 1 \in S
  <2> SUFFICES ASSUME n + 1 <= Len(chars) PROVE Smaller(n + 1)
    OBVIOUS
  <2> DEFINE i == n + 1
             h == hex[n]
             d == dec[n]
             c == chars[i]
  <2>1. i \in 1..Len(chars) /\ i - 1 = n /\ c \in 0..16
    BY <1>2
  <2>2. ReadSoFar(chars, 10, n, d) /\ ReadSoFar(chars, 16, n, h) /\ Smaller(n)
    BY <1>2, <1>3, <1>7
  <2>3. hex[i] = Reads(h, i, c, 16) /\ dec[i] = Reads(d, i, c, 10)
    BY <1>4, <2>1
  <2>4. d.read \in Nat /\ h.read \in Nat /\ d.read <= h.read /\ h.read <= n
    BY <2>2 DEF ReadSoFar
  <2>5. /\ d.value \in Words \union {Invalid} /\ h.value \in Words \union {Invalid}
        /\ h.value # Invalid /\ IsGroup(h.value) =>
             d.value # Invalid /\ IsGroup(d.value) /\ d.value[4] <= h.value[4]
    BY <2>2 DEF ReadSoFar
  <2> HIDE DEF i, h, d, c
  <2>6. CASE h.read < n \/ c >= 16
    <3>1. d.read < n \/ c >= 10
      <4>1. h.read < n => d.read < n
        BY <2>4
      <4>2. c >= 16 => c >= 10
        BY <2>1
      <4> QED
        BY <2>6, <4>1, <4>2
    <3>2. hex[i] = h /\ dec[i] = d
      BY <2>1, <2>3, <2>6, <3>1 DEF Reads
    <3> QED
      BY <2>4, <2>5, <3>2 DEF i
  <2>7. CASE ~(h.read < n \/ c >= 16)
    <3> DEFINE w == IF h.value = Invalid THEN Invalid ELSE Appended(h.value, 16, c)
    <3>1. c \in 0..15 /\ h.read = n
      BY <2>1, <2>4, <2>7
    <3>2. hex[i].read = i /\ hex[i].value = w
      BY <2>1, <2>3, <2>7 DEF Reads
    <3>3. ASSUME w # Invalid, IsGroup(w)
          PROVE  /\ h.value \in Words /\ h.value # Invalid /\ IsGroup(h.value)
                 /\ h.value[4] \in Nat /\ h.value[4] * 16 + c < Radix
                 /\ w[4] = h.value[4] * 16 + c
      <4>1. h.value # Invalid /\ h.value \in Words /\ w = Appended(h.value, 16, c)
        BY <2>5, <3>3
      <4>2. c \in 0..(16 - 1)
        BY <3>1
      <4> DEFINE v == h.value
      <4> HIDE DEF v, w
      <4>3. v \in Words /\ w = Appended(v, 16, c) /\ Appended(v, 16, c) # Invalid
            /\ IsGroup(Appended(v, 16, c))
        BY <3>3, <4>1 DEF v
      <4>4. IsGroup(v) /\ v[4] * 16 + c < Radix /\ Appended(v, 16, c)[4] = v[4] * 16 + c
        BY <1>1, <4>2, <4>3, GroupAppended
      <4>5. v[4] \in Nat
        BY <1>1, <4>2, <4>3, DigitTypes
      <4> QED
        BY <4>1, <4>3, <4>4, <4>5 DEF v
    <3> HIDE DEF w
    <3>4. CASE d.read < n \/ c >= 10
      <4>1. dec[i] = d
        BY <2>1, <2>3, <3>4 DEF Reads
      <4>2. dec[i].read <= hex[i].read
        BY <2>4, <3>1, <3>2, <4>1 DEF i
      <4>3. ASSUME w # Invalid, IsGroup(w)
            PROVE  d.value # Invalid /\ IsGroup(d.value) /\ d.value[4] <= w[4]
        <5>1. d.value # Invalid /\ IsGroup(d.value) /\ d.value[4] <= h.value[4]
          BY <2>5, <3>3, <4>3
        <5>2. d.value[4] \in Nat
          <6>1. d.value \in Words
            BY <2>5, <5>1
          <6> QED
            BY <6>1, GroupIs DEF Words
        <5>3. h.value[4] \in Nat /\ w[4] = h.value[4] * 16 + c
          BY <3>3, <4>3
        <5>4. ASSUME NEW p \in Nat, NEW q \in Nat, NEW r \in 0..15, p <= q
              PROVE  p <= q * 16 + r
          <6>1. r \in Nat
            OBVIOUS
          <6> QED
            BY <5>4, <6>1
        <5>5. d.value[4] <= h.value[4] * 16 + c
          BY <3>1, <5>1, <5>2, <5>3, <5>4
        <5> QED
          BY <5>1, <5>3, <5>5
      <4> QED
        BY <3>2, <4>1, <4>2, <4>3 DEF i
    <3>5. CASE ~(d.read < n \/ c >= 10)
      <4> DEFINE u == IF d.value = Invalid THEN Invalid ELSE Appended(d.value, 10, c)
      <4>1. dec[i].read = i /\ dec[i].value = u
        BY <2>1, <2>3, <3>5 DEF Reads
      <4>2. c \in 0..(10 - 1)
        BY <3>1, <3>5
      <4>3. ASSUME w # Invalid, IsGroup(w)
            PROVE  u # Invalid /\ IsGroup(u) /\ u[4] <= w[4]
        <5> DEFINE v == d.value
        <5>1. v # Invalid /\ IsGroup(v) /\ v[4] <= h.value[4] /\ v \in Words
          BY <2>5, <3>3, <4>3
        <5>2. v[4] \in Nat /\ h.value[4] \in Nat /\ w[4] = h.value[4] * 16 + c
              /\ h.value[4] * 16 + c < Radix
          <6>1. v[4] \in Nat
            BY <5>1, GroupIs DEF Words
          <6> QED
            BY <3>3, <4>3, <6>1
        <5>3. v[4] * 10 + c \in Nat /\ v[4] * 10 + c <= w[4] /\ v[4] * 10 + c < Radix
          <6>1. ASSUME NEW p \in Nat, NEW q \in Nat, NEW r \in 0..15, p <= q
                PROVE  p * 10 + r \in Nat /\ q * 16 + r \in Nat /\ p * 10 + r <= q * 16 + r
            <7>1. r \in Nat
              OBVIOUS
            <7> QED
              BY <6>1, <7>1
          <6>2. v[4] * 10 + c \in Nat /\ w[4] \in Nat /\ v[4] * 10 + c <= w[4]
            BY <3>1, <5>1, <5>2, <6>1
          <6>3. w[4] < Radix
            BY <5>2
          <6>4. ASSUME NEW p \in Nat, NEW q \in Nat, p <= q, q < Radix PROVE p < Radix
            BY <6>4, RadixIs
          <6>5. v[4] * 10 + c < Radix
            BY <6>2, <6>3, <6>4
          <6> QED
            BY <6>2, <6>5
        <5>4. u = Appended(v, 10, c)
          BY <5>1
        <5> HIDE DEF v, u
        <5>5. u = <<0, 0, 0, v[4] * 10 + c>>
          BY <1>1, <4>2, <5>1, <5>3, <5>4, AppendedGroup
        <5> QED
          BY <5>3, <5>5 DEF IsGroup, Invalid
      <4> HIDE DEF u
      <4>4. i <= i
        BY <2>1
      <4> QED
        BY <3>2, <4>1, <4>3, <4>4 DEF i
    <3> QED
      BY <3>4, <3>5
  <2> QED
    BY <2>6, <2>7
<1>8. Smaller(Len(chars))
  <2> HIDE DEF S
  <2>1. Len(chars) \in S
    BY <1>2, <1>6, <1>7, SetInduction
  <2> QED
    BY <1>2, <2>1 DEF S
<1>9. hex[Len(chars)].value = PythonInt(chars, 16)
  BY <1>1, <1>5, DigitsRead
<1>10. IsGroup(dec[Len(chars)].value) /\ dec[Len(chars)].value # Invalid
  BY <1>8, <1>9
<1>11. ReadSoFar(chars, 10, Len(chars), dec[Len(chars)])
  BY <1>2, <1>3
<1> QED
  BY <1>5, <1>10, <1>11 DEF FromChars, ReadSoFar

(***************************************************************************)
(* Writing digits.                                                         *)
(***************************************************************************)
LEMMA DivBase ==
  ASSUME NEW x \in Nat, NEW base \in Bases
  PROVE  /\ x \div base \in Nat /\ x \div base <= x /\ x % base \in 0..(base - 1)
         /\ (x \div base) * base + (x % base) = x
         /\ \A max \in Nat : x < base * max => x \div base < max
<1>1. CASE base = 2
  BY <1>1
<1>2. CASE base = 10
  BY <1>2
<1>3. CASE base = 16
  BY <1>3
<1> QED
  BY <1>1, <1>2, <1>3 DEF Bases

LEMMA QuotientTypes ==
  ASSUME NEW v \in Nat, NEW base \in Bases
  PROVE  \A j \in 0..16 : Quotients(v, base)[j] \in Nat /\ Quotients(v, base)[j] <= v
<1> DEFINE q == Quotients(v, base)
           S == {j \in Nat : j <= 16 => q[j] \in Nat /\ q[j] <= v}
<1>1. q[0] = v /\ \A j \in 1..16 : q[j] = q[j - 1] \div base
  BY QuotientsUnfold
<1> HIDE DEF q
<1>2. 0 \in S
  BY <1>1
<1>3. ASSUME NEW j \in Nat, j \in S PROVE j + 1 \in S
  <2> SUFFICES ASSUME j + 1 <= 16 PROVE q[j + 1] \in Nat /\ q[j + 1] <= v
    OBVIOUS
  <2>1. q[j] \in Nat /\ q[j] <= v
    BY <1>3
  <2>2. j + 1 \in 1..16 /\ (j + 1) - 1 = j
    OBVIOUS
  <2>3. q[j + 1] = q[j] \div base
    BY <1>1, <2>2
  <2>4. q[j] \div base \in Nat /\ q[j] \div base <= q[j]
    BY <2>1, DivBase
  <2> QED
    BY <2>1, <2>3, <2>4
<1>4. \A j \in Nat : j \in S
  <2> HIDE DEF S
  <2> QED
    BY <1>2, <1>3, SetInduction
<1> QED
  BY <1>4 DEF q

LEMMA QuotientShrinks ==
  ASSUME NEW v \in Nat, NEW base \in Bases, NEW j \in 1..16, NEW max \in Nat,
         Quotients(v, base)[j - 1] < base * max
  PROVE  Quotients(v, base)[j] < max
<1> DEFINE x == Quotients(v, base)[j - 1]
<1>1. j - 1 \in 0..16
  OBVIOUS
<1>2. x \in Nat /\ Quotients(v, base)[j] = x \div base
  BY <1>1, QuotientsUnfold, QuotientTypes
<1> HIDE DEF x
<1>3. x < base * max
  BY DEF x
<1> QED
  BY <1>2, <1>3, DivBase

\* Reading the digits that were written.
LEMMA DigitsReadBack ==
  ASSUME NEW v \in Nat, v < Radix * Radix, NEW base \in Bases, NEW k \in 1..16,
         Quotients(v, base)[k] = 0
  PROVE  /\ Digits(v, base, k) \in Chars /\ Len(Digits(v, base, k)) = k
         /\ Scanned(Digits(v, base, k), base) = [read |-> k, value |-> Groups(v)]
<1> DEFINE q == Quotients(v, base)
           chars == Digits(v, base, k)
           f == Scan(chars, base)
           S == {i \in Nat : i <= k => f[i] = [read |-> i, value |-> Groups(q[k - i])]}
<1>1. q[0] = v /\ \A j \in 1..16 : q[j] = q[j - 1] \div base
  BY QuotientsUnfold
<1>2. \A j \in 0..16 : q[j] \in Nat /\ q[j] <= v
  BY QuotientTypes
<1>3. chars = [i \in 1..k |-> q[k - i] % base]
  BY DEF Digits
<1> HIDE DEF q
<1>4. base \in Nat /\ base <= 16
  BY DEF Bases
<1>5. \A i \in 1..k : k - i \in 0..15 /\ q[k - i] % base \in 0..(base - 1)
  <2> SUFFICES ASSUME NEW i \in 1..k PROVE k - i \in 0..15 /\ q[k - i] % base \in 0..(base - 1)
    OBVIOUS
  <2>1. k - i \in 0..15 /\ k - i \in 0..16
    OBVIOUS
  <2>2. q[k - i] \in Nat
    BY <1>2, <2>1
  <2> QED
    BY <2>1, <2>2, DivBase
<1>6. chars \in Chars /\ Len(chars) = k
  <2>1. \A i \in 1..k : q[k - i] % base \in 0..16
    BY <1>4, <1>5
  <2>2. chars \in [1..k -> 0..16]
    BY <1>3, <2>1
  <2> HIDE DEF chars
  <2> QED
    BY <2>2 DEF Chars
<1>7. \A i \in 1..k : chars[i] = q[k - i] % base
  BY <1>3
<1> HIDE DEF chars
<1>8. /\ f[0] = [read |-> 0, value |-> Zero]
      /\ \A i \in 1..k : f[i] = Reads(f[i - 1], i, chars[i], base)
  BY <1>6, ScanUnfolds
<1> HIDE DEF f
<1>9. 0 \in S
  <2>1. q[k - 0] = 0
    BY DEF q
  <2>2. 0 \div Radix = 0 /\ 0 % Radix = 0
    BY SMT DEF Radix
  <2>3. Groups(0) = Zero
    BY <2>2 DEF Groups, Zero
  <2> QED
    BY <1>8, <2>1, <2>3
<1>10. ASSUME NEW n \in Nat, n \in S PROVE n + 1 \in S
  <2> SUFFICES ASSUME n + 1 <= k
               PROVE  f[n + 1] = [read |-> n + 1, value |-> Groups(q[k - (n + 1)])]
    OBVIOUS
  <2> DEFINE i == n + 1
             x == q[k - n]
             y == q[k - i]
             d == chars[i]
  <2>1. i \in 1..k /\ i - 1 = n /\ k - n \in 1..16 /\ (k - n) - 1 = k - i /\ k - i \in 0..16
    OBVIOUS
  <2>2. f[n] = [read |-> n, value |-> Groups(x)]
    BY <1>10
  <2>3. x = y \div base /\ x \in Nat /\ y \in Nat /\ y <= v
    BY <1>1, <1>2, <2>1
  <2>4. d = y % base /\ d \in 0..(base - 1)
    BY <1>5, <1>7, <2>1
  <2>5. f[i] = Reads(f[n], i, d, base)
    BY <1>8, <2>1
  <2> HIDE DEF i, x, y, d
  <2>6. x * base + d = y
    BY <2>3, <2>4, DivBase
  <2>7. y < Radix * Radix
    <3>1. Radix * Radix \in Nat
      BY RadixIs
    <3> QED
      BY <2>3, <3>1
  <2>8. Groups(x) \in Words /\ Appended(Groups(x), base, d) = Groups(y)
    BY <2>3, <2>4, <2>6, <2>7, AppendedGroups
  <2>9. Groups(x) # Invalid
    BY <2>8, WordIsValid
  <2>10. ~(n < i - 1 \/ d >= base)
    BY <1>4, <2>1, <2>4
  <2>11. f[i] = [read |-> i, value |-> Groups(y)]
    BY <2>2, <2>5, <2>8, <2>9, <2>10 DEF Reads
  <2> QED
    BY <2>11 DEF i, y
<1>11. f[k] = [read |-> k, value |-> Groups(q[k - k])]
  <2> HIDE DEF S
  <2>1. k \in S
    BY <1>9, <1>10, SetInduction
  <2> QED
    BY <2>1 DEF S
<1>12. q[k - k] = v
  BY <1>1
<1>13. Scanned(chars, base) = [read |-> k, value |-> Groups(v)]
  BY <1>6, <1>11, <1>12 DEF Scanned, f
<1> QED
  BY <1>6, <1>13 DEF chars

\* A group has sixteen binary and four hexadecimal digits.
LEMMA GroupDigits ==
  ASSUME NEW v \in Group16
  PROVE  Quotients(v, 2)[16] = 0 /\ Quotients(v, 16)[4] = 0
<1>1. 2 \in Bases /\ 16 \in Bases /\ v \in Nat /\ v < 65536
  BY GroupIs, SMT DEF Bases, Radix
<1>2. ASSUME NEW j \in 0..12, NEW max \in Nat, Quotients(v, 2)[j] < 16 * max
      PROVE  Quotients(v, 2)[j + 4] < max
  <2>1. /\ j + 1 \in 1..16 /\ j + 2 \in 1..16 /\ j + 3 \in 1..16 /\ j + 4 \in 1..16
        /\ (j + 1) - 1 = j /\ (j + 2) - 1 = j + 1 /\ (j + 3) - 1 = j + 2 /\ (j + 4) - 1 = j + 3
        /\ 8 * max \in Nat /\ 4 * max \in Nat /\ 2 * max \in Nat
        /\ 16 * max = 2 * (8 * max) /\ 8 * max = 2 * (4 * max) /\ 4 * max = 2 * (2 * max)
    OBVIOUS
  <2>2. Quotients(v, 2)[j + 1] < 8 * max
    BY <1>1, <1>2, <2>1, QuotientShrinks
  <2>3. Quotients(v, 2)[j + 2] < 4 * max
    BY <1>1, <2>1, <2>2, QuotientShrinks
  <2>4. Quotients(v, 2)[j + 3] < 2 * max
    BY <1>1, <2>1, <2>3, QuotientShrinks
  <2> QED
    BY <1>1, <2>1, <2>4, QuotientShrinks
<1>3. Quotients(v, 2)[16] < 1
  <2> DEFINE q(j) == Quotients(v, 2)[j]
  <2>1. q(0) < 16 * 4096
    BY <1>1, QuotientsUnfold
  <2>2. q(0 + 4) < 4096
    BY <1>2, <2>1
  <2>3. q(4 + 4) < 256
    <3>1. q(4) < 16 * 256
      BY <2>2
    <3> QED
      BY <1>2, <3>1
  <2>4. q(8 + 4) < 16
    <3>1. q(8) < 16 * 16
      BY <2>3
    <3> QED
      BY <1>2, <3>1
  <2>5. q(12 + 4) < 1
    <3>1. q(12) < 16 * 1
      BY <2>4
    <3> QED
      BY <1>2, <3>1
  <2> QED
    BY <2>5
<1>4. Quotients(v, 16)[4] < 1
  <2> DEFINE q(j) == Quotients(v, 16)[j]
  <2>1. ASSUME NEW j \in 1..4, NEW max \in Nat, q(j - 1) < 16 * max PROVE q(j) < max
    BY <1>1, <2>1, QuotientShrinks
  <2>2. q(0) = v
    BY QuotientsUnfold
  <2> HIDE DEF q
  <2>3. 16 * 4096 = 65536 /\ 16 * 256 = 4096 /\ 16 * 16 = 256 /\ 16 * 1 = 16
        /\ 1 - 1 = 0 /\ 2 - 1 = 1 /\ 3 - 1 = 2 /\ 4 - 1 = 3
    OBVIOUS
  <2>4. q(1) < 4096
    BY <1>1, <2>1, <2>2, <2>3
  <2>5. q(2) < 256
    BY <2>1, <2>3, <2>4
  <2>6. q(3) < 16
    BY <2>1, <2>3, <2>5
  <2>7. q(4) < 1
    BY <2>1, <2>3, <2>6
  <2> QED
    BY <2>7 DEF q
<1> QED
  BY <1>1, <1>3, <1>4, QuotientTypes

\* A number of 32 bits has at most ten decimal digits.
LEMMA BgpDigits ==
  ASSUME NEW v \in Nat, v < Radix * Radix
  PROVE  Quotients(v, 10)[10] = 0
<1>1. 10 \in Bases /\ v < 100000 * 100000
  BY SMT DEF Bases, Radix
<1>2. ASSUME NEW j \in 0..5, NEW max \in Nat, Quotients(v, 10)[j] < 100000 * max
      PROVE  Quotients(v, 10)[j + 5] < max
  <2> DEFINE q(n) == Quotients(v, 10)[n]
  <2>1. ASSUME NEW n \in 0..9, NEW bound \in Nat, q(n) < 10 * bound PROVE q(n + 1) < bound
    <3>1. n + 1 \in 1..16 /\ (n + 1) - 1 = n
      OBVIOUS
    <3> QED
      BY <1>1, <2>1, <3>1, QuotientShrinks
  <2>2. q(j) < 10 * (10000 * max)
    BY <1>2
  <2> HIDE DEF q
  <2>3. q(j + 1) < 10000 * max
    BY <2>1, <2>2
  <2>4. q(j + 2) < 1000 * max
    <3>1. q(j + 1) < 10 * (1000 * max) /\ (j + 1) + 1 = j + 2 /\ j + 1 \in 0..9 /\ 1000 * max \in Nat
      BY <2>3
    <3> QED
      BY <2>1, <3>1
  <2>5. q(j + 3) < 100 * max
    <3>1. q(j + 2) < 10 * (100 * max) /\ (j + 2) + 1 = j + 3 /\ j + 2 \in 0..9 /\ 100 * max \in Nat
      BY <2>4
    <3> QED
      BY <2>1, <3>1
  <2>6. q(j + 4) < 10 * max
    <3>1. q(j + 3) < 10 * (10 * max) /\ (j + 3) + 1 = j + 4 /\ j + 3 \in 0..9 /\ 10 * max \in Nat
      BY <2>5
    <3> QED
      BY <2>1, <3>1
  <2>7. q(j + 5) < max
    <3>1. (j + 4) + 1 = j + 5 /\ j + 4 \in 0..9
      OBVIOUS
    <3> QED
      BY <2>1, <2>6, <3>1
  <2> QED
    BY <2>7 DEF q
<1>3. Quotients(v, 10)[0] < 100000 * 100000
  BY <1>1, QuotientsUnfold
<1>4. Quotients(v, 10)[0 + 5] < 100000
  BY <1>2, <1>3
<1>5. Quotients(v, 10)[5 + 5] < 1
  <2>1. Quotients(v, 10)[5] < 100000 * 1
    BY <1>4
  <2> QED
    BY <1>2, <2>1
<1> QED
  BY <1>1, <1>5, QuotientTypes

\* What is written is the digits down to the first that is not 0.
LEMMA DigitsOfEnds ==
  ASSUME NEW v, NEW base, Quotients(v, base)[10] = 0
  PROVE  \E k \in 1..10 : Quotients(v, base)[k] = 0 /\ DigitsOf(v, base) = Digits(v, base, k)
<1> DEFINE q == Quotients(v, base)
           First(k) == q[k] = 0 /\ \A j \in 1..(k - 1) : q[j] # 0
           S == {n \in Nat : n <= 10 => \A j \in 1..n : q[j] # 0}
<1> HIDE DEF q
<1>1. \E k \in 1..10 : First(k)
  <2> SUFFICES ASSUME ~\E k \in 1..10 : First(k) PROVE FALSE
    OBVIOUS
  <2>1. 0 \in S
    OBVIOUS
  <2>2. ASSUME NEW n \in Nat, n \in S PROVE n + 1 \in S
    <3> SUFFICES ASSUME n + 1 <= 10, NEW j \in 1..(n + 1) PROVE q[j] # 0
      OBVIOUS
    <3>1. \A i \in 1..n : q[i] # 0
      BY <2>2
    <3>2. n + 1 \in 1..10 /\ (n + 1) - 1 = n
      OBVIOUS
    <3>3. q[n + 1] # 0
      BY <3>1, <3>2
    <3>4. j \in 1..n \/ j = n + 1
      OBVIOUS
    <3> QED
      BY <3>1, <3>3, <3>4
  <2>3. 10 \in S
    <3> HIDE DEF S
    <3> QED
      BY <2>1, <2>2, SetInduction
  <2>4. q[10] # 0
    BY <2>3
  <2> QED
    BY <2>4 DEF q
<1> DEFINE k == CHOOSE k \in 1..10 : First(k)
<1>2. k \in 1..10 /\ First(k)
  <2> HIDE DEF First
  <2> QED
    BY <1>1
<1>3. DigitsOf(v, base) = Digits(v, base, k)
  BY DEF DigitsOf, q
<1> HIDE DEF k
<1> QED
  BY <1>2, <1>3 DEF q

\* A number that is written, in decimal or hexadecimal, is read back.
LEMMA ReadBack ==
  ASSUME NEW v \in Nat, v < Radix * Radix, NEW base \in {10, 16}, base = 16 => v \in Group16
  PROVE  DigitsOf(v, base) \in Chars /\ PythonInt(DigitsOf(v, base), base) = Groups(v)
<1>1. base \in Bases
  BY DEF Bases
<1>2. Quotients(v, base)[10] = 0
  <2>1. CASE base = 10
    BY <2>1, BgpDigits
  <2>2. CASE base = 16
    <3> DEFINE q(j) == Quotients(v, 16)[j]
    <3>1. q(4) = 0
      BY <2>2, GroupDigits
    <3>2. \A j \in 5..10 : q(j) = q(j - 1) \div 16
      BY QuotientsUnfold
    <3> HIDE DEF q
    <3>3. 0 \div 16 = 0
      OBVIOUS
    <3>4. q(5) = 0 /\ q(6) = 0
      BY <3>1, <3>2, <3>3
    <3>5. q(7) = 0 /\ q(8) = 0
      BY <3>2, <3>3, <3>4
    <3>6. q(9) = 0 /\ q(10) = 0
      BY <3>2, <3>3, <3>5
    <3> QED
      BY <2>2, <3>6 DEF q
  <2> QED
    BY <2>1, <2>2
<1>3. PICK k \in 1..10 : Quotients(v, base)[k] = 0 /\ DigitsOf(v, base) = Digits(v, base, k)
  BY <1>2, DigitsOfEnds
<1> DEFINE chars == DigitsOf(v, base)
<1>4. /\ chars \in Chars /\ Len(chars) = k
      /\ Scanned(chars, base) = [read |-> k, value |-> Groups(v)]
  <2>1. k \in 1..16
    OBVIOUS
  <2>2. /\ Digits(v, base, k) \in Chars /\ Len(Digits(v, base, k)) = k
        /\ Scanned(Digits(v, base, k), base) = [read |-> k, value |-> Groups(v)]
    BY <1>1, <1>3, <2>1, DigitsReadBack
  <2> QED
    BY <1>3, <2>2, Zenon
<1> HIDE DEF chars
<1>5. chars # <<>> /\ ~(Scanned(chars, base).read < Len(chars))
  BY <1>4
<1>6. PythonInt(chars, base) = Groups(v)
  BY <1>4, <1>5 DEF PythonInt
<1> QED
  BY <1>4, <1>6 DEF chars

\* Or-ing a group with 0.
LEMMA OrWithZero ==
  ASSUME NEW x \in Group16
  PROVE  OrGroup(x, 0) = x /\ OrGroup(0, x) = x
<1>1. 2 \in Bases /\ x \in Nat /\ x < Radix /\ x < Radix * Radix /\ 0 \in Nat
  BY GroupIs, SMT DEF Bases, Radix
<1> DEFINE p == Digits(x, 2, 16)
           z == Digits(0, 2, 16)
<1>2. \A i \in 1..16 : z[i] = 0
  <2> SUFFICES ASSUME NEW i \in 1..16 PROVE z[i] = 0
    OBVIOUS
  <2>1. 16 - i \in 0..16
    OBVIOUS
  <2>2. Quotients(0, 2)[16 - i] = 0
    BY <1>1, <2>1, QuotientTypes
  <2> QED
    BY <2>2 DEF Digits
<1>3. p = [i \in 1..16 |-> p[i]] /\ \A i \in 1..16 : p[i] \in {0, 1}
  <2>1. p = [i \in 1..16 |-> Quotients(x, 2)[16 - i] % 2]
    BY DEF Digits
  <2>2. ASSUME NEW i \in 1..16 PROVE p[i] \in {0, 1}
    <3>1. 16 - i \in 0..16
      OBVIOUS
    <3>2. Quotients(x, 2)[16 - i] \in Nat
      BY <1>1, <3>1, QuotientTypes
    <3>3. Quotients(x, 2)[16 - i] % 2 \in 0..(2 - 1)
      BY <1>1, <3>2, DivBase
    <3> QED
      BY <2>1, <3>3
  <2> QED
    BY <2>1, <2>2
<1>4. Scanned(p, 2).value = Groups(x)
  <2>1. Quotients(x, 2)[16] = 0
    BY GroupDigits
  <2> QED
    BY <1>1, <2>1, DigitsReadBack
<1>5. Groups(x)[4] = x
  BY <1>1, Small DEF Groups
<1>6. OrGroup(x, 0) = Scanned([i \in 1..16 |-> IF p[i] = 1 \/ z[i] = 1 THEN 1 ELSE 0], 2).value[4]
  BY DEF OrGroup
<1>7. OrGroup(0, x) = Scanned([i \in 1..16 |-> IF z[i] = 1 \/ p[i] = 1 THEN 1 ELSE 0], 2).value[4]
  BY DEF OrGroup
<1> HIDE DEF p, z
<1>8. /\ [i \in 1..16 |-> IF p[i] = 1 \/ z[i] = 1 THEN 1 ELSE 0] = p
      /\ [i \in 1..16 |-> IF z[i] = 1 \/ p[i] = 1 THEN 1 ELSE 0] = p
  BY <1>2, <1>3
<1> QED
  BY <1>4, <1>5, <1>6, <1>7, <1>8

(***************************************************************************)
(* Texts.                                                                  *)
(***************************************************************************)
AsnTexts == Seq(Chars) \ {<<>>}

LEMMA TextTypes ==
  ASSUME NEW t \in AsnTexts
  PROVE  Len(t) \in Nat /\ Len(t) > 0 /\ \A i \in 1..Len(t) : t[i] \in Chars
<1>1. t \in Seq(Chars) /\ t # <<>>
  BY DEF AsnTexts
<1> QED
  BY <1>1

LEMMA OrGroupsWithZero ==
  ASSUME NEW n \in Words
  PROVE  OrGroups(Zero, n) = n
<1>1. \A i \in 1..4 : n[i] \in Group16
  BY DEF Words
<1>2. \A i \in 1..4 : OrGroup(0, n[i]) = n[i]
  BY <1>1, OrWithZero
<1>3. \A i \in 1..4 : Zero[i] = 0
  BY DEF Zero
<1>4. n = [i \in 1..4 |-> n[i]]
  BY DEF Words
<1> QED
  BY <1>2, <1>3, <1>4 DEF OrGroups

LEMMA OrGroupsIsValid ==
  ASSUME NEW m, NEW n
  PROVE  OrGroups(m, n) # Invalid /\ OrGroups(m, n)[1] = OrGroup(m[1], n[1])
<1>1. DOMAIN OrGroups(m, n) = 1..4 /\ OrGroups(m, n)[1] = OrGroup(m[1], n[1])
  BY DEF OrGroups
<1>2. 1 \in 1..4 /\ 1 \notin DOMAIN Invalid
  BY DEF Invalid
<1> QED
  BY <1>1, <1>2

\* Four groups, one by one.
LEMMA WordOf ==
  ASSUME NEW a \in Group16, NEW b \in Group16, NEW c \in Group16, NEW d \in Group16
  PROVE  <<a, b, c, d>> \in Words /\ <<a, b, c, d>> # Invalid
<1>1. <<a, b, c, d>> \in Words
  BY DEF Words
<1> QED
  BY <1>1, WordIsValid

\* Is the text a decimal number or three hexadecimal groups?
IsDecimal(t) ==
  Len(t) = 1 /\ PythonInt(t[1], 10) # Invalid /\ IsBgp(PythonInt(t[1], 10))
IsGroups(t) ==
  Len(t) = 3 /\ \A i \in 1..3 : PythonInt(t[i], 16) # Invalid /\ IsGroup(PythonInt(t[i], 16))

\* Both programs read decimal numbers alike.
LEMMA DecimalRead ==
  ASSUME NEW t \in AsnTexts, IsDecimal(t)
  PROVE  /\ AsnInit(t) = PythonInt(t[1], 10) /\ AsnParse(t) = PythonInt(t[1], 10)
         /\ AsnInit(t) \in Words /\ AsnInit(t)[1] = 0
<1> DEFINE n == PythonInt(t[1], 10)
           r == FromChars(t[1], 10)
<1>1. t[1] \in Chars /\ 10 \in Bases
  BY TextTypes DEF IsDecimal, Bases
<1>2. n \in Words /\ n[1] = 0 /\ r.read = Len(t[1]) /\ r.value = n
  BY <1>1, DigitsRead DEF IsDecimal, IsBgp
<1>3. AsnInit(t) = n
  BY DEF AsnInit, IsDecimal
<1>4. AsnParse(t) = n
  <2>1. Len(t) = 1 /\ r.read = Len(t[1]) /\ r.value[1] = 0
    BY <1>2 DEF IsDecimal
  <2>2. AsnParse(t) = r.value
    BY <2>1 DEF AsnParse
  <2> QED
    BY <1>2, <2>2
<1> QED
  BY <1>2, <1>3, <1>4

\* Three groups, Asn::Parse ors with what the attempt to read a decimal number
\* has left.
LEMMA GroupsRead ==
  ASSUME NEW t \in AsnTexts, IsGroups(t)
  PROVE  /\ AsnInit(t) = <<0, PythonInt(t[1], 16)[4], PythonInt(t[2], 16)[4], PythonInt(t[3], 16)[4]>>
         /\ AsnInit(t) \in Words /\ AsnInit(t)[1] = 0
         /\ AsnParse(t) = OrGroups(FromChars(t[1], 10).value, AsnInit(t))
<1> DEFINE g(i) == PythonInt(t[i], 16)
           n == <<0, g(1)[4], g(2)[4], g(3)[4]>>
<1>1. 16 \in Bases /\ Len(t) = 3 /\ \A i \in 1..3 : t[i] \in Chars
  BY TextTypes DEF IsGroups, Bases
<1>2. \A i \in 1..3 : g(i) # Invalid /\ IsGroup(g(i))
  BY DEF IsGroups
<1>3. \A i \in 1..3 : /\ t[i] # <<>> /\ g(i) \in Words
                       /\ FromChars(t[i], 16).read = Len(t[i]) /\ FromChars(t[i], 16).value = g(i)
  BY <1>1, <1>2, DigitsRead
<1>4. AsnInit(t) = n
  BY <1>1, <1>2 DEF AsnInit
<1>5. n \in Words
  <2>1. \A i \in 1..3 : g(i)[4] \in Group16
    BY <1>3 DEF Words
  <2>2. 0 \in Group16
    BY GroupIs, RadixIs
  <2> HIDE DEF g
  <2> QED
    BY <2>1, <2>2, WordOf
<1>6. \A i \in 1..3 : IsHexGroup(t[i])
  BY <1>2, <1>3 DEF IsHexGroup
<1>7. AsnParse(t) = OrGroups(FromChars(t[1], 10).value, n)
  <2> DEFINE group(i) == IF i \in DOMAIN t THEN FromChars(t[i], 16).value[4] ELSE 0
  <2>1. DOMAIN t = 1..3
    BY <1>1 DEF AsnTexts
  <2>2. group(1) = g(1)[4] /\ group(2) = g(2)[4] /\ group(3) = g(3)[4]
    BY <1>3, <2>1
  <2>3. Len(t) # 1 /\ Len(t) \in {2, 3} /\ \A i \in DOMAIN t : IsHexGroup(t[i])
    BY <1>1, <1>6, <2>1
  <2>4. AsnParse(t) = OrGroups(FromChars(t[1], 10).value, <<0, group(1), group(2), group(3)>>)
    BY <2>3 DEF AsnParse
  <2> QED
    BY <2>2, <2>4
<1> QED
  BY <1>4, <1>5, <1>7

\* scion2ip takes no others.
LEMMA TextsTaken ==
  ASSUME NEW t \in AsnTexts, AsnInit(t) # Invalid
  PROVE  IsDecimal(t) \/ IsGroups(t)
BY DEF AsnInit, IsDecimal, IsGroups

\* What Asn::Parse reads then has 48 bits.
LEMMA AsnHas48Bits ==
  ASSUME NEW t \in AsnTexts, AsnInit(t) # Invalid
  PROVE  AsnParse(t) # Invalid /\ AsnParse(t)[1] = 0
<1>1. CASE IsDecimal(t)
  BY <1>1, DecimalRead, WordIsValid
<1>2. CASE IsGroups(t)
  <2>1. t[1] \in Chars /\ PythonInt(t[1], 16) # Invalid /\ IsGroup(PythonInt(t[1], 16))
    BY <1>2, TextTypes DEF IsGroups
  <2>2. FromChars(t[1], 10).value[1] = 0
    BY <2>1, DecimalIsGroup DEF IsGroup
  <2>3. 0 \in Group16
    BY GroupIs, RadixIs
  <2>4. OrGroup(0, 0) = 0
    BY <2>3, OrWithZero
  <2>5. AsnParse(t) = OrGroups(FromChars(t[1], 10).value, AsnInit(t)) /\ AsnInit(t)[1] = 0
    BY <1>2, GroupsRead
  <2> QED
    BY <2>2, <2>4, <2>5, OrGroupsIsValid
<1> QED
  BY <1>1, <1>2, TextsTaken

\* Documented texts are read (Asn::Parse, ASN.__init__).
LEMMA DocumentedTextRead ==
  ASSUME NEW t \in AsnTexts, Documented(t)
  PROVE  /\ AsnInit(t) # Invalid /\ AsnParse(t) # Invalid
         /\ ~StartsDecimal(t) => AsnParse(t) = AsnInit(t)
<1>1. CASE Len(t) = 1
  <2>1. IsDecimal(t)
    BY <1>1 DEF Documented, IsDecimal
  <2> QED
    BY <2>1, DecimalRead, WordIsValid
<1>2. CASE Len(t) = 3
  <2>1. \A i \in 1..3 : t[i] \in Chars /\ Len(t[i]) \in 1..4 /\ PythonInt(t[i], 16) # Invalid
    BY <1>2, TextTypes DEF Documented
  <2>2. IsGroups(t)
    BY <1>2, <2>1, ShortIsGroup DEF IsGroups
  <2>3. AsnInit(t) \in Words /\ AsnParse(t) = OrGroups(FromChars(t[1], 10).value, AsnInit(t))
    BY <2>2, GroupsRead
  <2>4. ~StartsDecimal(t) => FromChars(t[1], 10).value = Zero
    BY <1>2 DEF StartsDecimal
  <2>5. ~StartsDecimal(t) => AsnParse(t) = AsnInit(t)
    BY <2>3, <2>4, OrGroupsWithZero
  <2> QED
    BY <2>3, <2>5, WordIsValid, OrGroupsIsValid
<1> QED
  BY <1>1, <1>2 DEF Documented

\* Numbers are read as they were written (operator<<, ASN.__str__).
LEMMA NumberReadBack ==
  ASSUME NEW n \in Words, n[1] = 0
  PROVE  /\ Printed(n) \in AsnTexts /\ AsnInit(Printed(n)) = n
         /\ ~StartsDecimal(Printed(n)) => AsnParse(Printed(n)) = n
<1> DEFINE t == Printed(n)
<1>1. \A i \in 1..4 : n[i] \in Group16 /\ n[i] \in Nat /\ n[i] < Radix
  BY GroupIs DEF Words
<1>2. n = <<n[1], n[2], n[3], n[4]>>
  BY DEF Words
<1>3. CASE IsBgp(n)
  <2> DEFINE v == n[3] * Radix + n[4]
  <2>1. t = <<DigitsOf(v, 10)>>
    BY <1>3 DEF Printed
  <2>2. v \in Nat /\ v < Radix * Radix /\ v \div Radix = n[3] /\ v % Radix = n[4]
    <3>1. v \in Nat /\ v < Radix * Radix
      BY <1>1, SMT DEF Radix
    <3>2. v \div Radix = n[3] /\ v % Radix = n[4]
      BY <1>1, DivMod
    <3> QED
      BY <3>1, <3>2
  <2>3. Groups(v) = n
    <3> HIDE DEF v
    <3> QED
      BY <1>2, <1>3, <2>2 DEF Groups, IsBgp
  <2> HIDE DEF v
  <2>4. DigitsOf(v, 10) \in Chars /\ PythonInt(DigitsOf(v, 10), 10) = n
    BY <2>2, <2>3, ReadBack
  <2>5. t \in AsnTexts /\ IsDecimal(t) /\ PythonInt(t[1], 10) = n
    <3>1. t[1] = DigitsOf(v, 10) /\ Len(t) = 1 /\ t \in AsnTexts
      BY <2>1, <2>4 DEF AsnTexts
    <3> QED
      BY <1>3, <2>4, <3>1, WordIsValid DEF IsDecimal
  <2> QED
    BY <2>5, DecimalRead
<1>4. CASE ~IsBgp(n)
  <2>1. t = [i \in 1..3 |-> DigitsOf(n[i + 1], 16)]
    BY <1>4 DEF Printed
  <2>2. \A i \in 1..3 : /\ DigitsOf(n[i + 1], 16) \in Chars
                         /\ PythonInt(DigitsOf(n[i + 1], 16), 16) = <<0, 0, 0, n[i + 1]>>
    <3> SUFFICES ASSUME NEW i \in 1..3
                 PROVE  /\ DigitsOf(n[i + 1], 16) \in Chars
                        /\ PythonInt(DigitsOf(n[i + 1], 16), 16) = <<0, 0, 0, n[i + 1]>>
      OBVIOUS
    <3> DEFINE x == n[i + 1]
    <3>1. x \in Group16 /\ x \in Nat /\ x < Radix
      BY <1>1
    <3> HIDE DEF x
    <3>2. x < Radix * Radix
      BY <3>1, SMT DEF Radix
    <3>3. Groups(x) = <<0, 0, 0, x>>
      BY <3>1, Small DEF Groups
    <3>4. DigitsOf(x, 16) \in Chars /\ PythonInt(DigitsOf(x, 16), 16) = <<0, 0, 0, x>>
      BY <3>1, <3>2, <3>3, ReadBack
    <3> QED
      BY <3>4 DEF x
  <2>3. t \in AsnTexts /\ Len(t) = 3 /\ \A i \in 1..3 : PythonInt(t[i], 16) = <<0, 0, 0, n[i + 1]>>
    BY <2>1, <2>2 DEF AsnTexts
  <2> HIDE DEF t
  <2>4. \A i \in 1..3 : <<0, 0, 0, n[i + 1]>> # Invalid /\ IsGroup(<<0, 0, 0, n[i + 1]>>)
    BY DEF Invalid, IsGroup
  <2>5. IsGroups(t)
    BY <2>3, <2>4 DEF IsGroups
  <2>6. PythonInt(t[1], 16)[4] = n[2] /\ PythonInt(t[2], 16)[4] = n[3] /\ PythonInt(t[3], 16)[4] = n[4]
    BY <2>3
  <2>7. AsnInit(t) = n
    BY <1>2, <2>3, <2>5, <2>6, GroupsRead
  <2>8. AsnParse(t) = OrGroups(FromChars(t[1], 10).value, n)
    BY <2>3, <2>5, <2>7, GroupsRead
  <2>9. ~StartsDecimal(t) => FromChars(t[1], 10).value = Zero
    BY <2>3 DEF StartsDecimal
  <2> QED
    BY <2>3, <2>7, <2>8, <2>9, OrGroupsWithZero DEF t
<1> QED
  BY <1>3, <1>4

----------------------------------------------------------------------------
\* Where a text comes from.
TextInv ==
  \/ text = NoText /\ isd = NoText /\ number = Invalid
  \/ text \in Texts /\ isd \in IsdTexts /\ number = Invalid
  \/ isd = NoText /\ \E n \in Numbers : text = Printed(n) /\ number = n

\* The inductive invariant: texts are written by users, or by the programs for
\* their numbers (loadConfig, dumpConfig, ip2s).
THEOREM TextsWritten == TextSpec => []TextInv
<1>1. TextInit => TextInv
  BY DEF TextInit, TextInv
<1>2. TextInv /\ [TextNext]_textVars => TextInv'
  <2> SUFFICES ASSUME TextInv, [TextNext]_textVars PROVE TextInv'
    OBVIOUS
  <2>1. CASE UNCHANGED textVars
    BY <2>1 DEF TextInv, textVars
  <2>2. ASSUME NEW t \in Texts, NEW i \in IsdTexts, Write(t, i) PROVE TextInv'
    BY <2>2 DEF TextInv, Write
  <2>3. ASSUME text = NoText, NEW n \in Numbers, WriteNumber(n) PROVE TextInv'
    <3>1. isd = NoText \/ text \in Texts
      BY DEF TextInv
    <3>2. isd = NoText
      BY <2>3, <3>1, TextAssumption
    <3> QED
      BY <2>3, <3>2 DEF TextInv, WriteNumber
  <2> QED
    BY <2>1, <2>2, <2>3 DEF TextNext
<1> QED
  BY <1>1, <1>2, PTL DEF TextSpec

\* Every text there is, is a text of an AS number.
LEMMA TextIsAsnText ==
  ASSUME TextInv, text # NoText
  PROVE  text \in AsnTexts
<1>1. CASE text \in Texts
  BY <1>1, TextAssumption DEF AsnTexts, Chars
<1>2. CASE \E n \in Numbers : text = Printed(n)
  <2>1. PICK n \in Numbers : text = Printed(n)
    BY <1>2
  <2>2. n \in Words /\ n[1] = 0
    BY TextAssumption DEF Words
  <2> QED
    BY <2>1, <2>2, NumberReadBack
<1> QED
  BY <1>1, <1>2 DEF TextInv

\* Documented texts of any length are read, by both programs as the same
\* number (Asn::Parse, ASN.__init__).
THEOREM DocumentedTextsRead == TextSpec => []DocumentedRead
<1>1. TextInv => DocumentedRead
  BY TextIsAsnText, DocumentedTextRead DEF DocumentedRead
<1> QED
  BY <1>1, TextsWritten, PTL

\* Every text scion2ip takes for an AS, the path manager takes too, and for the
\* same ISD (IsdAsn::Parse, ASN.__init__).
THEOREM ConverterTextsTaken == TextSpec => []ConverterTextsAccepted
<1>1. TextInv => ConverterTextsAccepted
  <2> DEFINE i == PythonInt(isd, 10)
  <2> SUFFICES ASSUME TextInv, text # NoText, isd # NoText, AsnInit(text) # Invalid,
                      i # Invalid, IsGroup(i)
               PROVE  IsdAsnParse(isd, text) # Invalid /\ IsdAsnParse(isd, text)[1] = i[4]
    BY DEF ConverterTextsAccepted
  <2>1. isd \in Chars /\ 10 \in Bases
    BY TextAssumption DEF TextInv, Chars, Bases
  <2>2. AsnParse(text) # Invalid /\ AsnParse(text)[1] = 0
    BY TextIsAsnText, AsnHas48Bits
  <2>3. IsdParse(isd) = i /\ i \in Words
    <3> DEFINE r == FromChars(isd, 10)
    <3>1. isd # <<>> /\ i \in Words /\ r.read = Len(isd) /\ r.value = i
      BY <2>1, DigitsRead
    <3>2. Len(isd) \in Nat /\ Len(isd) # 0
      BY <2>1, <3>1 DEF Chars
    <3>3. ~(r.read = 0 \/ r.read < Len(isd) \/ ~IsGroup(r.value))
      BY <3>1, <3>2
    <3>4. IsdParse(isd) = r.value
      BY <3>3 DEF IsdParse
    <3> QED
      BY <3>1, <3>4
  <2>4. i[4] \in Group16
    BY <2>3 DEF Words
  <2> HIDE DEF i
  <2>5. IsdAsnParse(isd, text) = OrGroups(<<i[4], 0, 0, 0>>, AsnParse(text))
    BY <2>2, <2>3 DEF IsdAsnParse
  <2>6. OrGroup(i[4], 0) = i[4]
    BY <2>4, OrWithZero
  <2> QED
    BY <2>2, <2>5, <2>6, OrGroupsIsValid
<1> QED
  BY <1>1, TextsWritten, PTL

\* Every number that is written is read back (operator<<, ASN.__str__,
\* Asn::Parse, ASN.__init__).
THEOREM NumbersReadBack == TextSpec => []PrintedReadBack
<1>1. TextInv => PrintedReadBack
  <2> SUFFICES ASSUME TextInv, number # Invalid
               PROVE  /\ AsnInit(text) = number
                      /\ ~StartsDecimal(text) => AsnParse(text) = number
    BY DEF PrintedReadBack
  <2>1. PICK n \in Numbers : text = Printed(n) /\ number = n
    BY DEF TextInv
  <2>2. n \in Words /\ n[1] = 0
    BY TextAssumption DEF Words
  <2> QED
    BY <2>1, <2>2, NumberReadBack
<1> QED
  BY <1>1, TextsWritten, PTL
=============================================================================
