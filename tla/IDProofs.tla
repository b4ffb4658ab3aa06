------------------------------ MODULE IDProofs ------------------------------
(***************************************************************************)
(* Reading and writing names, for any width of the integers: an integer    *)
(* has one text, uintField reads that and no other, and the driver returns *)
(* the name it was given.  What a recursive function computes is shown by  *)
(* taking a least counterexample (Least).                                  *)
(***************************************************************************)
EXTENDS IDInvariants, WellFoundedInduction, TLAPS

-----------------------------------------------------------------------------
(* Induction over the natural numbers.                                     *)

\* A set of natural numbers that has an element has a least one.
LEMMA Least ==
    ASSUME NEW T, T \subseteq Nat, T # {}
    PROVE  \E n \in T : \A m \in T : n <= m
<1>1. PICK n \in T : \A m \in T : <<m, n>> \notin OpToRel(<, Nat)
  BY NatLessThanWellFounded, WFMin
<1>2. \A m \in T : ~(m < n)
  BY <1>1 DEF OpToRel
<1> QED BY <1>2

-----------------------------------------------------------------------------
(* Reading digits.                                                         *)

\* The function that Value reads its result from.
IsPrefixes(v, s) ==
    v = [n \in 0..Len(s) |-> IF n = 0 THEN 0 ELSE 10 * v[n - 1] + s[n]]
Prefixes(s) == CHOOSE v : IsPrefixes(v, s)

LEMMA ValueIsPrefix ==
    ASSUME NEW s
    PROVE  Value(s) = Prefixes(s)[Len(s)]
BY DEF Value, Prefixes, IsPrefixes

\* The recursion is well defined.
LEMMA PrefixesExist ==
    ASSUME NEW s \in Seq(Nat)
    PROVE  \E v : IsPrefixes(v, s)
<1> DEFINE Part(v, k) ==
        v = [n \in 0..k |-> IF n = 0 THEN 0 ELSE 10 * v[n - 1] + s[n]]
           Bad == {k \in Nat : ~ \E v : Part(v, k)}
<1>1. ASSUME Bad # {} PROVE FALSE
  <2>1. PICK k \in Bad : \A m \in Bad : k <= m
    BY <1>1, Least
  <2>2. CASE k = 0
    <3>1. Part([n \in 0..0 |-> 0], 0)
      OBVIOUS
    <3> QED BY <2>1, <2>2, <3>1
  <2>3. CASE k > 0
    <3>1. k - 1 \in Nat /\ k - 1 \notin Bad
      <4>1. k \in Nat /\ Bad \subseteq Nat
        OBVIOUS
      <4> HIDE DEF Bad
      <4> QED BY <2>1, <2>3, <4>1
    <3>2. PICK v : Part(v, k - 1)
      BY <3>1
    <3> DEFINE w == [n \in 0..k |-> IF n < k THEN v[n]
                                    ELSE 10 * v[k - 1] + s[k]]
    <3>3. \A n \in 0..(k - 1) :
             v[n] = IF n = 0 THEN 0 ELSE 10 * v[n - 1] + s[n]
      <4> HIDE DEF w
      <4> QED BY <3>2
    <3>4. ASSUME NEW n \in 0..k
          PROVE  w[n] = IF n = 0 THEN 0 ELSE 10 * w[n - 1] + s[n]
      <4>1. CASE n < k
        BY <3>3, <4>1
      <4>2. CASE n = k
        BY <2>3, <4>2
      <4> QED BY <4>1, <4>2
    <3>5. Part(w, k)
      BY <3>4
    <3> QED BY <2>1, <3>5
  <2> QED BY <2>1, <2>2, <2>3
<1>2. Len(s) \in Nat /\ Len(s) \notin Bad
  BY <1>1
<1> QED BY <1>2 DEF IsPrefixes

LEMMA PrefixesAre ==
    ASSUME NEW s \in Seq(Nat)
    PROVE  \A n \in 0..Len(s) :
              /\ Prefixes(s)[n] \in Nat
              /\ n = 0 => Prefixes(s)[n] = 0
              /\ n > 0 => Prefixes(s)[n] = 10 * Prefixes(s)[n - 1] + s[n]
<1> DEFINE v == Prefixes(s)
           Bad == {n \in 0..Len(s) : v[n] \notin Nat}
<1>1. v = [n \in 0..Len(s) |-> IF n = 0 THEN 0 ELSE 10 * v[n - 1] + s[n]]
  BY PrefixesExist DEF Prefixes, IsPrefixes
<1> HIDE DEF v
<1>2. \A n \in 0..Len(s) : v[n] = IF n = 0 THEN 0 ELSE 10 * v[n - 1] + s[n]
  BY <1>1
<1>3. ASSUME Bad # {} PROVE FALSE
  <2>0. Bad \subseteq Nat
    OBVIOUS
  <2>1. PICK n \in Bad : \A m \in Bad : n <= m
    <3> HIDE DEF Bad
    <3> QED BY <1>3, <2>0, Least
  <2>2. n > 0
    BY <1>2, <2>1
  <2>3. n - 1 \in 0..Len(s) /\ n - 1 \notin Bad
    BY <2>1, <2>2
  <2>4. v[n - 1] \in Nat /\ s[n] \in Nat
    BY <2>1, <2>2, <2>3
  <2>5. v[n] = 10 * v[n - 1] + s[n]
    BY <1>2, <2>1, <2>2
  <2> QED BY <2>1, <2>4, <2>5
<1> QED BY <1>2, <1>3 DEF v

LEMMA ValueTyped ==
    ASSUME NEW s \in Seq(Nat)
    PROVE  Value(s) \in Nat
<1>1. Len(s) \in 0..Len(s)
  OBVIOUS
<1> QED BY <1>1, ValueIsPrefix, PrefixesAre

\* Horner's rule, as uintField's caller sees it: no digits, then one by one.
LEMMA ValueOfAppend ==
    ASSUME NEW s \in Seq(Nat), NEW d \in Nat
    PROVE  Value(Append(s, d)) = 10 * Value(s) + d
<1> DEFINE t == Append(s, d)
           v == Prefixes(s)
           w == Prefixes(t)
           Bad == {n \in 0..Len(s) : w[n] # v[n]}
<1>1. /\ t \in Seq(Nat) /\ Len(t) = Len(s) + 1 /\ t[Len(s) + 1] = d
      /\ \A n \in 1..Len(s) : t[n] = s[n]
  OBVIOUS
<1>2. /\ Len(s) \in Nat
      /\ v[0] = 0 /\ \A n \in 1..Len(s) : v[n] = 10 * v[n - 1] + s[n]
      /\ v[Len(s)] \in Nat
  BY PrefixesAre
<1>3. w[0] = 0 /\ \A n \in 1..Len(t) : w[n] = 10 * w[n - 1] + t[n]
  <2>1. \A n \in 0..Len(t) :
           /\ n = 0 => w[n] = 0
           /\ n > 0 => w[n] = 10 * w[n - 1] + t[n]
    <3>1. t \in Seq(Nat)
      BY <1>1
    <3> HIDE DEF t
    <3> QED BY <3>1, PrefixesAre
  <2>2. Len(t) \in Nat
    BY <1>1
  <2> HIDE DEF t, w
  <2> QED BY <2>1, <2>2
<1> HIDE DEF t, v, w
<1>4. ASSUME Bad # {} PROVE FALSE
  <2>0. Bad \subseteq Nat
    OBVIOUS
  <2>1. PICK n \in Bad : \A m \in Bad : n <= m
    <3> HIDE DEF Bad
    <3> QED BY <1>4, <2>0, Least
  <2>2. n > 0
    BY <1>2, <1>3, <2>1
  <2>3. n - 1 \in 0..Len(s) /\ n - 1 \notin Bad
    BY <2>1, <2>2
  <2>4. w[n - 1] = v[n - 1] /\ n \in 1..Len(s) /\ n \in 1..Len(t)
    BY <1>1, <2>1, <2>2, <2>3
  <2> QED BY <1>1, <1>2, <1>3, <2>1, <2>4
<1>5. w[Len(s)] = v[Len(s)]
  BY <1>2, <1>4
<1>6. w[Len(s) + 1] = 10 * w[Len(s)] + d
  BY <1>1, <1>2, <1>3
<1>7. Value(s) = v[Len(s)] /\ Value(t) = w[Len(t)]
  BY ValueIsPrefix DEF v, w
<1> QED BY <1>1, <1>2, <1>5, <1>6, <1>7 DEF t

\* One digit stands for itself.
LEMMA ValueOfDigit ==
    ASSUME NEW d \in Nat
    PROVE  Value(<<d>>) = d
<1>1. <<>> \in Seq(Nat) /\ Append(<<>>, d) = <<d>> /\ Len(<<>>) = 0
  OBVIOUS
<1>2. Value(<<>>) = 0
  <2>1. Value(<<>>) = Prefixes(<<>>)[0]
    BY <1>1, ValueIsPrefix
  <2>2. 0 \in 0..Len(<<>>)
    BY <1>1
  <2> QED BY <1>1, <2>1, <2>2, PrefixesAre
<1>3. Value(Append(<<>>, d)) = 10 * Value(<<>>) + d
  BY <1>1, ValueOfAppend
<1> QED BY <1>1, <1>2, <1>3

-----------------------------------------------------------------------------
(* Writing digits.                                                         *)

IsDecimal(f) ==
    f = [n \in 0..MaxUint64 |->
            IF n < 10 THEN <<n>> ELSE Append(f[n \div 10], n % 10)]

LEMMA Division ==
    ASSUME NEW n \in Nat
    PROVE  /\ n % 10 \in 0..9 /\ n \div 10 \in Nat
           /\ n = 10 * (n \div 10) + (n % 10)
           /\ n >= 10 => n \div 10 >= 1 /\ n \div 10 < n
OBVIOUS

\* The recursion is well defined.
LEMMA DecimalExists == \E f : IsDecimal(f)
<1> DEFINE Part(f, k) ==
        f = [n \in 0..k |->
                IF n < 10 THEN <<n>> ELSE Append(f[n \div 10], n % 10)]
           Bad == {k \in Nat : ~ \E f : Part(f, k)}
<1>1. ASSUME Bad # {} PROVE FALSE
  <2>1. PICK k \in Bad : \A m \in Bad : k <= m
    BY <1>1, Least
  <2>2. CASE k = 0
    <3>1. Part([n \in 0..0 |-> <<n>>], 0)
      OBVIOUS
    <3> QED BY <2>1, <2>2, <3>1
  <2>3. CASE k > 0
    <3>1. k - 1 \in Nat /\ k - 1 \notin Bad
      <4>1. k \in Nat /\ Bad \subseteq Nat
        OBVIOUS
      <4> HIDE DEF Bad
      <4> QED BY <2>1, <2>3, <4>1
    <3>2. PICK f : Part(f, k - 1)
      BY <3>1
    <3> DEFINE g == [n \in 0..k |-> IF n < k THEN f[n]
                                    ELSE IF k < 10 THEN <<k>>
                                    ELSE Append(f[k \div 10], k % 10)]
    <3>3. \A n \in 0..(k - 1) :
             f[n] = IF n < 10 THEN <<n>> ELSE Append(f[n \div 10], n % 10)
      <4> HIDE DEF g
      <4> QED BY <3>2
    <3>4. ASSUME NEW n \in 0..k
          PROVE  g[n] = IF n < 10 THEN <<n>> ELSE Append(g[n \div 10], n % 10)
      <4>1. n >= 10 => n \div 10 \in 0..k /\ n \div 10 < k
        BY Division
      <4>2. n >= 10 => g[n \div 10] = f[n \div 10]
        BY <4>1
      <4>3. CASE n < k
        BY <3>3, <4>2, <4>3
      <4>4. CASE n = k
        BY <2>3, <4>2, <4>4
      <4> QED BY <4>3, <4>4
    <3>5. Part(g, k)
      BY <3>4
    <3> QED BY <2>1, <3>5
  <2> QED BY <2>1, <2>2, <2>3
<1>2. MaxUint64 \in Nat /\ MaxUint64 \notin Bad
  BY <1>1, WidthAssumption
<1> QED BY <1>2 DEF IsDecimal

LEMMA DecimalIs ==
    ASSUME NEW n \in 0..MaxUint64
    PROVE  Decimal[n] = IF n < 10 THEN <<n>>
                        ELSE Append(Decimal[n \div 10], n % 10)
<1>1. IsDecimal(Decimal)
  <2>1. Decimal = CHOOSE f : IsDecimal(f)
    BY DEF Decimal, IsDecimal
  <2> QED BY <2>1, DecimalExists
<1> QED BY <1>1 DEF IsDecimal

\* What is written is digits without a leading zero, and reads as the number.
LEMMA DecimalReads ==
    ASSUME NEW n \in 0..MaxUint64
    PROVE  /\ Decimal[n] \in Seq(Nat)
           /\ Canonical(Decimal[n])
           /\ n > 0 => Decimal[n][1] # 0
           /\ Value(Decimal[n]) = n
<1> DEFINE Good(k) == /\ Decimal[k] \in Seq(Nat)
                      /\ Decimal[k] # <<>>
                      /\ AllDigits(Decimal[k])
                      /\ k > 0 => Decimal[k][1] # 0
                      /\ k = 0 => Len(Decimal[k]) = 1
                      /\ Value(Decimal[k]) = k
           Bad == {k \in 0..MaxUint64 : ~Good(k)}
<1>1. ASSUME NEW k \in 0..MaxUint64, k < 10 PROVE Good(k)
  <2>1. Decimal[k] = <<k>>
    BY <1>1, DecimalIs
  <2>2. k \in Nat /\ k \in Digits
    BY <1>1, WidthAssumption DEF Digits
  <2>3. Value(<<k>>) = k
    BY <2>2, ValueOfDigit
  <2> QED BY <2>1, <2>2, <2>3 DEF AllDigits
<1>2. ASSUME NEW k \in 0..MaxUint64, k >= 10, Good(k \div 10) PROVE Good(k)
  <2> DEFINE s == Decimal[k \div 10]
             d == k % 10
  <2>1. Decimal[k] = Append(s, d)
    <3>1. k \in Nat /\ ~(k < 10)
      BY <1>2, WidthAssumption
    <3> HIDE DEF Good
    <3> QED BY <3>1, DecimalIs
  <2>2. /\ k \in Nat /\ d \in Nat /\ d \in Digits /\ k \div 10 > 0
        /\ k = 10 * (k \div 10) + d
    BY <1>2, Division, WidthAssumption DEF Digits
  <2>3. /\ s \in Seq(Nat) /\ s # <<>> /\ AllDigits(s) /\ s[1] # 0
        /\ Value(s) = k \div 10
    BY <1>2, <2>2
  <2> HIDE DEF s, d
  <2>4. Value(Append(s, d)) = k
    BY <2>2, <2>3, ValueOfAppend
  <2>5. /\ Append(s, d) \in Seq(Nat) /\ Append(s, d) # <<>>
        /\ Append(s, d)[1] # 0
    BY <2>2, <2>3
  <2>6. AllDigits(Append(s, d))
    BY <2>2, <2>3 DEF AllDigits
  <2> QED BY <1>2, <2>1, <2>4, <2>5, <2>6
<1> HIDE DEF Good
<1>3. ASSUME Bad # {} PROVE FALSE
  <2>0. Bad \subseteq Nat
    BY WidthAssumption
  <2>1. PICK k \in Bad : \A m \in Bad : k <= m
    <3> HIDE DEF Bad
    <3> QED BY <1>3, <2>0, Least
  <2>2. k >= 10
    BY <1>1, <2>1, WidthAssumption
  <2>3. k \div 10 \in 0..MaxUint64 /\ k \div 10 < k
    BY <2>0, <2>1, <2>2, Division, WidthAssumption
  <2>4. k \div 10 \notin Bad
    BY <2>0, <2>1, <2>3
  <2> QED BY <1>2, <2>1, <2>2, <2>3, <2>4
<1>4. Good(n)
  BY <1>3
<1>5. n = 0 \/ n > 0
  BY WidthAssumption
<1>6. Canonical(Decimal[n])
  <2>1. /\ Decimal[n] # <<>> /\ AllDigits(Decimal[n])
        /\ Len(Decimal[n]) = 1 \/ Decimal[n][1] # 0
    BY <1>4, <1>5 DEF Good
  <2>2. ~(1 > 1)
    OBVIOUS
  <2>3. ~(Len(Decimal[n]) > 1 /\ Decimal[n][1] = 0)
    BY <2>1, <2>2, Zenon
  <2> QED BY <2>1, <2>3 DEF Canonical
<1> QED BY <1>4, <1>6 DEF Good

\* What uintField lets through is written the one way, so what it reads is
\* written back byte for byte.
LEMMA CanonicalIsDecimal ==
    ASSUME NEW s \in Seq(Nat), Canonical(s), Value(s) <= MaxUint64
    PROVE  Value(s) \in 0..MaxUint64 /\ s = Decimal[Value(s)]
<1> DEFINE Holds(t) == /\ Value(t) \in 0..MaxUint64
                       /\ t = Decimal[Value(t)]
                       /\ t[1] # 0 => Value(t) > 0
           Case(t) == t \in Seq(Nat) /\ Canonical(t) /\ Value(t) <= MaxUint64
           Bad == {k \in Nat : \E t : Case(t) /\ Len(t) = k /\ ~Holds(t)}
<1>1. ASSUME NEW t, Case(t), Len(t) = 1 PROVE Holds(t)
  <2>1. t = <<t[1]>> /\ t[1] \in Nat /\ t[1] \in Digits
    BY <1>1 DEF Canonical, AllDigits
  <2>2. Value(t) = t[1]
    BY <2>1, ValueOfDigit
  <2>3. Value(t) \in 0..MaxUint64 /\ Value(t) < 10
    BY <1>1, <2>1, <2>2 DEF Digits
  <2>4. Decimal[Value(t)] = <<t[1]>>
    BY <2>2, <2>3, DecimalIs
  <2> QED BY <2>1, <2>2, <2>3, <2>4
<1>2. ASSUME NEW t, Case(t), Len(t) > 1,
             \A u : Case(u) /\ Len(u) = Len(t) - 1 => Holds(u)
      PROVE  Holds(t)
  <2> DEFINE u == SubSeq(t, 1, Len(t) - 1)
             d == t[Len(t)]
  <2>1. /\ t \in Seq(Nat) /\ Len(t) \in Nat /\ t[1] # 0 /\ AllDigits(t)
        /\ Value(t) <= MaxUint64
    BY <1>2 DEF Canonical
  <2>2. /\ u \in Seq(Nat) /\ Len(u) = Len(t) - 1 /\ t = Append(u, d)
        /\ \A i \in 1..Len(u) : u[i] = t[i]
    BY <1>2, <2>1
  <2>3. d \in Nat /\ d \in Digits
    BY <1>2, <2>1 DEF AllDigits
  <2>4. Canonical(u) /\ u[1] # 0
    <3>1. Len(u) \in Nat /\ Len(u) >= 1 /\ Len(u) < Len(t)
      BY <1>2, <2>1, <2>2
    <3>2. u # <<>> /\ u[1] # 0
      <4>1. u[1] = t[1]
        BY <2>2, <3>1
      <4> HIDE DEF u
      <4> QED BY <2>1, <3>1, <4>1
    <3>3. AllDigits(u)
      <4>1. \A i \in 1..Len(u) : i \in 1..Len(t)
        BY <2>1, <3>1
      <4> HIDE DEF u
      <4> QED BY <2>1, <2>2, <4>1 DEF AllDigits
    <3> QED BY <3>2, <3>3 DEF Canonical
  <2>5. Value(u) \in Nat /\ Value(t) = 10 * Value(u) + d
    BY <2>2, <2>3, ValueTyped, ValueOfAppend
  <2>6. Value(u) <= MaxUint64
    BY <2>1, <2>3, <2>5, WidthAssumption
  <2>7. Holds(u)
    <3>1. Case(u)
      BY <2>2, <2>4, <2>6
    <3> QED BY <1>2, <2>2, <3>1
  <2>8. Value(u) > 0 /\ u = Decimal[Value(u)]
    BY <2>4, <2>7
  <2>9. /\ Value(t) \in 0..MaxUint64 /\ Value(t) >= 10
        /\ Value(t) \div 10 = Value(u) /\ Value(t) % 10 = d
    <3> DEFINE a == Value(u)
               b == Value(t)
    <3>1. a \in Nat /\ a > 0 /\ b = 10 * a + d /\ d \in 0..9 /\ b <= MaxUint64
      BY <2>1, <2>3, <2>5, <2>8 DEF Digits
    <3> HIDE DEF a, b, d
    <3>2. b \in 0..MaxUint64 /\ b >= 10 /\ b \div 10 = a /\ b % 10 = d
      BY <3>1, WidthAssumption
    <3> QED BY <3>2 DEF a, b
  <2>10. Decimal[Value(t)] = Append(u, d)
    <3>1. Value(t) \in Nat /\ ~(Value(t) < 10)
      BY <2>9, WidthAssumption
    <3> HIDE DEF u, d, Case, Holds
    <3> QED BY <2>8, <2>9, <3>1, DecimalIs
  <2> QED BY <2>2, <2>9, <2>10
<1> HIDE DEF Holds
<1>3. ASSUME Bad # {} PROVE FALSE
  <2>1. PICK k \in Bad : \A m \in Bad : k <= m
    BY <1>3, Least
  <2>2. PICK t : Case(t) /\ Len(t) = k /\ ~Holds(t)
    BY <2>1
  <2>3. k \in Nat /\ k >= 1
    BY <2>2 DEF Canonical
  <2>4. k > 1
    <3>1. k # 1
      <4> HIDE DEF Case
      <4> QED BY <1>1, <2>2
    <3> QED BY <2>3, <3>1
  <2>5. k - 1 \in Nat /\ k - 1 \notin Bad
    <3>1. Bad \subseteq Nat
      OBVIOUS
    <3> HIDE DEF Bad
    <3> QED BY <2>1, <2>4, <3>1
  <2>6. \A u : Case(u) /\ Len(u) = k - 1 => Holds(u)
    BY <2>5
  <2> HIDE DEF Case
  <2> QED BY <1>2, <2>2, <2>4, <2>6
<1>4. Case(s) /\ Len(s) \in Nat
  OBVIOUS
<1>5. Holds(s)
  <2> HIDE DEF Case
  <2> QED BY <1>3, <1>4
<1> QED BY <1>5 DEF Holds

\* uintField accepts exactly what String writes for an integer of its width
\* (id.go:28-42).
THEOREM OneTextPerInteger ==
    ASSUME NEW s \in Seq(Nat), NEW bits
    PROVE  uintField(s, bits) <=> s \in {Decimal[n] : n \in 0..MaxUint(bits)}
<1>1. MaxUint(bits) \in Nat /\ MaxUint(bits) <= MaxUint64
  BY WidthAssumption DEF MaxUint
<1>2. ASSUME uintField(s, bits)
      PROVE  s \in {Decimal[n] : n \in 0..MaxUint(bits)}
  <2>1. Canonical(s) /\ Value(s) <= MaxUint(bits) /\ Value(s) \in Nat
    BY <1>2, ValueTyped DEF uintField
  <2>2. s = Decimal[Value(s)]
    BY <1>1, <2>1, CanonicalIsDecimal, WidthAssumption
  <2> QED BY <1>1, <2>1, <2>2
<1>3. ASSUME NEW n \in 0..MaxUint(bits), s = Decimal[n]
      PROVE  uintField(s, bits)
  <2>1. n \in 0..MaxUint64
    BY <1>1, WidthAssumption
  <2> QED BY <1>3, <2>1, DecimalReads DEF uintField
<1> QED BY <1>2, <1>3

-----------------------------------------------------------------------------
(* Names.                                                                  *)

\* The fields of a name that is read have the widths of the fields of ID.
LEMMA ParsedTyped ==
    ASSUME NEW p \in Names, parseFields(p)
    PROVE  parsed(p) \in IDType
<1>1. /\ \A i \in 1..3 : p[i] \in Seq(Nat)
      /\ \A i \in 4..6 : p[i].float \in Int
  BY NameAssumption DEF parseFields
<1>2. /\ Value(p[1]) \in 0..MaxUint64
      /\ Value(p[2]) \in 0..MaxUint32 /\ Value(p[3]) \in 0..MaxUint32
  <2>1. /\ Value(p[1]) \in Nat /\ Value(p[2]) \in Nat /\ Value(p[3]) \in Nat
    <3>1. p[1] \in Seq(Nat) /\ p[2] \in Seq(Nat) /\ p[3] \in Seq(Nat)
      BY <1>1
    <3> QED BY <3>1, ValueTyped
  <2>2. /\ Value(p[1]) <= MaxUint64
        /\ Value(p[2]) <= MaxUint32 /\ Value(p[3]) <= MaxUint32
    BY DEF parseFields, uintField, MaxUint
  <2> QED BY <2>1, <2>2, WidthAssumption
<1> QED BY <1>1, <1>2 DEF parsed, IDType

\* parseFields accepts the names of the protocol and no others.
LEMMA ReadsTheNamed ==
    ASSUME NEW p \in Names
    PROVE  parseFields(p) <=> Named(p)
<1> SUFFICES ASSUME Len(p) = 6 PROVE parseFields(p) <=> Named(p)
  BY DEF parseFields, Named
<1>1. /\ \A i \in 1..3 : p[i] \in Seq(Nat)
      /\ \A i \in 4..6 : p[i] \in [float : Int, spelling : Spellings]
  BY NameAssumption
<1>2. /\ uintField(p[1], 64) <=> p[1] \in {Decimal[n] : n \in 0..MaxUint64}
      /\ uintField(p[2], 32) <=> p[2] \in {Decimal[n] : n \in 0..MaxUint32}
      /\ uintField(p[3], 32) <=> p[3] \in {Decimal[n] : n \in 0..MaxUint32}
  <2>1. MaxUint(64) = MaxUint64 /\ MaxUint(32) = MaxUint32
    BY DEF MaxUint
  <2>2. p[1] \in Seq(Nat) /\ p[2] \in Seq(Nat) /\ p[3] \in Seq(Nat)
    BY <1>1
  <2> QED BY <2>1, <2>2, OneTextPerInteger
<1>3. \A i \in 4..6 :
         ParseFloat(p[i]) <=> p[i].spelling \notin {"overflow", "malformed"}
  BY <1>1 DEF ParseFloat, Spellings
<1>4. valid(parsed(p)) <=>
         /\ \A i \in 4..6 : p[i].float \notin {NaN, Inf, -Inf}
         /\ p[5].float > 0
  BY DEF valid, finite, parsed
<1> QED BY <1>2, <1>3, <1>4 DEF parseFields, Named

\* Writing what was read gives the same integers and the same floats.
LEMMA WrittenAsRead ==
    ASSUME NEW p \in Names, parseFields(p)
    PROVE  /\ \A i \in 1..3 : String(parsed(p))[i] = p[i]
           /\ \A i \in 4..6 : String(parsed(p))[i].float = p[i].float
<1>1. /\ p[1] \in Seq(Nat) /\ p[2] \in Seq(Nat) /\ p[3] \in Seq(Nat)
  BY NameAssumption DEF parseFields
<1>2. /\ Canonical(p[1]) /\ Value(p[1]) <= MaxUint64
      /\ Canonical(p[2]) /\ Value(p[2]) <= MaxUint32
      /\ Canonical(p[3]) /\ Value(p[3]) <= MaxUint32
  BY DEF parseFields, uintField, MaxUint
<1>3. Value(p[2]) <= MaxUint64 /\ Value(p[3]) <= MaxUint64
  <2>1. Value(p[2]) \in Nat /\ Value(p[3]) \in Nat
    BY <1>1, ValueTyped
  <2> QED BY <1>2, <2>1, WidthAssumption
<1>4. /\ Decimal[Value(p[1])] = p[1]
      /\ Decimal[Value(p[2])] = p[2]
      /\ Decimal[Value(p[3])] = p[3]
  BY <1>1, <1>2, <1>3, CanonicalIsDecimal
<1>5. String(parsed(p)) =
         <<p[1], p[2], p[3], FormatFloat(p[4].float), FormatFloat(p[5].float),
           FormatFloat(p[6].float)>>
  BY <1>4 DEF String, parsed
<1> QED BY <1>5 DEF FormatFloat

\* What was written reads as the ID that was written.
LEMMA ReadAsWritten ==
    ASSUME NEW i \in IDType, valid(i)
    PROVE  /\ String(i) # <<>>
           /\ parseFields(String(i))
           /\ parsed(String(i)) = i
<1> DEFINE s == String(i)
<1>1. /\ Len(s) = 6 /\ s # <<>>
      /\ s[1] = Decimal[i.Parent] /\ s[2] = Decimal[i.Epoch]
      /\ s[3] = Decimal[i.Seq]
      /\ s[4] = FormatFloat(i.TWrite) /\ s[5] = FormatFloat(i.Period)
      /\ s[6] = FormatFloat(i.Head)
  BY DEF String
<1> HIDE DEF s
<1>2. /\ i.Parent \in 0..MaxUint64 /\ i.Epoch \in 0..MaxUint32
      /\ i.Seq \in 0..MaxUint32
      /\ i.Epoch \in 0..MaxUint64 /\ i.Seq \in 0..MaxUint64
  BY WidthAssumption DEF IDType
<1>3. /\ Canonical(s[1]) /\ Value(s[1]) = i.Parent
      /\ Canonical(s[2]) /\ Value(s[2]) = i.Epoch
      /\ Canonical(s[3]) /\ Value(s[3]) = i.Seq
  BY <1>1, <1>2, DecimalReads
<1>4. parsed(s) = i
  BY <1>1, <1>3 DEF parsed, FormatFloat, IDType
<1>5. uintField(s[1], 64) /\ uintField(s[2], 32) /\ uintField(s[3], 32)
  BY <1>2, <1>3, WidthAssumption DEF uintField, MaxUint
<1>6. \A k \in 4..6 : ParseFloat(s[k])
  BY <1>1 DEF ParseFloat, FormatFloat
<1>7. parseFields(s)
  BY <1>1, <1>4, <1>5, <1>6 DEF parseFields
<1> QED BY <1>1, <1>4, <1>7 DEF s

-----------------------------------------------------------------------------
(* The invariant.                                                          *)

LEMMA IDInvInit == Init => IDInv
<1> SUFFICES ASSUME Init PROVE IDInv
  OBVIOUS
<1>1. ZeroID \in IDType
  BY WidthAssumption DEF ZeroID, IDType
<1> QED BY <1>1 DEF Init, IDInv

LEMMA IDInvStep == IDInv /\ [Next]_vars => IDInv'
<1> SUFFICES ASSUME IDInv, [Next]_vars PROVE IDInv'
  OBVIOUS
<1>1. ASSUME NEW p \in Names, Receive(p) \/ UnmarshalText(p) PROVE IDInv'
  <2>1. ZeroID \in IDType
    BY WidthAssumption DEF ZeroID, IDType
  <2>2. CASE parseFields(p)
    <3>1. input' = p /\ id' = parsed(p) /\ err' = "none" /\ output' = <<>>
      BY <1>1, <2>2 DEF Receive, UnmarshalText
    <3>2. parsed(p) \in IDType
      BY <2>2, ParsedTyped
    <3> QED BY <2>2, <3>1, <3>2 DEF IDInv
  <2>3. CASE ~parseFields(p)
    <3>1. /\ input' = p /\ id' \in {ZeroID, id} /\ err' # "none"
          /\ output' = <<>>
      BY <1>1, <2>3 DEF Receive, UnmarshalText
    <3>2. id' \in IDType
      BY <2>1, <3>1 DEF IDInv
    <3> QED BY <2>3, <3>1, <3>2 DEF IDInv
  <2> QED BY <2>2, <2>3
<1>2. ASSUME NEW i \in IDs, Assign(i) PROVE IDInv'
  BY <1>2, IDAssumption DEF Assign, IDInv
<1>3. CASE Write
  BY <1>3 DEF Write, IDInv
<1>4. CASE UNCHANGED vars
  BY <1>4 DEF vars, IDInv
<1> QED BY <1>1, <1>2, <1>3, <1>4 DEF Next

THEOREM IDInvariant == Spec => []IDInv
  BY IDInvInit, IDInvStep, PTL DEF Spec

\* Whatever the widths, the names of the protocol are read and nothing else is
\* (id.go:28-65).
THEOREM NamesAreRead == Spec => []ReadsNames
<1>1. IDInv => ReadsNames
  BY ReadsTheNamed DEF IDInv, ReadsNames
<1> QED BY <1>1, IDInvariant, PTL

\* Whatever the widths, the driver returns the name it was given and reads what
\* it writes (id.go:20-23, 50-88).
THEOREM NamesAreKept == Spec => []NameKept
<1>1. IDInv => NameKept
  <2> SUFFICES ASSUME IDInv PROVE NameKept
    OBVIOUS
  <2>1. ASSUME input # <<>>, err = "none"
        PROVE  /\ \A i \in 1..3 : String(id)[i] = input[i]
               /\ \A i \in 4..6 : String(id)[i].float = input[i].float
    <3>1. input \in Names /\ parseFields(input) /\ id = parsed(input)
      BY <2>1 DEF IDInv
    <3> QED BY <3>1, WrittenAsRead
  <2>2. ASSUME output # <<>> PROVE parseFields(output) /\ parsed(output) = id
    BY <2>2, ReadAsWritten DEF IDInv
  <2> QED BY <2>1, <2>2 DEF NameKept
<1> QED BY <1>1, IDInvariant, PTL
=============================================================================
