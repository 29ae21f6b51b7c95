-------------------------- MODULE AlgorithmsProofs --------------------------
(***************************************************************************)
(* What the pure algorithms compute of every input: Slugs of every list of *)
(* titles, PostContent of every document, TextAnalysis of every comment.   *)
(* The library's theorems about induction take an operator, so induction   *)
(* is done here over the least element of a set.                           *)
(***************************************************************************)
EXTENDS MCSlugs, MCPostContent, MCFingerprints, FiniteSetTheorems, SequenceTheorems,
        WellFoundedInduction, TLAPS

\* A set of numbers that holds each number below which it holds all, holds all.
LEMMA StrongInduction ==
    ASSUME NEW P, \A n \in Nat : (\A m \in 0 .. n - 1 : m \in P) => n \in P
    PROVE  \A n \in Nat : n \in P
<1> DEFINE Outside == {n \in Nat : n \notin P}
<1>1. SUFFICES ASSUME Outside # {} PROVE FALSE
  BY <1>1
<1>2. Outside \subseteq Nat
  OBVIOUS
<1>3. PICK n \in Outside : \A m \in Outside : <<m, n>> \notin OpToRel(<, Nat)
  BY <1>1, <1>2, WFMin, NatLessThanWellFounded
<1>4. \A m \in Outside : ~(m < n)
  BY <1>2, <1>3 DEF OpToRel
<1>5. \A m \in 0 .. n - 1 : m \in P
  BY <1>4
<1>6. QED
  BY <1>5

\* A set of numbers that holds 0 and with each number the next holds all.
LEMMA Induction ==
    ASSUME NEW P, 0 \in P, \A n \in Nat : n \in P => n + 1 \in P
    PROVE  \A n \in Nat : n \in P
<1>1. ASSUME NEW n \in Nat, \A m \in 0 .. n - 1 : m \in P PROVE n \in P
  <2>1. CASE n = 0
    BY <2>1
  <2>2. CASE n # 0
    <3>1. n - 1 \in Nat /\ n - 1 \in 0 .. n - 1 /\ (n - 1) + 1 = n
      BY <2>2
    <3>2. n - 1 \in P
      BY <1>1, <3>1
    <3>3. QED
      BY <3>1, <3>2
  <2>3. QED
    BY <2>1, <2>2
<1>2. QED
  BY <1>1, StrongInduction

\* What a step makes of each value at each position, and a function by such steps.
StepMaps(S, N) == [S -> [1 .. N -> S]]

IsRecursion(f, S, base, N, step) ==
    /\ f \in [0 .. N -> S]
    /\ f[0] = base
    /\ \A n \in 1 .. N : f[n] = step[f[n - 1]][n]

\* A function on 0 .. N whose value at n follows from the one at n - 1 exists.
LEMMA Recursion ==
    ASSUME NEW S, NEW base \in S, NEW N \in Nat, NEW step \in StepMaps(S, N)
    PROVE  \E f : IsRecursion(f, S, base, N, step)
<1>0. step \in [S -> [1 .. N -> S]]
  BY DEF StepMaps
<1> DEFINE Follows(f, n) == \A i \in 0 .. n : f[i] = IF i = 0 THEN base ELSE step[f[i - 1]][i]
           Exists(n) == \E f \in [0 .. n -> S] : Follows(f, n)
           P == {n \in Nat : n <= N => Exists(n)}
<1>1. 0 \in P
  <2> DEFINE b == [i \in 0 .. 0 |-> base]
  <2>1. b \in [0 .. 0 -> S]
    OBVIOUS
  <2>2. Follows(b, 0)
    OBVIOUS
  <2> HIDE DEF b, Follows
  <2>3. Exists(0)
    BY <2>1, <2>2
  <2> HIDE DEF Exists
  <2>4. QED
    BY <2>3
<1>2. ASSUME NEW n \in Nat, n \in P PROVE n + 1 \in P
  <2> HIDE DEF Exists
  <2>1. SUFFICES ASSUME n + 1 <= N PROVE Exists(n + 1)
    OBVIOUS
  <2>2. PICK f \in [0 .. n -> S] : Follows(f, n)
    BY <1>2, <2>1 DEF Exists
  <2> DEFINE g == [i \in 0 .. n + 1 |-> IF i = n + 1 THEN step[f[n]][n + 1] ELSE f[i]]
  <2>3. f[n] \in S /\ n + 1 \in 1 .. N
    BY <2>1
  <2>4. step[f[n]][n + 1] \in S
    BY <1>0, <2>3
  <2>5. g \in [0 .. n + 1 -> S]
    BY <2>4
  <2>6. ASSUME NEW i \in 0 .. n + 1 PROVE g[i] = IF i = 0 THEN base ELSE step[g[i - 1]][i]
    <3>1. CASE i = n + 1
      <4>1. g[i - 1] = f[n]
        BY <3>1
      <4>2. QED
        BY <3>1, <4>1
    <3>2. CASE i # n + 1
      <4>1. i \in 0 .. n /\ g[i] = f[i] /\ (i # 0 => g[i - 1] = f[i - 1])
        BY <3>2
      <4>2. QED
        BY <2>2, <4>1
    <3>3. QED
      BY <3>1, <3>2
  <2>7. Follows(g, n + 1)
    BY <2>6
  <2>8. QED
    BY <2>5, <2>7 DEF Exists
<1>3. N \in P
  <2> HIDE DEF P
  <2>1. QED
    BY <1>1, <1>2, Induction
<1>4. PICK f \in [0 .. N -> S] : Follows(f, N)
  BY <1>3
<1>5. f[0] = base /\ \A n \in 1 .. N : f[n] = step[f[n - 1]][n]
  BY <1>4
<1>6. QED
  BY <1>5 DEF IsRecursion

-----------------------------------------------------------------------------
Digit == ToSet(DigitCharacters)

DigitOf(n) == DigitCharacters[n + 1]

LEMMA AppendCancels ==
    ASSUME NEW S, NEW s \in Seq(S), NEW t \in Seq(S), NEW d \in S, NEW e \in S,
           Append(s, d) = Append(t, e)
    PROVE  s = t /\ d = e
BY AppendInjective

LEMMA ConcatCancels ==
    ASSUME NEW S, NEW s \in Seq(S), NEW t \in Seq(S), NEW u \in Seq(S), s \o t = s \o u
    PROVE  t = u
<1>1. /\ Len(s \o t) = Len(s) + Len(t) /\ Len(s \o u) = Len(s) + Len(u)
      /\ Len(s) \in Nat /\ Len(t) \in Nat /\ Len(u) \in Nat
  BY ConcatProperties, LenProperties
<1>2. Len(t) = Len(u)
  BY <1>1
<1>3. ASSUME NEW i \in 1 .. Len(t) PROVE t[i] = u[i]
  <2>1. /\ (s \o t)[Len(s) + i] = t[i]
        /\ (s \o u)[Len(s) + i] = u[i]
    BY <1>1, <1>2
  <2>2. QED
    BY <2>1
<1>4. QED
  BY <1>2, <1>3, SeqEqual

LEMMA DigitsDiffer ==
    /\ \A n \in 0 .. 9 : DigitOf(n) \in Digit
    /\ \A m, n \in 0 .. 9 : DigitOf(m) = DigitOf(n) => m = n
<1>1. ASSUME NEW n \in 0 .. 9 PROVE n + 1 \in DOMAIN DigitCharacters
  BY CharactersAssumption
<1>2. ASSUME NEW m \in 0 .. 9, NEW n \in 0 .. 9, DigitOf(m) = DigitOf(n) PROVE m = n
  <2>1. m + 1 = n + 1
    BY <1>1, <1>2, CharactersAssumption DEF DigitOf, IsInjective
  <2>2. QED
    BY <2>1
<1>3. QED
  BY <1>1, <1>2 DEF Digit, DigitOf, ToSet

LEMMA TenthIsLess ==
    ASSUME NEW n \in Nat
    PROVE  /\ n \div 10 \in Nat /\ n % 10 \in 0 .. 9 /\ n = (10 * (n \div 10)) + (n % 10)
           /\ n >= 10 => n \div 10 \in 0 .. n - 1
OBVIOUS

\* The equation of Decimal, at a number and up to one.
DecimalAt(f, n) ==
    /\ n < 10 => f[n] = <<DigitOf(n)>>
    /\ n >= 10 => f[n] = Append(f[n \div 10], DigitOf(n % 10))

DecimalUpTo(f, k) == \A n \in 0 .. k : DecimalAt(f, n)

LEMMA DecimalUpToExists ==
    \A k \in Nat : \E f \in [0 .. k -> Seq(Digit)] : DecimalUpTo(f, k)
<1> DEFINE Exists(k) == \E f \in [0 .. k -> Seq(Digit)] : DecimalUpTo(f, k)
           P == {k \in Nat : Exists(k)}
<1>1. 0 \in P
  <2> DEFINE b == [i \in 0 .. 0 |-> <<DigitOf(0)>>]
  <2>1. b \in [0 .. 0 -> Seq(Digit)]
    BY DigitsDiffer
  <2>2. DecimalUpTo(b, 0)
    BY DEF DecimalUpTo, DecimalAt
  <2> HIDE DEF b
  <2>3. Exists(0)
    BY <2>1, <2>2
  <2> HIDE DEF Exists
  <2>4. QED
    BY <2>3
<1>2. ASSUME NEW k \in Nat, k \in P PROVE k + 1 \in P
  <2>1. PICK f \in [0 .. k -> Seq(Digit)] : DecimalUpTo(f, k)
    BY <1>2
  <2> DEFINE last == IF k + 1 < 10 THEN <<DigitOf(k + 1)>>
                     ELSE Append(f[(k + 1) \div 10], DigitOf((k + 1) % 10))
             g == [i \in 0 .. k + 1 |-> IF i = k + 1 THEN last ELSE f[i]]
  <2>2. last \in Seq(Digit)
    <3>1. CASE k + 1 < 10
      <4>1. k + 1 \in 0 .. 9
        BY <3>1
      <4>2. DigitOf(k + 1) \in Digit
        BY <4>1, DigitsDiffer
      <4>3. QED
        BY <3>1, <4>2
    <3>2. CASE k + 1 >= 10
      <4>1. (k + 1) \div 10 \in 0 .. k /\ (k + 1) % 10 \in 0 .. 9
        BY <3>2, TenthIsLess
      <4>2. f[(k + 1) \div 10] \in Seq(Digit) /\ DigitOf((k + 1) % 10) \in Digit
        BY <4>1, DigitsDiffer
      <4>3. last = Append(f[(k + 1) \div 10], DigitOf((k + 1) % 10))
        BY <3>2
      <4>4. QED
        BY <4>2, <4>3
    <3>3. QED
      BY <3>1, <3>2
  <2>3. g \in [0 .. k + 1 -> Seq(Digit)]
    <3> HIDE DEF last
    <3>1. QED
      BY <2>2
  <2>4. ASSUME NEW n \in 0 .. k + 1 PROVE DecimalAt(g, n)
    <3>1. n >= 10 => g[n \div 10] = f[n \div 10]
      BY TenthIsLess
    <3>2. CASE n = k + 1
      BY <3>1, <3>2 DEF DecimalAt
    <3>3. CASE n # k + 1
      <4>1. n \in 0 .. k /\ g[n] = f[n]
        BY <3>3
      <4>2. DecimalAt(f, n)
        BY <2>1, <4>1 DEF DecimalUpTo
      <4> HIDE DEF g
      <4>3. QED
        BY <3>1, <4>1, <4>2 DEF DecimalAt
    <3>4. QED
      BY <3>2, <3>3
  <2>5. DecimalUpTo(g, k + 1)
    BY <2>4 DEF DecimalUpTo
  <2> HIDE DEF g
  <2>6. Exists(k + 1)
    BY <2>3, <2>5
  <2> HIDE DEF Exists
  <2>7. QED
    BY <2>6
<1>3. \A k \in Nat : k \in P
  <2> HIDE DEF P
  <2>1. QED
    BY <1>1, <1>2, Induction
<1>4. QED
  BY <1>3

LEMMA DecimalUpToUnique ==
    ASSUME NEW k \in Nat, NEW l \in Nat, NEW f, NEW g, DecimalUpTo(f, k), DecimalUpTo(g, l)
    PROVE  \A n \in Nat : n <= k /\ n <= l => f[n] = g[n]
<1> DEFINE P == {n \in Nat : n <= k /\ n <= l => f[n] = g[n]}
<1>1. ASSUME NEW n \in Nat, \A m \in 0 .. n - 1 : m \in P PROVE n \in P
  <2>1. SUFFICES ASSUME n <= k, n <= l PROVE f[n] = g[n]
    OBVIOUS
  <2>2. DecimalAt(f, n) /\ DecimalAt(g, n)
    BY <2>1 DEF DecimalUpTo
  <2>3. CASE n < 10
    BY <2>2, <2>3 DEF DecimalAt
  <2>4. CASE n >= 10
    <3>1. n \div 10 \in 0 .. n - 1 /\ n \div 10 \in Nat
      BY <2>4, TenthIsLess
    <3>2. f[n \div 10] = g[n \div 10]
      BY <1>1, <2>1, <3>1
    <3>3. QED
      BY <2>2, <2>4, <3>2 DEF DecimalAt
  <2>5. QED
    BY <2>3, <2>4
<1>2. \A n \in Nat : n \in P
  <2> HIDE DEF P
  <2>1. QED
    BY <1>1, StrongInduction
<1>3. QED
  BY <1>2

\* The digits of a number, the last one after those of its tenth.
LEMMA DecimalEquation ==
    ASSUME NEW n \in Nat
    PROVE  Decimal[n] \in Seq(Digit) /\ DecimalAt(Decimal, n)
<1> DEFINE Approximation(k) == CHOOSE f \in [0 .. k -> Seq(Digit)] : DecimalUpTo(f, k)
           d == [k \in Nat |-> Approximation(k)[k]]
<1>1. ASSUME NEW k \in Nat
      PROVE  Approximation(k) \in [0 .. k -> Seq(Digit)] /\ DecimalUpTo(Approximation(k), k)
  BY DecimalUpToExists
<1> HIDE DEF Approximation
<1>2. d \in [Nat -> Seq(Digit)]
  BY <1>1
<1>3. ASSUME NEW k \in Nat PROVE DecimalAt(d, k)
  <2>1. d[k] = Approximation(k)[k] /\ DecimalAt(Approximation(k), k)
    BY <1>1 DEF DecimalUpTo
  <2>2. CASE k < 10
    BY <2>1, <2>2 DEF DecimalAt
  <2>3. CASE k >= 10
    <3>1. k \div 10 \in 0 .. k - 1 /\ k \div 10 \in Nat
      BY <2>3, TenthIsLess
    <3>2. DecimalUpTo(Approximation(k), k) /\ DecimalUpTo(Approximation(k \div 10), k \div 10)
      BY <1>1, <3>1
    <3>3. \A m \in Nat : m <= k /\ m <= k \div 10 =>
             Approximation(k)[m] = Approximation(k \div 10)[m]
      BY <3>1, <3>2, DecimalUpToUnique
    <3>4. Approximation(k)[k \div 10] = d[k \div 10]
      BY <3>1, <3>3
    <3> HIDE DEF d
    <3>5. QED
      BY <2>1, <2>3, <3>4 DEF DecimalAt
  <2>4. QED
    BY <2>2, <2>3
<1> HIDE DEF d
<1> DEFINE Value(f, k) == IF k < 10 THEN <<DigitCharacters[k + 1]>>
                          ELSE Append(f[k \div 10], DigitCharacters[(k % 10) + 1])
<1>4. ASSUME NEW k \in Nat PROVE d[k] = Value(d, k)
  <2>1. DecimalAt(d, k)
    BY <1>3
  <2>2. CASE k < 10
    BY <2>1, <2>2 DEF DecimalAt, DigitOf
  <2>3. CASE ~(k < 10)
    <3>1. k >= 10
      BY <2>3
    <3>2. d[k] = Append(d[k \div 10], DigitOf(k % 10))
      BY <2>1, <3>1 DEF DecimalAt
    <3>3. QED
      BY <2>3, <3>2 DEF DigitOf
  <2>4. QED
    BY <2>2, <2>3
<1>5. d = [k \in Nat |-> Value(d, k)]
  <2> HIDE DEF Value
  <2>1. QED
    BY <1>2, <1>4
<1>6. Decimal = [k \in Nat |-> Value(Decimal, k)]
  BY <1>5 DEF Decimal
<1>7. ASSUME NEW k \in Nat PROVE DecimalAt(Decimal, k)
  <2>1. Decimal[k] = Value(Decimal, k)
    <3> HIDE DEF Value
    <3>1. QED
      BY <1>6
  <2>2. QED
    BY <2>1 DEF DecimalAt, DigitOf
<1>8. DecimalUpTo(Decimal, n) /\ DecimalUpTo(d, n)
  BY <1>3, <1>7 DEF DecimalUpTo
<1>9. Decimal[n] = d[n]
  BY <1>8, DecimalUpToUnique
<1>10. QED
  BY <1>2, <1>7, <1>9

LEMMA DecimalCases ==
    ASSUME NEW n \in Nat
    PROVE  \/ n \in 0 .. 9 /\ Len(Decimal[n]) = 1 /\ Decimal[n][1] = DigitOf(n)
           \/ \E t \in 1 .. n - 1, d \in 0 .. 9 :
                 n = (10 * t) + d /\ Decimal[n] = Append(Decimal[t], DigitOf(d))
<1>1. DecimalAt(Decimal, n)
  BY DecimalEquation
<1>2. CASE n < 10
  <2>1. Decimal[n] = <<DigitOf(n)>>
    BY <1>1, <1>2 DEF DecimalAt
  <2>2. QED
    BY <1>2, <2>1
<1>3. CASE n >= 10
  <2> DEFINE t == n \div 10
             d == n % 10
  <2>1. Decimal[n] = Append(Decimal[t], DigitOf(d))
    BY <1>1, <1>3 DEF DecimalAt
  <2>2. t \in Nat /\ d \in 0 .. 9 /\ n = (10 * t) + d /\ t \in 0 .. n - 1
    BY <1>3, TenthIsLess
  <2> HIDE DEF t, d
  <2>3. t \in 1 .. n - 1
    BY <1>3, <2>2
  <2>4. QED
    BY <2>1, <2>2, <2>3
<1>4. QED
  BY <1>2, <1>3

LEMMA DecimalType ==
    ASSUME NEW n \in Nat
    PROVE  Decimal[n] \in Seq(Digit) /\ Decimal[n] # <<>>
<1>1. Decimal[n] \in Seq(Digit)
  BY DecimalEquation
<1>2. CASE n \in 0 .. 9 /\ Len(Decimal[n]) = 1 /\ Decimal[n][1] = DigitOf(n)
  BY <1>1, <1>2
<1>3. ASSUME NEW t \in 1 .. n - 1, NEW d \in 0 .. 9, Decimal[n] = Append(Decimal[t], DigitOf(d))
      PROVE  Decimal[n] # <<>>
  <2>1. Decimal[t] \in Seq(Digit) /\ DigitOf(d) \in Digit
    BY DecimalEquation, DigitsDiffer
  <2>2. QED
    BY <1>3, <2>1, AppendProperties
<1>4. QED
  BY <1>1, <1>2, <1>3, DecimalCases

\* A single digit is not what a longer number begins with.
LEMMA DigitIsNotAppended ==
    ASSUME NEW t \in Nat, NEW d \in 0 .. 9
    PROVE  Len(Append(Decimal[t], DigitOf(d))) # 1
<1>1. Decimal[t] \in Seq(Digit) /\ Decimal[t] # <<>> /\ DigitOf(d) \in Digit
  BY DecimalType, DigitsDiffer
<1>2. Len(Append(Decimal[t], DigitOf(d))) = Len(Decimal[t]) + 1
  BY <1>1, AppendProperties
<1>3. Len(Decimal[t]) \in Nat /\ Len(Decimal[t]) # 0
  BY <1>1, EmptySeq
<1>4. QED
  BY <1>2, <1>3

\* Two numbers never have one decimal notation.
LEMMA DecimalInjective ==
    \A m \in Nat : \A n \in Nat : Decimal[m] = Decimal[n] => m = n
<1> DEFINE Alone(m) == \A n \in Nat : Decimal[m] = Decimal[n] => m = n
           P == {m \in Nat : Alone(m)}
<1>1. ASSUME NEW m \in Nat, \A l \in 0 .. m - 1 : l \in P PROVE m \in P
  <2>1. SUFFICES ASSUME NEW n \in Nat, Decimal[m] = Decimal[n] PROVE m = n
    OBVIOUS
  <2>2. CASE m \in 0 .. 9 /\ Len(Decimal[m]) = 1 /\ Decimal[m][1] = DigitOf(m)
    <3>1. CASE n \in 0 .. 9 /\ Len(Decimal[n]) = 1 /\ Decimal[n][1] = DigitOf(n)
      <4>1. DigitOf(m) = DigitOf(n)
        BY <2>1, <2>2, <3>1
      <4>2. QED
        BY <2>2, <3>1, <4>1, DigitsDiffer
    <3>2. ASSUME NEW u \in 1 .. n - 1, NEW e \in 0 .. 9, Decimal[n] = Append(Decimal[u], DigitOf(e))
          PROVE  FALSE
      BY <2>1, <2>2, <3>2, DigitIsNotAppended
    <3>3. QED
      BY <3>1, <3>2, DecimalCases
  <2>3. ASSUME NEW t \in 1 .. m - 1, NEW d \in 0 .. 9,
               m = (10 * t) + d, Decimal[m] = Append(Decimal[t], DigitOf(d))
        PROVE  m = n
    <3>1. CASE n \in 0 .. 9 /\ Len(Decimal[n]) = 1 /\ Decimal[n][1] = DigitOf(n)
      BY <2>1, <2>3, <3>1, DigitIsNotAppended
    <3>2. ASSUME NEW u \in 1 .. n - 1, NEW e \in 0 .. 9,
                 n = (10 * u) + e, Decimal[n] = Append(Decimal[u], DigitOf(e))
          PROVE  m = n
      <4>1. /\ Decimal[t] \in Seq(Digit) /\ DigitOf(d) \in Digit
            /\ Decimal[u] \in Seq(Digit) /\ DigitOf(e) \in Digit
        BY DecimalType, DigitsDiffer
      <4>2. Decimal[t] = Decimal[u] /\ DigitOf(d) = DigitOf(e)
        <5>1. Append(Decimal[t], DigitOf(d)) = Append(Decimal[u], DigitOf(e))
          BY <2>1, <2>3, <3>2, Zenon
        <5>2. QED
          BY <4>1, <5>1, AppendCancels
      <4>3. d = e
        BY <4>2, DigitsDiffer
      <4>4. t \in P
        BY <1>1
      <4>5. t = u
        BY <4>2, <4>4
      <4>6. QED
        BY <2>3, <3>2, <4>3, <4>5
    <3>3. QED
      BY <3>1, <3>2, DecimalCases
  <2>4. QED
    BY <2>2, <2>3, DecimalCases
<1>2. \A m \in Nat : m \in P
  <2> HIDE DEF P
  <2>1. QED
    BY <1>1, StrongInduction
<1>3. QED
  BY <1>2

-----------------------------------------------------------------------------
Kept == SmallLetters \cup Digit

SlugCharacter == Kept \cup {Mark, Dash}

ScanState == [slug : Seq(SlugCharacter), separator : BOOLEAN, any : BOOLEAN]

\* Hyphens stand alone between letters or digits, marks after what they mark.
Joined(s) ==
    \A i \in 1 .. Len(s) :
        /\ s[i] = Dash => i > 1 /\ i < Len(s) /\ s[i + 1] \in Kept
        /\ s[i] = Mark => i > 1 /\ s[i - 1] # Dash

IsSlug(s) == s \in Seq(SlugCharacter) /\ s # <<>> /\ Joined(s)

LEMMA CharacterClasses ==
    /\ Dash \notin Alphanumeric /\ Mark \notin Alphanumeric /\ Mark # Dash
    /\ \A c \in Kept : c \in Alphanumeric /\ ToLower(c) = c /\ c \in SlugCharacter
    /\ \A c \in Alphanumeric : ToLower(c) \in Kept
    /\ Dash \notin Kept /\ Mark \notin Kept
    /\ Dash \in SlugCharacter /\ Mark \in SlugCharacter
BY CharactersAssumption DEF Alphanumeric, Kept, Digit, ToLower, SlugCharacter

LEMMA SlugOfOne ==
    ASSUME NEW c \in Kept
    PROVE  IsSlug(<<c>>)
BY CharacterClasses DEF IsSlug, Joined

LEMMA SlugAndKept ==
    ASSUME NEW s, IsSlug(s), NEW c \in Kept
    PROVE  IsSlug(Append(s, c))
<1> DEFINE t == Append(s, c)
<1>1. s \in Seq(SlugCharacter) /\ s # <<>> /\ c \in SlugCharacter
  BY CharacterClasses DEF IsSlug
<1>2. /\ t \in Seq(SlugCharacter) /\ t # <<>> /\ Len(t) = Len(s) + 1 /\ Len(s) \in Nat
      /\ \A i \in 1 .. Len(s) : t[i] = s[i]
      /\ t[Len(s) + 1] = c
  BY <1>1, AppendProperties, LenProperties
<1> HIDE DEF t
<1>3. ASSUME NEW i \in 1 .. Len(t)
      PROVE  /\ t[i] = Dash => i > 1 /\ i < Len(t) /\ t[i + 1] \in Kept
             /\ t[i] = Mark => i > 1 /\ t[i - 1] # Dash
  <2>1. CASE i = Len(t)
    BY <1>2, <2>1, CharacterClasses
  <2>2. CASE i # Len(t)
    <3>1. i \in 1 .. Len(s) /\ t[i] = s[i]
      BY <1>2, <2>2
    <3>2. /\ s[i] = Dash => i > 1 /\ i < Len(s) /\ s[i + 1] \in Kept
          /\ s[i] = Mark => i > 1 /\ s[i - 1] # Dash
      BY <3>1 DEF IsSlug, Joined
    <3>3. i < Len(s) => t[i + 1] = s[i + 1]
      BY <1>2, <3>1
    <3>4. i > 1 => t[i - 1] = s[i - 1]
      BY <1>2, <3>1
    <3>5. QED
      BY <1>2, <3>1, <3>2, <3>3, <3>4
  <2>3. QED
    BY <2>1, <2>2
<1>4. QED
  BY <1>2, <1>3 DEF IsSlug, Joined, t

LEMMA SlugAndMark ==
    ASSUME NEW s, IsSlug(s)
    PROVE  IsSlug(Append(s, Mark))
<1> DEFINE t == Append(s, Mark)
<1>1. s \in Seq(SlugCharacter) /\ s # <<>> /\ Mark \in SlugCharacter
  BY CharacterClasses DEF IsSlug
<1>2. /\ t \in Seq(SlugCharacter) /\ t # <<>> /\ Len(t) = Len(s) + 1
      /\ Len(s) \in Nat /\ Len(s) > 0
      /\ \A i \in 1 .. Len(s) : t[i] = s[i]
      /\ t[Len(s) + 1] = Mark
  BY <1>1, AppendProperties, LenProperties, EmptySeq
<1>3. s[Len(s)] # Dash
  BY <1>2 DEF IsSlug, Joined
<1> HIDE DEF t
<1>4. ASSUME NEW i \in 1 .. Len(t)
      PROVE  /\ t[i] = Dash => i > 1 /\ i < Len(t) /\ t[i + 1] \in Kept
             /\ t[i] = Mark => i > 1 /\ t[i - 1] # Dash
  <2>1. CASE i = Len(t)
    <3>1. t[i] = Mark /\ i > 1 /\ t[i - 1] = s[Len(s)]
      BY <1>2, <2>1
    <3>2. QED
      BY <1>3, <3>1, CharacterClasses
  <2>2. CASE i # Len(t)
    <3>1. i \in 1 .. Len(s) /\ t[i] = s[i]
      BY <1>2, <2>2
    <3>2. /\ s[i] = Dash => i > 1 /\ i < Len(s) /\ s[i + 1] \in Kept
          /\ s[i] = Mark => i > 1 /\ s[i - 1] # Dash
      BY <3>1 DEF IsSlug, Joined
    <3>3. i < Len(s) => t[i + 1] = s[i + 1]
      BY <1>2, <3>1
    <3>4. i > 1 => t[i - 1] = s[i - 1]
      BY <1>2, <3>1
    <3>5. QED
      BY <1>2, <3>1, <3>2, <3>3, <3>4
  <2>3. QED
    BY <2>1, <2>2
<1>5. QED
  BY <1>2, <1>4 DEF IsSlug, Joined, t

\* A slug, a hyphen and letters or digits are a slug.
LEMMA SlugAndTail ==
    ASSUME NEW s, IsSlug(s), NEW d \in Seq(Kept), d # <<>>
    PROVE  IsSlug((s \o <<Dash>>) \o d)
<1> DEFINE h == s \o <<Dash>>
           t == h \o d
<1>1. /\ s \in Seq(SlugCharacter) /\ s # <<>> /\ <<Dash>> \in Seq(SlugCharacter)
      /\ d \in Seq(SlugCharacter)
  BY CharacterClasses DEF IsSlug
<1>2. Len(s) \in Nat /\ Len(s) > 0 /\ Len(d) \in Nat /\ Len(d) > 0
  BY <1>1, EmptySeq
<1>3. /\ h \in Seq(SlugCharacter) /\ Len(h) = Len(s) + 1
      /\ \A i \in 1 .. Len(s) : h[i] = s[i]
      /\ h[Len(s) + 1] = Dash
  BY <1>1, <1>2, ConcatProperties
<1> HIDE DEF h
<1>4. /\ t \in Seq(SlugCharacter) /\ Len(t) = Len(s) + 1 + Len(d)
      /\ \A i \in 1 .. Len(h) + Len(d) : t[i] = IF i <= Len(h) THEN h[i] ELSE d[i - Len(h)]
  <2>1. /\ t \in Seq(SlugCharacter) /\ Len(t) = Len(h) + Len(d)
        /\ \A i \in 1 .. Len(h) + Len(d) : t[i] = IF i <= Len(h) THEN h[i] ELSE d[i - Len(h)]
    BY <1>1, <1>3, ConcatProperties
  <2> HIDE DEF t
  <2>2. QED
    BY <1>2, <1>3, <2>1
<1> HIDE DEF t
<1>5. /\ \A i \in 1 .. Len(s) : t[i] = s[i]
      /\ t[Len(s) + 1] = Dash
      /\ \A i \in Len(s) + 2 .. Len(t) : t[i] \in Kept
  <2>1. ASSUME NEW i \in Len(s) + 2 .. Len(t) PROVE t[i] \in Kept
    <3>1. i - Len(h) \in 1 .. Len(d) /\ t[i] = d[i - Len(h)]
      BY <1>2, <1>3, <1>4
    <3>2. QED
      BY <3>1
  <2>2. QED
    BY <1>2, <1>3, <1>4, <2>1
<1>6. ASSUME NEW i \in 1 .. Len(t)
      PROVE  /\ t[i] = Dash => i > 1 /\ i < Len(t) /\ t[i + 1] \in Kept
             /\ t[i] = Mark => i > 1 /\ t[i - 1] # Dash
  <2>1. CASE i = Len(s) + 1
    BY <1>2, <1>4, <1>5, <2>1, CharacterClasses
  <2>2. CASE i > Len(s) + 1
    <3>1. t[i] \in Kept
      BY <1>2, <1>4, <1>5, <2>2
    <3>2. QED
      BY <3>1, CharacterClasses
  <2>3. CASE i < Len(s) + 1
    <3>1. i \in 1 .. Len(s) /\ t[i] = s[i]
      BY <1>2, <1>5, <2>3
    <3>2. /\ s[i] = Dash => i > 1 /\ i < Len(s) /\ s[i + 1] \in Kept
          /\ s[i] = Mark => i > 1 /\ s[i - 1] # Dash
      BY <3>1 DEF IsSlug, Joined
    <3>3. i < Len(s) => t[i + 1] = s[i + 1]
      BY <1>5, <3>1
    <3>4. i > 1 => t[i - 1] = s[i - 1]
      BY <1>5, <3>1
    <3>5. QED
      BY <1>2, <1>4, <3>1, <3>2, <3>3, <3>4
  <2>4. QED
    BY <1>2, <2>1, <2>2, <2>3
<1>7. t # <<>>
  BY <1>2, <1>4
<1>8. QED
  BY <1>4, <1>6, <1>7 DEF IsSlug, Joined, t, h

-----------------------------------------------------------------------------
\* What one character does to the state, case by case.
LEMMA ScanCases ==
    ASSUME NEW state \in ScanState, NEW c
    PROVE  /\ c \in Alphanumeric =>
                Scan(state, c) =
                   [slug |-> (state.slug \o (IF state.separator /\ state.any THEN <<Dash>> ELSE <<>>))
                                \o <<ToLower(c)>>,
                    separator |-> FALSE, any |-> TRUE]
           /\ c = Mark /\ state.any /\ ~state.separator =>
                Scan(state, c) = [slug |-> Append(state.slug, c), separator |-> FALSE, any |-> TRUE]
           /\ c \notin Alphanumeric /\ ~(c = Mark /\ state.any /\ ~state.separator) =>
                Scan(state, c) = [slug |-> state.slug, separator |-> state.separator \/ state.any,
                                  any |-> state.any]
<1>1. ASSUME c \in Alphanumeric
      PROVE  Scan(state, c) =
                   [slug |-> (state.slug \o (IF state.separator /\ state.any THEN <<Dash>> ELSE <<>>))
                                \o <<ToLower(c)>>,
                    separator |-> FALSE, any |-> TRUE]
  <2>1. c # Mark
    BY <1>1, CharacterClasses
  <2>2. QED
    BY <1>1, <2>1 DEF Scan
<1>2. ASSUME c = Mark /\ state.any /\ ~state.separator
      PROVE  Scan(state, c) = [slug |-> Append(state.slug, c), separator |-> FALSE, any |-> TRUE]
  <2>1. c \notin Alphanumeric
    BY <1>2, CharacterClasses
  <2>2. Scan(state, c) = [state EXCEPT !.slug = Append(@, c)]
    BY <1>2, <2>1 DEF Scan
  <2>3. QED
    BY <1>2, <2>2 DEF ScanState
<1>3. ASSUME c \notin Alphanumeric /\ ~(c = Mark /\ state.any /\ ~state.separator)
      PROVE  Scan(state, c) = [slug |-> state.slug, separator |-> state.separator \/ state.any,
                               any |-> state.any]
  <2>1. Scan(state, c) = [state EXCEPT !.separator = @ \/ state.any]
    BY <1>3 DEF Scan
  <2>2. QED
    BY <2>1 DEF ScanState
<1>4. QED
  BY <1>1, <1>2, <1>3

\* What has gone in so far is a slug, or nothing has.
Scanning(state) ==
    /\ state \in ScanState
    /\ state.any = TRUE => IsSlug(state.slug)
    /\ state.any = FALSE => state.slug = <<>> /\ state.separator = FALSE

LEMMA ScanKeepsScanning ==
    ASSUME NEW state, Scanning(state), NEW c
    PROVE  Scanning(Scan(state, c))
<1>1. state \in ScanState /\ state.slug \in Seq(SlugCharacter)
  BY DEF Scanning, ScanState
<1>2. CASE c \in Alphanumeric
  <2> DEFINE k == ToLower(c)
             s == (state.slug \o (IF state.separator /\ state.any THEN <<Dash>> ELSE <<>>)) \o <<k>>
  <2>1. k \in Kept /\ k \in SlugCharacter
    BY <1>2, CharacterClasses
  <2>2. Scan(state, c) = [slug |-> s, separator |-> FALSE, any |-> TRUE]
    BY <1>1, <1>2, ScanCases
  <2> HIDE DEF k
  <2>3. IsSlug(s)
    <3>1. CASE state.any = FALSE
      <4>1. s = (<<>> \o <<>>) \o <<k>>
        BY <3>1 DEF Scanning
      <4>2. s = <<k>>
        <5>1. <<>> \in Seq(Kept) /\ <<k>> \in Seq(Kept)
          BY <2>1
        <5>2. <<>> \o <<>> = <<>> /\ <<>> \o <<k>> = <<k>>
          BY <5>1, ConcatEmptySeq
        <5> HIDE DEF s
        <5>3. QED
          BY <4>1, <5>2, Zenon
      <4>3. QED
        BY <2>1, <4>2, SlugOfOne
    <3>2. CASE state.any = TRUE /\ state.separator = FALSE
      <4>1. IsSlug(state.slug)
        BY <3>2 DEF Scanning
      <4>2. s = Append(state.slug, k)
        BY <1>1, <2>1, <3>2, AppendIsConcat, ConcatEmptySeq
      <4>3. QED
        BY <2>1, <4>1, <4>2, SlugAndKept
    <3>3. CASE state.any = TRUE /\ state.separator = TRUE
      <4>1. IsSlug(state.slug) /\ <<k>> \in Seq(Kept) /\ <<k>> # <<>>
        BY <2>1, <3>3 DEF Scanning
      <4>2. s = (state.slug \o <<Dash>>) \o <<k>>
        BY <3>3
      <4>3. QED
        BY <4>1, <4>2, SlugAndTail
    <3>4. QED
      BY <1>1, <3>1, <3>2, <3>3 DEF ScanState
  <2> HIDE DEF s
  <2>4. QED
    BY <2>2, <2>3 DEF Scanning, ScanState, IsSlug
<1>3. CASE c = Mark /\ state.any /\ ~state.separator
  <2>1. Scan(state, c) = [slug |-> Append(state.slug, Mark), separator |-> FALSE, any |-> TRUE]
    BY <1>1, <1>3, ScanCases
  <2>2. IsSlug(Append(state.slug, Mark))
    BY <1>1, <1>3, SlugAndMark DEF Scanning, ScanState
  <2>3. QED
    BY <2>1, <2>2 DEF Scanning, ScanState, IsSlug
<1>4. CASE c \notin Alphanumeric /\ ~(c = Mark /\ state.any /\ ~state.separator)
  <2>1. Scan(state, c) = [slug |-> state.slug, separator |-> state.separator \/ state.any,
                          any |-> state.any]
    BY <1>1, <1>4, ScanCases
  <2>2. (state.separator \/ state.any) \in BOOLEAN /\ state.any \in BOOLEAN /\ state.separator \in BOOLEAN
    BY <1>1 DEF ScanState
  <2>3. QED
    BY <1>1, <2>1, <2>2 DEF Scanning, ScanState
<1>5. QED
  BY <1>2, <1>3, <1>4

LEMMA UnscannedScanning == Scanning(Unscanned)
BY DEF Scanning, Unscanned, ScanState

\* The states of a scan, from the first character to the last.
LEMMA ScannedStates ==
    ASSUME NEW X, NEW title \in Seq(X)
    PROVE  /\ Scanned(title) \in [0 .. Len(title) -> {state \in ScanState : Scanning(state)}]
           /\ Scanned(title)[0] = Unscanned
           /\ \A n \in 1 .. Len(title) : Scanned(title)[n] = Scan(Scanned(title)[n - 1], title[n])
<1> DEFINE S == {state \in ScanState : Scanning(state)}
           N == Len(title)
           step == [state \in S |-> [n \in 1 .. N |-> Scan(state, title[n])]]
           Value(f, n) == IF n = 0 THEN Unscanned ELSE Scan(f[n - 1], title[n])
<1>1. N \in Nat /\ Unscanned \in S
  BY UnscannedScanning DEF Scanning
<1>2. step \in StepMaps(S, N)
  BY ScanKeepsScanning DEF Scanning, StepMaps
<1> HIDE DEF S, N
<1>3. PICK f \in [0 .. N -> S] :
         f[0] = Unscanned /\ \A n \in 1 .. N : f[n] = step[f[n - 1]][n]
  <2> HIDE DEF step
  <2>1. \E f : IsRecursion(f, S, Unscanned, N, step)
    BY <1>1, <1>2, Recursion
  <2>2. QED
    BY <2>1 DEF IsRecursion
<1>4. ASSUME NEW n \in 0 .. N PROVE f[n] = Value(f, n)
  <2>1. CASE n = 0
    BY <1>3, <2>1
  <2>2. CASE n # 0
    <3>1. n - 1 \in 0 .. N /\ n \in 1 .. N
      BY <1>1, <2>2
    <3>2. f[n] = step[f[n - 1]][n]
      <4> HIDE DEF step
      <4>1. QED
        BY <1>3, <2>2
    <3>3. f[n - 1] \in S
      BY <3>1
    <3>4. QED
      BY <2>2, <3>1, <3>2, <3>3
  <2>3. QED
    BY <2>1, <2>2
<1>5. f = [n \in 0 .. N |-> Value(f, n)]
  <2> HIDE DEF Value
  <2>1. QED
    BY <1>4
<1> DEFINE g == Scanned(title)
<1>6. g = [n \in 0 .. N |-> Value(g, n)]
  BY <1>5 DEF Scanned, N
<1> HIDE DEF g
<1>7. g[0] = Unscanned /\ \A n \in 1 .. N : g[n] = Scan(g[n - 1], title[n])
  <2>1. \A n \in 0 .. N : g[n] = Value(g, n)
    <3> HIDE DEF Value
    <3>1. QED
      BY <1>6
  <2>2. QED
    BY <1>1, <2>1
<1> DEFINE P == {n \in Nat : n <= N => g[n] \in S}
<1>8. 0 \in P
  BY <1>1, <1>7
<1>9. ASSUME NEW n \in Nat, n \in P PROVE n + 1 \in P
  <2>1. SUFFICES ASSUME n + 1 <= N PROVE g[n + 1] \in S
    OBVIOUS
  <2>2. n + 1 \in 1 .. N /\ (n + 1) - 1 = n /\ g[n] \in S
    BY <1>1, <1>9, <2>1
  <2>3. g[n + 1] = Scan(g[n], title[n + 1])
    BY <1>7, <2>2
  <2>4. Scanning(g[n])
    BY <2>2 DEF S
  <2>5. Scanning(g[n + 1])
    BY <2>3, <2>4, ScanKeepsScanning
  <2>6. g[n + 1] \in ScanState
    BY <2>5 DEF Scanning
  <2>7. QED
    BY <2>5, <2>6 DEF S
<1>10. \A n \in Nat : n \in P
  <2> HIDE DEF P
  <2>1. QED
    BY <1>8, <1>9, Induction
<1>11. g \in [0 .. N -> S]
  <2>1. \A n \in 0 .. N : g[n] \in S
    BY <1>1, <1>10
  <2>2. g = [n \in 0 .. N |-> g[n]]
    <3> HIDE DEF Value
    <3>1. QED
      BY <1>6
  <2>3. QED
    BY <2>1, <2>2
<1>12. QED
  BY <1>7, <1>11 DEF g, S, N

\* Slugify makes a slug of any title.
LEMMA SlugifyGivesSlugs ==
    ASSUME NEW X, NEW title \in Seq(X)
    PROVE  IsSlug(Slugify(title))
<1> DEFINE end == Scanned(title)[Len(title)]
<1>1. Len(title) \in 0 .. Len(title)
  OBVIOUS
<1>2. Scanning(end)
  BY <1>1, ScannedStates
<1>3. end.any \in BOOLEAN
  BY <1>2 DEF Scanning, ScanState
<1>4. Slugify(title) = IF end.any THEN end.slug ELSE Fallback
  BY DEF Slugify
<1> HIDE DEF end
<1>5. CASE end.any = TRUE
  BY <1>2, <1>4, <1>5 DEF Scanning
<1>6. CASE end.any = FALSE
  <2>1. Fallback \in Seq(Kept) /\ Fallback # <<>>
    BY CharactersAssumption DEF Kept
  <2>2. Fallback \in Seq(SlugCharacter) /\ \A i \in 1 .. Len(Fallback) : Fallback[i] \in Kept
    BY <2>1 DEF SlugCharacter
  <2>3. Joined(Fallback)
    BY <2>2, CharacterClasses DEF Joined
  <2>4. QED
    BY <1>4, <1>6, <2>1, <2>2, <2>3 DEF IsSlug
<1>7. QED
  BY <1>3, <1>5, <1>6

\* What the scan of a slug has at a position: all of it so far, but a hyphen
\* only as the separator that will be written.
ScannedSlug(s, state, n) ==
    IF n = 0 THEN state = Unscanned
    ELSE /\ state.any = TRUE
         /\ s[n] = Dash => state.slug = SubSeq(s, 1, n - 1) /\ state.separator = TRUE
         /\ s[n] # Dash => state.slug = SubSeq(s, 1, n) /\ state.separator = FALSE

LEMMA ScanOfSlug ==
    ASSUME NEW s, IsSlug(s), NEW n \in 0 .. Len(s) - 1,
           NEW state \in ScanState, ScannedSlug(s, state, n)
    PROVE  ScannedSlug(s, Scan(state, s[n + 1]), n + 1)
<1> DEFINE c == s[n + 1]
<1>1. /\ s \in Seq(SlugCharacter) /\ n \in Nat /\ n + 1 \in 1 .. Len(s) /\ Len(s) \in Nat
      /\ c \in SlugCharacter
  BY DEF IsSlug
<1>2. /\ c = Dash => n > 0 /\ n + 1 < Len(s) /\ s[n + 2] \in Kept
      /\ c = Mark => n > 0 /\ s[n] # Dash
      /\ n > 0 /\ s[n] = Dash => c \in Kept
  <2>1. /\ c = Dash => n + 1 > 1 /\ n + 1 < Len(s) /\ s[(n + 1) + 1] \in Kept
        /\ c = Mark => n + 1 > 1 /\ s[(n + 1) - 1] # Dash
    BY <1>1 DEF IsSlug, Joined
  <2>2. n > 0 /\ s[n] = Dash => c \in Kept
    BY <1>1 DEF IsSlug, Joined
  <2>3. QED
    BY <1>1, <2>1, <2>2
<1>3. c \in Kept \/ c = Dash \/ c = Mark
  BY <1>1 DEF SlugCharacter
<1>4. SubSeq(s, 1, n + 1) = Append(SubSeq(s, 1, n), c)
  BY <1>1
<1>5. n > 0 => SubSeq(s, 1, n) = Append(SubSeq(s, 1, n - 1), s[n])
  BY <1>1
<1>6. /\ SubSeq(s, 1, n) \in Seq(SlugCharacter)
      /\ n > 0 => SubSeq(s, 1, n - 1) \in Seq(SlugCharacter) /\ s[n] \in SlugCharacter
  BY <1>1
<1> HIDE DEF c
<1>7. CASE c \in Kept
  <2>1. c \in Alphanumeric /\ ToLower(c) = c /\ c # Dash
    BY <1>7, CharacterClasses
  <2> DEFINE h == IF state.separator /\ state.any THEN <<Dash>> ELSE <<>>
             t == (state.slug \o h) \o <<c>>
  <2>2. Scan(state, c) = [slug |-> t, separator |-> FALSE, any |-> TRUE]
    BY <2>1, ScanCases
  <2>3. t = SubSeq(s, 1, n + 1)
    <3>1. CASE n = 0
      <4>1. state.slug = <<>> /\ h = <<>>
        BY <3>1 DEF ScannedSlug, Unscanned
      <4>2. <<>> \in Seq(SlugCharacter) /\ <<c>> \in Seq(SlugCharacter)
        BY <1>1 DEF c
      <4>3. <<>> \o <<>> = <<>> /\ <<>> \o <<c>> = <<c>>
        BY <4>2, ConcatEmptySeq
      <4>4. SubSeq(s, 1, n + 1) = <<c>>
        <5>1. SubSeq(s, 1, n) = <<>>
          BY <1>1, <3>1
        <5>2. Append(<<>>, c) = <<>> \o <<c>>
          BY <1>1, <4>2, AppendIsConcat DEF c
        <5>3. QED
          BY <1>4, <4>3, <5>1, <5>2, Zenon
      <4> HIDE DEF h
      <4>5. QED
        BY <4>1, <4>3, <4>4, Zenon
    <3>2. CASE n > 0 /\ s[n] = Dash
      <4>1. state.slug = SubSeq(s, 1, n - 1) /\ h = <<Dash>>
        <5>1. state.any = TRUE /\ state.slug = SubSeq(s, 1, n - 1) /\ state.separator = TRUE
          BY <1>1, <3>2 DEF ScannedSlug
        <5>2. QED
          BY <5>1
      <4>2. SubSeq(s, 1, n - 1) \o <<Dash>> = SubSeq(s, 1, n)
        BY <1>5, <1>6, <3>2, AppendIsConcat
      <4>3. SubSeq(s, 1, n) \o <<c>> = SubSeq(s, 1, n + 1)
        BY <1>1, <1>4, <1>6, AppendIsConcat DEF c
      <4> HIDE DEF h
      <4>4. QED
        BY <4>1, <4>2, <4>3, Zenon
    <3>3. CASE n > 0 /\ s[n] # Dash
      <4>1. state.slug = SubSeq(s, 1, n) /\ h = <<>>
        <5>1. state.any = TRUE /\ state.slug = SubSeq(s, 1, n) /\ state.separator = FALSE
          BY <1>1, <3>3 DEF ScannedSlug
        <5>2. QED
          BY <5>1
      <4>2. SubSeq(s, 1, n) \o <<>> = SubSeq(s, 1, n)
        BY <1>6, ConcatEmptySeq
      <4>3. SubSeq(s, 1, n) \o <<c>> = SubSeq(s, 1, n + 1)
        BY <1>1, <1>4, <1>6, AppendIsConcat DEF c
      <4> HIDE DEF h
      <4>4. QED
        BY <4>1, <4>2, <4>3, Zenon
    <3> HIDE DEF t
    <3>4. n = 0 \/ n > 0
      BY <1>1
    <3>5. QED
      BY <3>1, <3>2, <3>3, <3>4, Zenon
  <2> HIDE DEF t
  <2>4. QED
    BY <1>1, <2>1, <2>2, <2>3 DEF ScannedSlug, c
<1>8. CASE c = Dash
  <2>1. n > 0 /\ s[n] # Dash
    BY <1>1, <1>2, <1>8, CharacterClasses
  <2>2. state.any = TRUE /\ state.slug = SubSeq(s, 1, n) /\ state.separator = FALSE
    BY <1>1, <2>1 DEF ScannedSlug
  <2>3. Scan(state, c) = [slug |-> state.slug, separator |-> TRUE, any |-> TRUE]
    BY <1>8, <2>2, ScanCases, CharacterClasses
  <2>4. QED
    BY <1>1, <1>8, <2>2, <2>3 DEF ScannedSlug, c
<1>9. CASE c = Mark
  <2>1. n > 0 /\ s[n] # Dash
    BY <1>2, <1>9
  <2>2. state.any = TRUE /\ state.slug = SubSeq(s, 1, n) /\ state.separator = FALSE
    BY <1>1, <2>1 DEF ScannedSlug
  <2>3. Scan(state, c) = [slug |-> Append(state.slug, c), separator |-> FALSE, any |-> TRUE]
    BY <1>9, <2>2, ScanCases
  <2>4. QED
    BY <1>1, <1>4, <1>9, <2>2, <2>3, CharacterClasses DEF ScannedSlug, c
<1>10. QED
  BY <1>3, <1>7, <1>8, <1>9 DEF c

\* Slugify leaves a slug as it is.
LEMMA SlugsAreFixed ==
    ASSUME NEW s, IsSlug(s)
    PROVE  Slugify(s) = s
<1> DEFINE states == Scanned(s)
           P == {n \in Nat : n <= Len(s) => ScannedSlug(s, states[n], n)}
<1>1. s \in Seq(SlugCharacter) /\ s # <<>> /\ Len(s) \in Nat /\ Len(s) > 0
  BY EmptySeq DEF IsSlug
<1>2. /\ \A n \in 0 .. Len(s) : states[n] \in ScanState
      /\ states[0] = Unscanned
      /\ \A n \in 1 .. Len(s) : states[n] = Scan(states[n - 1], s[n])
  BY <1>1, ScannedStates
<1> HIDE DEF states
<1>3. 0 \in P
  BY <1>2 DEF ScannedSlug
<1>4. ASSUME NEW n \in Nat, n \in P PROVE n + 1 \in P
  <2>1. SUFFICES ASSUME n + 1 <= Len(s) PROVE ScannedSlug(s, states[n + 1], n + 1)
    OBVIOUS
  <2>2. n \in 0 .. Len(s) - 1 /\ n \in 0 .. Len(s) /\ n + 1 \in 1 .. Len(s) /\ (n + 1) - 1 = n
    BY <1>1, <2>1
  <2>3. ScannedSlug(s, states[n], n) /\ states[n] \in ScanState
    BY <1>2, <1>4, <2>2
  <2>4. states[n + 1] = Scan(states[n], s[n + 1])
    BY <1>2, <2>2
  <2>5. QED
    BY <2>2, <2>3, <2>4, ScanOfSlug
<1>5. Len(s) \in P
  <2> HIDE DEF P
  <2>1. QED
    BY <1>1, <1>3, <1>4, Induction
<1>6. s[Len(s)] # Dash
  BY <1>1 DEF IsSlug, Joined
<1>7. states[Len(s)].any = TRUE /\ states[Len(s)].slug = SubSeq(s, 1, Len(s))
  BY <1>1, <1>5, <1>6 DEF ScannedSlug
<1>8. SubSeq(s, 1, Len(s)) = s
  BY <1>1
<1>9. QED
  BY <1>7, <1>8 DEF Slugify, states

-----------------------------------------------------------------------------
LEMMA NumberedIsSlug ==
    ASSUME NEW s, IsSlug(s), NEW n \in Nat
    PROVE  IsSlug(Numbered(s, n))
<1>1. Decimal[n] \in Seq(Kept) /\ Decimal[n] # <<>>
  BY DecimalType DEF Kept
<1>2. QED
  BY <1>1, SlugAndTail DEF Numbered

LEMMA SlugTriedIsSlug ==
    ASSUME NEW s, IsSlug(s), NEW n \in Nat
    PROVE  IsSlug(SlugTried(s, n))
BY NumberedIsSlug DEF SlugTried

\* A number makes a slug longer, and different numbers different ones.
LEMMA NumberedInjective ==
    ASSUME NEW s, IsSlug(s), NEW m \in Nat, NEW n \in Nat
    PROVE  /\ Numbered(s, m) # s
           /\ Numbered(s, m) = Numbered(s, n) => m = n
<1> DEFINE h == s \o <<Dash>>
           U == SlugCharacter
<1>1. /\ s \in Seq(U) /\ <<Dash>> \in Seq(U)
      /\ Decimal[m] \in Seq(U) /\ Decimal[n] \in Seq(U)
  BY DecimalType, CharacterClasses DEF IsSlug, SlugCharacter, Kept
<1> HIDE DEF U
<1>2. h \in Seq(U) /\ Len(h) = Len(s) + 1 /\ Len(s) \in Nat
  BY <1>1, ConcatProperties
<1>3. Numbered(s, m) = h \o Decimal[m] /\ Numbered(s, n) = h \o Decimal[n]
  BY DEF Numbered
<1> HIDE DEF h
<1>4. Len(h \o Decimal[m]) = Len(h) + Len(Decimal[m]) /\ Len(Decimal[m]) \in Nat
  <2> DEFINE d == Decimal[m]
  <2>1. d \in Seq(U)
    BY <1>1
  <2> HIDE DEF d
  <2>2. Len(h \o d) = Len(h) + Len(d) /\ Len(d) \in Nat
    BY <1>2, <2>1, ConcatProperties, LenProperties
  <2>3. QED
    BY <2>2 DEF d
<1>5. h \o Decimal[m] # s
  <2> DEFINE t == h \o Decimal[m]
             l == Len(Decimal[m])
  <2>1. Len(t) = Len(h) + l /\ l \in Nat
    BY <1>4
  <2> HIDE DEF t, l
  <2>2. t # s
    BY <1>2, <2>1
  <2>3. QED
    BY <2>2 DEF t
<1>6. ASSUME h \o Decimal[m] = h \o Decimal[n] PROVE m = n
  <2>1. Decimal[m] = Decimal[n]
    BY <1>1, <1>2, <1>6, ConcatCancels
  <2>2. QED
    BY <2>1, DecimalInjective
<1>7. QED
  BY <1>3, <1>5, <1>6

LEMMA SlugTriedInjective ==
    ASSUME NEW s, IsSlug(s), NEW m \in Nat \ {0}, NEW n \in Nat \ {0},
           SlugTried(s, m) = SlugTried(s, n)
    PROVE  m = n
BY NumberedInjective DEF SlugTried

LEMMA LeastExists ==
    ASSUME NEW T \in SUBSET Nat, T # {}
    PROVE  \E t \in T : \A u \in T : t <= u
<1>1. PICK t \in T : \A u \in T : <<u, t>> \notin OpToRel(<, Nat)
  BY WFMin, NatLessThanWellFounded
<1>2. \A u \in T : ~(u < t)
  BY <1>1 DEF OpToRel
<1>3. QED
  BY <1>2

\* Of one more candidates than slugs are in use, one is free, and the least
\* of them is the one that the migration takes.
LEMMA BackfilledIsFree ==
    ASSUME NEW used, IsFiniteSet(used), NEW X, NEW title \in Seq(X), NEW id \in Nat
    PROVE  /\ Backfilled(used, title, id) \notin used
           /\ IsSlug(Backfilled(used, title, id))
           /\ Slugify(title) \notin used => Backfilled(used, title, id) = Slugify(title)
<1> DEFINE base == Slugify(title)
           numbered == Numbered(base, id)
           N == Cardinality(used) + 1
           freeAt == {n \in 1 .. N : SlugTried(numbered, n) \notin used}
<1>1. IsSlug(base) /\ IsSlug(numbered)
  BY SlugifyGivesSlugs, NumberedIsSlug
<1>2. Backfilled(used, title, id) =
         IF base \in used THEN SlugTried(numbered, Min(freeAt)) ELSE base
  BY DEF Backfilled
<1> HIDE DEF numbered, base
<1>3. Cardinality(used) \in Nat
  BY FS_CardinalityType
<1>3a. N \in Nat /\ N > 0
  BY <1>3
<1> HIDE DEF N
<1>4. IsFiniteSet(1 .. N) /\ Cardinality(1 .. N) = N
  BY <1>3a, FS_Interval
<1>5. freeAt # {}
  <2>1. SUFFICES ASSUME \A n \in 1 .. N : SlugTried(numbered, n) \in used PROVE FALSE
    OBVIOUS
  <2> DEFINE f == [n \in 1 .. N |-> SlugTried(numbered, n)]
  <2>2. f \in [1 .. N -> used]
    BY <2>1
  <2>3. Cardinality(used) < Cardinality(1 .. N)
    BY <1>3, <1>4 DEF N
  <2> HIDE DEF f
  <2>4. PICK m, n \in 1 .. N : m # n /\ f[m] = f[n]
    BY <1>4, <2>2, <2>3, FS_PigeonHole
  <2>5. SlugTried(numbered, m) = SlugTried(numbered, n)
    BY <2>4 DEF f
  <2>6. m \in Nat \ {0} /\ n \in Nat \ {0}
    BY <1>3 DEF N
  <2>7. QED
    BY <1>1, <2>4, <2>5, <2>6, SlugTriedInjective
<1>6. freeAt \in SUBSET Nat
  BY <1>3 DEF N
<1>7. Min(freeAt) \in freeAt
  <2> HIDE DEF freeAt
  <2>1. \E t \in freeAt : \A u \in freeAt : t <= u
    BY <1>5, <1>6, LeastExists
  <2>2. QED
    BY <2>1 DEF Min
<1>8. CASE base \in used
  <2> DEFINE n == Min(freeAt)
  <2> HIDE DEF n
  <2>1. n \in Nat /\ SlugTried(numbered, n) \notin used
    BY <1>6, <1>7 DEF n
  <2>2. IsSlug(SlugTried(numbered, n))
    BY <1>1, <2>1, SlugTriedIsSlug
  <2>3. Backfilled(used, title, id) = SlugTried(numbered, n)
    BY <1>2, <1>8 DEF n
  <2>4. QED
    BY <1>8, <2>1, <2>2, <2>3 DEF base
<1>9. CASE base \notin used
  <2>1. Backfilled(used, title, id) = base
    BY <1>2, <1>9
  <2>2. QED
    BY <1>1, <1>9, <2>1 DEF base
<1>10. QED
  BY <1>8, <1>9

-----------------------------------------------------------------------------
SlugSet == {s \in Seq(SlugCharacter) : IsSlug(s)}

LEMMA FiniteRange ==
    ASSUME NEW X, NEW s \in Seq(X)
    PROVE  IsFiniteSet(ToSet(s))
<1>1. IsFiniteSet(1 .. Len(s))
  BY FS_Interval
<1>2. s \in Surjection(1 .. Len(s), ToSet(s))
  BY DEF Surjection, ToSet
<1>3. QED
  BY <1>1, <1>2, FS_Surjection

\* What the backfill adds to the slugs so far for the n-th of the posts.
Added(before, list, n) == Append(before, Backfilled(ToSet(before), list[n], n))

LEMMA AddedIsSlugs ==
    ASSUME NEW before \in Seq(SlugSet), NEW X, NEW list \in Seq(Seq(X)), NEW n \in 1 .. Len(list)
    PROVE  /\ Backfilled(ToSet(before), list[n], n) \in SlugSet
           /\ Added(before, list, n) \in Seq(SlugSet)
<1>1. IsFiniteSet(ToSet(before)) /\ list[n] \in Seq(X) /\ n \in Nat
  BY FiniteRange
<1>2. IsSlug(Backfilled(ToSet(before), list[n], n))
  BY <1>1, BackfilledIsFree
<1>3. Backfilled(ToSet(before), list[n], n) \in SlugSet
  BY <1>2 DEF SlugSet, IsSlug
<1>4. QED
  BY <1>3 DEF Added

\* The slugs after so many posts, as AddPostSlugs collects them.
Collected(list) ==
    LET slugs[n \in 0 .. Len(list)] == IF n = 0 THEN <<>> ELSE Added(slugs[n - 1], list, n)
    IN  slugs

LEMMA AddPostSlugsCollects ==
    ASSUME NEW list
    PROVE  AddPostSlugs(list) = Collected(list)[Len(list)]
BY DEF AddPostSlugs, Collected, Added

LEMMA CollectedEquation ==
    ASSUME NEW X, NEW list \in Seq(Seq(X))
    PROVE  /\ Collected(list)[0] = <<>>
           /\ \A n \in 1 .. Len(list) :
                 Collected(list)[n] = Added(Collected(list)[n - 1], list, n)
           /\ \A n \in 0 .. Len(list) : Collected(list)[n] \in Seq(SlugSet)
<1> DEFINE S == Seq(SlugSet)
           N == Len(list)
           step == [before \in S |-> [n \in 1 .. N |-> Added(before, list, n)]]
           Value(f, n) == IF n = 0 THEN <<>> ELSE Added(f[n - 1], list, n)
<1>1. N \in Nat /\ <<>> \in S
  OBVIOUS
<1>2. step \in StepMaps(S, N)
  <2>1. \A before \in S : \A n \in 1 .. N : Added(before, list, n) \in S
    BY AddedIsSlugs
  <2> HIDE DEF S, N
  <2>2. QED
    BY <2>1 DEF StepMaps
<1>3. \A before \in S : \A n \in 1 .. N : Added(before, list, n) \in S
  BY AddedIsSlugs
<1> HIDE DEF S, N
<1>4. PICK f \in [0 .. N -> S] : f[0] = <<>> /\ \A n \in 1 .. N : f[n] = step[f[n - 1]][n]
  <2> HIDE DEF step
  <2>1. \E f : IsRecursion(f, S, <<>>, N, step)
    BY <1>1, <1>2, Recursion
  <2>2. QED
    BY <2>1 DEF IsRecursion
<1>5. ASSUME NEW n \in 0 .. N PROVE f[n] = Value(f, n)
  <2>1. CASE n = 0
    BY <1>4, <2>1
  <2>2. CASE n # 0
    <3>1. n \in 1 .. N /\ f[n - 1] \in S
      BY <1>1, <2>2
    <3>2. f[n] = step[f[n - 1]][n]
      BY <1>4, <3>1
    <3>3. QED
      BY <2>2, <3>1, <3>2
  <2>3. QED
    BY <2>1, <2>2
<1>6. f = [n \in 0 .. N |-> Value(f, n)]
  <2> HIDE DEF Value
  <2>1. QED
    BY <1>5
<1> DEFINE g == Collected(list)
<1>7. g = [n \in 0 .. N |-> Value(g, n)]
  BY <1>6 DEF Collected, N
<1> HIDE DEF g
<1>8. g[0] = <<>> /\ \A n \in 1 .. N : g[n] = Added(g[n - 1], list, n)
  <2>1. \A n \in 0 .. N : g[n] = Value(g, n)
    <3> HIDE DEF Value
    <3>1. QED
      BY <1>7
  <2>2. g[0] = <<>>
    BY <1>1, <2>1
  <2>3. ASSUME NEW n \in 1 .. N PROVE g[n] = Added(g[n - 1], list, n)
    <3>1. n \in 0 .. N /\ n # 0
      BY <1>1
    <3>2. g[n] = Value(g, n)
      BY <2>1, <3>1
    <3>3. QED
      BY <3>1, <3>2
  <2>4. QED
    BY <2>2, <2>3
<1> DEFINE P == {n \in Nat : n <= N => g[n] \in S}
<1>9. 0 \in P
  BY <1>1, <1>8
<1>10. ASSUME NEW n \in Nat, n \in P PROVE n + 1 \in P
  <2>1. SUFFICES ASSUME n + 1 <= N PROVE g[n + 1] \in S
    OBVIOUS
  <2>2. n + 1 \in 1 .. N /\ (n + 1) - 1 = n /\ g[n] \in S
    BY <1>1, <1>10, <2>1
  <2>3. g[n + 1] = Added(g[n], list, n + 1)
    BY <1>8, <2>2
  <2>4. QED
    BY <1>3, <2>2, <2>3
<1>11. \A n \in Nat : n \in P
  <2> HIDE DEF P
  <2>1. QED
    BY <1>9, <1>10, Induction
<1>12. QED
  BY <1>1, <1>8, <1>11 DEF g, S, N

\* The slugs of the first n posts: distinct, and each the base of its title
\* unless a post before has that.
Assigned(slugs, list, n) ==
    /\ slugs \in Seq(SlugSet) /\ Len(slugs) = n
    /\ \A i, j \in 1 .. n : slugs[i] = slugs[j] => i = j
    /\ \A i \in 1 .. n : slugs[i] # Slugify(list[i]) =>
          \E j \in 1 .. i - 1 : slugs[j] = Slugify(list[i])

LEMMA AddedIsAssigned ==
    ASSUME NEW X, NEW list \in Seq(Seq(X)), NEW n \in Nat, n + 1 <= Len(list),
           NEW before, Assigned(before, list, n)
    PROVE  Assigned(Added(before, list, n + 1), list, n + 1)
<1> DEFINE slug == Backfilled(ToSet(before), list[n + 1], n + 1)
           after == Append(before, slug)
           base == Slugify(list[n + 1])
<1>1. before \in Seq(SlugSet) /\ Len(before) = n /\ n + 1 \in 1 .. Len(list)
  BY DEF Assigned
<1>2. IsFiniteSet(ToSet(before)) /\ list[n + 1] \in Seq(X)
  BY <1>1, FiniteRange
<1>3. slug \notin ToSet(before) /\ (base \notin ToSet(before) => slug = base)
  BY <1>1, <1>2, BackfilledIsFree
<1>4. slug \in SlugSet
  BY <1>1, AddedIsSlugs
<1>5. Added(before, list, n + 1) = after
  BY DEF Added
<1> HIDE DEF slug, base
<1>6. /\ after \in Seq(SlugSet) /\ Len(after) = n + 1
      /\ \A i \in 1 .. n : after[i] = before[i]
      /\ after[n + 1] = slug
  <2>1. before \in Seq(SlugSet) /\ Len(before) = n /\ slug \in SlugSet
    BY <1>1, <1>4
  <2>2. QED
    BY <2>1, AppendProperties
<1>6a. ToSet(before) = {before[i] : i \in 1 .. n}
  <2>1. DOMAIN before = 1 .. n
    BY <1>1
  <2>2. QED
    BY <2>1, Zenon DEF ToSet
<1>7. \A i \in 1 .. n : before[i] # slug
  BY <1>6a, <1>3
<1>8. slug # base => \E j \in 1 .. n : before[j] = base
  BY <1>6a, <1>3
<1> HIDE DEF after
<1>9. ASSUME NEW i \in 1 .. n + 1, NEW j \in 1 .. n + 1, after[i] = after[j] PROVE i = j
  <2>1. CASE i = n + 1 /\ j = n + 1
    BY <2>1
  <2>2. CASE i \in 1 .. n /\ j = n + 1
    BY <1>6, <1>7, <1>9, <2>2
  <2>3. CASE i = n + 1 /\ j \in 1 .. n
    BY <1>6, <1>7, <1>9, <2>3
  <2>4. CASE i \in 1 .. n /\ j \in 1 .. n
    BY <1>6, <1>9, <2>4 DEF Assigned
  <2>5. QED
    BY <2>1, <2>2, <2>3, <2>4
<1>10. ASSUME NEW i \in 1 .. n + 1, after[i] # Slugify(list[i])
       PROVE  \E j \in 1 .. i - 1 : after[j] = Slugify(list[i])
  <2>1. CASE i = n + 1
    <3>1. PICK j \in 1 .. n : before[j] = base
      BY <1>6, <1>8, <1>10, <2>1 DEF base
    <3>2. j \in 1 .. i - 1 /\ after[j] = base
      BY <1>6, <2>1, <3>1
    <3>3. QED
      BY <2>1, <3>2 DEF base
  <2>2. CASE i # n + 1
    <3>1. i \in 1 .. n /\ before[i] # Slugify(list[i])
      BY <1>6, <1>10, <2>2
    <3>2. PICK j \in 1 .. i - 1 : before[j] = Slugify(list[i])
      BY <3>1 DEF Assigned
    <3>3. j \in 1 .. n /\ after[j] = before[j]
      BY <1>6, <3>1
    <3>4. QED
      BY <3>2, <3>3
  <2>3. QED
    BY <2>1, <2>2
<1>11. QED
  BY <1>5, <1>6, <1>9, <1>10 DEF Assigned

LEMMA CollectedIsAssigned ==
    ASSUME NEW X, NEW list \in Seq(Seq(X))
    PROVE  Assigned(AddPostSlugs(list), list, Len(list))
<1> DEFINE g == Collected(list)
           P == {n \in Nat : n <= Len(list) => Assigned(g[n], list, n)}
<1>1. /\ g[0] = <<>>
      /\ \A n \in 1 .. Len(list) : g[n] = Added(g[n - 1], list, n)
  BY CollectedEquation
<1> HIDE DEF g
<1>2. 0 \in P
  <2>1. Assigned(<<>>, list, 0)
    BY DEF Assigned
  <2>2. QED
    BY <1>1, <2>1
<1>3. ASSUME NEW n \in Nat, n \in P PROVE n + 1 \in P
  <2>1. SUFFICES ASSUME n + 1 <= Len(list) PROVE Assigned(g[n + 1], list, n + 1)
    OBVIOUS
  <2>2. n + 1 \in 1 .. Len(list) /\ (n + 1) - 1 = n /\ Assigned(g[n], list, n)
    BY <1>3, <2>1
  <2>3. g[n + 1] = Added(g[n], list, n + 1)
    BY <1>1, <2>2
  <2>4. QED
    BY <2>1, <2>2, <2>3, AddedIsAssigned
<1>4. Len(list) \in P
  <2> HIDE DEF P
  <2>1. QED
    BY <1>2, <1>3, Induction
<1>5. QED
  BY <1>4, AddPostSlugsCollects DEF g

\* The slugs of the posts but the last are what they would be without it.
LEMMA AddPostSlugsPrefix ==
    ASSUME NEW X, NEW list \in Seq(Seq(X)), list # <<>>
    PROVE  SubSeq(AddPostSlugs(list), 1, Len(list) - 1) = AddPostSlugs(Front(list))
<1> DEFINE front == Front(list)
           N == Len(list)
           f == Collected(list)
           g == Collected(front)
<1>1. /\ N \in Nat /\ N > 0 /\ front \in Seq(Seq(X)) /\ Len(front) = N - 1
      /\ \A i \in 1 .. N - 1 : front[i] = list[i]
  <2>1. N \in Nat /\ N > 0
    BY EmptySeq
  <2>2. front = SubSeq(list, 1, N - 1)
    BY DEF Front
  <2>3. \A i \in 1 .. N - 1 : list[i] \in Seq(X)
    OBVIOUS
  <2> HIDE DEF front
  <2>4. front = [i \in 1 .. N - 1 |-> list[i]]
    BY <2>1, <2>2
  <2>5. QED
    BY <2>1, <2>3, <2>4
<1> HIDE DEF front
<1>2. /\ f[0] = <<>>
      /\ \A n \in 1 .. N : f[n] = Added(f[n - 1], list, n)
      /\ \A n \in 0 .. N : f[n] \in Seq(SlugSet)
  BY CollectedEquation
<1>3. g[0] = <<>> /\ \A n \in 1 .. N - 1 : g[n] = Added(g[n - 1], front, n)
  BY <1>1, CollectedEquation
<1> HIDE DEF f, g, N
<1> DEFINE P == {n \in Nat : n <= N - 1 => f[n] = g[n]}
<1>4. 0 \in P
  BY <1>2, <1>3
<1>5. ASSUME NEW n \in Nat, n \in P PROVE n + 1 \in P
  <2>1. SUFFICES ASSUME n + 1 <= N - 1 PROVE f[n + 1] = g[n + 1]
    OBVIOUS
  <2>2. n + 1 \in 1 .. N /\ n + 1 \in 1 .. N - 1 /\ (n + 1) - 1 = n /\ f[n] = g[n]
    BY <1>1, <1>5, <2>1
  <2>3. f[n + 1] = Added(f[n], list, n + 1) /\ g[n + 1] = Added(g[n], front, n + 1)
    BY <1>2, <1>3, <2>2
  <2>4. front[n + 1] = list[n + 1]
    BY <1>1, <2>2
  <2>5. QED
    BY <2>2, <2>3, <2>4 DEF Added
<1>6. f[N - 1] = g[N - 1]
  <2>1. \A n \in Nat : n \in P
    <3> HIDE DEF P
    <3>1. QED
      BY <1>4, <1>5, Induction
  <2>2. QED
    BY <1>1, <2>1
<1>7. AddPostSlugs(list) = f[N] /\ AddPostSlugs(front) = g[N - 1]
  BY <1>1, AddPostSlugsCollects DEF f, g, N
<1>8. Assigned(AddPostSlugs(front), front, N - 1)
  BY <1>1, CollectedIsAssigned
<1>9. f[N] = Append(f[N - 1], Backfilled(ToSet(f[N - 1]), list[N], N))
  BY <1>1, <1>2 DEF Added
<1>10. f[N - 1] \in Seq(SlugSet) /\ Len(f[N - 1]) = N - 1
  BY <1>1, <1>2, <1>6, <1>7, <1>8 DEF Assigned
<1>11. Backfilled(ToSet(f[N - 1]), list[N], N) \in SlugSet
  BY <1>1, <1>10, AddedIsSlugs DEF N
<1> DEFINE s == f[N - 1]
           e == Backfilled(ToSet(f[N - 1]), list[N], N)
<1>12. SubSeq(Append(s, e), 1, N - 1) = s
  <2>1. s \in Seq(SlugSet) /\ Len(s) = N - 1 /\ e \in SlugSet
    BY <1>10, <1>11
  <2> HIDE DEF s, e
  <2>2. QED
    BY <1>1, <2>1
<1>13. QED
  BY <1>6, <1>7, <1>9, <1>12 DEF front, N

-----------------------------------------------------------------------------
TitlesType == titles \in Seq(Seq(Alphabet)) /\ titles # <<>>

\* There is always a title that is being typed.
LEMMA TitlesTyped == TitlesSpec => []TitlesType
<1>1. TitlesInit => TitlesType
  BY DEF TitlesInit, TitlesType
<1>2. TitlesType /\ [TitlesNext]_titles => TitlesType'
  <2> SUFFICES ASSUME TitlesType, [TitlesNext]_titles PROVE TitlesType'
    OBVIOUS
  <2>1. CASE TypeTitle
    <3>1. PICK c \in Alphabet : titles' = [titles EXCEPT ![Len(titles)] = Append(@, c)]
      BY <2>1 DEF TypeTitle
    <3>2. Len(titles) \in 1 .. Len(titles) /\ titles[Len(titles)] \in Seq(Alphabet)
      BY EmptySeq DEF TitlesType
    <3>3. Append(titles[Len(titles)], c) \in Seq(Alphabet)
      BY <3>2
    <3>4. titles' \in Seq(Seq(Alphabet)) /\ Len(titles') = Len(titles)
      BY <3>1, <3>2, <3>3 DEF TitlesType
    <3>5. QED
      BY <3>2, <3>4 DEF TitlesType
  <2>2. CASE NextTitle
    <3>1. titles' = Append(titles, <<>>)
      BY <2>2 DEF NextTitle
    <3>2. QED
      BY <3>1, AppendProperties DEF TitlesType
  <2>3. CASE UNCHANGED titles
    BY <2>3 DEF TitlesType
  <2>4. QED
    BY <2>1, <2>2, <2>3 DEF TitlesNext
<1>3. QED
  BY <1>1, <1>2, PTL DEF TitlesSpec

LEMMA TypedSlugsHold == TitlesType => SlugsHold
<1> SUFFICES ASSUME TitlesType PROVE SlugsHold
  OBVIOUS
<1> DEFINE slugs == AddPostSlugs(titles)
           N == Len(titles)
<1>1. titles \in Seq(Seq(Alphabet)) /\ titles # <<>> /\ N \in Nat /\ N > 0
  BY EmptySeq DEF TitlesType
<1>2. Assigned(slugs, titles, N)
  BY <1>1, CollectedIsAssigned
<1>3. slugs \in Seq(SlugSet) /\ Len(slugs) = N /\ DOMAIN slugs = 1 .. N
  BY <1>2 DEF Assigned
<1>4. ASSUME NEW s, IsSlug(s) PROVE AcceptedSlug(s)
  BY <1>4, SlugsAreFixed DEF AcceptedSlug, IsSlug
<1>5. GivenSlugsAreAccepted
  <2>1. ASSUME NEW i \in DOMAIN titles PROVE AcceptedSlug(slugs[i])
    <3>1. slugs[i] \in SlugSet
      BY <1>1, <1>3
    <3>2. QED
      BY <1>4, <3>1 DEF SlugSet
  <2>2. IsSlug(Slugify(Last(titles)))
    <3>1. Last(titles) \in Seq(Alphabet)
      BY <1>1 DEF Last
    <3>2. QED
      BY <3>1, SlugifyGivesSlugs
  <2>3. ASSUME NEW n \in {1, 2, 12} PROVE AcceptedSlug(SlugTried(Slugify(Last(titles)), n))
    BY <1>4, <2>2, SlugTriedIsSlug
  <2>4. QED
    BY <2>1, <2>3 DEF GivenSlugsAreAccepted
<1>6. BackfillIsUnique
  BY <1>2, <1>3 DEF BackfillIsUnique, IsInjective, Assigned
<1>7. FirstKeepsItsBase
  <2>1. SubSeq(slugs, 1, N - 1) = AddPostSlugs(Front(titles))
    BY <1>1, AddPostSlugsPrefix
  <2>2. \A i \in DOMAIN titles :
           slugs[i] # Slugify(titles[i]) => \E j \in 1 .. i - 1 : slugs[j] = Slugify(titles[i])
    BY <1>1, <1>2 DEF Assigned
  <2>3. QED
    BY <2>1, <2>2 DEF FirstKeepsItsBase
<1>8. QED
  BY <1>5, <1>6, <1>7 DEF SlugsHold

(***************************************************************************)
(* Whatever the titles: every slug that the migration or a creation gives  *)
(* is accepted when it is sent back, no two posts get one slug, the first  *)
(* of a base keeps it, and later posts change nothing (Slugify and         *)
(* addPostSlugs in slug.go, WriteInput.Validate).                          *)
(***************************************************************************)
THEOREM SlugsAreSound == TitlesSpec => []SlugsHold
BY TitlesTyped, TypedSlugsHold, PTL

-----------------------------------------------------------------------------
LEMMA GreatestExists ==
    ASSUME NEW T \in SUBSET Nat, T # {}, NEW n \in Nat, \A t \in T : t <= n
    PROVE  \E t \in T : \A u \in T : u <= t
<1> DEFINE D == {n - t : t \in T}
<1>1. D \in SUBSET Nat /\ D # {}
  <2>1. ASSUME NEW t \in T PROVE n - t \in Nat
    OBVIOUS
  <2>2. QED
    BY <2>1
<1>2. PICK d \in D : \A e \in D : d <= e
  <2> HIDE DEF D
  <2>1. QED
    BY <1>1, LeastExists
<1>3. PICK t \in T : d = n - t
  BY DEF D
<1>4. ASSUME NEW u \in T PROVE u <= t
  <2>1. n - u \in D /\ n - t <= n - u
    BY <1>2, <1>3
  <2>2. QED
    BY <2>1
<1>5. QED
  BY <1>4

LEMMA LeastIsMin ==
    ASSUME NEW T \in SUBSET Nat, T # {}
    PROVE  Min(T) \in T /\ \A u \in T : Min(T) <= u
BY LeastExists DEF Min

LEMMA GreatestIsMax ==
    ASSUME NEW T \in SUBSET Nat, T # {}, NEW n \in Nat, \A t \in T : t <= n
    PROVE  Max(T) \in T /\ \A u \in T : u <= Max(T)
<1>1. \E t \in T : \A u \in T : t >= u
  BY GreatestExists
<1>2. QED
  BY <1>1 DEF Max

-----------------------------------------------------------------------------
\* No blanks at its ends.
Trimmed(s) == s # <<>> => s[1] \notin Blanks /\ s[Len(s)] \notin Blanks

Ink(s) == {i \in DOMAIN s : s[i] \notin Blanks}

LEMMA InkEnds ==
    ASSUME NEW X, NEW s \in Seq(X), Ink(s) # {}
    PROVE  /\ Min(Ink(s)) \in 1 .. Len(s) /\ Max(Ink(s)) \in 1 .. Len(s)
           /\ s[Min(Ink(s))] \notin Blanks /\ s[Max(Ink(s))] \notin Blanks
           /\ Min(Ink(s)) <= Max(Ink(s))
           /\ \A i \in Ink(s) : Min(Ink(s)) <= i /\ i <= Max(Ink(s))
<1> DEFINE T == Ink(s)
<1>1. T \in SUBSET Nat /\ (\A t \in T : t <= Len(s)) /\ Len(s) \in Nat
  BY DEF Ink
<1>2. \A t \in T : t \in 1 .. Len(s) /\ s[t] \notin Blanks
  BY DEF Ink
<1> HIDE DEF T
<1>3. Min(T) \in T /\ \A u \in T : Min(T) <= u
  BY <1>1, LeastIsMin DEF T
<1>4. Max(T) \in T /\ \A u \in T : u <= Max(T)
  BY <1>1, GreatestIsMax DEF T
<1>5. QED
  BY <1>2, <1>3, <1>4 DEF T

LEMMA TrimSpaceTrims ==
    ASSUME NEW X, NEW s \in Seq(X)
    PROVE  TrimSpace(s) \in Seq(X) /\ Trimmed(TrimSpace(s))
<1>1. TrimSpace(s) = IF Ink(s) = {} THEN <<>> ELSE SubSeq(s, Min(Ink(s)), Max(Ink(s)))
  BY DEF TrimSpace, Ink
<1>2. CASE Ink(s) = {}
  BY <1>1, <1>2 DEF Trimmed
<1>3. CASE Ink(s) # {}
  <2> DEFINE a == Min(Ink(s))
             b == Max(Ink(s))
  <2>1. /\ a \in 1 .. Len(s) /\ b \in 1 .. Len(s) /\ a <= b
        /\ s[a] \notin Blanks /\ s[b] \notin Blanks
    BY <1>3, InkEnds
  <2>2. TrimSpace(s) = SubSeq(s, a, b)
    BY <1>1, <1>3
  <2> HIDE DEF a, b
  <2> DEFINE t == SubSeq(s, a, b)
  <2>3. t \in Seq(X) /\ Len(t) = b - a + 1 /\ t[1] = s[a] /\ t[b - a + 1] = s[b]
    <3>1. a \in Int /\ b \in Int /\ \A i \in a .. b : s[i] \in X
      BY <2>1
    <3>2. /\ t \in Seq(X) /\ Len(t) = IF a <= b THEN b - a + 1 ELSE 0
          /\ \A i \in 1 .. b - a + 1 : t[i] = s[a + i - 1]
      BY <3>1, SubSeqProperties
    <3> HIDE DEF t
    <3>3. 1 \in 1 .. b - a + 1 /\ b - a + 1 \in 1 .. b - a + 1 /\ a + 1 - 1 = a /\ a + (b - a + 1) - 1 = b
      BY <2>1
    <3>4. QED
      BY <2>1, <3>2, <3>3
  <2> HIDE DEF t
  <2>4. QED
    BY <2>1, <2>2, <2>3 DEF Trimmed, t
<1>4. QED
  BY <1>2, <1>3

LEMMA TrimmedStays ==
    ASSUME NEW X, NEW s \in Seq(X), Trimmed(s)
    PROVE  TrimSpace(s) = s
<1>1. TrimSpace(s) = IF Ink(s) = {} THEN <<>> ELSE SubSeq(s, Min(Ink(s)), Max(Ink(s)))
  BY DEF TrimSpace, Ink
<1>2. CASE s = <<>>
  BY <1>1, <1>2 DEF Ink
<1>3. CASE s # <<>>
  <2>1. 1 \in Ink(s) /\ Len(s) \in Ink(s)
    BY <1>3 DEF Ink, Trimmed
  <2>2. Min(Ink(s)) = 1 /\ Max(Ink(s)) = Len(s)
    BY <2>1, InkEnds
  <2>3. TrimSpace(s) = SubSeq(s, 1, Len(s))
    BY <1>1, <2>1, <2>2
  <2>4. QED
    BY <2>3
<1>4. QED
  BY <1>2, <1>3

LEMMA TrimSpaceTwice ==
    ASSUME NEW X, NEW s \in Seq(X)
    PROVE  TrimSpace(TrimSpace(s)) = TrimSpace(s)
BY TrimSpaceTrims, TrimmedStays

\* A word of the protocol has no blanks.
LEMMA WordStays ==
    ASSUME NEW word, word \notin Blanks
    PROVE  TrimSpace(<<word>>) = <<word>>
<1>1. <<word>> \in Seq({word}) /\ Trimmed(<<word>>)
  BY DEF Trimmed
<1>2. QED
  BY <1>1, TrimmedStays

-----------------------------------------------------------------------------
\* The units and objects of the documents.
Unit == {" ", "x", "u", "e", "/", "a", "2", "paragraph", "heading", "quote", "divider", "media",
         "unknown", "future", "image", "gif", "video", "audio", "file"}

MarkSet == [type : {"bold", "italic", "code", "link", "underline"}, href : Seq(Unit)]

NodeSet == [type : {"text", "html"}, text : Seq(Unit), marks : Seq(MarkSet)]

NodeArray(nodes) == [is |-> "array", of |-> nodes]

LEMMA ReadMarkTwice ==
    ASSUME NEW mark \in MarkSet
    PROVE  ReadMark(mark) \in MarkSet /\ ReadMark(ReadMark(mark)) = ReadMark(mark)
<1> DEFINE read == ReadMark(mark)
<1>1. mark.href \in Seq(Unit)
  BY DEF MarkSet
<1>2. /\ TrimSpace(mark.href) \in Seq(Unit)
      /\ TrimSpace(TrimSpace(mark.href)) = TrimSpace(mark.href)
  BY <1>1, TrimSpaceTrims, TrimSpaceTwice
<1>3. read = [type |-> mark.type, href |-> TrimSpace(mark.href)]
  BY DEF ReadMark, MarkSet
<1> HIDE DEF read
<1>4. ReadMark(read) = [type |-> mark.type, href |-> TrimSpace(TrimSpace(mark.href))]
  BY <1>3 DEF ReadMark
<1>5. read \in MarkSet
  BY <1>2, <1>3 DEF MarkSet
<1>6. QED
  BY <1>2, <1>3, <1>4, <1>5 DEF read

LEMMA ReadNodeTwice ==
    ASSUME NEW node \in NodeSet
    PROVE  ReadNode(node) \in NodeSet /\ ReadNode(ReadNode(node)) = ReadNode(node)
<1> DEFINE marks == [i \in DOMAIN node.marks |-> ReadMark(node.marks[i])]
           again == [i \in DOMAIN marks |-> ReadMark(marks[i])]
<1>1. node.marks \in Seq(MarkSet)
  BY DEF NodeSet
<1>2. marks \in Seq(MarkSet)
  BY <1>1, ReadMarkTwice
<1>3. again = marks
  BY <1>1, ReadMarkTwice
<1> DEFINE read == ReadNode(node)
<1>4. read = [type |-> node.type, text |-> node.text, marks |-> marks]
  BY DEF ReadNode, NodeSet
<1> HIDE DEF marks, read
<1>5. ReadNode(read) = [type |-> node.type, text |-> node.text, marks |-> again]
  BY <1>4 DEF ReadNode
<1> HIDE DEF again
<1>6. read \in NodeSet
  BY <1>2, <1>4 DEF NodeSet
<1>7. QED
  BY <1>3, <1>4, <1>5, <1>6 DEF read

\* The plain text of nodes.
InlineText(nodes) == TrimSpace(FlattenSeq([i \in DOMAIN nodes |-> nodes[i].text]))

InlineOf(nodes) ==
    IF (\A i \in DOMAIN nodes : NodeAllowed(nodes[i])) /\ InlineText(nodes) # <<>>
    THEN [nodes |-> nodes, text |-> InlineText(nodes)]
    ELSE [nodes |-> <<>>, text |-> <<>>]

LEMMA NoNodesNoText == InlineText(<<>>) = <<>>
<1> DEFINE texts == [i \in DOMAIN <<>> |-> <<>>[i].text]
<1>1. texts = <<>>
  OBVIOUS
<1>2. FlattenSeq(<<>>) = <<>>
  BY DEF FlattenSeq
<1>3. InlineText(<<>>) = TrimSpace(FlattenSeq(texts))
  BY DEF InlineText
<1> HIDE DEF texts
<1>4. <<>> \in Seq(Unit) /\ Trimmed(<<>>)
  BY DEF Trimmed
<1>5. QED
  BY <1>1, <1>2, <1>3, <1>4, TrimmedStays

\* parseInline gives nodes and text, and the same of the nodes it gave; or neither.
LEMMA ParseInlineTwice ==
    ASSUME NEW value, value.is = "array" => value.of \in Seq(NodeSet)
    PROVE  LET r == ParseInline(value)
           IN  /\ r = [nodes |-> r.nodes, text |-> r.text]
               /\ r.text # <<>> =>
                     r.nodes # <<>> /\ r.nodes \in Seq(NodeSet) /\ ParseInline(NodeArray(r.nodes)) = r
               /\ r.text = <<>> => r.nodes = <<>>
<1> DEFINE nodes == IF value.is = "array" THEN [i \in DOMAIN value.of |-> ReadNode(value.of[i])]
                    ELSE <<>>
           reread == [i \in DOMAIN nodes |-> ReadNode(nodes[i])]
           r == ParseInline(value)
<1>1. nodes \in Seq(NodeSet)
  <2>1. CASE value.is = "array"
    BY <2>1, ReadNodeTwice
  <2>2. CASE value.is # "array"
    BY <2>2
  <2>3. QED
    BY <2>1, <2>2
<1>2. reread = nodes
  <2>1. CASE value.is = "array"
    <3>1. value.of \in Seq(NodeSet) /\ nodes = [i \in DOMAIN value.of |-> ReadNode(value.of[i])]
      BY <2>1
    <3> HIDE DEF nodes
    <3>2. DOMAIN reread = DOMAIN nodes /\ \A i \in DOMAIN nodes : reread[i] = nodes[i]
      BY <3>1, ReadNodeTwice
    <3>3. QED
      BY <3>1, <3>2
  <2>2. CASE value.is # "array"
    <3>1. nodes = <<>>
      BY <2>2
    <3> HIDE DEF nodes
    <3>2. QED
      BY <3>1
  <2>3. QED
    BY <2>1, <2>2
<1>3. r = InlineOf(nodes)
  BY DEF ParseInline, InlineOf, InlineText
<1>4. ParseInline(NodeArray(nodes)) = InlineOf(reread)
  <2> HIDE DEF nodes
  <2> DEFINE v == NodeArray(nodes)
  <2>1. v.is = "array" /\ v.of = nodes
    BY DEF NodeArray
  <2> HIDE DEF v
  <2> DEFINE ns == IF v.is = "array" THEN [i \in DOMAIN v.of |-> ReadNode(v.of[i])] ELSE <<>>
  <2>2. ns = reread
    BY <2>1
  <2>3. ParseInline(v) = InlineOf(ns)
    BY DEF ParseInline, InlineOf, InlineText
  <2> HIDE DEF ns, reread
  <2>4. QED
    BY <2>2, <2>3 DEF v
<1> HIDE DEF nodes, reread, r
<1>5. CASE (\A i \in DOMAIN nodes : NodeAllowed(nodes[i])) /\ InlineText(nodes) # <<>>
  <2>1. r = [nodes |-> nodes, text |-> InlineText(nodes)] /\ InlineText(nodes) # <<>>
    BY <1>3, <1>5 DEF InlineOf
  <2>2. nodes # <<>>
    BY <1>5, NoNodesNoText
  <2>3. r.nodes = nodes /\ r.text = InlineText(nodes) /\ r = [nodes |-> r.nodes, text |-> r.text]
    BY <2>1
  <2>4. QED
    BY <1>1, <1>2, <1>3, <1>4, <2>1, <2>2, <2>3 DEF r
<1>6. CASE ~((\A i \in DOMAIN nodes : NodeAllowed(nodes[i])) /\ InlineText(nodes) # <<>>)
  <2>1. r = [nodes |-> <<>>, text |-> <<>>]
    BY <1>3, <1>6 DEF InlineOf
  <2>2. QED
    BY <2>1 DEF r
<1>7. QED
  BY <1>5, <1>6

-----------------------------------------------------------------------------
TextFields == {"type", "text", "mediaKind", "src", "name", "alt", "caption"}

\* An object whose fields hold what their kinds say.
Readable(raw) ==
    /\ \A f \in TextFields : Is(raw, f, "string") => raw[f].of \in Seq(Unit)
    /\ Is(raw, "content", "array") => raw["content"].of \in Seq(NodeSet)
    /\ Is(raw, "spoiler", "bool") => raw["spoiler"].of \in BOOLEAN

LEMMA TextFieldIsTrimmed ==
    ASSUME NEW raw, Readable(raw), NEW f \in TextFields
    PROVE  TextField(raw, f) \in Seq(Unit) /\ Trimmed(TextField(raw, f))
<1>1. CASE Is(raw, f, "string")
  <2>1. raw[f].of \in Seq(Unit)
    BY <1>1 DEF Readable
  <2>2. TextField(raw, f) = TrimSpace(raw[f].of)
    BY <1>1 DEF TextField
  <2>3. QED
    BY <2>1, <2>2, TrimSpaceTrims
<1>2. CASE ~Is(raw, f, "string")
  BY <1>2 DEF TextField, Trimmed
<1>3. QED
  BY <1>1, <1>2

\* Text and nodes of which either stands for the other.
Inline(nodes, words) ==
    /\ nodes = <<>> => words \in Seq(Unit) /\ Trimmed(words)
    /\ nodes # <<>> => ParseInline(NodeArray(nodes)) = [nodes |-> nodes, text |-> words]

LEMMA ParseTextGivesInline ==
    ASSUME NEW raw, Readable(raw), NEW strict \in BOOLEAN
    PROVE  /\ ParseText(raw, strict).text # <<>> =>
                 Inline(ParseText(raw, strict).nodes, ParseText(raw, strict).text)
           /\ ParseText(raw, TRUE).text # <<>> => ParseText(raw, FALSE) = ParseText(raw, TRUE)
<1> DEFINE words == TextField(raw, "text")
           inline == IF "content" \in DOMAIN raw THEN ParseInline(raw["content"])
                     ELSE [nodes |-> <<>>, text |-> words]
           older == [nodes |-> <<>>, text |-> words]
<1>1. Inline(older.nodes, older.text)
  BY TextFieldIsTrimmed DEF Inline, TextFields
<1>2. inline.text # <<>> => Inline(inline.nodes, inline.text)
  <2>1. CASE "content" \in DOMAIN raw
    <3> DEFINE r == ParseInline(raw["content"])
    <3>1. raw["content"].is = "array" => raw["content"].of \in Seq(NodeSet)
      BY <2>1 DEF Readable, Is
    <3>2. /\ r = [nodes |-> r.nodes, text |-> r.text]
          /\ r.text # <<>> => r.nodes # <<>> /\ ParseInline(NodeArray(r.nodes)) = r
      BY <3>1, ParseInlineTwice
    <3>3. inline = r
      BY <2>1
    <3> HIDE DEF r, inline
    <3>4. QED
      BY <3>2, <3>3 DEF Inline
  <2>2. CASE "content" \notin DOMAIN raw
    BY <1>1, <2>2
  <2>3. QED
    BY <2>1, <2>2
<1>3. \A s \in BOOLEAN : ParseText(raw, s) = IF inline.text # <<>> \/ s THEN inline ELSE older
  BY DEF ParseText
<1> HIDE DEF inline, older
<1>4. QED
  BY <1>1, <1>2, <1>3

-----------------------------------------------------------------------------
IsTextBlock(b) ==
    /\ b.type \in TextTypes /\ b.text # <<>> /\ Inline(b.content, b.text)
    /\ IF b.type = "heading"
       THEN b.level \in 1 .. 3 /\ b = [type |-> b.type, text |-> b.text, content |-> b.content,
                                       level |-> b.level]
       ELSE b = [type |-> b.type, text |-> b.text, content |-> b.content]

IsMediaBlock(b) ==
    /\ b = [type |-> "media", mediaKind |-> b.mediaKind, src |-> b.src, spoiler |-> b.spoiler,
            name |-> b.name, alt |-> b.alt, caption |-> b.caption]
    /\ b.mediaKind \in MediaKinds /\ b.src \in SafeSources /\ b.spoiler \in BOOLEAN
    /\ \A words \in {b.mediaKind, b.src, b.name, b.alt, b.caption} : words \in Seq(Unit) /\ Trimmed(words)

Divider == [type |-> "divider"]

IsBlock(b) == IsTextBlock(b) \/ IsMediaBlock(b) \/ b = Divider

LEMMA HeadingLevelRange ==
    ASSUME NEW raw
    PROVE  /\ \A strict \in BOOLEAN : HeadingLevel(raw, strict) \in 0 .. 3
           /\ HeadingLevel(raw, TRUE) # 0 => HeadingLevel(raw, FALSE) = HeadingLevel(raw, TRUE)
<1>1. CASE Is(raw, "level", "int")
  BY <1>1 DEF HeadingLevel
<1>2. CASE ~Is(raw, "level", "int")
  <2>1. HeadingLevel(raw, TRUE) = 0
    BY <1>2 DEF HeadingLevel
  <2>2. \A strict \in BOOLEAN : HeadingLevel(raw, strict) \in 0 .. 3
    BY DEF HeadingLevel
  <2>3. QED
    BY <2>1, <2>2
<1>3. QED
  BY <1>1, <1>2

LEMMA ParsedTextBlock ==
    ASSUME NEW raw, Readable(raw), NEW strict \in BOOLEAN, NEW type \in TextTypes
    PROVE  /\ ParseTextBlock(raw, type, strict) = ParseError
                \/ IsTextBlock(ParseTextBlock(raw, type, strict))
           /\ ParseTextBlock(raw, type, TRUE) # ParseError =>
                 ParseTextBlock(raw, type, FALSE) = ParseTextBlock(raw, type, TRUE)
<1> DEFINE BlockOf(parsed, level) ==
               IF parsed.text = <<>> \/ (type = "heading" /\ level = 0) THEN ParseError
               ELSE IF type = "heading"
               THEN [type |-> type, text |-> parsed.text, content |-> parsed.nodes, level |-> level]
               ELSE [type |-> type, text |-> parsed.text, content |-> parsed.nodes]
<1>1. \A s \in BOOLEAN :
         ParseTextBlock(raw, type, s) = BlockOf(ParseText(raw, s), HeadingLevel(raw, s))
  BY DEF ParseTextBlock
<1>2. ASSUME NEW parsed, NEW level \in 0 .. 3, parsed.text # <<>> => Inline(parsed.nodes, parsed.text)
      PROVE  BlockOf(parsed, level) = ParseError \/ IsTextBlock(BlockOf(parsed, level))
  <2>1. CASE parsed.text = <<>> \/ (type = "heading" /\ level = 0)
    BY <2>1
  <2>2. CASE parsed.text # <<>> /\ type = "heading" /\ level # 0
    <3> DEFINE b == [type |-> type, text |-> parsed.text, content |-> parsed.nodes, level |-> level]
    <3>1. BlockOf(parsed, level) = b
      BY <2>2
    <3>2. IsTextBlock(b)
      BY <1>2, <2>2 DEF IsTextBlock
    <3>3. QED
      BY <3>1, <3>2
  <2>3. CASE parsed.text # <<>> /\ type # "heading"
    <3> DEFINE b == [type |-> type, text |-> parsed.text, content |-> parsed.nodes]
    <3>1. BlockOf(parsed, level) = b
      BY <2>3
    <3>2. IsTextBlock(b)
      BY <1>2, <2>3 DEF IsTextBlock
    <3>3. QED
      BY <3>1, <3>2
  <2>4. QED
    BY <2>1, <2>2, <2>3
<1>3. ASSUME NEW parsed, NEW other, NEW level \in 0 .. 3, NEW otherLevel \in 0 .. 3,
             parsed.text # <<>> => other = parsed, level # 0 => otherLevel = level,
             BlockOf(parsed, level) # ParseError
      PROVE  BlockOf(other, otherLevel) = BlockOf(parsed, level)
  <2>1. parsed.text # <<>> /\ (type = "heading" => level # 0)
    BY <1>3
  <2>2. QED
    BY <1>3, <2>1
<1> HIDE DEF BlockOf
<1>4. ParseTextBlock(raw, type, strict) = ParseError
         \/ IsTextBlock(ParseTextBlock(raw, type, strict))
  BY <1>1, <1>2, ParseTextGivesInline, HeadingLevelRange
<1>5. ASSUME ParseTextBlock(raw, type, TRUE) # ParseError
      PROVE  ParseTextBlock(raw, type, FALSE) = ParseTextBlock(raw, type, TRUE)
  <2> DEFINE parsed == ParseText(raw, TRUE)
             other == ParseText(raw, FALSE)
             level == HeadingLevel(raw, TRUE)
             otherLevel == HeadingLevel(raw, FALSE)
  <2>1. /\ parsed.text # <<>> => other = parsed
        /\ level # 0 => otherLevel = level
        /\ level \in 0 .. 3 /\ otherLevel \in 0 .. 3
    BY ParseTextGivesInline, HeadingLevelRange
  <2>2. /\ ParseTextBlock(raw, type, TRUE) = BlockOf(parsed, level)
        /\ ParseTextBlock(raw, type, FALSE) = BlockOf(other, otherLevel)
    BY <1>1
  <2> HIDE DEF parsed, other, level, otherLevel
  <2>3. BlockOf(other, otherLevel) = BlockOf(parsed, level)
    BY <1>3, <1>5, <2>1, <2>2
  <2>4. QED
    BY <2>2, <2>3
<1>6. QED
  BY <1>4, <1>5

LEMMA ParsedMedia ==
    ASSUME NEW raw, Readable(raw), NEW strict \in BOOLEAN
    PROVE  /\ ParseMedia(raw, strict) = ParseError \/ IsMediaBlock(ParseMedia(raw, strict))
           /\ ParseMedia(raw, TRUE) # ParseError => ParseMedia(raw, FALSE) = ParseMedia(raw, TRUE)
<1> DEFINE kind == TextField(raw, "mediaKind")
           src == TextField(raw, "src")
           spoiler == Is(raw, "spoiler", "bool") /\ raw["spoiler"].of
           spoilt == "spoiler" \in DOMAIN raw /\ raw["spoiler"].is \notin {"bool", "null"}
           name == TextField(raw, "name")
           alt == TextField(raw, "alt")
           caption == TextField(raw, "caption")
           b == [type |-> "media", mediaKind |-> kind, src |-> src, spoiler |-> spoiler,
                 name |-> name, alt |-> alt, caption |-> caption]
<1>1. \A s \in BOOLEAN :
         ParseMedia(raw, s) =
            IF kind \notin MediaKinds \/ src \notin SafeSources \/ (spoilt /\ s) THEN ParseError ELSE b
  BY DEF ParseMedia
<1>2. \A words \in {kind, src, name, alt, caption} : words \in Seq(Unit) /\ Trimmed(words)
  BY TextFieldIsTrimmed DEF TextFields
<1>3. spoiler \in BOOLEAN
  BY DEF Readable
<1> HIDE DEF kind, src, spoiler, spoilt, name, alt, caption
<1>4. kind \in MediaKinds /\ src \in SafeSources => IsMediaBlock(b)
  BY <1>2, <1>3 DEF IsMediaBlock
<1> HIDE DEF b
<1>5. QED
  BY <1>1, <1>4

TypeOf(name) == IF name \in DOMAIN TypeNames THEN TypeNames[name] ELSE "other"

LEMMA TypesOfWords ==
    /\ \A type \in TextTypes \cup {"divider", "media"} : TypeOf(<<type>>) = type
    /\ TypeOf(<<"unknown">>) = "other"
BY DEF TypeOf, TypeNames, TextTypes

\* parseBlock by the type that the object names.
LEMMA ParseBlockCases ==
    ASSUME NEW raw, NEW strict
    PROVE  LET type == TypeOf(TextField(raw, "type"))
           IN  /\ type \in TextTypes => ParseBlock(raw, strict) = ParseTextBlock(raw, type, strict)
               /\ type = "divider" => ParseBlock(raw, strict) = Divider
               /\ type = "media" => ParseBlock(raw, strict) = ParseMedia(raw, strict)
               /\ type \notin TextTypes \cup {"divider", "media"} => ParseBlock(raw, strict) = ParseError
<1> DEFINE type == TypeOf(TextField(raw, "type"))
<1>1. ParseBlock(raw, strict) =
         CASE type \in TextTypes -> ParseTextBlock(raw, type, strict)
           [] type = "divider" -> Divider
           [] type = "media" -> ParseMedia(raw, strict)
           [] OTHER -> ParseError
  BY DEF ParseBlock, TypeOf, Divider
<1> HIDE DEF type
<1>2. /\ type \in TextTypes => ParseBlock(raw, strict) = ParseTextBlock(raw, type, strict)
      /\ type = "divider" => ParseBlock(raw, strict) = Divider
      /\ type = "media" => ParseBlock(raw, strict) = ParseMedia(raw, strict)
      /\ type \notin TextTypes \cup {"divider", "media"} => ParseBlock(raw, strict) = ParseError
  BY <1>1 DEF TextTypes
<1>3. QED
  BY <1>2 DEF type

\* What is parsed is a block; what is parsed strictly is parsed leniently as the same.
LEMMA ParsedBlock ==
    ASSUME NEW raw, Readable(raw), NEW strict \in BOOLEAN
    PROVE  /\ ParseBlock(raw, strict) = ParseError \/ IsBlock(ParseBlock(raw, strict))
           /\ ParseBlock(raw, TRUE) # ParseError => ParseBlock(raw, FALSE) = ParseBlock(raw, TRUE)
<1> DEFINE type == TypeOf(TextField(raw, "type"))
<1>1. \A s \in BOOLEAN :
         /\ type \in TextTypes => ParseBlock(raw, s) = ParseTextBlock(raw, type, s)
         /\ type = "divider" => ParseBlock(raw, s) = Divider
         /\ type = "media" => ParseBlock(raw, s) = ParseMedia(raw, s)
         /\ type \notin TextTypes \cup {"divider", "media"} => ParseBlock(raw, s) = ParseError
  BY ParseBlockCases
<1> HIDE DEF type
<1>2. CASE type \in TextTypes
  BY <1>1, <1>2, ParsedTextBlock DEF IsBlock
<1>3. CASE type = "divider"
  BY <1>1, <1>3 DEF IsBlock
<1>4. CASE type = "media"
  BY <1>1, <1>4, ParsedMedia DEF IsBlock
<1>5. CASE type \notin TextTypes \cup {"divider", "media"}
  BY <1>1, <1>5
<1>6. QED
  BY <1>2, <1>3, <1>4, <1>5

-----------------------------------------------------------------------------
LEMMA PresentField ==
    ASSUME NEW fields, NEW f
    PROVE  /\ f \in DOMAIN Present(fields) <=> f \in DOMAIN fields /\ fields[f] # Absent
           /\ f \in DOMAIN fields /\ fields[f] # Absent => Present(fields)[f] = fields[f]
BY DEF Present

LEMMA StoredTextFields ==
    ASSUME NEW b, IsTextBlock(b)
    PROVE  LET s == StoredText(b)
           IN  /\ Is(s, "type", "string") /\ s["type"].of = <<b.type>>
               /\ Is(s, "text", "string") /\ s["text"].of = TrimSpace(b.text)
               /\ b.content = <<>> => "content" \notin DOMAIN s
               /\ b.content # <<>> => "content" \in DOMAIN s /\ s["content"] = NodeArray(b.content)
               /\ b.type = "heading" => Is(s, "level", "int") /\ s["level"].of = b.level
<1> DEFINE fields == [type |-> String(<<b.type>>),
                      text |-> String(TrimSpace(b.text)),
                      content |-> Unless(b.content = <<>>, [is |-> "array", of |-> b.content]),
                      level |-> IF b.type = "heading" THEN [is |-> "int", of |-> b.level] ELSE Absent]
           s == StoredText(b)
<1>1. s = Present(fields)
  BY DEF StoredText
<1>2. DOMAIN fields = {"type", "text", "content", "level"}
  OBVIOUS
<1>3. /\ fields["type"] = [is |-> "string", of |-> <<b.type>>]
      /\ fields["text"] = [is |-> "string", of |-> TrimSpace(b.text)]
      /\ b.content = <<>> => fields["content"] = Absent
      /\ b.content # <<>> => fields["content"] = NodeArray(b.content)
      /\ b.type = "heading" => fields["level"] = [is |-> "int", of |-> b.level]
  BY DEF String, Unless, NodeArray
<1> HIDE DEF fields, s
<1>4. /\ fields["type"] # Absent /\ fields["text"] # Absent
      /\ b.content # <<>> => fields["content"] # Absent
      /\ b.type = "heading" => fields["level"] # Absent
  BY <1>3 DEF Absent, NodeArray
<1>5. /\ "type" \in DOMAIN s /\ s["type"] = fields["type"]
      /\ "text" \in DOMAIN s /\ s["text"] = fields["text"]
      /\ b.content = <<>> => "content" \notin DOMAIN s
      /\ b.content # <<>> => "content" \in DOMAIN s /\ s["content"] = fields["content"]
      /\ b.type = "heading" => "level" \in DOMAIN s /\ s["level"] = fields["level"]
  BY <1>1, <1>2, <1>3, <1>4, PresentField
<1>6. QED
  BY <1>3, <1>5 DEF Is, s

\* An object that is read as a block, strictly or not.
ReadsAs(raw, block) == \A strict \in BOOLEAN : ParseBlock(raw, strict) = block

LEMMA TypeReads ==
    ASSUME NEW raw, NEW type \in TextTypes \cup {"divider", "media", "unknown"},
           Is(raw, "type", "string"), raw["type"].of = <<type>>
    PROVE  TextField(raw, "type") = <<type>> /\ raw # Unwritable
<1>1. type \notin Blanks /\ type # "error"
  BY ContentAssumption DEF TextTypes
<1>2. TrimSpace(<<type>>) = <<type>>
  BY <1>1, WordStays
<1>3. Unwritable["type"].of = <<"error">> /\ <<"error">>[1] = "error" /\ <<type>>[1] = type
  BY DEF Unwritable, TypeField, String
<1>4. QED
  BY <1>1, <1>2, <1>3 DEF TextField

LEMMA StoredTextIsParsed ==
    ASSUME NEW b, IsTextBlock(b), NEW strict \in BOOLEAN
    PROVE  ParseText(StoredText(b), strict) = [nodes |-> b.content, text |-> b.text]
<1> DEFINE s == StoredText(b)
           inline == IF "content" \in DOMAIN s THEN ParseInline(s["content"])
                     ELSE [nodes |-> <<>>, text |-> TextField(s, "text")]
           found == [nodes |-> b.content, text |-> b.text]
<1>1. /\ Is(s, "text", "string") /\ s["text"].of = TrimSpace(b.text)
      /\ b.content = <<>> => "content" \notin DOMAIN s
      /\ b.content # <<>> => "content" \in DOMAIN s /\ s["content"] = NodeArray(b.content)
  BY StoredTextFields
<1>2. Inline(b.content, b.text) /\ b.text # <<>>
  BY DEF IsTextBlock
<1>3. ParseText(s, strict) = IF inline.text # <<>> \/ strict THEN inline
                             ELSE [nodes |-> <<>>, text |-> TextField(s, "text")]
  BY DEF ParseText
<1> HIDE DEF s
<1>4. CASE b.content = <<>>
  <2>1. b.text \in Seq(Unit) /\ Trimmed(b.text)
    BY <1>2, <1>4 DEF Inline
  <2>2. TextField(s, "text") = TrimSpace(TrimSpace(b.text))
    BY <1>1 DEF TextField
  <2>3. TrimSpace(b.text) = b.text
    BY <2>1, TrimmedStays
  <2>4. inline = found
    BY <1>1, <1>4, <2>2, <2>3
  <2>5. QED
    BY <1>2, <1>3, <2>4 DEF s
<1>5. CASE b.content # <<>>
  <2>1. inline = found
    BY <1>1, <1>2, <1>5 DEF Inline
  <2>2. QED
    BY <1>2, <1>3, <2>1 DEF s
<1>6. QED
  BY <1>4, <1>5

LEMMA StoredTextReads ==
    ASSUME NEW b, IsTextBlock(b)
    PROVE  ReadsAs(StoredText(b), b) /\ StoredText(b) # Unwritable
<1> DEFINE s == StoredText(b)
<1>1. /\ Is(s, "type", "string") /\ s["type"].of = <<b.type>>
      /\ b.type = "heading" => Is(s, "level", "int") /\ s["level"].of = b.level
  BY StoredTextFields
<1>2. b.type \in TextTypes
  BY DEF IsTextBlock
<1> HIDE DEF s
<1>3. TextField(s, "type") = <<b.type>> /\ s # Unwritable
  BY <1>1, <1>2, TypeReads
<1>4. ASSUME NEW strict \in BOOLEAN PROVE ParseBlock(s, strict) = b
  <2>1. TypeOf(<<b.type>>) = b.type
    BY <1>2, TypesOfWords
  <2>2. ParseBlock(s, strict) = ParseTextBlock(s, b.type, strict)
    BY <1>2, <1>3, <2>1, ParseBlockCases
  <2> DEFINE parsed == ParseText(s, strict)
             level == HeadingLevel(s, strict)
  <2>3. parsed = [nodes |-> b.content, text |-> b.text]
    BY StoredTextIsParsed DEF s
  <2>4. b.type = "heading" => level = b.level /\ b.level \in 1 .. 3
    BY <1>1 DEF HeadingLevel, IsTextBlock
  <2>5. ParseTextBlock(s, b.type, strict) =
           IF parsed.text = <<>> \/ (b.type = "heading" /\ level = 0) THEN ParseError
           ELSE IF b.type = "heading"
           THEN [type |-> b.type, text |-> parsed.text, content |-> parsed.nodes, level |-> level]
           ELSE [type |-> b.type, text |-> parsed.text, content |-> parsed.nodes]
    BY DEF ParseTextBlock
  <2> HIDE DEF parsed, level
  <2>6. parsed.text = b.text /\ parsed.nodes = b.content /\ b.text # <<>>
    BY <2>3 DEF IsTextBlock
  <2>7. CASE b.type = "heading"
    <3>1. ParseTextBlock(s, b.type, strict) =
             [type |-> b.type, text |-> b.text, content |-> b.content, level |-> b.level]
      BY <2>4, <2>5, <2>6, <2>7
    <3>2. QED
      BY <2>2, <2>7, <3>1 DEF IsTextBlock
  <2>8. CASE b.type # "heading"
    <3>1. ParseTextBlock(s, b.type, strict) =
             [type |-> b.type, text |-> b.text, content |-> b.content]
      BY <2>5, <2>6, <2>8
    <3>2. QED
      BY <2>2, <2>8, <3>1 DEF IsTextBlock
  <2>9. QED
    BY <2>7, <2>8
<1>5. QED
  BY <1>3, <1>4 DEF ReadsAs, s

\* A text that is left out when it is empty is read as it was.
LEMMA OptionalReads ==
    ASSUME NEW fields, NEW f \in DOMAIN fields, NEW words, words \in Seq(Unit), Trimmed(words),
           fields[f] = Unless(TrimSpace(words) = <<>>, String(TrimSpace(words)))
    PROVE  TextField(Present(fields), f) = words
<1> DEFINE s == Present(fields)
<1>1. TrimSpace(words) = words
  BY TrimmedStays
<1>2. CASE words = <<>>
  <2>1. fields[f] = Absent
    BY <1>1, <1>2 DEF Unless
  <2>2. f \notin DOMAIN s
    BY <2>1, PresentField
  <2> HIDE DEF s
  <2>3. QED
    BY <1>2, <2>2 DEF TextField, Is, s
<1>3. CASE words # <<>>
  <2>1. fields[f] = [is |-> "string", of |-> words]
    BY <1>1, <1>3 DEF Unless, String
  <2>2. fields[f] # Absent
    BY <2>1 DEF Absent
  <2>3. f \in DOMAIN s /\ s[f] = fields[f]
    BY <2>2, PresentField
  <2> HIDE DEF s
  <2>4. s[f].is = "string" /\ s[f].of = words
    BY <2>1, <2>3
  <2>5. QED
    BY <1>1, <2>3, <2>4 DEF TextField, Is, s
<1>4. QED
  BY <1>2, <1>3

\* A text that is written as it is and read as it was.
LEMMA RequiredReads ==
    ASSUME NEW fields, NEW f \in DOMAIN fields, NEW words, TrimSpace(words) = words,
           fields[f] = String(words)
    PROVE  TextField(Present(fields), f) = words
<1> DEFINE s == Present(fields)
<1>1. fields[f] = [is |-> "string", of |-> words]
  BY DEF String
<1>2. fields[f] # Absent
  BY <1>1 DEF Absent
<1>3. f \in DOMAIN s /\ s[f] = fields[f]
  BY <1>2, PresentField
<1> HIDE DEF s
<1>4. s[f].is = "string" /\ s[f].of = words
  BY <1>1, <1>3
<1>5. QED
  BY <1>3, <1>4 DEF TextField, Is, s

LEMMA StoredMediaReads ==
    ASSUME NEW b, IsMediaBlock(b)
    PROVE  ReadsAs(StoredMedia(b), b) /\ StoredMedia(b) # Unwritable
<1> DEFINE Written(words) == Unless(TrimSpace(words) = <<>>, String(TrimSpace(words)))
           fields == [type |-> String(<<"media">>), mediaKind |-> String(b.mediaKind),
                      src |-> String(b.src), spoiler |-> [is |-> "bool", of |-> b.spoiler],
                      name |-> Written(b.name), alt |-> Written(b.alt), caption |-> Written(b.caption)]
           s == StoredMedia(b)
<1>1. s = Present(fields)
  BY DEF StoredMedia
<1>2. DOMAIN fields = {"type", "mediaKind", "src", "spoiler", "name", "alt", "caption"}
  OBVIOUS
<1>3. /\ fields["type"] = String(<<"media">>)
      /\ fields["mediaKind"] = String(b.mediaKind)
      /\ fields["src"] = String(b.src)
      /\ fields["spoiler"] = [is |-> "bool", of |-> b.spoiler]
      /\ fields["name"] = Unless(TrimSpace(b.name) = <<>>, String(TrimSpace(b.name)))
      /\ fields["alt"] = Unless(TrimSpace(b.alt) = <<>>, String(TrimSpace(b.alt)))
      /\ fields["caption"] = Unless(TrimSpace(b.caption) = <<>>, String(TrimSpace(b.caption)))
  OBVIOUS
<1> HIDE DEF fields, s
<1>4. \A words \in {b.mediaKind, b.src, b.name, b.alt, b.caption} :
         words \in Seq(Unit) /\ Trimmed(words)
  BY DEF IsMediaBlock
<1>5. TrimSpace(b.mediaKind) = b.mediaKind /\ TrimSpace(b.src) = b.src
  BY <1>4, TrimmedStays
<1>6. TextField(s, "mediaKind") = b.mediaKind
  BY <1>1, <1>2, <1>3, <1>5, RequiredReads
<1>7. TextField(s, "src") = b.src
  BY <1>1, <1>2, <1>3, <1>5, RequiredReads
<1>8. TextField(s, "name") = b.name
  BY <1>1, <1>2, <1>3, <1>4, OptionalReads
<1>9. TextField(s, "alt") = b.alt
  BY <1>1, <1>2, <1>3, <1>4, OptionalReads
<1>10. TextField(s, "caption") = b.caption
  BY <1>1, <1>2, <1>3, <1>4, OptionalReads
<1>11. "spoiler" \in DOMAIN s /\ s["spoiler"].is = "bool" /\ s["spoiler"].of = b.spoiler
  <2>1. fields["spoiler"] # Absent
    BY <1>3 DEF Absent
  <2>2. "spoiler" \in DOMAIN s /\ s["spoiler"] = fields["spoiler"]
    BY <1>1, <1>2, <2>1, PresentField
  <2>3. QED
    BY <1>3, <2>2
<1>12. Is(s, "type", "string") /\ s["type"].of = <<"media">>
  <2>1. fields["type"] = [is |-> "string", of |-> <<"media">>]
    BY <1>3 DEF String
  <2>2. fields["type"] # Absent
    BY <2>1 DEF Absent
  <2>3. "type" \in DOMAIN s /\ s["type"] = fields["type"]
    BY <1>1, <1>2, <2>2, PresentField
  <2>4. QED
    BY <2>1, <2>3 DEF Is
<1>13. TextField(s, "type") = <<"media">> /\ s # Unwritable
  BY <1>12, TypeReads
<1>14. ASSUME NEW strict \in BOOLEAN PROVE ParseBlock(s, strict) = b
  <2>1. ParseBlock(s, strict) = ParseMedia(s, strict)
    BY <1>13, TypesOfWords, ParseBlockCases
  <2>2. b.mediaKind \in MediaKinds /\ b.src \in SafeSources /\ b.spoiler \in BOOLEAN
    BY DEF IsMediaBlock
  <2>3. Is(s, "spoiler", "bool") /\ (Is(s, "spoiler", "bool") /\ s["spoiler"].of) = b.spoiler
    BY <1>11, <2>2 DEF Is
  <2>4. ParseMedia(s, strict) =
           [type |-> "media", mediaKind |-> b.mediaKind, src |-> b.src, spoiler |-> b.spoiler,
            name |-> b.name, alt |-> b.alt, caption |-> b.caption]
    BY <1>6, <1>7, <1>8, <1>9, <1>10, <1>11, <2>2, <2>3 DEF ParseMedia
  <2>5. QED
    BY <2>1, <2>4 DEF IsMediaBlock
<1>15. QED
  BY <1>13, <1>14 DEF ReadsAs, s

LEMMA BlockTypes ==
    ASSUME NEW b, IsBlock(b)
    PROVE  /\ b # ParseError /\ b # UnknownBlock
           /\ IsTextBlock(b) <=> b.type \in TextTypes
           /\ b = Divider <=> b.type = "divider"
           /\ IsMediaBlock(b) <=> b.type = "media"
<1>1. /\ IsTextBlock(b) => b.type \in TextTypes
      /\ b = Divider => b.type = "divider"
      /\ IsMediaBlock(b) => b.type = "media"
  BY DEF IsTextBlock, IsMediaBlock, Divider
<1>2. b.type \in TextTypes \cup {"divider", "media"}
  BY <1>1 DEF IsBlock
<1>3. ParseError.type = "error" /\ UnknownBlock.type = "unknown"
  BY DEF ParseError, UnknownBlock
<1>4. QED
  BY <1>1, <1>2, <1>3 DEF IsBlock, TextTypes

LEMMA TypeFieldReads ==
    ASSUME NEW type \in {"divider", "unknown"}
    PROVE  TextField(TypeField(type), "type") = <<type>> /\ TypeField(type) # Unwritable
<1>1. Is(TypeField(type), "type", "string") /\ TypeField(type)["type"].of = <<type>>
  BY DEF TypeField, String, Is
<1>2. QED
  BY <1>1, TypeReads

LEMMA DividerReads == ReadsAs(TypeField("divider"), Divider) /\ TypeField("divider") # Unwritable
BY TypeFieldReads, TypesOfWords, ParseBlockCases DEF ReadsAs

\* A block that was not known is not known when it is read again.
LEMMA UnknownReads == ReadsAs(TypeField("unknown"), ParseError) /\ TypeField("unknown") # Unwritable
BY TypeFieldReads, TypesOfWords, ParseBlockCases DEF ReadsAs, TextTypes

LEMMA StorageOfText ==
    ASSUME NEW b, IsTextBlock(b)
    PROVE  StorageBlock(b) = StoredText(b)
<1> DEFINE again == ParseInline([is |-> "array", of |-> b.content])
           whole == [b EXCEPT !.content = again.nodes, !.text = again.text]
           written == IF b.type = "heading" /\ b.level \notin 1 .. 3 THEN Unwritable
                      ELSE IF b.content = <<>>
                      THEN IF TrimSpace(b.text) = <<>> THEN Unwritable ELSE StoredText(b)
                      ELSE IF again.text = <<>> THEN Unwritable ELSE StoredText(whole)
<1>1. /\ b.type \in TextTypes /\ b.text # <<>> /\ Inline(b.content, b.text)
      /\ ~(b.type = "heading" /\ b.level \notin 1 .. 3)
  BY DEF IsTextBlock
<1>2. StorageBlock(b) = written
  BY <1>1 DEF StorageBlock, TextTypes
<1>3. CASE b.content = <<>>
  <2>1. TrimSpace(b.text) = b.text
    BY <1>1, <1>3, TrimmedStays DEF Inline
  <2> HIDE DEF again, whole
  <2>2. QED
    BY <1>1, <1>2, <1>3, <2>1
<1>4. CASE b.content # <<>>
  <2>1. again = [nodes |-> b.content, text |-> b.text]
    BY <1>1, <1>4 DEF Inline, NodeArray
  <2> HIDE DEF again
  <2>2. again.nodes = b.content /\ again.text = b.text
    BY <2>1
  <2>3. whole = b
    <3>1. CASE b.type = "heading"
      BY <2>2, <3>1 DEF IsTextBlock
    <3>2. CASE b.type # "heading"
      BY <2>2, <3>2 DEF IsTextBlock
    <3>3. QED
      BY <3>1, <3>2
  <2> HIDE DEF whole
  <2>4. QED
    BY <1>1, <1>2, <1>4, <2>2, <2>3
<1>5. QED
  BY <1>3, <1>4

\* What is written of a block is read as the block again.
LEMMA StorageReads ==
    ASSUME NEW b, IsBlock(b)
    PROVE  ReadsAs(StorageBlock(b), b) /\ StorageBlock(b) # Unwritable
<1>1. CASE IsTextBlock(b)
  BY <1>1, StorageOfText, StoredTextReads
<1>2. CASE IsMediaBlock(b)
  <2>1. b.type = "media" /\ b.mediaKind \in MediaKinds /\ b.src \in SafeSources
    BY <1>2 DEF IsMediaBlock
  <2>2. StorageBlock(b) = StoredMedia(b)
    BY <2>1 DEF StorageBlock, TextTypes
  <2>3. QED
    BY <1>2, <2>2, StoredMediaReads
<1>3. CASE b = Divider
  <2>1. b.type = "divider"
    BY <1>3 DEF Divider
  <2>2. StorageBlock(b) = TypeField("divider")
    BY <2>1 DEF StorageBlock, TextTypes
  <2>3. QED
    BY <1>3, <2>2, DividerReads
<1>4. QED
  BY <1>1, <1>2, <1>3 DEF IsBlock

\* A block that was read, known or not.
IsRead(b) == IsBlock(b) \/ b = UnknownBlock

ReadBlock(raw) == LET block == ParseBlock(raw, FALSE)
                  IN  IF block = ParseError THEN UnknownBlock ELSE block

LEMMA ServedReads ==
    ASSUME NEW b, IsRead(b)
    PROVE  ReadBlock(Served(b)) = b /\ Served(b) # Unwritable
<1>1. CASE b = UnknownBlock
  BY <1>1, UnknownReads DEF Served, ReadBlock, ReadsAs
<1>2. CASE IsBlock(b)
  <2>1. b # ParseError /\ b # UnknownBlock
    BY <1>2, BlockTypes
  <2>2. Served(b) = StorageBlock(b)
    BY <2>1 DEF Served
  <2>3. ParseBlock(StorageBlock(b), FALSE) = b /\ StorageBlock(b) # Unwritable
    BY <1>2, StorageReads DEF ReadsAs
  <2>4. QED
    BY <2>1, <2>2, <2>3 DEF ReadBlock
<1>3. QED
  BY <1>1, <1>2 DEF IsRead

LEMMA ReadBlockIsRead ==
    ASSUME NEW raw, Readable(raw)
    PROVE  IsRead(ReadBlock(raw))
BY ParsedBlock DEF IsRead, ReadBlock

-----------------------------------------------------------------------------
\* A function on positions is a sequence.
LEMMA FunctionIsSequence ==
    ASSUME NEW n \in Nat, NEW f, f = [i \in 1 .. n |-> f[i]]
    PROVE  f \in Seq({f[i] : i \in 1 .. n}) /\ Len(f) = n /\ DOMAIN f = 1 .. n
<1> DEFINE V == {f[i] : i \in 1 .. n}
<1>1. \A i \in 1 .. n : f[i] \in V
  OBVIOUS
<1> HIDE DEF V
<1>2. f \in [1 .. n -> V]
  BY <1>1
<1>3. f \in Seq(V) /\ Len(f) = n
  BY <1>2
<1>4. QED
  BY <1>2, <1>3 DEF V

\* A document that is read: block by block, as many as there are.
LEMMA ParseBlocksReads ==
    ASSUME NEW n \in Nat, NEW raws, DOMAIN raws = 1 .. n
    PROVE  ParseBlocks(raws) = [i \in 1 .. n |-> ReadBlock(raws[i])]
BY DEF ParseBlocks, ReadBlock

\* The blocks of a document, each one read in its place.
BlocksOf(blocks, n) ==
    /\ blocks = [i \in 1 .. n |-> blocks[i]] /\ Len(blocks) = n
    /\ \A i \in 1 .. n : IsRead(blocks[i])

LEMMA ParsedBlocksOf ==
    ASSUME NEW n \in Nat, NEW raws, DOMAIN raws = 1 .. n, \A i \in 1 .. n : Readable(raws[i])
    PROVE  BlocksOf(ParseBlocks(raws), n)
<1> DEFINE blocks == ParseBlocks(raws)
<1>1. blocks = [i \in 1 .. n |-> ReadBlock(raws[i])]
  BY ParseBlocksReads
<1> HIDE DEF blocks
<1>2. blocks = [i \in 1 .. n |-> blocks[i]]
  BY <1>1
<1>3. Len(blocks) = n
  BY <1>2, FunctionIsSequence
<1>4. \A i \in 1 .. n : IsRead(blocks[i])
  BY <1>1, ReadBlockIsRead
<1>5. QED
  BY <1>2, <1>3, <1>4 DEF BlocksOf, blocks

LEMMA ReadIsServed ==
    ASSUME NEW n \in Nat, NEW blocks, BlocksOf(blocks, n),
           NEW served, served = [i \in 1 .. n |-> Served(blocks[i])]
    PROVE  Unwritable \notin Range(served) /\ ParseBlocks(served) = blocks
<1>1. \A i \in 1 .. n : ReadBlock(Served(blocks[i])) = blocks[i] /\ Served(blocks[i]) # Unwritable
  BY ServedReads DEF BlocksOf
<1>2. DOMAIN served = 1 .. n /\ \A i \in 1 .. n : served[i] = Served(blocks[i])
  OBVIOUS
<1>3. Unwritable \notin Range(served)
  BY <1>1, <1>2 DEF Range
<1>4. ParseBlocks(served) = [i \in 1 .. n |-> ReadBlock(served[i])]
  BY <1>2, ParseBlocksReads
<1>5. [i \in 1 .. n |-> ReadBlock(served[i])] = [i \in 1 .. n |-> blocks[i]]
  BY <1>1, <1>2
<1>6. QED
  BY <1>3, <1>4, <1>5 DEF BlocksOf

\* The blocks of an accepted document.
LEMMA AcceptedBlocks ==
    ASSUME NEW n \in Nat, NEW raws, DOMAIN raws = 1 .. n, Len(raws) = n,
           \A i \in 1 .. n : Readable(raws[i]), ValidateBlocks(raws) # <<>>
    PROVE  LET blocks == ValidateBlocks(raws)
           IN  /\ n <= MaxBlocks /\ BlocksOf(blocks, n)
               /\ \A i \in 1 .. n : IsBlock(blocks[i]) /\ WithinLimits(blocks[i])
               /\ ParseBlocks(raws) = blocks
<1> DEFINE blocks == ValidateBlocks(raws)
           parsed == [i \in 1 .. n |-> ParseBlock(raws[i], TRUE)]
<1>1. blocks = IF n <= MaxBlocks /\ \A i \in DOMAIN parsed : parsed[i] # ParseError /\ WithinLimits(parsed[i])
               THEN parsed ELSE <<>>
  BY DEF ValidateBlocks
<1> HIDE DEF blocks
<1>2. /\ blocks = parsed /\ n <= MaxBlocks
      /\ \A i \in 1 .. n : parsed[i] # ParseError /\ WithinLimits(parsed[i])
  <2>1. blocks # <<>> /\ DOMAIN parsed = 1 .. n
    BY DEF blocks
  <2> HIDE DEF parsed
  <2>2. QED
    BY <1>1, <2>1
<1>3. \A i \in 1 .. n : blocks[i] = ParseBlock(raws[i], TRUE) /\ blocks[i] # ParseError /\ WithinLimits(blocks[i])
  BY <1>2
<1>4. blocks = [i \in 1 .. n |-> blocks[i]]
  BY <1>2
<1> HIDE DEF parsed
<1>5. \A i \in 1 .. n : IsBlock(blocks[i]) /\ ReadBlock(raws[i]) = blocks[i]
  BY <1>3, ParsedBlock DEF ReadBlock
<1>6. Len(blocks) = n
  BY <1>4, FunctionIsSequence
<1>7. ParseBlocks(raws) = blocks
  BY <1>4, <1>5, ParseBlocksReads
<1>8. QED
  BY <1>2, <1>3, <1>4, <1>5, <1>6, <1>7 DEF BlocksOf, IsRead, blocks

LEMMA AcceptedIsStored ==
    ASSUME NEW n \in Nat, n <= MaxBlocks, NEW blocks, BlocksOf(blocks, n),
           \A i \in 1 .. n : IsBlock(blocks[i]) /\ WithinLimits(blocks[i])
    PROVE  LET stored == MarshalBlocks(blocks)
           IN  /\ Unwritable \notin Range(stored)
               /\ ParseBlocks(stored) = blocks /\ ValidateBlocks(stored) = blocks
<1> DEFINE stored == MarshalBlocks(blocks)
<1>1. blocks = [i \in 1 .. n |-> blocks[i]] /\ DOMAIN blocks = 1 .. n
  BY DEF BlocksOf
<1>2. stored = [i \in 1 .. n |-> StorageBlock(blocks[i])]
  BY <1>1 DEF MarshalBlocks
<1> HIDE DEF stored
<1>3. /\ stored = [i \in 1 .. n |-> stored[i]] /\ DOMAIN stored = 1 .. n
      /\ \A i \in 1 .. n : stored[i] = StorageBlock(blocks[i])
  BY <1>2
<1>4. Len(stored) = n
  BY <1>3, FunctionIsSequence
<1>5. \A i \in 1 .. n : /\ ParseBlock(stored[i], TRUE) = blocks[i] /\ ParseBlock(stored[i], FALSE) = blocks[i]
                        /\ stored[i] # Unwritable /\ blocks[i] # ParseError
  BY <1>3, StorageReads, BlockTypes DEF ReadsAs
<1>6. Unwritable \notin Range(stored)
  BY <1>3, <1>5 DEF Range
<1>7. ParseBlocks(stored) = blocks
  <2>1. \A i \in 1 .. n : ReadBlock(stored[i]) = blocks[i]
    BY <1>5 DEF ReadBlock
  <2>2. QED
    BY <1>1, <1>3, <2>1, ParseBlocksReads
<1>8. ValidateBlocks(stored) = blocks
  <2> DEFINE parsed == [i \in DOMAIN stored |-> ParseBlock(stored[i], TRUE)]
  <2>1. parsed = blocks
    BY <1>1, <1>3, <1>5
  <2>2. ValidateBlocks(stored) =
           IF /\ Len(stored) <= MaxBlocks
              /\ \A i \in DOMAIN parsed : parsed[i] # ParseError /\ WithinLimits(parsed[i])
           THEN parsed ELSE <<>>
    BY DEF ValidateBlocks
  <2> HIDE DEF parsed
  <2>3. QED
    BY <1>1, <1>4, <1>5, <2>1, <2>2
<1>9. QED
  BY <1>6, <1>7, <1>8 DEF stored

-----------------------------------------------------------------------------
NoSummary == [text |-> <<>>, media |-> <<>>]

\* The summary after so many blocks, as FeedSummary makes it.
SummedUp(blocks) ==
    LET summary[n \in 0 .. Len(blocks)] ==
            IF n = 0 THEN NoSummary ELSE Summarise(summary[n - 1], blocks[n])
    IN  summary

LEMMA FeedSummarySumsUp ==
    ASSUME NEW blocks
    PROVE  FeedSummary(blocks) = SummedUp(blocks)[Len(blocks)]
BY DEF FeedSummary, SummedUp, NoSummary

\* Summaries of such texts and blocks.
Summaries(T, B) == [text : T \cup {<<>>}, media : {<<>>} \cup {<<b>> : b \in B}]

LEMMA SummariseCases ==
    ASSUME NEW T, NEW B, NEW s \in Summaries(T, B), NEW b \in B, b.text \in T \/ b.type # "paragraph"
    PROVE  LET r == Summarise(s, b)
           IN  /\ r \in Summaries(T, B)
               /\ r.text = IF b.type = "paragraph" /\ s.text = <<>> THEN b.text ELSE s.text
               /\ r.media = IF b.type = "media" /\ Better(s.media, b) THEN <<b>> ELSE s.media
<1> DEFINE r == Summarise(s, b)
<1>1. s = [text |-> s.text, media |-> s.media] /\ s.text \in T \cup {<<>>}
      /\ s.media \in {<<>>} \cup {<<c>> : c \in B}
  BY DEF Summaries
<1>2. <<b>> \in {<<c>> : c \in B}
  OBVIOUS
<1>3. CASE b.type = "paragraph" /\ s.text = <<>>
  <2>1. r = [text |-> b.text, media |-> s.media]
    BY <1>1, <1>3 DEF Summarise
  <2> HIDE DEF r
  <2>2. QED
    BY <1>1, <1>3, <2>1 DEF Summaries, r
<1>4. CASE b.type = "media" /\ Better(s.media, b)
  <2>1. r = [text |-> s.text, media |-> <<b>>]
    BY <1>1, <1>4 DEF Summarise
  <2> HIDE DEF r
  <2>2. QED
    BY <1>1, <1>2, <1>4, <2>1 DEF Summaries, r
<1>5. CASE ~(b.type = "paragraph" /\ s.text = <<>>) /\ ~(b.type = "media" /\ Better(s.media, b))
  <2>1. r = s
    BY <1>5 DEF Summarise
  <2> HIDE DEF r
  <2>2. QED
    BY <1>5, <2>1 DEF r
<1>6. QED
  BY <1>3, <1>4, <1>5

LEMMA SummedUpEquation ==
    ASSUME NEW N \in Nat, NEW blocks, Len(blocks) = N
    PROVE  /\ SummedUp(blocks)[0] = NoSummary
           /\ \A n \in 1 .. N : SummedUp(blocks)[n] = Summarise(SummedUp(blocks)[n - 1], blocks[n])
           /\ \A n \in 0 .. N :
                 SummedUp(blocks)[n] \in Summaries({blocks[i].text : i \in 1 .. N}, {blocks[i] : i \in 1 .. N})
<1> DEFINE T == {blocks[i].text : i \in 1 .. N}
           B == {blocks[i] : i \in 1 .. N}
           S == Summaries(T, B)
           step == [before \in S |-> [n \in 1 .. N |-> Summarise(before, blocks[n])]]
           Value(f, n) == IF n = 0 THEN NoSummary ELSE Summarise(f[n - 1], blocks[n])
<1>1. NoSummary \in S
  BY DEF NoSummary, Summaries
<1>2. \A before \in S : \A n \in 1 .. N : Summarise(before, blocks[n]) \in S
  <2> TAKE before \in S
  <2> TAKE n \in 1 .. N
  <2>1. blocks[n] \in B /\ blocks[n].text \in T
    OBVIOUS
  <2> HIDE DEF T, B
  <2>2. QED
    BY <2>1, SummariseCases
<1> HIDE DEF S
<1>3. step \in StepMaps(S, N)
  BY <1>2 DEF StepMaps
<1>4. PICK f \in [0 .. N -> S] : f[0] = NoSummary /\ \A n \in 1 .. N : f[n] = step[f[n - 1]][n]
  <2> HIDE DEF step
  <2>1. \E f : IsRecursion(f, S, NoSummary, N, step)
    BY <1>1, <1>3, Recursion
  <2>2. QED
    BY <2>1 DEF IsRecursion
<1>5. ASSUME NEW n \in 0 .. N PROVE f[n] = Value(f, n)
  <2>1. CASE n = 0
    BY <1>4, <2>1
  <2>2. CASE n # 0
    <3>1. n \in 1 .. N /\ f[n - 1] \in S
      BY <2>2
    <3>2. f[n] = step[f[n - 1]][n]
      BY <1>4, <3>1
    <3>3. QED
      BY <2>2, <3>1, <3>2
  <2>3. QED
    BY <2>1, <2>2
<1>6. f = [n \in 0 .. N |-> Value(f, n)]
  <2> HIDE DEF Value
  <2>1. QED
    BY <1>5
<1> DEFINE g == SummedUp(blocks)
<1>7. g = [n \in 0 .. N |-> Value(g, n)]
  BY <1>6 DEF SummedUp
<1> HIDE DEF g
<1>8. g[0] = NoSummary /\ \A n \in 1 .. N : g[n] = Summarise(g[n - 1], blocks[n])
  <2>1. \A n \in 0 .. N : g[n] = Value(g, n)
    <3> HIDE DEF Value
    <3>1. QED
      BY <1>7
  <2>2. QED
    BY <2>1
<1> DEFINE P == {n \in Nat : n <= N => g[n] \in S}
<1>9. 0 \in P
  BY <1>1, <1>8
<1>10. ASSUME NEW n \in Nat, n \in P PROVE n + 1 \in P
  <2>1. SUFFICES ASSUME n + 1 <= N PROVE g[n + 1] \in S
    OBVIOUS
  <2>2. n + 1 \in 1 .. N /\ (n + 1) - 1 = n /\ g[n] \in S
    BY <1>10, <2>1
  <2>3. g[n + 1] = Summarise(g[n], blocks[n + 1])
    BY <1>8, <2>2
  <2>4. QED
    BY <1>2, <2>2, <2>3
<1>11. \A n \in Nat : n \in P
  <2> HIDE DEF P
  <2>1. QED
    BY <1>9, <1>10, Induction
<1>12. QED
  BY <1>8, <1>11 DEF g, S

\* The first of some positions.
IsFirst(places, i) == i \in places /\ \A j \in places : i <= j

ParagraphsIn(blocks, n) == {i \in 1 .. n : blocks[i].type = "paragraph"}
MediaIn(blocks, n) == {i \in 1 .. n : blocks[i].type = "media"}
AudioIn(blocks, n) == {i \in MediaIn(blocks, n) : blocks[i].mediaKind = <<"audio">>}

TextStands(s, blocks, n) ==
    /\ ParagraphsIn(blocks, n) = {} => s.text = <<>>
    /\ \A i \in 1 .. n : IsFirst(ParagraphsIn(blocks, n), i) => s.text = blocks[i].text

MediumStands(s, blocks, n) ==
    /\ MediaIn(blocks, n) = {} => s.media = <<>>
    /\ AudioIn(blocks, n) = {} =>
          \A i \in 1 .. n : IsFirst(MediaIn(blocks, n), i) => s.media = <<blocks[i]>>
    /\ \A i \in 1 .. n : IsFirst(AudioIn(blocks, n), i) => s.media = <<blocks[i]>>

\* The first stays the first when a later position is added.
LEMMA FirstStays ==
    ASSUME NEW n \in Nat, NEW P \in SUBSET (1 .. n), NEW i, NEW Q \in {P, P \cup {n + 1}}, IsFirst(Q, i)
    PROVE  P # {} => i \in 1 .. n /\ IsFirst(P, i)
<1> SUFFICES ASSUME P # {} PROVE i \in 1 .. n /\ IsFirst(P, i)
  OBVIOUS
<1>1. PICK p \in P : TRUE
  OBVIOUS
<1>2. p \in 1 .. n /\ i <= p /\ i \in Q
  BY <1>1 DEF IsFirst
<1>3. i \in P
  BY <1>2
<1>4. QED
  BY <1>3 DEF IsFirst

LEMMA FirstExists ==
    ASSUME NEW n \in Nat, NEW P \in SUBSET (1 .. n), P # {}
    PROVE  \E i \in 1 .. n : IsFirst(P, i)
<1>1. P \in SUBSET Nat
  OBVIOUS
<1>2. PICK i \in P : \A j \in P : i <= j
  BY <1>1, LeastExists
<1>3. QED
  BY <1>2 DEF IsFirst

LEMMA PlacesGrow ==
    ASSUME NEW n \in Nat, NEW blocks
    PROVE  /\ ParagraphsIn(blocks, n) \in SUBSET (1 .. n)
           /\ MediaIn(blocks, n) \in SUBSET (1 .. n) /\ AudioIn(blocks, n) \in SUBSET (1 .. n)
           /\ ParagraphsIn(blocks, n + 1) = IF blocks[n + 1].type = "paragraph"
                 THEN ParagraphsIn(blocks, n) \cup {n + 1} ELSE ParagraphsIn(blocks, n)
           /\ MediaIn(blocks, n + 1) = IF blocks[n + 1].type = "media"
                 THEN MediaIn(blocks, n) \cup {n + 1} ELSE MediaIn(blocks, n)
           /\ AudioIn(blocks, n + 1) =
                 IF blocks[n + 1].type = "media" /\ blocks[n + 1].mediaKind = <<"audio">>
                 THEN AudioIn(blocks, n) \cup {n + 1} ELSE AudioIn(blocks, n)
<1>1. 1 .. n + 1 = (1 .. n) \cup {n + 1}
  OBVIOUS
<1>2. QED
  BY <1>1 DEF ParagraphsIn, MediaIn, AudioIn

LEMMA TextStillStands ==
    ASSUME NEW n \in Nat, NEW blocks, NEW s, NEW r, TextStands(s, blocks, n),
           \A i \in ParagraphsIn(blocks, n) : blocks[i].text # <<>>,
           r.text = IF blocks[n + 1].type = "paragraph" /\ s.text = <<>> THEN blocks[n + 1].text ELSE s.text
    PROVE  TextStands(r, blocks, n + 1)
<1> DEFINE P == ParagraphsIn(blocks, n)
           Q == ParagraphsIn(blocks, n + 1)
           b == blocks[n + 1]
<1>1. /\ P \in SUBSET (1 .. n)
      /\ Q = IF b.type = "paragraph" THEN P \cup {n + 1} ELSE P
  BY PlacesGrow
<1>2. /\ P = {} => s.text = <<>>
      /\ \A i \in 1 .. n : IsFirst(P, i) => s.text = blocks[i].text
  BY DEF TextStands
<1>3. \A i \in P : blocks[i].text # <<>>
  OBVIOUS
<1>4. r.text = IF b.type = "paragraph" /\ s.text = <<>> THEN b.text ELSE s.text
  OBVIOUS
<1> HIDE DEF P, Q
<1>5. CASE P = {}
  <2>1. Q = {} => r.text = <<>>
    BY <1>1, <1>2, <1>4, <1>5
  <2>2. \A i : IsFirst(Q, i) => i = n + 1 /\ r.text = blocks[n + 1].text
    BY <1>1, <1>2, <1>4, <1>5 DEF IsFirst
  <2>3. QED
    BY <2>1, <2>2 DEF TextStands, Q
<1>6. CASE P # {}
  <2>1. PICK k \in 1 .. n : IsFirst(P, k)
    BY <1>1, <1>6, FirstExists
  <2>2. s.text # <<>> /\ k \in P
    BY <1>2, <1>3, <2>1 DEF IsFirst
  <2>3. r.text = s.text
    BY <1>4, <2>2
  <2>4. ASSUME NEW i, IsFirst(Q, i) PROVE r.text = blocks[i].text
    <3>1. i \in 1 .. n /\ IsFirst(P, i)
      BY <1>1, <1>6, <2>4, FirstStays
    <3>2. QED
      BY <1>2, <2>3, <3>1
  <2>5. Q # {}
    BY <1>1, <1>6
  <2>6. QED
    BY <2>4, <2>5 DEF TextStands, Q
<1>7. QED
  BY <1>5, <1>6

LEMMA MediumStillStands ==
    ASSUME NEW n \in Nat, NEW blocks, NEW s, NEW r, MediumStands(s, blocks, n),
           r.media = IF blocks[n + 1].type = "media" /\ Better(s.media, blocks[n + 1])
                     THEN <<blocks[n + 1]>> ELSE s.media
    PROVE  MediumStands(r, blocks, n + 1)
<1> DEFINE M == MediaIn(blocks, n)
           A == AudioIn(blocks, n)
           M1 == MediaIn(blocks, n + 1)
           A1 == AudioIn(blocks, n + 1)
           b == blocks[n + 1]
<1>1. /\ M \in SUBSET (1 .. n) /\ A \in SUBSET (1 .. n)
      /\ M1 = IF b.type = "media" THEN M \cup {n + 1} ELSE M
      /\ A1 = IF b.type = "media" /\ b.mediaKind = <<"audio">> THEN A \cup {n + 1} ELSE A
  BY PlacesGrow
<1>2. /\ M = {} => s.media = <<>>
      /\ A = {} => \A i \in 1 .. n : IsFirst(M, i) => s.media = <<blocks[i]>>
      /\ \A i \in 1 .. n : IsFirst(A, i) => s.media = <<blocks[i]>>
  BY DEF MediumStands
<1>3. /\ A \subseteq M /\ \A i \in M : blocks[i].mediaKind = <<"audio">> => i \in A
      /\ \A i \in A : blocks[i].mediaKind = <<"audio">>
  BY DEF AudioIn
<1>4. r.media = IF b.type = "media" /\ Better(s.media, b) THEN <<b>> ELSE s.media
  OBVIOUS
<1>5. \A m : Better(m, b) <=> m = <<>> \/ (b.mediaKind = <<"audio">> /\ m[1].mediaKind # <<"audio">>)
  BY DEF Better
<1>6. \A c : <<c>> # <<>> /\ <<c>>[1] = c
  OBVIOUS
<1> HIDE DEF M, A, M1, A1
<1>7. SUFFICES /\ M1 = {} => r.media = <<>>
               /\ A1 = {} => \A i : IsFirst(M1, i) => r.media = <<blocks[i]>>
               /\ \A i : IsFirst(A1, i) => r.media = <<blocks[i]>>
  BY DEF MediumStands, M1, A1
<1>8. CASE M = {}
  <2>1. A = {} /\ s.media = <<>>
    BY <1>2, <1>3, <1>8
  <2>2. r.media = IF b.type = "media" THEN <<b>> ELSE <<>>
    BY <1>4, <1>5, <2>1
  <2>3. \A i : (IsFirst(M1, i) \/ IsFirst(A1, i)) => i = n + 1 /\ b.type = "media"
    BY <1>1, <1>8, <2>1 DEF IsFirst
  <2>4. M1 = {} => b.type # "media"
    BY <1>1
  <2>5. QED
    BY <2>2, <2>3, <2>4
<1>9. CASE M # {} /\ A = {}
  <2>1. PICK k \in 1 .. n : IsFirst(M, k)
    BY <1>1, <1>9, FirstExists
  <2>2. s.media = <<blocks[k]>> /\ blocks[k].mediaKind # <<"audio">>
    BY <1>2, <1>3, <1>9, <2>1 DEF IsFirst
  <2>3. s.media # <<>> /\ s.media[1].mediaKind # <<"audio">>
    BY <1>6, <2>2
  <2>4. r.media = IF b.type = "media" /\ b.mediaKind = <<"audio">> THEN <<b>> ELSE s.media
    BY <1>4, <1>5, <2>3
  <2>5. \A i : IsFirst(A1, i) => i = n + 1 /\ b.type = "media" /\ b.mediaKind = <<"audio">>
    BY <1>1, <1>9 DEF IsFirst
  <2>6. ASSUME A1 = {}, NEW i, IsFirst(M1, i) PROVE r.media = <<blocks[i]>>
    <3>1. ~(b.type = "media" /\ b.mediaKind = <<"audio">>)
      BY <1>1, <2>6
    <3>2. i \in 1 .. n /\ IsFirst(M, i)
      BY <1>1, <1>9, <2>6, FirstStays
    <3>3. QED
      BY <1>2, <1>9, <2>4, <3>1, <3>2
  <2>7. M1 # {}
    BY <1>1, <1>9
  <2>8. QED
    BY <2>4, <2>5, <2>6, <2>7
<1>10. CASE A # {}
  <2>1. PICK k \in 1 .. n : IsFirst(A, k)
    BY <1>1, <1>10, FirstExists
  <2>2. s.media = <<blocks[k]>> /\ blocks[k].mediaKind = <<"audio">>
    BY <1>2, <1>3, <2>1 DEF IsFirst
  <2>3. s.media # <<>> /\ s.media[1].mediaKind = <<"audio">>
    BY <1>6, <2>2
  <2>4. r.media = s.media
    BY <1>4, <1>5, <2>3
  <2>5. ASSUME NEW i, IsFirst(A1, i) PROVE r.media = <<blocks[i]>>
    <3>1. i \in 1 .. n /\ IsFirst(A, i)
      BY <1>1, <1>10, <2>5, FirstStays
    <3>2. QED
      BY <1>2, <2>4, <3>1
  <2>6. A1 # {} /\ M1 # {}
    BY <1>1, <1>3, <1>10
  <2>7. QED
    BY <2>5, <2>6
<1>11. QED
  BY <1>8, <1>9, <1>10

LEMMA SummaryStands ==
    ASSUME NEW N \in Nat, NEW blocks, BlocksOf(blocks, N)
    PROVE  TextStands(FeedSummary(blocks), blocks, N) /\ MediumStands(FeedSummary(blocks), blocks, N)
<1> DEFINE T == {blocks[i].text : i \in 1 .. N}
           B == {blocks[i] : i \in 1 .. N}
           g == SummedUp(blocks)
           Stands(n) == TextStands(g[n], blocks, n) /\ MediumStands(g[n], blocks, n)
           P == {n \in Nat : n <= N => Stands(n)}
<1>1. Len(blocks) = N /\ \A i \in 1 .. N : IsRead(blocks[i])
  BY DEF BlocksOf
<1>2. /\ g[0] = NoSummary
      /\ \A n \in 1 .. N : g[n] = Summarise(g[n - 1], blocks[n])
      /\ \A n \in 0 .. N : g[n] \in Summaries(T, B)
  BY <1>1, SummedUpEquation
<1> HIDE DEF g
<1>3. \A i \in 1 .. N : blocks[i] \in B /\ blocks[i].text \in T
  OBVIOUS
<1> HIDE DEF T, B
<1>4. \A i \in 1 .. N : blocks[i].type = "paragraph" => blocks[i].text # <<>>
  <2>1. ASSUME NEW b, IsRead(b), b.type = "paragraph" PROVE b.text # <<>>
    <3>1. b # UnknownBlock
      BY <2>1 DEF UnknownBlock
    <3>2. IsTextBlock(b)
      BY <2>1, <3>1, BlockTypes DEF IsRead, TextTypes
    <3>3. QED
      BY <3>2 DEF IsTextBlock
  <2>2. QED
    BY <1>1, <2>1
<1>5. 0 \in P
  <2>1. ParagraphsIn(blocks, 0) = {} /\ MediaIn(blocks, 0) = {} /\ 1 .. 0 = {}
    BY DEF ParagraphsIn, MediaIn
  <2>2. g[0].text = <<>> /\ g[0].media = <<>>
    BY <1>2 DEF NoSummary
  <2>3. TextStands(g[0], blocks, 0) /\ MediumStands(g[0], blocks, 0)
    BY <2>1, <2>2 DEF TextStands, MediumStands
  <2>4. QED
    BY <2>3
<1>6. ASSUME NEW n \in Nat, n \in P PROVE n + 1 \in P
  <2> HIDE DEF Stands
  <2>1. SUFFICES ASSUME n + 1 <= N PROVE Stands(n + 1)
    OBVIOUS
  <2>2. n + 1 \in 1 .. N /\ (n + 1) - 1 = n /\ n \in 0 .. N
    BY <2>1
  <2>3. TextStands(g[n], blocks, n) /\ MediumStands(g[n], blocks, n)
    BY <1>6, <2>2 DEF Stands
  <2>4. g[n + 1] = Summarise(g[n], blocks[n + 1]) /\ g[n] \in Summaries(T, B)
    BY <1>2, <2>2
  <2>5. blocks[n + 1] \in B /\ blocks[n + 1].text \in T
    BY <1>3, <2>2
  <2>6. /\ g[n + 1].text = IF blocks[n + 1].type = "paragraph" /\ g[n].text = <<>>
                          THEN blocks[n + 1].text ELSE g[n].text
        /\ g[n + 1].media = IF blocks[n + 1].type = "media" /\ Better(g[n].media, blocks[n + 1])
                           THEN <<blocks[n + 1]>> ELSE g[n].media
    BY <2>4, <2>5, SummariseCases
  <2>7. \A i \in ParagraphsIn(blocks, n) : blocks[i].text # <<>>
    BY <1>4, <2>2 DEF ParagraphsIn
  <2>8. TextStands(g[n + 1], blocks, n + 1)
    BY <2>3, <2>6, <2>7, TextStillStands
  <2>9. MediumStands(g[n + 1], blocks, n + 1)
    BY <2>3, <2>6, MediumStillStands
  <2>10. QED
    BY <2>8, <2>9 DEF Stands
<1>7. N \in P
  <2> HIDE DEF P
  <2>1. QED
    BY <1>5, <1>6, Induction
<1>8. FeedSummary(blocks) = g[N]
  BY <1>1, FeedSummarySumsUp DEF g
<1>9. QED
  BY <1>7, <1>8

LEMMA FirstByMin ==
    ASSUME NEW n \in Nat, NEW P \in SUBSET (1 .. n), P # {}
    PROVE  Min(P) \in 1 .. n /\ IsFirst(P, Min(P))
<1>1. P \in SUBSET Nat
  OBVIOUS
<1>2. Min(P) \in P /\ \A u \in P : Min(P) <= u
  BY <1>1, LeastIsMin
<1>3. QED
  BY <1>2 DEF IsFirst

-----------------------------------------------------------------------------
DocumentBlocks == Paragraphs \cup Headings \cup MediaBlocks \cup Others

\* Documents of the blocks that are tried.
DocumentType == document \in Seq(DocumentBlocks)

LEMMA DocumentTyped == DocumentSpec => []DocumentType
<1>1. DocumentInit => DocumentType
  BY DEF DocumentInit, DocumentType
<1>2. DocumentType /\ [DocumentNext]_document => DocumentType'
  <2> SUFFICES ASSUME DocumentType, [DocumentNext]_document PROVE DocumentType'
    OBVIOUS
  <2>1. ASSUME NEW raw \in DocumentBlocks, Write(raw) PROVE DocumentType'
    BY <2>1, AppendProperties DEF Write, DocumentType
  <2>2. CASE FirstBlock
    <3>1. PICK raw \in Paragraphs \cup Headings \cup MediaBlocks : Write(raw)
      BY <2>2 DEF FirstBlock
    <3>2. raw \in DocumentBlocks
      BY DEF DocumentBlocks
    <3>3. QED
      BY <2>1, <3>1, <3>2
  <2>3. CASE AnotherBlock
    <3>1. PICK raw \in Others : Write(raw)
      BY <2>3 DEF AnotherBlock
    <3>2. raw \in DocumentBlocks
      BY DEF DocumentBlocks
    <3>3. QED
      BY <2>1, <3>1, <3>2
  <2>4. CASE UNCHANGED document
    BY <2>4 DEF DocumentType
  <2>5. QED
    BY <2>2, <2>3, <2>4 DEF DocumentNext
<1>3. QED
  BY <1>1, <1>2, PTL DEF DocumentSpec

IsText(value) == value.is = "string" => value.of \in Seq(Unit)
IsNodes(value) == value.is = "array" => value.of \in Seq(NodeSet)
IsFlag(value) == value.is = "bool" => value.of \in BOOLEAN

LEMMA StringIsText ==
    ASSUME NEW words, words \in Seq(Unit)
    PROVE  IsText(String(words))
BY DEF IsText, String

LEMMA WordIsText ==
    ASSUME NEW word \in Unit
    PROVE  IsText(String(<<word>>))
<1>1. <<word>> \in Seq(Unit)
  OBVIOUS
<1>2. QED
  BY <1>1, StringIsText

LEMMA OtherKinds ==
    /\ IsText(Null) /\ IsText(Absent) /\ IsNodes(Null) /\ IsNodes(Absent)
    /\ IsFlag(Null) /\ IsFlag(Absent) /\ \A t : IsFlag(String(t))
BY DEF IsText, IsNodes, IsFlag, Null, Absent, String

LEMMA TextsAreTexts == \A v \in Optional(Texts) \cup Optional(FewTexts) : IsText(v)
<1>1. /\ <<" ">> \in Seq(Unit) /\ <<"x">> \in Seq(Unit) /\ <<" ", "x">> \in Seq(Unit)
      /\ <<" ", "x", " ">> \in Seq(Unit) /\ <<"x", "x", "x">> \in Seq(Unit)
  BY DEF Unit
<1>2. \A v \in {String(t) : t \in {<<" ">>, <<"x">>, <<" ", "x", " ">>, <<"x", "x", "x">>}} : IsText(v)
  BY <1>1, StringIsText
<1>3. IsText(String(<<" ", "x">>))
  BY <1>1, StringIsText
<1>4. QED
  BY <1>2, <1>3, OtherKinds DEF Optional, Texts, FewTexts

LEMMA NodesAreNodes == Nodes \subseteq NodeSet /\ Plain(<<"x">>) \in NodeSet /\ Plain(<<" ">>) \in NodeSet
<1>1. /\ <<>> \in Seq(Unit) /\ <<" ">> \in Seq(Unit) /\ <<"x">> \in Seq(Unit) /\ <<"e">> \in Seq(Unit)
      /\ <<"x", " ">> \in Seq(Unit) /\ <<" ", "u">> \in Seq(Unit)
  BY DEF Unit
<1>2. MarksTried \subseteq MarkSet
  BY <1>1 DEF MarksTried, MarkSet
<1>3. MarkLists \subseteq Seq(MarkSet)
  <2> DEFINE Single(m) == <<m>>
             Two(m, n) == <<m, n>>
             Ones == {Single(m) : m \in MarksTried}
             Twos == {Two(m, n) : m, n \in MarksTried}
  <2>1. \A m \in MarkSet : Single(m) \in Seq(MarkSet)
    OBVIOUS
  <2>2. \A m, n \in MarkSet : Two(m, n) \in Seq(MarkSet)
    OBVIOUS
  <2>3. <<>> \in Seq(MarkSet)
    OBVIOUS
  <2>4. MarkLists = {<<>>} \cup Ones \cup Twos
    BY DEF MarkLists
  <2> HIDE DEF Single, Two
  <2>5. Ones \subseteq Seq(MarkSet)
    BY <1>2, <2>1
  <2>6. Twos \subseteq Seq(MarkSet)
    BY <1>2, <2>2
  <2> HIDE DEF Ones, Twos
  <2>7. QED
    BY <2>3, <2>4, <2>5, <2>6
<1>4. [type : {"text"}, text : {<<>>, <<" ">>, <<"x", " ">>}, marks : MarkLists] \subseteq NodeSet
  BY <1>1, <1>3 DEF NodeSet
<1>5. <<>> \in Seq(MarkSet)
  OBVIOUS
<1>6. [type : {"html"}, text : {<<"x">>}, marks : {<<>>}] \subseteq NodeSet
  BY <1>1, <1>5 DEF NodeSet
<1>7. \A t \in {<<"x">>, <<" ">>} : Plain(t) \in NodeSet
  BY <1>1, <1>5 DEF Plain, NodeSet
<1>8. QED
  BY <1>4, <1>6, <1>7 DEF Nodes

LEMMA ContentsAreNodes == \A v \in Optional(Contents) \cup Optional(FewContents) : IsNodes(v)
<1>1. \A nodes \in Seq(NodeSet) : IsNodes(Array(nodes))
  BY DEF IsNodes, Array
<1> DEFINE x == Plain(<<"x">>)
           blank == Plain(<<" ">>)
<1>6. x \in NodeSet /\ blank \in NodeSet
  BY NodesAreNodes
<1> HIDE DEF x, blank
<1>7. /\ <<>> \in Seq(NodeSet) /\ <<x>> \in Seq(NodeSet)
      /\ <<blank>> \in Seq(NodeSet) /\ <<x, blank>> \in Seq(NodeSet)
  BY <1>6
<1>2. \A v \in FewContents : IsNodes(v)
  <2>1. FewContents = {Null, Array(<<>>), Array(<<blank>>), Array(<<x, blank>>)}
    BY DEF FewContents, x, blank
  <2>2. QED
    BY <1>1, <1>7, <2>1, OtherKinds
<1>3. ASSUME NEW n \in Nodes, NEW t \in {<<>>, <<x>>} PROVE IsNodes(Array(<<n>> \o t))
  <2>1. n \in NodeSet
    BY NodesAreNodes
  <2>2. <<n>> \in Seq(NodeSet)
    BY <2>1
  <2>3. t \in Seq(NodeSet)
    BY <1>7, Zenon
  <2>4. <<n>> \o t \in Seq(NodeSet)
    BY <2>2, <2>3, ConcatProperties
  <2>5. QED
    BY <1>1, <2>4
<1>4. \A v \in Contents : IsNodes(v)
  <2> DEFINE Rest == {<<>>, <<x>>}
             Value(n, t) == Array(<<n>> \o t)
  <2>1. Contents = FewContents \cup {Value(n, t) : n \in Nodes, t \in Rest}
    BY DEF Contents, x
  <2>2. \A n \in Nodes : \A t \in Rest : IsNodes(Value(n, t))
    BY <1>3, Zenon
  <2> HIDE DEF Rest, Value
  <2>3. QED
    BY <1>2, <2>1, <2>2
<1>5. QED
  BY <1>2, <1>4, OtherKinds DEF Optional

LEMMA PresentIsReadable ==
    ASSUME NEW fields,
           \A f \in DOMAIN fields \cap TextFields : IsText(fields[f]),
           "content" \in DOMAIN fields => IsNodes(fields["content"]),
           "spoiler" \in DOMAIN fields => IsFlag(fields["spoiler"])
    PROVE  Readable(fields) /\ Readable(Present(fields))
<1>1. ASSUME NEW s, \A f \in DOMAIN s : f \in DOMAIN fields /\ s[f] = fields[f] PROVE Readable(s)
  BY <1>1 DEF Readable, Is, IsText, IsNodes, IsFlag
<1>2. \A f \in DOMAIN Present(fields) : f \in DOMAIN fields /\ Present(fields)[f] = fields[f]
  BY PresentField
<1>3. QED
  BY <1>1, <1>2

LEMMA TextBlocksReadable ==
    ASSUME NEW raw \in Paragraphs \cup Headings
    PROVE  Readable(raw)
<1>1. \A type \in TextTypes : IsText(String(<<type>>))
  BY WordIsText DEF TextTypes, Unit
<1>2. ASSUME NEW t, IsText(t), NEW c, IsNodes(c)
      PROVE  Readable(Present([type |-> String(<<"paragraph">>), text |-> t, content |-> c]))
  <2> DEFINE fields == [type |-> String(<<"paragraph">>), text |-> t, content |-> c]
  <2>1. DOMAIN fields = {"type", "text", "content"}
    OBVIOUS
  <2>2. fields["type"] = String(<<"paragraph">>) /\ fields["text"] = t /\ fields["content"] = c
    OBVIOUS
  <2> HIDE DEF fields
  <2>3. QED
    BY <1>1, <1>2, <2>1, <2>2, PresentIsReadable DEF TextTypes, TextFields, fields
<1>3. ASSUME NEW l, NEW t, IsText(t), NEW c, IsNodes(c)
      PROVE  Readable(Present([type |-> String(<<"heading">>), level |-> l, text |-> t, content |-> c]))
  <2> DEFINE fields == [type |-> String(<<"heading">>), level |-> l, text |-> t, content |-> c]
  <2>1. DOMAIN fields = {"type", "level", "text", "content"}
    OBVIOUS
  <2>2. fields["type"] = String(<<"heading">>) /\ fields["text"] = t /\ fields["content"] = c
    OBVIOUS
  <2> HIDE DEF fields
  <2>3. QED
    BY <1>1, <1>3, <2>1, <2>2, PresentIsReadable DEF TextTypes, TextFields, fields
<1>4. CASE raw \in Paragraphs
  <2> DEFINE Object(t, c) == Present([type |-> String(<<"paragraph">>), text |-> t, content |-> c])
  <2>1. Paragraphs = {Object(t, c) : t \in Optional(FewTexts), c \in Optional(Contents)}
                        \cup {Object(t, c) : t \in Optional(Texts), c \in Optional(FewContents)}
    BY DEF Paragraphs
  <2>2. \A t, c : IsText(t) /\ IsNodes(c) => Readable(Object(t, c))
    BY <1>2
  <2> HIDE DEF Object
  <2>3. \E t \in Optional(Texts) \cup Optional(FewTexts), c \in Optional(Contents) \cup Optional(FewContents) :
           raw = Object(t, c)
    BY <1>4, <2>1
  <2>4. QED
    BY <2>2, <2>3, TextsAreTexts, ContentsAreNodes
<1>5. CASE raw \in Headings
  <2>1. PICK l \in Optional(Levels), t \in Optional(Texts), c \in Optional(FewContents) :
           raw = Present([type |-> String(<<"heading">>), level |-> l, text |-> t, content |-> c])
    BY <1>5 DEF Headings
  <2>2. QED
    BY <1>3, <2>1, TextsAreTexts, ContentsAreNodes
<1>6. QED
  BY <1>4, <1>5

LEMMA MediaBlocksReadable ==
    ASSUME NEW raw \in MediaBlocks
    PROVE  Readable(raw)
<1> DEFINE Object(k, s, n, c, f) ==
              Present([type |-> String(<<"media">>), mediaKind |-> k, src |-> s, name |-> n,
                       caption |-> c, spoiler |-> f])
<1>1. \A v \in Optional(Kinds) : IsText(v)
  <2>1. <<"image">> \in Seq(Unit) /\ <<" ", "audio">> \in Seq(Unit) /\ <<"x">> \in Seq(Unit)
    BY DEF Unit
  <2>2. IsText(String(<<"image">>)) /\ IsText(String(<<" ", "audio">>)) /\ IsText(String(<<"x">>))
    BY <2>1, StringIsText
  <2>3. QED
    BY <2>2, OtherKinds, Zenon DEF Optional, Kinds
<1>2. \A v \in Optional(Sources) : IsText(v)
  <2>1. <<"/">> \in Seq(Unit) /\ <<" ", "/", " ", "a">> \in Seq(Unit) /\ <<"e">> \in Seq(Unit)
    BY DEF Unit
  <2>2. IsText(String(<<"/">>)) /\ IsText(String(<<" ", "/", " ", "a">>)) /\ IsText(String(<<"e">>))
    BY <2>1, StringIsText
  <2>3. QED
    BY <2>2, OtherKinds, Zenon DEF Optional, Sources
<1>3. \A v \in Optional(Flags) : IsFlag(v)
  <2>1. \A b \in BOOLEAN : IsFlag([is |-> "bool", of |-> b])
    BY DEF IsFlag
  <2>2. QED
    BY <2>1, OtherKinds, Zenon DEF Optional, Flags
<1>4. ASSUME NEW k, NEW s, NEW n, NEW c, NEW f, IsText(k), IsText(s), IsText(n), IsText(c), IsFlag(f)
      PROVE  Readable(Object(k, s, n, c, f))
  <2> DEFINE fields == [type |-> String(<<"media">>), mediaKind |-> k, src |-> s, name |-> n,
                        caption |-> c, spoiler |-> f]
  <2>1. DOMAIN fields = {"type", "mediaKind", "src", "name", "caption", "spoiler"}
    OBVIOUS
  <2>2. /\ fields["type"] = String(<<"media">>) /\ fields["mediaKind"] = k /\ fields["src"] = s
        /\ fields["name"] = n /\ fields["caption"] = c /\ fields["spoiler"] = f
    OBVIOUS
  <2>3. IsText(String(<<"media">>))
    BY WordIsText DEF Unit
  <2> HIDE DEF fields
  <2>4. \A g \in DOMAIN fields \cap TextFields : IsText(fields[g])
    BY <1>4, <2>1, <2>2, <2>3 DEF TextFields
  <2>5. Readable(Present(fields))
    BY <1>4, <2>1, <2>2, <2>4, PresentIsReadable
  <2>6. QED
    BY <2>5 DEF fields
<1>5. MediaBlocks = {Object(k, s, n, c, f) : k \in Optional(Kinds), s \in Optional(Sources),
                                            n \in Optional(Texts), c \in Optional(FewTexts), f \in Optional(Flags)}
  BY DEF MediaBlocks
<1> HIDE DEF Object
<1>6. PICK k \in Optional(Kinds), s \in Optional(Sources), n \in Optional(Texts),
           c \in Optional(FewTexts), f \in Optional(Flags) : raw = Object(k, s, n, c, f)
  BY <1>5
<1>7. IsText(k) /\ IsText(s) /\ IsText(n) /\ IsText(c) /\ IsFlag(f)
  BY <1>1, <1>2, <1>3, TextsAreTexts
<1>8. QED
  BY <1>4, <1>6, <1>7

LEMMA OthersReadable ==
    ASSUME NEW raw \in Others
    PROVE  Readable(raw)
<1>1. Readable(<<>>)
  BY DEF Readable, Is, TextFields
<1>2. ASSUME NEW type \in Unit PROVE Readable(TypeField(type))
  <2> DEFINE fields == TypeField(type)
  <2>1. DOMAIN fields = {"type"} /\ fields["type"] = String(<<type>>)
    BY DEF TypeField
  <2> HIDE DEF fields
  <2>2. QED
    BY <2>1, WordIsText, PresentIsReadable DEF fields
<1>3. Readable([type |-> Null])
  BY DEF Readable, Is, TextFields, Null
<1>4. ASSUME NEW type \in Unit, NEW words, words \in Seq(Unit)
      PROVE  Readable([type |-> String(<<type>>), text |-> String(words)])
  <2> DEFINE fields == [type |-> String(<<type>>), text |-> String(words)]
  <2>1. DOMAIN fields = {"type", "text"} /\ fields["type"] = String(<<type>>) /\ fields["text"] = String(words)
    OBVIOUS
  <2>2. IsText(String(<<type>>)) /\ IsText(String(words))
    BY <1>4, WordIsText, StringIsText
  <2> HIDE DEF fields
  <2>3. \A g \in DOMAIN fields \cap TextFields : IsText(fields[g])
    BY <2>1, <2>2
  <2>4. Readable(fields)
    BY <2>1, <2>3, PresentIsReadable
  <2>5. QED
    BY <2>4 DEF fields
<1>5. ASSUME NEW kind \in Unit, NEW src, src \in Seq(Unit)
      PROVE  Readable(Medium(kind, src))
  <2> DEFINE fields == Medium(kind, src)
  <2>1. /\ DOMAIN fields = {"type", "mediaKind", "src"} /\ fields["type"] = String(<<"media">>)
        /\ fields["mediaKind"] = String(<<kind>>) /\ fields["src"] = String(src)
    BY DEF Medium
  <2>2. IsText(String(<<"media">>)) /\ IsText(String(<<kind>>)) /\ IsText(String(src))
    BY <1>5, WordIsText, StringIsText DEF Unit
  <2> HIDE DEF fields
  <2>3. \A g \in DOMAIN fields \cap TextFields : IsText(fields[g])
    BY <2>1, <2>2
  <2>4. Readable(fields)
    BY <2>1, <2>3, PresentIsReadable
  <2>5. QED
    BY <2>4 DEF fields
<1>6. <<"x">> \in Seq(Unit) /\ <<"x", "x">> \in Seq(Unit) /\ <<"/">> \in Seq(Unit) /\ <<"/", " ", "a">> \in Seq(Unit)
  BY DEF Unit
<1>7. {"divider", "future", "quote", "paragraph", "audio", "gif"} \subseteq Unit
  BY DEF Unit
<1>8. /\ Readable(TypeField("divider")) /\ Readable(TypeField("future"))
      /\ Readable([type |-> String(<<"quote">>), text |-> String(<<"x">>)])
      /\ Readable([type |-> String(<<"paragraph">>), text |-> String(<<"x", "x">>)])
      /\ Readable(Medium("audio", <<"/">>)) /\ Readable(Medium("audio", <<"/", " ", "a">>))
      /\ Readable(Medium("gif", <<"/">>))
  BY <1>2, <1>4, <1>5, <1>6, <1>7
<1> DEFINE none == <<>>
           untyped == [type |-> Null]
           quote == [type |-> String(<<"quote">>), text |-> String(<<"x">>)]
           paragraph == [type |-> String(<<"paragraph">>), text |-> String(<<"x", "x">>)]
           one == Medium("audio", <<"/">>)
           two == Medium("audio", <<"/", " ", "a">>)
           three == Medium("gif", <<"/">>)
<1>9. Others = {none, TypeField("divider"), TypeField("future"), untyped, quote, paragraph, one, two, three}
  BY DEF Others
<1>10. /\ Readable(none) /\ Readable(untyped) /\ Readable(quote) /\ Readable(paragraph)
       /\ Readable(one) /\ Readable(two) /\ Readable(three)
  BY <1>1, <1>3, <1>8
<1> HIDE DEF none, untyped, quote, paragraph, one, two, three
<1>11. QED
  BY <1>8, <1>9, <1>10

LEMMA DocumentBlocksReadable ==
    ASSUME NEW raw \in DocumentBlocks
    PROVE  Readable(raw)
BY TextBlocksReadable, MediaBlocksReadable, OthersReadable DEF DocumentBlocks

LEMMA TypedContentIsKept == DocumentType => ContentIsKept
<1> SUFFICES ASSUME DocumentType PROVE ContentIsKept
  OBVIOUS
<1> DEFINE N == Len(document)
<1>1. /\ N \in Nat /\ DOMAIN document = 1 .. N
      /\ \A i \in 1 .. N : Readable(document[i])
  <2>1. \A i \in 1 .. N : document[i] \in DocumentBlocks
    BY DEF DocumentType
  <2>2. QED
    BY <2>1, DocumentBlocksReadable DEF DocumentType
<1>2. Len(document) = N
  OBVIOUS
<1> HIDE DEF N
<1>3. ASSUME NEW blocks \in Accepted
      PROVE  /\ N <= MaxBlocks /\ BlocksOf(blocks, N)
             /\ \A i \in 1 .. N : IsBlock(blocks[i]) /\ WithinLimits(blocks[i])
             /\ ParseBlocks(document) = blocks
  <2>1. blocks = ValidateBlocks(document) /\ ValidateBlocks(document) # <<>>
    BY DEF Accepted
  <2>2. QED
    BY <1>1, <1>2, <2>1, AcceptedBlocks
<1>4. CheckedAsRead
  BY <1>3 DEF CheckedAsRead
<1>5. StoredReadsBack
  <2>1. ASSUME NEW blocks \in Accepted
        PROVE  LET stored == MarshalBlocks(blocks)
               IN  /\ Unwritable \notin Range(stored)
                   /\ ParseBlocks(stored) = blocks /\ ValidateBlocks(stored) = blocks
    BY <1>1, <1>3, AcceptedIsStored
  <2>2. QED
    BY <2>1 DEF StoredReadsBack
<1> DEFINE blocks == ParseBlocks(document)
<1>6. BlocksOf(blocks, N)
  BY <1>1, ParsedBlocksOf
<1> HIDE DEF blocks
<1>7. AnythingIsServed
  <2> DEFINE served == [i \in DOMAIN blocks |-> Served(blocks[i])]
  <2>1. served = [i \in 1 .. N |-> Served(blocks[i])]
    BY <1>6 DEF BlocksOf
  <2> HIDE DEF served
  <2>2. Unwritable \notin Range(served) /\ ParseBlocks(served) = blocks
    BY <1>1, <1>6, <2>1, ReadIsServed
  <2>3. QED
    BY <2>2 DEF AnythingIsServed, blocks, served
<1>8. FirstStandsForAll
  <2> DEFINE s == FeedSummary(blocks)
             P == ParagraphsIn(blocks, N)
             M == MediaIn(blocks, N)
             A == AudioIn(blocks, N)
             FirstOf(places) == IF places = {} THEN <<>> ELSE <<blocks[Min(places)]>>
  <2>1. TextStands(s, blocks, N) /\ MediumStands(s, blocks, N)
    BY <1>1, <1>6, SummaryStands
  <2>2. DOMAIN blocks = 1 .. N
    BY <1>6 DEF BlocksOf
  <2>3. /\ {i \in DOMAIN blocks : blocks[i].type = "paragraph"} = P
        /\ {i \in DOMAIN blocks : blocks[i].type = "media"} = M
        /\ {i \in M : blocks[i].mediaKind = <<"audio">>} = A
    BY <2>2 DEF ParagraphsIn, MediaIn, AudioIn
  <2>4. P \in SUBSET (1 .. N) /\ M \in SUBSET (1 .. N) /\ A \in SUBSET M
    BY DEF ParagraphsIn, MediaIn, AudioIn
  <2>5. /\ P = {} => s.text = <<>>
        /\ \A i \in 1 .. N : IsFirst(P, i) => s.text = blocks[i].text
        /\ M = {} => s.media = <<>>
        /\ A = {} => \A i \in 1 .. N : IsFirst(M, i) => s.media = <<blocks[i]>>
        /\ \A i \in 1 .. N : IsFirst(A, i) => s.media = <<blocks[i]>>
    BY <2>1 DEF TextStands, MediumStands
  <2> HIDE DEF s, P, M, A
  <2>6. s.text = IF P = {} THEN <<>> ELSE blocks[Min(P)].text
    BY <1>1, <2>4, <2>5, FirstByMin
  <2>7. s.media = FirstOf(IF A = {} THEN M ELSE A)
    <3>1. CASE A # {}
      <4>1. Min(A) \in 1 .. N /\ IsFirst(A, Min(A))
        BY <1>1, <2>4, <3>1, FirstByMin
      <4>2. QED
        BY <2>5, <3>1, <4>1
    <3>2. CASE A = {} /\ M # {}
      <4>1. Min(M) \in 1 .. N /\ IsFirst(M, Min(M))
        BY <1>1, <2>4, <3>2, FirstByMin
      <4>2. QED
        BY <2>5, <3>2, <4>1
    <3>3. CASE A = {} /\ M = {}
      BY <2>5, <3>3
    <3>4. QED
      BY <3>1, <3>2, <3>3
  <2>8. LET paragraphs == {i \in DOMAIN blocks : blocks[i].type = "paragraph"}
            media == {i \in DOMAIN blocks : blocks[i].type = "media"}
            audio == {i \in media : blocks[i].mediaKind = <<"audio">>}
        IN  /\ FeedSummary(blocks).media = FirstOf(IF audio = {} THEN media ELSE audio)
            /\ FeedSummary(blocks).text =
                  IF paragraphs = {} THEN <<>> ELSE blocks[Min(paragraphs)].text
    <3> HIDE DEF FirstOf
    <3>1. QED
      BY <2>3, <2>6, <2>7 DEF s
  <2>9. QED
    BY <2>8, Zenon DEF FirstStandsForAll, blocks
<1>9. QED
  BY <1>4, <1>5, <1>7, <1>8 DEF ContentIsKept

(***************************************************************************)
(* Whatever the document, of any length: what is accepted is read          *)
(* leniently as it was checked and again after it was stored, whatever was *)
(* read can be served, and the feed shows its first blocks                 *)
(* (ParseBlocksJSON, ValidateBlocksJSON, storageBlock and FeedSummary in   *)
(* content.go).                                                            *)
(***************************************************************************)
THEOREM ContentIsSound == DocumentSpec => []ContentIsKept
BY DocumentTyped, TypedContentIsKept, PTL

-----------------------------------------------------------------------------
\* What holds of the empty sequence, and with each sequence of those that are
\* one element longer, holds of all.
LEMMA SequenceInduction ==
    ASSUME NEW E, NEW P, <<>> \in P,
           \A s \in Seq(E) : s \in P => \A x \in E : Append(s, x) \in P
    PROVE  \A s \in Seq(E) : s \in P
<1> DEFINE Q == {n \in Nat : \A s \in Seq(E) : Len(s) = n => s \in P}
<1>1. 0 \in Q
  <2>1. \A s \in Seq(E) : Len(s) = 0 => s = <<>>
    OBVIOUS
  <2>2. QED
    BY <2>1
<1>2. ASSUME NEW n \in Nat, n \in Q PROVE n + 1 \in Q
  <2>1. SUFFICES ASSUME NEW s \in Seq(E), Len(s) = n + 1 PROVE s \in P
    OBVIOUS
  <2>2. PICK t \in Seq(E), x \in E : s = Append(t, x)
    <3>1. s # <<>>
      BY <2>1
    <3>2. QED
      BY <3>1, SequenceEmptyOrAppend
  <2>3. Len(t) = n
    <3>1. Len(s) = Len(t) + 1 /\ Len(t) \in Nat
      BY <2>2
    <3>2. QED
      BY <2>1, <3>1
  <2>4. t \in P
    BY <1>2, <2>3
  <2>5. QED
    BY <2>2, <2>4
<1>3. \A n \in Nat : n \in Q
  <2> HIDE DEF Q
  <2>1. QED
    BY <1>1, <1>2, Induction
<1>4. QED
  <2>1. SUFFICES ASSUME NEW s \in Seq(E) PROVE s \in P
    OBVIOUS
  <2>2. Len(s) \in Q
    BY <1>3
  <2>3. QED
    BY <2>2

-----------------------------------------------------------------------------
\* What a step makes of each state with each element.
ElementSteps(S, E) == [S -> [E -> S]]

\* The states of a pass over a sequence, from the first element to the last.
IsPass(f, S, base, s, step) ==
    /\ f \in [0 .. Len(s) -> S]
    /\ f[0] = base
    /\ \A n \in 1 .. Len(s) : f[n] = step[f[n - 1]][s[n]]

LEMMA PassExists ==
    ASSUME NEW E, NEW S, NEW base \in S, NEW step \in ElementSteps(S, E), NEW s \in Seq(E)
    PROVE  \E f : IsPass(f, S, base, s, step)
<1> DEFINE N == Len(s)
           at == [v \in S |-> [n \in 1 .. N |-> step[v][s[n]]]]
<1>1. N \in Nat /\ \A n \in 1 .. N : s[n] \in E
  OBVIOUS
<1>2. \A v \in S : \A x \in E : step[v][x] \in S
  BY DEF ElementSteps
<1> HIDE DEF N
<1>3. at \in StepMaps(S, N)
  BY <1>1, <1>2 DEF StepMaps
<1>4. PICK f : IsRecursion(f, S, base, N, at)
  <2> HIDE DEF at
  <2>1. QED
    BY <1>1, <1>3, Recursion
<1>5. f \in [0 .. N -> S] /\ f[0] = base /\ \A n \in 1 .. N : f[n] = at[f[n - 1]][n]
  BY <1>4 DEF IsRecursion
<1>6. ASSUME NEW n \in 1 .. N PROVE f[n] = step[f[n - 1]][s[n]]
  <2>1. n - 1 \in 0 .. N
    BY <1>1
  <2>2. f[n - 1] \in S /\ f[n] = at[f[n - 1]][n]
    BY <1>5, <2>1
  <2>3. QED
    BY <2>2
<1>7. QED
  BY <1>5, <1>6 DEF IsPass, N

\* g takes the same steps, wherever its state is one.
TakesSteps(g, S, base, s, step) ==
    /\ g[0] = base
    /\ \A n \in 1 .. Len(s) : g[n - 1] \in S => g[n] = step[g[n - 1]][s[n]]

\* Whatever takes the same steps has the states of the pass.
LEMMA PassIsDetermined ==
    ASSUME NEW S, NEW base, NEW step, NEW s, Len(s) \in Nat, NEW f, IsPass(f, S, base, s, step),
           NEW g, TakesSteps(g, S, base, s, step)
    PROVE  g[Len(s)] = f[Len(s)]
<1> DEFINE N == Len(s)
           P == {n \in Nat : n <= N => g[n] = f[n]}
<1>1. N \in Nat
  OBVIOUS
<1>2. 0 \in P
  BY DEF IsPass, TakesSteps
<1>3. ASSUME NEW n \in Nat, n \in P PROVE n + 1 \in P
  <2>1. SUFFICES ASSUME n + 1 <= N PROVE g[n + 1] = f[n + 1]
    OBVIOUS
  <2>2. n + 1 \in 1 .. N /\ (n + 1) - 1 = n /\ n \in 0 .. N
    BY <1>1, <2>1
  <2>3. g[n] = f[n] /\ f[n] \in S
    BY <1>3, <2>1, <2>2 DEF IsPass
  <2>4. f[n + 1] = step[f[n]][s[n + 1]]
    BY <2>2 DEF IsPass
  <2>5. g[n + 1] = step[g[n]][s[n + 1]]
    BY <2>2, <2>3 DEF TakesSteps
  <2>6. QED
    BY <2>3, <2>4, <2>5
<1>4. \A n \in Nat : n \in P
  <2> HIDE DEF P
  <2>1. QED
    BY <1>2, <1>3, Induction
<1>5. QED
  BY <1>1, <1>4

\* One element more is one step more.
LEMMA PassExtends ==
    ASSUME NEW E, NEW S, NEW base, NEW step, NEW s \in Seq(E), NEW x \in E,
           NEW f, IsPass(f, S, base, s, step),
           NEW g, IsPass(g, S, base, Append(s, x), step)
    PROVE  f[Len(s)] \in S /\ g[Len(Append(s, x))] = step[f[Len(s)]][x]
<1> DEFINE N == Len(s)
           t == Append(s, x)
<1>1. N \in Nat /\ Len(t) = N + 1 /\ t[N + 1] = x /\ \A n \in 1 .. N : t[n] = s[n]
  BY AppendProperties
<1>2. /\ g[0] = base
      /\ \A n \in 1 .. N + 1 : g[n] = step[g[n - 1]][t[n]]
  BY <1>1 DEF IsPass
<1>3. \A n \in 1 .. N : g[n] = step[g[n - 1]][s[n]]
  BY <1>1, <1>2
<1>4. g[N] = f[N]
  <2>1. TakesSteps(g, S, base, s, step)
    BY <1>2, <1>3 DEF TakesSteps
  <2>2. QED
    BY <1>1, <2>1, PassIsDetermined
<1>5. N \in 0 .. N /\ N + 1 \in 1 .. N + 1 /\ (N + 1) - 1 = N
  BY <1>1
<1>7. g[N + 1] = step[g[N]][t[N + 1]]
  BY <1>2, <1>5
<1>8. f[N] \in S
  BY <1>5 DEF IsPass
<1>9. QED
  BY <1>1, <1>4, <1>7, <1>8

\* What a pass ends with is a function of the sequence, from one element to the next.
Ends(end, E, S, base, step) ==
    /\ end[<<>>] = base
    /\ \A s \in Seq(E) : end[s] \in S /\ \A e \in E : end[Append(s, e)] = step[end[s]][e]

LEMMA PassEnds ==
    ASSUME NEW E, NEW S, NEW base, NEW step, NEW end,
           \A s \in Seq(E) : \E f : IsPass(f, S, base, s, step) /\ end[s] = f[Len(s)]
    PROVE  Ends(end, E, S, base, step)
<1>1. end[<<>>] = base
  <2>1. <<>> \in Seq(E) /\ Len(<<>>) = 0
    OBVIOUS
  <2>2. PICK f : IsPass(f, S, base, <<>>, step) /\ end[<<>>] = f[Len(<<>>)]
    BY <2>1
  <2>3. QED
    BY <2>1, <2>2 DEF IsPass
<1>2. ASSUME NEW s \in Seq(E) PROVE end[s] \in S
  <2>1. PICK f : IsPass(f, S, base, s, step) /\ end[s] = f[Len(s)]
    OBVIOUS
  <2>2. Len(s) \in 0 .. Len(s)
    OBVIOUS
  <2>3. QED
    BY <2>1, <2>2 DEF IsPass
<1>3. ASSUME NEW s \in Seq(E), NEW e \in E PROVE end[Append(s, e)] = step[end[s]][e]
  <2>1. PICK f : IsPass(f, S, base, s, step) /\ end[s] = f[Len(s)]
    OBVIOUS
  <2>2. Append(s, e) \in Seq(E)
    OBVIOUS
  <2>3. PICK g : IsPass(g, S, base, Append(s, e), step) /\ end[Append(s, e)] = g[Len(Append(s, e))]
    BY <2>2
  <2>4. g[Len(Append(s, e))] = step[f[Len(s)]][e]
    BY <2>1, <2>3, PassExtends
  <2>5. QED
    BY <2>1, <2>3, <2>4
<1>4. QED
  BY <1>1, <1>2, <1>3 DEF Ends

-----------------------------------------------------------------------------
FilterStep(kept, e, set) == IF e \in set THEN Append(kept, e) ELSE kept

\* Filter, one element more at a time.
LEMMA FilterIs ==
    ASSUME NEW E, NEW set
    PROVE  /\ Filter(<<>>, set) = <<>>
           /\ \A s \in Seq(E) :
                /\ Filter(s, set) \in Seq(E)
                /\ \A e \in E : Filter(Append(s, e), set) = FilterStep(Filter(s, set), e, set)
<1> DEFINE T == Seq(E)
           step == [v \in T |-> [e \in E |-> FilterStep(v, e, set)]]
           end == [s \in Seq(E) |-> Filter(s, set)]
<1>1. <<>> \in T /\ \A v \in T : \A e \in E : FilterStep(v, e, set) \in T
  BY DEF FilterStep
<1> HIDE DEF T
<1>2. step \in ElementSteps(T, E)
  BY <1>1 DEF ElementSteps
<1>3. ASSUME NEW s \in Seq(E)
      PROVE  \E f : IsPass(f, T, <<>>, s, step) /\ end[s] = f[Len(s)]
  <2> DEFINE N == Len(s)
             Value(v, n) == IF n = 0 THEN <<>> ELSE FilterStep(v[n - 1], s[n], set)
             g == CHOOSE v : v = [n \in 0 .. N |-> Value(v, n)]
  <2>1. N \in Nat /\ \A n \in 1 .. N : s[n] \in E
    OBVIOUS
  <2>2. PICK f : IsPass(f, T, <<>>, s, step)
    <3> HIDE DEF step
    <3>1. QED
      BY <1>1, <1>2, PassExists
  <2>3. f \in [0 .. N -> T] /\ f[0] = <<>>
    BY <2>2 DEF IsPass
  <2>4. ASSUME NEW v, NEW n \in 1 .. N, v[n - 1] \in T
        PROVE  Value(v, n) = step[v[n - 1]][s[n]]
    BY <2>1, <2>4
  <2>5. ASSUME NEW n \in 0 .. N PROVE f[n] = Value(f, n)
    <3>1. CASE n = 0
      BY <2>3, <3>1
    <3>2. CASE n # 0
      <4>1. n \in 1 .. N /\ f[n - 1] \in T
        BY <2>1, <2>3, <3>2
      <4>2. f[n] = step[f[n - 1]][s[n]]
        BY <2>2, <4>1 DEF IsPass
      <4>3. QED
        BY <2>4, <4>1, <4>2
    <3>3. QED
      BY <3>1, <3>2
  <2>6. end[s] = g[N]
    BY DEF Filter, Through, FilterStep
  <2> HIDE DEF Value, step, N
  <2>7. f = [n \in 0 .. N |-> Value(f, n)]
    BY <2>3, <2>5
  <2>8. g = [n \in 0 .. N |-> Value(g, n)]
    BY <2>7
  <2> HIDE DEF g
  <2>9. \A n \in 0 .. N : g[n] = Value(g, n)
    BY <2>8
  <2>10. TakesSteps(g, T, <<>>, s, step)
    BY <2>1, <2>4, <2>9 DEF TakesSteps, Value, N
  <2>11. Len(s) \in Nat
    BY <2>1 DEF N
  <2>12. g[Len(s)] = f[Len(s)]
    BY <2>2, <2>10, <2>11, PassIsDetermined
  <2>13. QED
    BY <2>2, <2>6, <2>12 DEF N
<1>4. Ends(end, E, T, <<>>, step)
  <2> HIDE DEF end, step
  <2>1. QED
    BY <1>1, <1>2, <1>3, PassEnds
<1>5. /\ end[<<>>] = <<>>
      /\ \A s \in Seq(E) : end[s] \in T /\ \A e \in E : end[Append(s, e)] = step[end[s]][e]
  <2> HIDE DEF end, step
  <2>1. QED
    BY <1>4 DEF Ends
<1>6. QED
  <2>1. Filter(<<>>, set) = <<>>
    BY <1>5
  <2>2. ASSUME NEW s \in Seq(E), NEW e \in E
        PROVE  Filter(Append(s, e), set) = FilterStep(Filter(s, set), e, set)
    <3>1. Append(s, e) \in Seq(E)
      OBVIOUS
    <3>2. QED
      BY <1>5, <3>1
  <2>3. QED
    BY <1>5, <2>1, <2>2 DEF T

-----------------------------------------------------------------------------
LEMMA GraphemesAre ==
    Graphemes = Letters \cup Capitals \cup Digits \cup Numbers
                    \cup Symbols \cup Marks \cup Spaces \cup Links
<1>1. DOMAIN Classes = 1 .. 8
  BY DEF Classes
<1>2. \A g : g \in Graphemes <=> \E i \in 1 .. 8 : g \in Classes[i]
  BY <1>1 DEF Graphemes, Range
<1>3. /\ Classes[1] = Letters /\ Classes[2] = Capitals /\ Classes[3] = Digits
      /\ Classes[4] = Numbers /\ Classes[5] = Symbols /\ Classes[6] = Marks
      /\ Classes[7] = Spaces /\ Classes[8] = Links
  BY DEF Classes
<1>4. 1 .. 8 = {1, 2, 3, 4, 5, 6, 7, 8}
  OBVIOUS
<1>5. QED
  BY <1>2, <1>3, <1>4

\* No grapheme is of two classes.
LEMMA ClassesAreDisjoint ==
    /\ Letters \cap (Capitals \cup Digits \cup Symbols \cup Marks \cup Spaces \cup Links) = {}
    /\ Capitals \cap (Digits \cup Symbols \cup Marks \cup Spaces \cup Links) = {}
    /\ Digits \cap (Symbols \cup Marks \cup Spaces \cup Links) = {}
    /\ Symbols \cap (Marks \cup Spaces \cup Links) = {}
    /\ Marks \cap (Spaces \cup Links) = {} /\ Spaces \cap Links = {}
    /\ Numbers \cap (Letters \cup Capitals \cup Digits \cup Symbols \cup Marks \cup Spaces \cup Links) = {}
<1>1. \A i, j \in 1 .. 8 : i # j => Classes[i] \cap Classes[j] = {}
  <2>1. DOMAIN Classes = 1 .. 8
    BY DEF Classes
  <2>2. QED
    BY <2>1, TextAssumption
<1>2. /\ Classes[1] = Letters /\ Classes[2] = Capitals /\ Classes[3] = Digits
      /\ Classes[4] = Numbers /\ Classes[5] = Symbols /\ Classes[6] = Marks
      /\ Classes[7] = Spaces /\ Classes[8] = Links
  BY DEF Classes
<1> HIDE DEF Classes
<1>3. /\ \A i \in 2 .. 8 : Letters \cap Classes[i] = {}
      /\ \A i \in 3 .. 8 : Capitals \cap Classes[i] = {}
      /\ \A i \in 4 .. 8 : Digits \cap Classes[i] = {}
  BY <1>1, <1>2
<1>4. /\ \A i \in 5 .. 8 : Numbers \cap Classes[i] = {}
      /\ \A i \in 6 .. 8 : Symbols \cap Classes[i] = {}
      /\ \A i \in 7 .. 8 : Marks \cap Classes[i] = {}
      /\ Spaces \cap Links = {}
  BY <1>1, <1>2
<1>5. /\ Letters \cap Capitals = {} /\ Letters \cap Digits = {} /\ Letters \cap Symbols = {}
      /\ Letters \cap Marks = {} /\ Letters \cap Spaces = {} /\ Letters \cap Links = {}
      /\ Capitals \cap Digits = {} /\ Capitals \cap Symbols = {} /\ Capitals \cap Marks = {}
      /\ Capitals \cap Spaces = {} /\ Capitals \cap Links = {}
  BY <1>2, <1>3
<1>6. /\ Digits \cap Symbols = {} /\ Digits \cap Marks = {} /\ Digits \cap Spaces = {}
      /\ Digits \cap Links = {} /\ Symbols \cap Marks = {} /\ Symbols \cap Spaces = {}
      /\ Symbols \cap Links = {} /\ Marks \cap Spaces = {} /\ Marks \cap Links = {}
  BY <1>2, <1>3, <1>4
<1>7. /\ Numbers \cap Letters = {} /\ Numbers \cap Capitals = {} /\ Numbers \cap Digits = {}
      /\ Numbers \cap Symbols = {} /\ Numbers \cap Marks = {} /\ Numbers \cap Spaces = {}
      /\ Numbers \cap Links = {}
  BY <1>2, <1>3, <1>4
<1>8. QED
  BY <1>4, <1>5, <1>6, <1>7

LEMMA InvisibleIs ==
    /\ Spaces \subseteq Invisible /\ Invisible \subseteq Graphemes
    /\ Invisible \cap WordLike = {}
BY GraphemesAre, ClassesAreDisjoint, TextAssumption DEF Invisible, WordLike

LEMMA LowerIs ==
    /\ \A g \in Graphemes : Lower(g) \in Graphemes
    /\ \A g \in Letters \cup Capitals : Lower(g) \in Letters
    /\ \A g : g \notin Capitals => Lower(g) = g
    /\ \A g \in Graphemes : Lower(g) \in WordLike <=> g \in WordLike
BY GraphemesAre, ClassesAreDisjoint, TextAssumption DEF Lower, WordLike

-----------------------------------------------------------------------------
\* The words and what is left of the one at the end, as Fields and Tokens cut.
WordState == [word : Seq(Graphemes), done : Seq(Seq(Graphemes))]

LEMMA FlushedIs ==
    /\ NoWords \in WordState
    /\ \A state \in WordState : Flushed(state) \in Seq(Seq(Graphemes))
BY DEF NoWords, WordState, Flushed

FieldsEnd(s) == Through(FieldStep, NoWords, s)

TokensEnd(s) == Through(TokenStep, NoWords, s)

\* Fields, one grapheme more at a time.
LEMMA FieldsEndIs ==
    /\ FieldsEnd(<<>>) = NoWords
    /\ \A s \in Seq(Graphemes) :
         /\ FieldsEnd(s) \in WordState
         /\ \A e \in Graphemes : FieldsEnd(Append(s, e)) = FieldStep(FieldsEnd(s), e)
<1> DEFINE T == WordState
           step == [v \in T |-> [e \in Graphemes |-> FieldStep(v, e)]]
           end == [s \in Seq(Graphemes) |-> FieldsEnd(s)]
<1>1. NoWords \in T /\ \A v \in T : \A e \in Graphemes : FieldStep(v, e) \in T
  <2>1. ASSUME NEW v \in WordState, NEW e \in Graphemes PROVE FieldStep(v, e) \in WordState
    <3>1. Flushed(v) \in Seq(Seq(Graphemes)) /\ v.word \in Seq(Graphemes) /\ v.done \in Seq(Seq(Graphemes))
      BY FlushedIs DEF WordState
    <3>3. Append(v.word, e) \in Seq(Graphemes)
      BY <3>1
    <3>4. QED
      BY <3>1, <3>3 DEF FieldStep, WordState
  <2>2. QED
    BY <2>1, FlushedIs
<1> HIDE DEF T
<1>2. step \in ElementSteps(T, Graphemes)
  BY <1>1 DEF ElementSteps
<1>3. ASSUME NEW s \in Seq(Graphemes)
      PROVE  \E f : IsPass(f, T, NoWords, s, step) /\ end[s] = f[Len(s)]
  <2> DEFINE N == Len(s)
             Value(v, n) == IF n = 0 THEN NoWords ELSE FieldStep(v[n - 1], s[n])
             g == CHOOSE v : v = [n \in 0 .. N |-> Value(v, n)]
  <2>1. N \in Nat /\ \A n \in 1 .. N : s[n] \in Graphemes
    OBVIOUS
  <2>2. PICK f : IsPass(f, T, NoWords, s, step)
    <3> HIDE DEF step
    <3>1. QED
      BY <1>1, <1>2, PassExists
  <2>3. f \in [0 .. N -> T] /\ f[0] = NoWords
    BY <2>2 DEF IsPass
  <2>4. ASSUME NEW v, NEW n \in 1 .. N, v[n - 1] \in T
        PROVE  Value(v, n) = step[v[n - 1]][s[n]]
    BY <2>1, <2>4
  <2>5. ASSUME NEW n \in 0 .. N PROVE f[n] = Value(f, n)
    <3>1. CASE n = 0
      BY <2>3, <3>1
    <3>2. CASE n # 0
      <4>1. n \in 1 .. N /\ f[n - 1] \in T
        BY <2>1, <2>3, <3>2
      <4>2. f[n] = step[f[n - 1]][s[n]]
        BY <2>2, <4>1 DEF IsPass
      <4>3. QED
        BY <2>4, <4>1, <4>2
    <3>3. QED
      BY <3>1, <3>2
  <2>6. end[s] = g[N]
    BY DEF FieldsEnd, Through
  <2> HIDE DEF Value, step, N
  <2>7. f = [n \in 0 .. N |-> Value(f, n)]
    BY <2>3, <2>5
  <2>8. g = [n \in 0 .. N |-> Value(g, n)]
    BY <2>7
  <2> HIDE DEF g
  <2>9. \A n \in 0 .. N : g[n] = Value(g, n)
    BY <2>8
  <2>10. TakesSteps(g, T, NoWords, s, step)
    <3>1. g[0] = NoWords
      BY <2>1, <2>9 DEF Value
    <3>2. ASSUME NEW n \in 1 .. N, g[n - 1] \in T PROVE g[n] = step[g[n - 1]][s[n]]
      <4>1. g[n] = Value(g, n)
        BY <2>1, <2>9
      <4>2. Value(g, n) = step[g[n - 1]][s[n]]
        BY <2>4, <3>2
      <4>3. QED
        BY <4>1, <4>2
    <3>3. QED
      BY <3>1, <3>2 DEF TakesSteps, N
  <2>11. Len(s) \in Nat
    BY <2>1 DEF N
  <2>12. g[Len(s)] = f[Len(s)]
    BY <2>2, <2>10, <2>11, PassIsDetermined
  <2>13. QED
    BY <2>2, <2>6, <2>12 DEF N
<1>4. Ends(end, Graphemes, T, NoWords, step)
  <2> HIDE DEF end, step
  <2>1. QED
    BY <1>1, <1>2, <1>3, PassEnds
<1>5. /\ end[<<>>] = NoWords
      /\ \A s \in Seq(Graphemes) : end[s] \in T /\ \A e \in Graphemes : end[Append(s, e)] = step[end[s]][e]
  <2> HIDE DEF end, step
  <2>1. QED
    BY <1>4 DEF Ends
<1>6. QED
  <2>1. FieldsEnd(<<>>) = NoWords
    BY <1>5
  <2>2. ASSUME NEW s \in Seq(Graphemes), NEW e \in Graphemes
        PROVE  FieldsEnd(Append(s, e)) = FieldStep(FieldsEnd(s), e)
    <3>1. Append(s, e) \in Seq(Graphemes)
      OBVIOUS
    <3>2. QED
      BY <1>5, <3>1
  <2>3. QED
    BY <1>5, <2>1, <2>2 DEF T

\* Tokens, one grapheme more at a time.
LEMMA TokensEndIs ==
    /\ TokensEnd(<<>>) = NoWords
    /\ \A s \in Seq(Graphemes) :
         /\ TokensEnd(s) \in WordState
         /\ \A e \in Graphemes : TokensEnd(Append(s, e)) = TokenStep(TokensEnd(s), e)
<1> DEFINE T == WordState
           step == [v \in T |-> [e \in Graphemes |-> TokenStep(v, e)]]
           end == [s \in Seq(Graphemes) |-> TokensEnd(s)]
<1>1. NoWords \in T /\ \A v \in T : \A e \in Graphemes : TokenStep(v, e) \in T
  <2>1. ASSUME NEW v \in WordState, NEW e \in Graphemes PROVE TokenStep(v, e) \in WordState
    <3>1. Flushed(v) \in Seq(Seq(Graphemes)) /\ v.word \in Seq(Graphemes) /\ v.done \in Seq(Seq(Graphemes))
      BY FlushedIs DEF WordState
    <3>3. Append(v.word, Lower(e)) \in Seq(Graphemes)
      BY <3>1, LowerIs
    <3>4. <<e>> \in Seq(Graphemes) /\ Append(Flushed(v), <<e>>) \in Seq(Seq(Graphemes))
      BY <3>1
    <3>5. QED
      BY <3>1, <3>3, <3>4 DEF TokenStep, WordState
  <2>2. QED
    BY <2>1, FlushedIs
<1> HIDE DEF T
<1>2. step \in ElementSteps(T, Graphemes)
  BY <1>1 DEF ElementSteps
<1>3. ASSUME NEW s \in Seq(Graphemes)
      PROVE  \E f : IsPass(f, T, NoWords, s, step) /\ end[s] = f[Len(s)]
  <2> DEFINE N == Len(s)
             Value(v, n) == IF n = 0 THEN NoWords ELSE TokenStep(v[n - 1], s[n])
             g == CHOOSE v : v = [n \in 0 .. N |-> Value(v, n)]
  <2>1. N \in Nat /\ \A n \in 1 .. N : s[n] \in Graphemes
    OBVIOUS
  <2>2. PICK f : IsPass(f, T, NoWords, s, step)
    <3> HIDE DEF step
    <3>1. QED
      BY <1>1, <1>2, PassExists
  <2>3. f \in [0 .. N -> T] /\ f[0] = NoWords
    BY <2>2 DEF IsPass
  <2>4. ASSUME NEW v, NEW n \in 1 .. N, v[n - 1] \in T
        PROVE  Value(v, n) = step[v[n - 1]][s[n]]
    BY <2>1, <2>4
  <2>5. ASSUME NEW n \in 0 .. N PROVE f[n] = Value(f, n)
    <3>1. CASE n = 0
      BY <2>3, <3>1
    <3>2. CASE n # 0
      <4>1. n \in 1 .. N /\ f[n - 1] \in T
        BY <2>1, <2>3, <3>2
      <4>2. f[n] = step[f[n - 1]][s[n]]
        BY <2>2, <4>1 DEF IsPass
      <4>3. QED
        BY <2>4, <4>1, <4>2
    <3>3. QED
      BY <3>1, <3>2
  <2>6. end[s] = g[N]
    BY DEF TokensEnd, Through
  <2> HIDE DEF Value, step, N
  <2>7. f = [n \in 0 .. N |-> Value(f, n)]
    BY <2>3, <2>5
  <2>8. g = [n \in 0 .. N |-> Value(g, n)]
    BY <2>7
  <2> HIDE DEF g
  <2>9. \A n \in 0 .. N : g[n] = Value(g, n)
    BY <2>8
  <2>10. TakesSteps(g, T, NoWords, s, step)
    <3>1. g[0] = NoWords
      BY <2>1, <2>9 DEF Value
    <3>2. ASSUME NEW n \in 1 .. N, g[n - 1] \in T PROVE g[n] = step[g[n - 1]][s[n]]
      <4>1. g[n] = Value(g, n)
        BY <2>1, <2>9
      <4>2. Value(g, n) = step[g[n - 1]][s[n]]
        BY <2>4, <3>2
      <4>3. QED
        BY <4>1, <4>2
    <3>3. QED
      BY <3>1, <3>2 DEF TakesSteps, N
  <2>11. Len(s) \in Nat
    BY <2>1 DEF N
  <2>12. g[Len(s)] = f[Len(s)]
    BY <2>2, <2>10, <2>11, PassIsDetermined
  <2>13. QED
    BY <2>2, <2>6, <2>12 DEF N
<1>4. Ends(end, Graphemes, T, NoWords, step)
  <2> HIDE DEF end, step
  <2>1. QED
    BY <1>1, <1>2, <1>3, PassEnds
<1>5. /\ end[<<>>] = NoWords
      /\ \A s \in Seq(Graphemes) : end[s] \in T /\ \A e \in Graphemes : end[Append(s, e)] = step[end[s]][e]
  <2> HIDE DEF end, step
  <2>1. QED
    BY <1>4 DEF Ends
<1>6. QED
  <2>1. TokensEnd(<<>>) = NoWords
    BY <1>5
  <2>2. ASSUME NEW s \in Seq(Graphemes), NEW e \in Graphemes
        PROVE  TokensEnd(Append(s, e)) = TokenStep(TokensEnd(s), e)
    <3>1. Append(s, e) \in Seq(Graphemes)
      OBVIOUS
    <3>2. QED
      BY <1>5, <3>1
  <2>3. QED
    BY <1>5, <2>1, <2>2 DEF T

-----------------------------------------------------------------------------
LEMMA RangeIs ==
    ASSUME NEW E, NEW s \in Seq(E), NEW x \in E
    PROVE  Range(s) \subseteq E /\ Range(Append(s, x)) = Range(s) \cup {x}
<1> DEFINE N == Len(s)
           t == Append(s, x)
<1>1. /\ N \in Nat /\ DOMAIN s = 1 .. N /\ \A i \in 1 .. N : s[i] \in E
      /\ DOMAIN t = 1 .. N + 1 /\ t[N + 1] = x /\ \A i \in 1 .. N : t[i] = s[i]
  BY AppendProperties, LenProperties
<1> HIDE DEF t, N
<1>2. Range(s) = {s[i] : i \in 1 .. N} /\ Range(t) = {t[i] : i \in 1 .. N + 1}
  BY <1>1 DEF Range
<1>3. QED
  BY <1>1, <1>2 DEF t

LEMMA FilterAgrees ==
    ASSUME NEW E, NEW A, NEW B
    PROVE  \A s \in Seq(E) : (\A e \in Range(s) : e \in A <=> e \in B) => Filter(s, A) = Filter(s, B)
<1> DEFINE P == {s \in Seq(E) : (\A e \in Range(s) : e \in A <=> e \in B) => Filter(s, A) = Filter(s, B)}
<1>1. <<>> \in P
  <2>1. Filter(<<>>, A) = <<>> /\ Filter(<<>>, B) = <<>> /\ <<>> \in Seq(E)
    BY FilterIs
  <2>2. QED
    BY <2>1
<1>2. ASSUME NEW s \in Seq(E), s \in P, NEW x \in E PROVE Append(s, x) \in P
  <2>1. Append(s, x) \in Seq(E) /\ Range(Append(s, x)) = Range(s) \cup {x}
    BY RangeIs
  <2>2. /\ Filter(Append(s, x), A) = FilterStep(Filter(s, A), x, A)
        /\ Filter(Append(s, x), B) = FilterStep(Filter(s, B), x, B)
    BY FilterIs
  <2>3. QED
    BY <1>2, <2>1, <2>2 DEF FilterStep
<1>3. \A s \in Seq(E) : s \in P
  <2> HIDE DEF P
  <2>1. QED
    BY <1>1, <1>2, SequenceInduction
<1>4. QED
  BY <1>3

LEMMA WithoutIs ==
    ASSUME NEW E, NEW set, NEW s \in Seq(E)
    PROVE  Without(s, set) = Filter(s, E \ set)
<1>1. Range(s) \subseteq E
  BY RangeOfSeq
<1>2. \A e \in Range(s) : e \in Range(s) \ set <=> e \in E \ set
  BY <1>1
<1>3. Filter(s, Range(s) \ set) = Filter(s, E \ set)
  BY <1>2, FilterAgrees
<1>4. QED
  BY <1>3 DEF Without

LEMMA LoweredIs ==
    /\ Lowered(<<>>) = <<>>
    /\ \A s \in Seq(Graphemes) :
         /\ Lowered(s) \in Seq(Graphemes) /\ Len(Lowered(s)) = Len(s)
         /\ \A e \in Graphemes : Lowered(Append(s, e)) = Append(Lowered(s), Lower(e))
<1>1. Lowered(<<>>) = <<>>
  BY DEF Lowered
<1>2. ASSUME NEW s \in Seq(Graphemes)
      PROVE  /\ Lowered(s) \in Seq(Graphemes) /\ Len(Lowered(s)) = Len(s)
             /\ \A i \in 1 .. Len(s) : Lowered(s)[i] = Lower(s[i])
  <2>1. Len(s) \in Nat /\ DOMAIN s = 1 .. Len(s) /\ \A i \in 1 .. Len(s) : s[i] \in Graphemes
    OBVIOUS
  <2>2. \A i \in 1 .. Len(s) : Lower(s[i]) \in Graphemes
    BY <2>1, LowerIs
  <2>3. Lowered(s) = [i \in 1 .. Len(s) |-> Lower(s[i])]
    BY <2>1 DEF Lowered
  <2>4. QED
    BY <2>1, <2>2, <2>3
<1>3. ASSUME NEW s \in Seq(Graphemes), NEW e \in Graphemes
      PROVE  Lowered(Append(s, e)) = Append(Lowered(s), Lower(e))
  <2> DEFINE t == Append(s, e)
             u == Lowered(t)
             v == Append(Lowered(s), Lower(e))
  <2>1. /\ t \in Seq(Graphemes) /\ Len(t) = Len(s) + 1 /\ t[Len(s) + 1] = e
        /\ \A i \in 1 .. Len(s) : t[i] = s[i]
    BY AppendProperties
  <2>2. /\ u \in Seq(Graphemes) /\ Len(u) = Len(t)
        /\ \A i \in 1 .. Len(t) : u[i] = Lower(t[i])
    BY <1>2, <2>1
  <2>3. Lowered(s) \in Seq(Graphemes) /\ Lower(e) \in Graphemes /\ Len(Lowered(s)) = Len(s)
    BY <1>2, LowerIs
  <2>4. /\ v \in Seq(Graphemes) /\ Len(v) = Len(s) + 1 /\ v[Len(s) + 1] = Lower(e)
        /\ \A i \in 1 .. Len(s) : v[i] = Lowered(s)[i]
    BY <2>3, AppendProperties
  <2>5. \A i \in 1 .. Len(s) + 1 : u[i] = v[i]
    BY <1>2, <2>1, <2>2, <2>4
  <2> HIDE DEF u, v, t
  <2>6. Len(u) = Len(v) /\ \A i \in 1 .. Len(u) : u[i] = v[i]
    BY <2>1, <2>2, <2>4, <2>5
  <2>7. u = v
    BY <2>2, <2>4, <2>6, SeqEqual
  <2>8. QED
    BY <2>7 DEF u, v, t
<1>4. QED
  BY <1>1, <1>2, <1>3

\* FlattenSeq, one sequence more at a time.
LEMMA FlattenIs ==
    ASSUME NEW E
    PROVE  /\ FlattenSeq(<<>>) = <<>>
           /\ \A ss \in Seq(Seq(E)) :
                /\ FlattenSeq(ss) \in Seq(E)
                /\ \A s \in Seq(E) : FlattenSeq(Append(ss, s)) = FlattenSeq(ss) \o s
<1> DEFINE T == Seq(E)
           step == [v \in T |-> [s \in T |-> v \o s]]
           end == [ss \in Seq(T) |-> FlattenSeq(ss)]
<1>1. <<>> \in T /\ \A v, s \in T : v \o s \in T
  OBVIOUS
<1>2. FlattenSeq(<<>>) = <<>>
  BY DEF FlattenSeq
<1> \A s \in T : <<>> \o s = s
  BY ConcatEmptySeq
<1> HIDE DEF T
<1>3. step \in ElementSteps(T, T)
  BY <1>1 DEF ElementSteps
<1>4. ASSUME NEW ss \in Seq(T) PROVE \E f : IsPass(f, T, <<>>, ss, step) /\ end[ss] = f[Len(ss)]
  <2> DEFINE N == Len(ss)
             Value(v, n) == IF n = 1 THEN ss[n] ELSE v[n - 1] \o ss[n]
             g == CHOOSE v : v = [n \in 1 .. N |-> Value(v, n)]
             h == [n \in 0 .. N |-> IF n = 0 THEN <<>> ELSE g[n]]
  <2>1. N \in Nat /\ \A n \in 1 .. N : ss[n] \in T
    OBVIOUS
  <2>2. PICK f : IsPass(f, T, <<>>, ss, step)
    <3> HIDE DEF step
    <3>1. QED
      BY <1>1, <1>3, PassExists
  <2>3. f \in [0 .. N -> T] /\ f[0] = <<>>
    BY <2>2 DEF IsPass
  <2>4. \A n \in 1 .. N : n - 1 \in 0 .. N /\ f[n - 1] \in T /\ f[n] = f[n - 1] \o ss[n]
    <3>1. ASSUME NEW n \in 1 .. N PROVE n - 1 \in 0 .. N /\ f[n - 1] \in T
      BY <2>1, <2>3
    <3>2. ASSUME NEW n \in 1 .. N PROVE f[n] = step[f[n - 1]][ss[n]]
      BY <2>2 DEF IsPass
    <3>3. QED
      BY <2>1, <3>1, <3>2
  <2> DEFINE w == [n \in 1 .. N |-> f[n]]
  <2>5. ASSUME NEW n \in 1 .. N PROVE w[n] = Value(w, n)
    <3>1. CASE n = 1
      <4> HIDE DEF w, Value, step
      <4>1. f[n] = f[n - 1] \o ss[n] /\ ss[n] \in T
        BY <2>1, <2>4
      <4>2. f[n] = <<>> \o ss[n]
        BY <2>3, <3>1, <4>1
      <4>3. <<>> \o ss[n] = ss[n]
        BY <4>1
      <4>4. QED
        BY <3>1, <4>2, <4>3 DEF w, Value
    <3>2. CASE n # 1
      <4>1. n - 1 \in 1 .. N /\ w[n - 1] = f[n - 1]
        BY <2>1, <3>2
      <4>2. QED
        BY <2>4, <3>2, <4>1
    <3>3. QED
      BY <3>1, <3>2
  <2>6. CASE ss = <<>>
    <3>1. Len(ss) = 0 /\ end[ss] = <<>>
      BY <1>2, <2>6
    <3>2. QED
      BY <2>2, <2>3, <3>1
  <2>7. CASE ss # <<>>
    <3>1. N # 0
      BY <2>7
    <3>2. end[ss] = g[N]
      BY <3>1 DEF FlattenSeq
    <3> HIDE DEF Value, step, N
    <3>3. w = [n \in 1 .. N |-> Value(w, n)]
      BY <2>5
    <3> HIDE DEF w
    <3>4. g = [n \in 1 .. N |-> Value(g, n)]
      BY <3>3
    <3> HIDE DEF g
    <3>5. \A n \in 1 .. N : g[n] = Value(g, n)
      BY <3>4
    <3>6. h[0] = <<>> /\ \A n \in 1 .. N : h[n] = g[n]
      BY <2>1
    <3>7. ASSUME NEW n \in 1 .. N, h[n - 1] \in T PROVE h[n] = step[h[n - 1]][ss[n]]
      <4>1. step[h[n - 1]][ss[n]] = h[n - 1] \o ss[n] /\ ss[n] \in T
        BY <2>1, <3>7 DEF step
      <4>2. CASE n = 1
        <5>1. h[n - 1] = <<>> /\ h[n] = ss[n]
          BY <3>5, <3>6, <4>2 DEF Value
        <5>2. <<>> \o ss[n] = ss[n]
          BY <4>1
        <5>3. QED
          BY <4>1, <5>1, <5>2
      <4>3. CASE n # 1
        <5>1. n - 1 \in 1 .. N
          BY <2>1, <4>3
        <5>2. QED
          BY <3>5, <3>6, <4>1, <4>3, <5>1 DEF Value
      <4>4. QED
        BY <4>2, <4>3
    <3> HIDE DEF h
    <3>8. TakesSteps(h, T, <<>>, ss, step)
      BY <3>6, <3>7 DEF TakesSteps, N
    <3>9. h[Len(ss)] = f[Len(ss)]
      <4>1. Len(ss) \in Nat
        BY <2>1 DEF N
      <4>2. QED
        BY <2>2, <3>8, <4>1, PassIsDetermined
    <3>10. end[ss] = f[Len(ss)]
      <4>1. N \in 1 .. N
        BY <2>1, <3>1
      <4>2. QED
        BY <3>2, <3>6, <3>9, <4>1 DEF N
    <3>11. QED
      BY <2>2, <3>10
  <2>8. QED
    BY <2>6, <2>7
<1>5. Ends(end, T, T, <<>>, step)
  <2> HIDE DEF end, step
  <2>1. QED
    BY <1>1, <1>3, <1>4, PassEnds
<1>6. \A ss \in Seq(T) : end[ss] \in T /\ \A s \in T : end[Append(ss, s)] = step[end[ss]][s]
  <2> HIDE DEF end, step
  <2>1. QED
    BY <1>5 DEF Ends
<1>7. QED
  <2>1. ASSUME NEW ss \in Seq(T), NEW s \in T PROVE FlattenSeq(Append(ss, s)) = FlattenSeq(ss) \o s
    <3>1. Append(ss, s) \in Seq(T)
      OBVIOUS
    <3>2. QED
      BY <1>6, <3>1
  <2>2. QED
    BY <1>2, <1>6, <2>1 DEF T

-----------------------------------------------------------------------------
\* The words cut so far are the text so far.
LEMMA TokensHoldTheText ==
    \A s \in Seq(Graphemes) :
        FlattenSeq(TokensEnd(s).done) \o TokensEnd(s).word = Lowered(Filter(s, Graphemes \ Invisible))
<1> DEFINE Solid == Graphemes \ Invisible
           All(state) == FlattenSeq(state.done) \o state.word
           P == {s \in Seq(Graphemes) : All(TokensEnd(s)) = Lowered(Filter(s, Solid))}
<1>1. <<>> \in P
  <2>1. TokensEnd(<<>>) = NoWords /\ FlattenSeq(<<>>) = <<>> /\ Filter(<<>>, Solid) = <<>>
    BY TokensEndIs, FlattenIs, FilterIs
  <2>2. <<>> \o <<>> = <<>> /\ Lowered(<<>>) = <<>> /\ <<>> \in Seq(Graphemes)
    BY LoweredIs
  <2>3. NoWords.done = <<>> /\ NoWords.word = <<>>
    BY DEF NoWords
  <2>4. All(NoWords) = <<>>
    BY <2>1, <2>2, <2>3
  <2> HIDE DEF All, Solid
  <2>5. QED
    BY <2>1, <2>2, <2>4
<1>2. ASSUME NEW s \in Seq(Graphemes), s \in P, NEW x \in Graphemes PROVE Append(s, x) \in P
  <2> DEFINE old == TokensEnd(s)
             new == TokensEnd(Append(s, x))
             ink == Filter(s, Solid)
             done == FlattenSeq(old.done)
  <2>a. Append(s, x) \in Seq(Graphemes)
    OBVIOUS
  <2>0. SUFFICES All(new) = Lowered(Filter(Append(s, x), Solid))
    BY <2>a
  <2>1. old \in WordState /\ new = TokenStep(old, x)
    BY TokensEndIs
  <2>2. /\ old.word \in Seq(Graphemes) /\ old.done \in Seq(Seq(Graphemes))
        /\ done \in Seq(Graphemes)
    BY <2>1, FlattenIs DEF WordState
  <2>3. ink \in Seq(Graphemes) /\ Filter(Append(s, x), Solid) = FilterStep(ink, x, Solid)
    BY FilterIs
  <2>4. /\ Lowered(ink) \in Seq(Graphemes)
        /\ Lowered(Append(ink, x)) = Append(Lowered(ink), Lower(x))
    BY <2>3, LoweredIs
  <2>5. done \o old.word = Lowered(ink)
    BY <1>2
  <2>6. Flushed(old) \in Seq(Seq(Graphemes)) /\ FlattenSeq(Flushed(old)) = done \o old.word
    <3>1. CASE old.word = <<>>
      <4>1. done \o <<>> = done
        BY <2>2, ConcatEmptySeq
      <4>2. QED
        BY <2>2, <3>1, <4>1 DEF Flushed
    <3>2. CASE old.word # <<>>
      <4>1. FlattenSeq(Append(old.done, old.word)) = done \o old.word
        BY <2>2, FlattenIs
      <4>2. Flushed(old) = Append(old.done, old.word)
        BY <3>2 DEF Flushed
      <4>3. Append(old.done, old.word) \in Seq(Seq(Graphemes))
        BY <2>2, AppendProperties
      <4> HIDE DEF old, done
      <4>4. QED
        BY <4>1, <4>2, <4>3
    <3>3. QED
      BY <3>1, <3>2
  <2>7. Lower(x) \in Graphemes
    BY LowerIs
  <2> HIDE DEF old, new, ink, done, Solid
  <2>8. CASE x \in WordLike
    <3>1. new = [word |-> Append(old.word, Lower(x)), done |-> old.done]
      BY <2>1, <2>8 DEF TokenStep
    <3>2. All(new) = done \o Append(old.word, Lower(x))
      BY <3>1 DEF done
    <3>3. done \o Append(old.word, Lower(x)) = Append(done \o old.word, Lower(x))
      BY <2>2, <2>7
    <3>4. x \in Solid
      BY <2>8, InvisibleIs DEF Solid
    <3>5. Filter(Append(s, x), Solid) = Append(ink, x)
      BY <2>3, <3>4 DEF FilterStep
    <3> HIDE DEF All
    <3>6. QED
      BY <2>4, <2>5, <3>2, <3>3, <3>5
  <2>9. CASE x \notin WordLike /\ x \in Invisible
    <3>1. new = [word |-> <<>>, done |-> Flushed(old)]
      BY <2>1, <2>9 DEF TokenStep
    <3>2. All(new) = (done \o old.word) \o <<>>
      BY <2>6, <3>1
    <3>3. Lowered(ink) \o <<>> = Lowered(ink)
      BY <2>4, ConcatEmptySeq
    <3>4. Filter(Append(s, x), Solid) = ink
      BY <2>3, <2>9 DEF FilterStep, Solid
    <3> HIDE DEF All
    <3>5. QED
      BY <2>5, <3>2, <3>3, <3>4
  <2>10. CASE x \notin WordLike /\ x \notin Invisible
    <3>1. new = [word |-> <<>>, done |-> Append(Flushed(old), <<x>>)]
      BY <2>1, <2>10 DEF TokenStep
    <3>2. <<x>> \in Seq(Graphemes)
      OBVIOUS
    <3>3. FlattenSeq(Append(Flushed(old), <<x>>)) = Lowered(ink) \o <<x>>
      BY <2>5, <2>6, <3>2, FlattenIs
    <3>4. All(new) = (Lowered(ink) \o <<x>>) \o <<>>
      BY <3>1, <3>3
    <3>5. (Lowered(ink) \o <<x>>) \o <<>> = Append(Lowered(ink), x)
      BY <2>4, <3>2
    <3>6. Lower(x) = x /\ x \in Solid
      BY <2>10, LowerIs DEF WordLike, Solid
    <3>7. Filter(Append(s, x), Solid) = Append(ink, x)
      BY <2>3, <3>6 DEF FilterStep
    <3> HIDE DEF All
    <3>8. QED
      BY <2>4, <3>4, <3>5, <3>6, <3>7
  <2>11. QED
    BY <2>8, <2>9, <2>10
<1>3. \A s \in Seq(Graphemes) : s \in P
  <2> HIDE DEF P
  <2>1. QED
    BY <1>1, <1>2, SequenceInduction
<1>4. QED
  BY <1>3

LEMMA TextIsKept ==
    text \in Seq(Graphemes) => TokensAreTheText
<1>1. SUFFICES ASSUME text \in Seq(Graphemes)
               PROVE  FlattenSeq(Tokens(text)) = Lowered(Without(text, Invisible))
  BY DEF TokensAreTheText
<1> DEFINE end == TokensEnd(text)
<1>2. end.word \in Seq(Graphemes) /\ end.done \in Seq(Seq(Graphemes)) /\ FlattenSeq(end.done) \in Seq(Graphemes)
  <2>1. end \in WordState
    BY <1>1, TokensEndIs
  <2>2. QED
    BY <2>1, FlattenIs DEF WordState
<1>3. FlattenSeq(end.done) \o end.word = Lowered(Filter(text, Graphemes \ Invisible))
  BY <1>1, TokensHoldTheText
<1>4. Without(text, Invisible) = Filter(text, Graphemes \ Invisible)
  BY <1>1, WithoutIs
<1>5. Tokens(text) = Flushed(end)
  BY DEF Tokens, TokensEnd
<1> HIDE DEF end
<1>6. FlattenSeq(Flushed(end)) = FlattenSeq(end.done) \o end.word
  <2>1. CASE end.word = <<>>
    <3>1. FlattenSeq(end.done) \o <<>> = FlattenSeq(end.done)
      BY <1>2, ConcatEmptySeq
    <3>2. QED
      BY <2>1, <3>1 DEF Flushed
  <2>2. CASE end.word # <<>>
    <3>1. FlattenSeq(Append(end.done, end.word)) = FlattenSeq(end.done) \o end.word
      BY <1>2, FlattenIs
    <3>2. QED
      BY <2>2, <3>1 DEF Flushed
  <2>3. QED
    BY <2>1, <2>2
<1>7. QED
  BY <1>3, <1>4, <1>5, <1>6

-----------------------------------------------------------------------------
NoRun == [last |-> <<>>, run |-> 0, refused |-> <<>>]

\* How long the run is with one more element.
RunWith(state, e) == IF <<e>> = state.last THEN state.run + 1 ELSE 1

RunStep(state, e, limit) ==
    [last |-> <<e>>, run |-> RunWith(state, e),
     refused |-> IF state.refused = <<>> /\ RunWith(state, e) > limit[e] THEN <<e>> ELSE state.refused]

RunEnd(s, limit) ==
    LET Step(state, e) == RunStep(state, e, limit) IN Through(Step, NoRun, s)

RunState(E) == [last : Seq(E), run : Nat, refused : Seq(E)]

LEMMA RunLoopEnds ==
    ASSUME NEW s, NEW limit
    PROVE  RunLoop(s, limit) = RunEnd(s, limit).refused
BY DEF RunLoop, RunEnd, Through, RunStep, RunWith, NoRun

\* RunLoop, one element more at a time.
LEMMA RunEndIs ==
    ASSUME NEW E, NEW limit
    PROVE  /\ RunEnd(<<>>, limit) = NoRun
           /\ \A s \in Seq(E) :
                /\ RunEnd(s, limit) \in RunState(E)
                /\ \A e \in E : RunEnd(Append(s, e), limit) = RunStep(RunEnd(s, limit), e, limit)
<1> DEFINE T == RunState(E)
           step == [v \in T |-> [e \in E |-> RunStep(v, e, limit)]]
           end == [s \in Seq(E) |-> RunEnd(s, limit)]
<1>1. NoRun \in T /\ \A v \in T : \A e \in E : RunStep(v, e, limit) \in T
  <2>1. NoRun \in RunState(E)
    BY DEF NoRun, RunState
  <2>2. ASSUME NEW v \in RunState(E), NEW e \in E PROVE RunStep(v, e, limit) \in RunState(E)
    <3>1. <<e>> \in Seq(E) /\ v.run \in Nat /\ v.refused \in Seq(E)
      BY DEF RunState
    <3>2. RunWith(v, e) \in Nat
      BY <3>1 DEF RunWith
    <3>3. QED
      BY <3>1, <3>2 DEF RunStep, RunState
  <2>3. QED
    BY <2>1, <2>2
<1> HIDE DEF T
<1>2. step \in ElementSteps(T, E)
  BY <1>1 DEF ElementSteps
<1>3. ASSUME NEW s \in Seq(E)
      PROVE  \E f : IsPass(f, T, NoRun, s, step) /\ end[s] = f[Len(s)]
  <2> DEFINE N == Len(s)
             Value(v, n) == IF n = 0 THEN NoRun ELSE RunStep(v[n - 1], s[n], limit)
             g == CHOOSE v : v = [n \in 0 .. N |-> Value(v, n)]
  <2>1. N \in Nat /\ \A n \in 1 .. N : s[n] \in E
    OBVIOUS
  <2>2. PICK f : IsPass(f, T, NoRun, s, step)
    <3> HIDE DEF step
    <3>1. QED
      BY <1>1, <1>2, PassExists
  <2>3. f \in [0 .. N -> T] /\ f[0] = NoRun
    BY <2>2 DEF IsPass
  <2>4. ASSUME NEW v, NEW n \in 1 .. N, v[n - 1] \in T
        PROVE  Value(v, n) = step[v[n - 1]][s[n]]
    BY <2>1, <2>4
  <2>5. ASSUME NEW n \in 0 .. N PROVE f[n] = Value(f, n)
    <3>1. CASE n = 0
      BY <2>3, <3>1
    <3>2. CASE n # 0
      <4>1. n \in 1 .. N /\ f[n - 1] \in T
        BY <2>1, <2>3, <3>2
      <4>2. f[n] = step[f[n - 1]][s[n]]
        BY <2>2, <4>1 DEF IsPass
      <4>3. QED
        BY <2>4, <4>1, <4>2
    <3>3. QED
      BY <3>1, <3>2
  <2>6. end[s] = g[N]
    BY DEF RunEnd, Through
  <2> HIDE DEF Value, step, N
  <2>7. f = [n \in 0 .. N |-> Value(f, n)]
    BY <2>3, <2>5
  <2>8. g = [n \in 0 .. N |-> Value(g, n)]
    BY <2>7
  <2> HIDE DEF g
  <2>9. \A n \in 0 .. N : g[n] = Value(g, n)
    BY <2>8
  <2>10. TakesSteps(g, T, NoRun, s, step)
    BY <2>1, <2>4, <2>9 DEF TakesSteps, Value, N
  <2>11. Len(s) \in Nat
    BY <2>1 DEF N
  <2>12. g[Len(s)] = f[Len(s)]
    BY <2>2, <2>10, <2>11, PassIsDetermined
  <2>13. QED
    BY <2>2, <2>6, <2>12 DEF N
<1>4. Ends(end, E, T, NoRun, step)
  <2> HIDE DEF end, step
  <2>1. QED
    BY <1>1, <1>2, <1>3, PassEnds
<1>5. /\ end[<<>>] = NoRun
      /\ \A s \in Seq(E) : end[s] \in T /\ \A e \in E : end[Append(s, e)] = step[end[s]][e]
  <2> HIDE DEF end, step
  <2>1. QED
    BY <1>4 DEF Ends
<1>6. QED
  <2>1. RunEnd(<<>>, limit) = NoRun
    BY <1>5
  <2>2. ASSUME NEW s \in Seq(E), NEW e \in E
        PROVE  RunEnd(Append(s, e), limit) = RunStep(RunEnd(s, limit), e, limit)
    <3>1. Append(s, e) \in Seq(E)
      OBVIOUS
    <3>2. QED
      BY <1>5, <3>1
  <2>3. QED
    BY <1>5, <2>1, <2>2 DEF T

\* Somewhere in s an element is repeated more often than it may be.
Long(s, limit) ==
    \E i \in 1 .. Len(s) : /\ i + limit[s[i]] <= Len(s)
                           /\ \A j \in 0 .. limit[s[i]] : s[i + j] = s[i]

\* What the loop knows: the run at the end, and whether there was a long one.
RunIsKnown(s, state, limit) ==
    LET N == Len(s)
    IN  /\ state.run \in 0 .. N
        /\ N = 0 => state.last = <<>>
        /\ N # 0 => state.run # 0 /\ state.last = <<s[N]>>
        /\ \A i \in N - state.run + 1 .. N : s[i] = s[N]
        /\ state.run < N => s[N - state.run] # s[N]
        /\ state.refused # <<>> <=> Long(s, limit)

LEMMA LongWithOneMore ==
    ASSUME NEW E, NEW limit, \A e \in E : limit[e] \in Nat, NEW s \in Seq(E), NEW x \in E,
           NEW run \in 1 .. Len(s) + 1,
           \A i \in Len(s) + 1 - run + 1 .. Len(s) + 1 : Append(s, x)[i] = x,
           run < Len(s) + 1 => Append(s, x)[Len(s) + 1 - run] # x
    PROVE  Long(Append(s, x), limit) <=> Long(s, limit) \/ run > limit[x]
<1> DEFINE N == Len(s)
           t == Append(s, x)
<1>1. /\ N \in Nat /\ Len(t) = N + 1 /\ t[N + 1] = x
      /\ \A i \in 1 .. N : t[i] = s[i] /\ s[i] \in E /\ limit[s[i]] \in Nat
      /\ limit[x] \in Nat /\ \A i \in 1 .. N + 1 : limit[t[i]] \in Nat
  BY AppendProperties
<1>2. /\ run \in 1 .. N + 1 /\ \A i \in N + 1 - run + 1 .. N + 1 : t[i] = x
      /\ run < N + 1 => t[N + 1 - run] # x
  OBVIOUS
<1>3. /\ Long(s, limit) <=> \E i \in 1 .. N : /\ i + limit[s[i]] <= N
                                              /\ \A j \in 0 .. limit[s[i]] : s[i + j] = s[i]
      /\ Long(t, limit) <=> \E i \in 1 .. N + 1 : /\ i + limit[t[i]] <= N + 1
                                                  /\ \A j \in 0 .. limit[t[i]] : t[i + j] = t[i]
  BY <1>1 DEF Long
<1> HIDE DEF N, t
<1>4. ASSUME Long(s, limit) PROVE Long(t, limit)
  <2>1. PICK i \in 1 .. N : i + limit[s[i]] <= N /\ \A j \in 0 .. limit[s[i]] : s[i + j] = s[i]
    BY <1>3, <1>4
  <2>2. t[i] = s[i] /\ limit[s[i]] \in Nat /\ i \in 1 .. N + 1
    BY <1>1
  <2>3. ASSUME NEW j \in 0 .. limit[t[i]] PROVE t[i + j] = t[i]
    <3>1. i + j \in 1 .. N /\ j \in 0 .. limit[s[i]]
      BY <1>1, <2>1, <2>2
    <3>2. QED
      BY <1>1, <2>1, <2>2, <3>1
  <2>4. i + limit[t[i]] <= N + 1
    BY <1>1, <2>1, <2>2
  <2>5. QED
    BY <1>3, <2>2, <2>3, <2>4
<1>5. ASSUME run > limit[x] PROVE Long(t, limit)
  <2> DEFINE i == N + 1 - limit[x]
  <2>1. i \in N + 1 - run + 1 .. N + 1 /\ i \in 1 .. N + 1
    BY <1>1, <1>2, <1>5
  <2>2. t[i] = x /\ i + limit[t[i]] <= N + 1
    BY <1>1, <1>2, <2>1
  <2>3. ASSUME NEW j \in 0 .. limit[t[i]] PROVE t[i + j] = t[i]
    <3>1. i + j \in N + 1 - run + 1 .. N + 1
      BY <1>1, <1>2, <2>1, <2>2
    <3>2. QED
      BY <1>2, <2>2, <3>1
  <2>4. QED
    BY <1>3, <2>1, <2>2, <2>3
<1>6. ASSUME Long(t, limit) PROVE Long(s, limit) \/ run > limit[x]
  <2>1. PICK i \in 1 .. N + 1 : i + limit[t[i]] <= N + 1 /\ \A j \in 0 .. limit[t[i]] : t[i + j] = t[i]
    BY <1>3, <1>6
  <2>2. limit[t[i]] \in Nat
    BY <1>1
  <2>3. CASE i + limit[t[i]] <= N
    <3>1. i \in 1 .. N /\ t[i] = s[i]
      BY <1>1, <2>2, <2>3
    <3>2. ASSUME NEW j \in 0 .. limit[s[i]] PROVE s[i + j] = s[i]
      <4>1. i + j \in 1 .. N /\ t[i + j] = t[i]
        BY <1>1, <2>1, <2>2, <2>3, <3>1
      <4>2. QED
        BY <1>1, <3>1, <4>1
    <3>3. QED
      BY <1>3, <2>3, <3>1, <3>2
  <2>4. CASE i + limit[t[i]] = N + 1
    <3>1. limit[t[i]] \in 0 .. limit[t[i]]
      BY <2>2
    <3>2. t[N + 1] = t[i]
      BY <2>1, <2>4, <3>1
    <3>3. t[i] = x /\ limit[x] = N + 1 - i
      <4>1. t[i] = x
        BY <1>1, <3>2
      <4>2. i + limit[x] = N + 1 /\ limit[x] \in Nat
        BY <1>1, <2>4, <4>1
      <4>3. QED
        BY <1>1, <4>1, <4>2
    <3>4. SUFFICES ASSUME run <= limit[x] PROVE FALSE
      BY <1>1, <1>2
    <3>5. run < N + 1
      BY <1>1, <1>2, <3>3, <3>4
    <3> DEFINE j == N + 1 - run - i
    <3>6. j \in 0 .. limit[t[i]] /\ i + j = N + 1 - run
      BY <1>1, <1>2, <3>3, <3>4
    <3>7. t[N + 1 - run] = x
      <4>1. t[i + j] = t[i]
        BY <2>1, <3>6
      <4>2. QED
        BY <3>3, <3>6, <4>1
    <3>8. QED
      BY <1>2, <3>5, <3>7
  <2>5. i + limit[t[i]] <= N \/ i + limit[t[i]] = N + 1
    <3> DEFINE k == limit[t[i]]
    <3>1. k \in Nat /\ i + k <= N + 1
      BY <2>1, <2>2
    <3> HIDE DEF k
    <3>2. i + k <= N \/ i + k = N + 1
      BY <1>1, <3>1
    <3>3. QED
      BY <3>2 DEF k
  <2>6. QED
    BY <2>3, <2>4, <2>5
<1>7. QED
  BY <1>4, <1>5, <1>6 DEF t

LEMMA SingletonsDiffer == \A a, b : <<a>> = <<b>> => a = b
OBVIOUS

LEMMA RunStepIsKnown ==
    ASSUME NEW E, NEW limit, \A e \in E : limit[e] \in Nat, NEW s \in Seq(E), NEW x \in E,
           NEW state \in RunState(E), RunIsKnown(s, state, limit)
    PROVE  RunIsKnown(Append(s, x), RunStep(state, x, limit), limit)
<1> DEFINE N == Len(s)
           t == Append(s, x)
           run == RunWith(state, x)
           new == RunStep(state, x, limit)
<1>1. /\ N \in Nat /\ Len(t) = N + 1 /\ t[N + 1] = x /\ \A i \in 1 .. N : t[i] = s[i]
  BY AppendProperties
<1>2. /\ state.run \in 0 .. N /\ (N = 0 => state.last = <<>>)
      /\ N # 0 => state.run # 0 /\ state.last = <<s[N]>>
      /\ \A i \in N - state.run + 1 .. N : s[i] = s[N]
      /\ state.run < N => s[N - state.run] # s[N]
      /\ state.refused # <<>> <=> Long(s, limit)
  BY DEF RunIsKnown
<1>3. new.last = <<x>> /\ new.run = run
      /\ new.refused = IF state.refused = <<>> /\ run > limit[x] THEN <<x>> ELSE state.refused
  BY DEF RunStep
<1>4. IF N # 0 /\ s[N] = x THEN run = state.run + 1 ELSE run = 1
  <2>1. CASE N # 0 /\ s[N] = x
    BY <1>2, <2>1 DEF RunWith
  <2>2. CASE N = 0
    <3>1. <<x>> # state.last
      <4>1. state.last = <<>> /\ <<x>> # <<>>
        BY <1>2, <2>2
      <4>2. QED
        BY <4>1
    <3>2. QED
      BY <2>2, <3>1 DEF RunWith
  <2>3. CASE N # 0 /\ s[N] # x
    <3>1. state.last = <<s[N]>>
      BY <1>2, <2>3
    <3>2. <<x>> # <<s[N]>>
      BY <2>3, SingletonsDiffer
    <3>3. QED
      BY <2>3, <3>1, <3>2 DEF RunWith
  <2>4. QED
    BY <2>1, <2>2, <2>3
<1> HIDE DEF N, t, run, new
<1>5. /\ run \in 1 .. N + 1
      /\ \A i \in N + 1 - run + 1 .. N + 1 : t[i] = x
      /\ run < N + 1 => t[N + 1 - run] # x
  <2>1. CASE N # 0 /\ s[N] = x
    <3>1. run = state.run + 1 /\ run \in 1 .. N + 1
      BY <1>1, <1>2, <1>4, <2>1
    <3>2. ASSUME NEW i \in N + 1 - run + 1 .. N + 1 PROVE t[i] = x
      <4>1. CASE i = N + 1
        BY <1>1, <4>1
      <4>2. CASE i # N + 1
        <5>1. i \in N - state.run + 1 .. N /\ i \in 1 .. N
          BY <1>1, <1>2, <3>1, <4>2
        <5>2. QED
          BY <1>1, <1>2, <2>1, <5>1
      <4>3. QED
        BY <4>1, <4>2
    <3>3. ASSUME run < N + 1 PROVE t[N + 1 - run] # x
      <4>1. N + 1 - run = N - state.run /\ N - state.run \in 1 .. N /\ state.run < N
        BY <1>1, <1>2, <3>1, <3>3
      <4>2. s[N - state.run] # s[N]
        BY <1>2, <4>1
      <4>3. QED
        BY <1>1, <2>1, <4>1, <4>2
    <3>4. QED
      BY <3>1, <3>2, <3>3
  <2>2. CASE ~(N # 0 /\ s[N] = x)
    <3>1. run = 1
      BY <1>4, <2>2
    <3>2. \A i \in N + 1 - run + 1 .. N + 1 : i = N + 1
      BY <1>1, <3>1
    <3>3. ASSUME run < N + 1 PROVE t[N + 1 - run] # x
      <4>1. N # 0 /\ N \in 1 .. N /\ N + 1 - run = N
        BY <1>1, <3>1, <3>3
      <4>2. QED
        BY <1>1, <2>2, <4>1
    <3>4. QED
      BY <1>1, <3>1, <3>2, <3>3
  <2>3. QED
    BY <2>1, <2>2
<1>6. Long(t, limit) <=> Long(s, limit) \/ run > limit[x]
  BY <1>5, LongWithOneMore DEF N, t
<1>7. new.refused # <<>> <=> Long(t, limit)
  BY <1>2, <1>3, <1>6
<1>8. /\ new.run \in 0 .. N + 1 /\ new.run # 0 /\ new.last = <<t[N + 1]>>
      /\ \A i \in N + 1 - new.run + 1 .. N + 1 : t[i] = t[N + 1]
      /\ new.run < N + 1 => t[N + 1 - new.run] # t[N + 1]
  BY <1>1, <1>3, <1>5
<1>9. N + 1 # 0
  BY <1>1
<1>10. RunIsKnown(t, new, limit)
  BY <1>1, <1>7, <1>8, <1>9 DEF RunIsKnown
<1>11. QED
  BY <1>10 DEF t, new

\* The loop refuses exactly the sequences in which something is repeated too often.
LEMMA RunLoopRefuses ==
    ASSUME NEW E, NEW limit, \A e \in E : limit[e] \in Nat, NEW s \in Seq(E)
    PROVE  RunLoop(s, limit) # <<>> <=> \E e \in Range(s) : e \in Run(s, limit[e])
<1> DEFINE P == {u \in Seq(E) : RunIsKnown(u, RunEnd(u, limit), limit)}
<1>1. <<>> \in P
  <2>1. RunEnd(<<>>, limit) = NoRun /\ <<>> \in Seq(E) /\ Len(<<>>) = 0
    BY RunEndIs
  <2>2. ~Long(<<>>, limit)
    BY DEF Long
  <2>3. RunIsKnown(<<>>, NoRun, limit)
    BY <2>2 DEF RunIsKnown, NoRun
  <2>4. QED
    BY <2>1, <2>3
<1>2. ASSUME NEW u \in Seq(E), u \in P, NEW x \in E PROVE Append(u, x) \in P
  <2>1. /\ RunEnd(u, limit) \in RunState(E)
        /\ RunEnd(Append(u, x), limit) = RunStep(RunEnd(u, limit), x, limit)
    BY RunEndIs
  <2>2. RunIsKnown(u, RunEnd(u, limit), limit) /\ Append(u, x) \in Seq(E)
    BY <1>2
  <2>3. RunIsKnown(Append(u, x), RunStep(RunEnd(u, limit), x, limit), limit)
    BY <2>1, <2>2, RunStepIsKnown
  <2>4. QED
    BY <2>1, <2>2, <2>3
<1>3. s \in P
  <2> HIDE DEF P
  <2>1. QED
    BY <1>1, <1>2, SequenceInduction
<1>4. RunLoop(s, limit) # <<>> <=> Long(s, limit)
  BY <1>3, RunLoopEnds DEF RunIsKnown
<1>5. Len(s) \in Nat /\ DOMAIN s = 1 .. Len(s) /\ \A i \in 1 .. Len(s) : s[i] \in E /\ s[i] \in Range(s)
  BY DEF Range
<1>6. ASSUME Long(s, limit) PROVE \E e \in Range(s) : e \in Run(s, limit[e])
  <2>1. PICK i \in 1 .. Len(s) : /\ i + limit[s[i]] <= Len(s)
                                 /\ \A j \in 0 .. limit[s[i]] : s[i + j] = s[i]
    BY <1>6 DEF Long
  <2>2. s[i] \in Run(s, limit[s[i]])
    BY <1>5, <2>1 DEF Run
  <2>3. QED
    BY <1>5, <2>2
<1>7. ASSUME NEW e \in Range(s), e \in Run(s, limit[e]) PROVE Long(s, limit)
  <2>1. PICK i \in 1 .. Len(s) : i + limit[e] <= Len(s) /\ \A j \in 0 .. limit[e] : s[i + j] = e
    BY <1>5, <1>7 DEF Run
  <2>2. e \in E
    BY RangeOfSeq
  <2>3. 0 \in 0 .. limit[e] /\ i + 0 = i
    BY <2>2
  <2>4. s[i] = e
    BY <2>1, <2>3
  <2>5. QED
    BY <2>1, <2>4 DEF Long
<1>8. QED
  BY <1>4, <1>6, <1>7

LEMMA TokensType ==
    \A s \in Seq(Graphemes) : Tokens(s) \in Seq(Seq(Graphemes))
<1>1. SUFFICES ASSUME NEW s \in Seq(Graphemes) PROVE Tokens(s) \in Seq(Seq(Graphemes))
  OBVIOUS
<1>2. TokensEnd(s) \in WordState
  BY TokensEndIs
<1>3. Tokens(s) = Flushed(TokensEnd(s))
  BY DEF Tokens, TokensEnd
<1>4. QED
  BY <1>2, <1>3, FlushedIs

LEMMA RunsAreFound ==
    text \in Seq(Graphemes) => RunsAreRefused
<1> DEFINE ink == Without(text, Spaces)
           tokens == Tokens(text)
           graphemeLimit == [g \in Range(ink) |-> GraphemeRun(g)]
           tokenLimit == [t \in Range(tokens) |-> MaxRepeatedTokenRun]
           char == RunLoop(ink, graphemeLimit)
           token == RunLoop(tokens, tokenLimit)
<1>1. SUFFICES ASSUME text \in Seq(Graphemes)
               PROVE  RunVerdict(text) # "ok" <=>
                         \/ Run(ink, MaxRepeatedCharRun) # {}
                         \/ Run(ink, MaxRepeatedSymbolRun) \cap Symbols # {}
                         \/ Run(tokens, MaxRepeatedTokenRun) # {}
  BY DEF RunsAreRefused
<1>2. RunVerdict(text) # "ok" <=> char # <<>> \/ token # <<>>
  BY DEF RunVerdict, Blame
<1>3. ink \in Seq(Graphemes) /\ tokens \in Seq(Seq(Graphemes))
  <2>1. ink = Filter(text, Graphemes \ Spaces)
    BY <1>1, WithoutIs
  <2>2. Filter(text, Graphemes \ Spaces) \in Seq(Graphemes)
    BY <1>1, FilterIs
  <2>3. tokens \in Seq(Seq(Graphemes))
    BY <1>1, TokensType
  <2> HIDE DEF ink, tokens
  <2>4. QED
    BY <2>1, <2>2, <2>3
<1> HIDE DEF ink, tokens
<1>4. /\ MaxRepeatedCharRun \in Nat /\ MaxRepeatedSymbolRun \in Nat /\ MaxRepeatedTokenRun \in Nat
      /\ MaxRepeatedSymbolRun <= MaxRepeatedCharRun
  BY TextAssumption
<1>5. /\ \A g \in Range(ink) : graphemeLimit[g] = GraphemeRun(g) /\ graphemeLimit[g] \in Nat
      /\ \A t \in Range(tokens) : tokenLimit[t] = MaxRepeatedTokenRun /\ tokenLimit[t] \in Nat
  BY <1>4 DEF GraphemeRun
<1>6. ink \in Seq(Range(ink)) /\ tokens \in Seq(Range(tokens))
  BY <1>3, SeqOfRange
<1> HIDE DEF graphemeLimit, tokenLimit
<1>7. char # <<>> <=> \E g \in Range(ink) : g \in Run(ink, GraphemeRun(g))
  <2>1. char # <<>> <=> \E g \in Range(ink) : g \in Run(ink, graphemeLimit[g])
    BY <1>5, <1>6, RunLoopRefuses
  <2>2. QED
    BY <1>5, <2>1
<1>8. token # <<>> <=> Run(tokens, MaxRepeatedTokenRun) # {}
  <2>1. token # <<>> <=> \E t \in Range(tokens) : t \in Run(tokens, tokenLimit[t])
    BY <1>5, <1>6, RunLoopRefuses
  <2>2. Run(tokens, MaxRepeatedTokenRun) \subseteq Range(tokens)
    BY DEF Run
  <2>3. QED
    BY <1>5, <2>1, <2>2
<1> HIDE DEF char, token
<1>9. Run(ink, MaxRepeatedCharRun) \subseteq Run(ink, MaxRepeatedSymbolRun)
  <2>1. SUFFICES ASSUME NEW g \in Run(ink, MaxRepeatedCharRun) PROVE g \in Run(ink, MaxRepeatedSymbolRun)
    OBVIOUS
  <2>2. Len(ink) \in Nat /\ DOMAIN ink = 1 .. Len(ink)
    BY <1>3
  <2>3. PICK i \in 1 .. Len(ink) : /\ i + MaxRepeatedCharRun <= Len(ink)
                                   /\ \A j \in 0 .. MaxRepeatedCharRun : ink[i + j] = g
    BY <2>1, <2>2 DEF Run
  <2>4. /\ i + MaxRepeatedSymbolRun <= Len(ink)
        /\ \A j \in 0 .. MaxRepeatedSymbolRun : ink[i + j] = g
    BY <1>4, <2>2, <2>3
  <2>5. g \in Range(ink)
    BY <2>1 DEF Run
  <2>6. QED
    BY <2>2, <2>4, <2>5 DEF Run
<1>10. \A n : Run(ink, n) \subseteq Range(ink)
  BY DEF Run
<1>11. (\E g \in Range(ink) : g \in Run(ink, GraphemeRun(g)))
           <=> \/ Run(ink, MaxRepeatedCharRun) # {}
               \/ Run(ink, MaxRepeatedSymbolRun) \cap Symbols # {}
  BY <1>9, <1>10 DEF GraphemeRun
<1>12. QED
  BY <1>2, <1>7, <1>8, <1>11

-----------------------------------------------------------------------------
Visible(s) == {i \in DOMAIN s : s[i] \notin Spaces}
Foremost(s) == CHOOSE i \in Visible(s) : \A j \in Visible(s) : i <= j
Hindmost(s) == CHOOSE i \in Visible(s) : \A j \in Visible(s) : j <= i

\* A text without the whitespace before it.
Led(s) == IF Visible(s) = {} THEN <<>> ELSE SubSeq(s, Foremost(s), Len(s))

LEMMA EndsAre ==
    ASSUME NEW s, Len(s) \in Nat, DOMAIN s = 1 .. Len(s), Visible(s) # {}
    PROVE  /\ Foremost(s) \in Visible(s) /\ \A j \in Visible(s) : Foremost(s) <= j
           /\ Hindmost(s) \in Visible(s) /\ \A j \in Visible(s) : j <= Hindmost(s)
<1>1. Visible(s) \subseteq 1 .. Len(s)
  BY DEF Visible
<1>2. /\ \E i \in Visible(s) : \A j \in Visible(s) : i <= j
      /\ \E i \in Visible(s) : \A j \in Visible(s) : j <= i
  <2>1. Visible(s) \in SUBSET Nat /\ \A i \in Visible(s) : i <= Len(s)
    BY <1>1
  <2>2. QED
    BY <2>1, LeastExists, GreatestExists
<1>3. QED
  BY <1>2 DEF Foremost, Hindmost

LEMMA TrimEnds ==
    ASSUME NEW s
    PROVE  Trim(s) = IF Visible(s) = {} THEN <<>> ELSE SubSeq(s, Foremost(s), Hindmost(s))
BY DEF Trim, Visible, Foremost, Hindmost

\* A part of a sequence, and the same part with one element more.
LEMMA PartIs ==
    ASSUME NEW E, NEW s \in Seq(E), NEW a \in 1 .. Len(s) + 1, NEW b \in 0 .. Len(s), a <= b + 1
    PROVE  /\ SubSeq(s, a, b) \in Seq(E) /\ Len(SubSeq(s, a, b)) = b - a + 1
           /\ \A i \in 1 .. b - a + 1 : SubSeq(s, a, b)[i] = s[a + i - 1]
<1>1. \A i \in a .. b : i \in 1 .. Len(s) /\ s[i] \in E
  OBVIOUS
<1>2. QED
  BY <1>1, SubSeqProperties

LEMMA PartStays ==
    ASSUME NEW E, NEW s \in Seq(E), NEW x \in E, NEW a \in 1 .. Len(s), NEW b \in 1 .. Len(s), a <= b
    PROVE  SubSeq(Append(s, x), a, b) = SubSeq(s, a, b)
<1> DEFINE t == Append(s, x)
           u == SubSeq(t, a, b)
           v == SubSeq(s, a, b)
<1>1. t \in Seq(E) /\ Len(t) = Len(s) + 1 /\ \A i \in 1 .. Len(s) : t[i] = s[i]
  BY AppendProperties
<1>2. /\ u \in Seq(E) /\ Len(u) = b - a + 1 /\ \A i \in 1 .. b - a + 1 : u[i] = t[a + i - 1]
  <2> HIDE DEF t
  <2>1. a \in 1 .. Len(t) + 1 /\ b \in 0 .. Len(t) /\ a <= b + 1
    BY <1>1
  <2>2. QED
    BY <1>1, <2>1, PartIs
<1>3. /\ v \in Seq(E) /\ Len(v) = b - a + 1 /\ \A i \in 1 .. b - a + 1 : v[i] = s[a + i - 1]
  BY PartIs
<1>4. \A i \in 1 .. b - a + 1 : a + i - 1 \in 1 .. Len(s)
  OBVIOUS
<1> HIDE DEF u, v, t
<1>5. \A i \in 1 .. Len(u) : u[i] = v[i]
  BY <1>1, <1>2, <1>3, <1>4
<1>6. u = v
  BY <1>2, <1>3, <1>5, SeqEqual
<1>7. QED
  BY <1>6 DEF u, v, t

LEMMA PartGrows ==
    ASSUME NEW E, NEW s \in Seq(E), NEW x \in E, NEW a \in 1 .. Len(s) + 1
    PROVE  SubSeq(Append(s, x), a, Len(s) + 1) = Append(SubSeq(s, a, Len(s)), x)
<1> DEFINE t == Append(s, x)
           N == Len(s)
           u == SubSeq(t, a, N + 1)
           v == SubSeq(s, a, N)
           w == Append(v, x)
<1>1. t \in Seq(E) /\ Len(t) = N + 1 /\ t[N + 1] = x /\ \A i \in 1 .. N : t[i] = s[i]
  BY AppendProperties
<1>2. N \in Nat /\ a \in 1 .. N + 1
  OBVIOUS
<1>3. /\ u \in Seq(E) /\ Len(u) = N - a + 2 /\ \A i \in 1 .. N - a + 2 : u[i] = t[a + i - 1]
  <2> HIDE DEF t, N
  <2>1. a \in 1 .. Len(t) + 1 /\ N + 1 \in 0 .. Len(t) /\ a <= (N + 1) + 1
    BY <1>1, <1>2
  <2>2. /\ u \in Seq(E) /\ Len(u) = (N + 1) - a + 1
        /\ \A i \in 1 .. (N + 1) - a + 1 : u[i] = t[a + i - 1]
    BY <1>1, <2>1, PartIs
  <2>3. (N + 1) - a + 1 = N - a + 2
    BY <1>2
  <2>4. QED
    BY <2>2, <2>3
<1>4. /\ v \in Seq(E) /\ Len(v) = N - a + 1 /\ \A i \in 1 .. N - a + 1 : v[i] = s[a + i - 1]
  <2>1. N \in 0 .. Len(s) /\ a <= N + 1
    BY <1>2
  <2>2. QED
    BY <2>1, PartIs
<1> HIDE DEF v, t, N
<1>5. /\ w \in Seq(E) /\ Len(w) = N - a + 2 /\ w[N - a + 2] = x
      /\ \A i \in 1 .. N - a + 1 : w[i] = v[i]
  <2>1. Len(v) + 1 = N - a + 2
    BY <1>2, <1>4
  <2> HIDE DEF w
  <2>2. /\ w \in Seq(E) /\ Len(w) = Len(v) + 1 /\ w[Len(v) + 1] = x
        /\ \A i \in 1 .. Len(v) : w[i] = v[i]
    BY <1>4, AppendProperties DEF w
  <2>3. QED
    BY <1>4, <2>1, <2>2
<1> HIDE DEF u, w
<1>6. ASSUME NEW i \in 1 .. N - a + 2 PROVE u[i] = w[i]
  <2>1. CASE i = N - a + 2
    <3>1. a + i - 1 = N + 1
      BY <1>2, <2>1
    <3>2. u[i] = t[N + 1]
      BY <1>3, <3>1
    <3>3. QED
      BY <1>1, <1>5, <2>1, <3>2
  <2>2. CASE i # N - a + 2
    <3>1. i \in 1 .. N - a + 1 /\ a + i - 1 \in 1 .. N
      BY <1>2, <2>2
    <3>2. u[i] = s[a + i - 1]
      BY <1>1, <1>3, <3>1
    <3>3. QED
      BY <1>4, <1>5, <3>1, <3>2
  <2>3. QED
    BY <2>1, <2>2
<1>7. u = w
  <2>1. Len(u) = Len(w) /\ \A i \in 1 .. Len(u) : u[i] = w[i]
    BY <1>3, <1>5, <1>6
  <2>2. QED
    BY <1>3, <1>5, <2>1, SeqEqual
<1>8. QED
  BY <1>7 DEF u, w, v, t, N

\* What is visible of a text with one grapheme more.
LEMMA VisibleIs ==
    ASSUME NEW E, NEW s \in Seq(E), NEW x \in E
    PROVE  /\ Visible(s) \subseteq 1 .. Len(s)
           /\ Visible(Append(s, x)) = IF x \in Spaces THEN Visible(s) ELSE Visible(s) \cup {Len(s) + 1}
<1> DEFINE t == Append(s, x)
<1>1. /\ Len(s) \in Nat /\ DOMAIN s = 1 .. Len(s) /\ DOMAIN t = 1 .. Len(s) + 1
      /\ t[Len(s) + 1] = x /\ \A i \in 1 .. Len(s) : t[i] = s[i]
  BY AppendProperties, LenProperties
<1> HIDE DEF t
<1>2. Visible(t) = {i \in 1 .. Len(s) + 1 : t[i] \notin Spaces} /\ Visible(s) = {i \in 1 .. Len(s) : s[i] \notin Spaces}
  BY <1>1 DEF Visible
<1>3. QED
  BY <1>1, <1>2 DEF t

\* Trim and Led, one grapheme more at a time.
LEMMA TrimIs ==
    ASSUME NEW E
    PROVE  /\ Led(<<>>) = <<>> /\ Trim(<<>>) = <<>>
           /\ \A s \in Seq(E) : \A x \in E :
                /\ Led(Append(s, x)) = IF Led(s) = <<>> /\ x \in Spaces THEN <<>> ELSE Append(Led(s), x)
                /\ Trim(Append(s, x)) = IF x \in Spaces THEN Trim(s) ELSE Append(Led(s), x)
<1>1. Led(<<>>) = <<>> /\ Trim(<<>>) = <<>>
  <2>1. Visible(<<>>) = {}
    BY DEF Visible
  <2>2. QED
    BY <2>1, TrimEnds DEF Led
<1>2. ASSUME NEW s \in Seq(E), NEW x \in E
      PROVE  /\ Led(Append(s, x)) = IF Led(s) = <<>> /\ x \in Spaces THEN <<>> ELSE Append(Led(s), x)
             /\ Trim(Append(s, x)) = IF x \in Spaces THEN Trim(s) ELSE Append(Led(s), x)
  <2> DEFINE t == Append(s, x)
             N == Len(s)
  <2>1. t \in Seq(E) /\ Len(t) = N + 1 /\ N \in Nat /\ DOMAIN s = 1 .. N /\ DOMAIN t = 1 .. N + 1
    BY AppendProperties, LenProperties
  <2>2. /\ Visible(s) \subseteq 1 .. N
        /\ Visible(t) = IF x \in Spaces THEN Visible(s) ELSE Visible(s) \cup {N + 1}
    BY VisibleIs
  <2>3. Visible(s) # {} => /\ Foremost(s) \in 1 .. N /\ Hindmost(s) \in 1 .. N /\ Foremost(s) <= Hindmost(s)
                           /\ Foremost(s) \in Visible(s) /\ \A j \in Visible(s) : Foremost(s) <= j
    BY <2>1, <2>2, EndsAre
  <2>4. Visible(s) # {} => Led(s) # <<>>
    <3>1. SUFFICES ASSUME Visible(s) # {} PROVE Led(s) # <<>>
      OBVIOUS
    <3>2. Foremost(s) \in 1 .. N + 1 /\ N \in 0 .. N /\ Foremost(s) <= N + 1
      BY <2>1, <2>3, <3>1
    <3>3. Len(SubSeq(s, Foremost(s), N)) = N - Foremost(s) + 1
      BY <3>2, PartIs
    <3>4. Len(SubSeq(s, Foremost(s), N)) # 0
      BY <2>1, <2>3, <3>1, <3>3
    <3>5. SubSeq(s, Foremost(s), N) # <<>>
      <4> DEFINE part == SubSeq(s, Foremost(s), N)
      <4>1. Len(part) # 0
        BY <3>4
      <4> HIDE DEF part
      <4>2. part # <<>>
        BY <4>1
      <4>3. QED
        BY <4>2 DEF part
    <3>6. QED
      BY <3>1, <3>5 DEF Led
  <2>5. CASE x \in Spaces
    <3>1. Visible(t) = Visible(s) /\ Foremost(t) = Foremost(s) /\ Hindmost(t) = Hindmost(s)
      BY <2>2, <2>5 DEF Foremost, Hindmost
    <3>2. CASE Visible(s) = {}
      BY <2>5, <3>1, <3>2, TrimEnds DEF Led
    <3>3. CASE Visible(s) # {}
      <4>1. Led(t) = Append(Led(s), x)
        <5>1. Foremost(s) \in 1 .. Len(s) + 1
          BY <2>1, <2>3, <3>3
        <5>2. SubSeq(t, Foremost(s), N + 1) = Append(SubSeq(s, Foremost(s), N), x)
          BY <5>1, PartGrows
        <5>3. QED
          BY <2>1, <3>1, <3>3, <5>2 DEF Led
      <4>2. Trim(t) = Trim(s)
        <5>1. SubSeq(t, Foremost(s), Hindmost(s)) = SubSeq(s, Foremost(s), Hindmost(s))
          BY <2>3, <3>3, PartStays
        <5>2. QED
          BY <3>1, <3>3, <5>1, TrimEnds
      <4>3. QED
        BY <2>4, <2>5, <3>3, <4>1, <4>2
    <3>4. QED
      BY <3>2, <3>3
  <2>6. CASE x \notin Spaces
    <3>1. Visible(t) = Visible(s) \cup {N + 1}
      BY <2>2, <2>6
    <3>2. /\ Foremost(t) \in Visible(t) /\ \A j \in Visible(t) : Foremost(t) <= j
          /\ Hindmost(t) \in Visible(t) /\ \A j \in Visible(t) : j <= Hindmost(t)
      <4>1. Visible(t) # {} /\ Len(t) \in Nat /\ DOMAIN t = 1 .. Len(t)
        BY <2>1, <3>1
      <4>2. QED
        BY <4>1, EndsAre
    <3>3. Hindmost(t) = N + 1
      <4>1. N + 1 <= Hindmost(t) /\ Hindmost(t) \in 1 .. N + 1
        BY <2>1, <2>2, <3>1, <3>2
      <4>2. QED
        BY <2>1, <4>1
    <3>4. Foremost(t) = IF Visible(s) = {} THEN N + 1 ELSE Foremost(s)
      BY <2>1, <2>2, <2>3, <3>1, <3>2
    <3>5. SubSeq(t, Foremost(t), N + 1) = Append(Led(s), x)
      <4>1. CASE Visible(s) = {}
        <5>1. SubSeq(t, N + 1, N + 1) = Append(SubSeq(s, N + 1, N), x)
          <6>1. N + 1 \in 1 .. Len(s) + 1
            BY <2>1
          <6>2. QED
            BY <6>1, PartGrows
        <5>2. SubSeq(s, N + 1, N) = <<>>
          <6>1. N + 1 \in 1 .. Len(s) + 1 /\ N \in 0 .. Len(s) /\ N + 1 <= N + 1 /\ N - (N + 1) + 1 = 0
            BY <2>1
          <6>2. SubSeq(s, N + 1, N) \in Seq(E) /\ Len(SubSeq(s, N + 1, N)) = 0
            BY <6>1, PartIs
          <6>3. QED
            BY <6>2, EmptySeq
        <5>3. QED
          BY <3>4, <4>1, <5>1, <5>2 DEF Led
      <4>2. CASE Visible(s) # {}
        <5>1. Foremost(s) \in 1 .. Len(s) + 1
          BY <2>1, <2>3, <4>2
        <5>2. SubSeq(t, Foremost(s), N + 1) = Append(SubSeq(s, Foremost(s), N), x)
          BY <5>1, PartGrows
        <5>3. QED
          BY <3>4, <4>2, <5>2 DEF Led
      <4>3. QED
        BY <4>1, <4>2
    <3>6. Led(t) = Append(Led(s), x)
      BY <2>1, <3>1, <3>5 DEF Led
    <3>7. Trim(t) = Append(Led(s), x)
      BY <3>1, <3>3, <3>5, TrimEnds
    <3>8. QED
      BY <2>6, <3>6, <3>7
  <2>7. QED
    BY <2>5, <2>6
<1>3. QED
  BY <1>1, <1>2

LEMMA TrimmedType ==
    ASSUME NEW E
    PROVE  \A s \in Seq(E) : Led(s) \in Seq(E) /\ Trim(s) \in Seq(E)
<1> DEFINE P == {s \in Seq(E) : Led(s) \in Seq(E) /\ Trim(s) \in Seq(E)}
<1>1. <<>> \in P
  <2>1. Led(<<>>) = <<>> /\ Trim(<<>>) = <<>> /\ <<>> \in Seq(E)
    BY TrimIs
  <2>2. QED
    BY <2>1
<1>2. ASSUME NEW s \in Seq(E), s \in P, NEW x \in E PROVE Append(s, x) \in P
  <2>1. Append(s, x) \in Seq(E) /\ Append(Led(s), x) \in Seq(E)
    BY <1>2
  <2>2. Led(Append(s, x)) \in Seq(E) /\ Trim(Append(s, x)) \in Seq(E)
    BY <1>2, <2>1, TrimIs
  <2>3. QED
    BY <2>1, <2>2
<1>3. \A s \in Seq(E) : s \in P
  <2> HIDE DEF P
  <2>1. QED
    BY <1>1, <1>2, SequenceInduction
<1>4. QED
  BY <1>3

-----------------------------------------------------------------------------
\* What Filter keeps.
LEMMA FilterKeeps ==
    ASSUME NEW E, NEW set
    PROVE  \A s \in Seq(E) :
               /\ Range(Filter(s, set)) \subseteq Range(s) \cap set
               /\ Len(Filter(s, set)) <= Len(s)
               /\ Range(s) \subseteq set => Filter(s, set) = s
               /\ Range(s) \cap set = {} => Filter(s, set) = <<>>
<1> DEFINE Held(s) == /\ Range(Filter(s, set)) \subseteq Range(s) \cap set
                      /\ Len(Filter(s, set)) <= Len(s)
                      /\ Range(s) \subseteq set => Filter(s, set) = s
                      /\ Range(s) \cap set = {} => Filter(s, set) = <<>>
           P == {s \in Seq(E) : Held(s)}
<1>1. <<>> \in P
  <2>1. Filter(<<>>, set) = <<>> /\ <<>> \in Seq(E) /\ Len(<<>>) = 0 /\ Range(<<>>) = {}
    BY FilterIs DEF Range
  <2>2. Held(<<>>)
    BY <2>1
  <2>3. QED
    BY <2>1, <2>2
<1>2. ASSUME NEW s \in Seq(E), s \in P, NEW x \in E PROVE Append(s, x) \in P
  <2> DEFINE kept == Filter(s, set)
             t == Append(s, x)
  <2>1. /\ t \in Seq(E) /\ Range(t) = Range(s) \cup {x} /\ Len(t) = Len(s) + 1 /\ Len(s) \in Nat
    BY RangeIs, AppendProperties
  <2>2. kept \in Seq(E) /\ Filter(t, set) = FilterStep(kept, x, set) /\ Len(kept) \in Nat
    <3>1. Filter(s, set) \in Seq(E) /\ Filter(Append(s, x), set) = FilterStep(Filter(s, set), x, set)
      BY FilterIs
    <3>2. QED
      BY <3>1
  <2>3. Held(s)
    BY <1>2
  <2>4. Range(Append(kept, x)) = Range(kept) \cup {x} /\ Len(Append(kept, x)) = Len(kept) + 1
    <3> HIDE DEF kept
    <3>1. QED
      BY <2>2, RangeIs, AppendProperties
  <2>5. Filter(t, set) = IF x \in set THEN Append(kept, x) ELSE kept
    BY <2>2 DEF FilterStep
  <2> HIDE DEF kept
  <2>6. CASE x \in set
    <3>1. Range(Filter(t, set)) \subseteq Range(t) \cap set
      BY <2>1, <2>3, <2>4, <2>5, <2>6 DEF kept
    <3>2. Len(Filter(t, set)) <= Len(t)
      BY <2>1, <2>2, <2>3, <2>4, <2>5, <2>6 DEF kept
    <3>3. Range(t) \subseteq set => Filter(t, set) = t
      BY <2>1, <2>3, <2>5, <2>6 DEF kept
    <3>4. Range(t) \cap set # {}
      BY <2>1, <2>6
    <3>5. QED
      BY <2>1, <3>1, <3>2, <3>3, <3>4
  <2>7. CASE x \notin set
    <3>1. Range(Filter(t, set)) \subseteq Range(t) \cap set
      BY <2>1, <2>3, <2>5, <2>7 DEF kept
    <3>2. Len(Filter(t, set)) <= Len(t)
      BY <2>1, <2>2, <2>3, <2>5, <2>7 DEF kept
    <3>3. Range(t) \cap set = {} => Filter(t, set) = <<>>
      BY <2>1, <2>3, <2>5, <2>7 DEF kept
    <3>4. ~(Range(t) \subseteq set)
      BY <2>1, <2>7
    <3>5. QED
      BY <2>1, <3>1, <3>2, <3>3, <3>4
  <2>8. QED
    BY <2>6, <2>7
<1>3. \A s \in Seq(E) : s \in P
  <2> HIDE DEF P
  <2>1. QED
    BY <1>1, <1>2, SequenceInduction
<1>4. QED
  BY <1>3

\* Elements that all differ are as many as there are places, each once.
LEMMA InjectiveCounts ==
    ASSUME NEW E, NEW e
    PROVE  \A s \in Seq(E) : IsInjective(s) =>
               /\ IsFiniteSet(Range(s)) /\ Cardinality(Range(s)) = Len(s)
               /\ Len(Filter(s, {e})) <= 1
<1> DEFINE Counted(s) == /\ IsFiniteSet(Range(s)) /\ Cardinality(Range(s)) = Len(s)
                         /\ Len(Filter(s, {e})) <= 1
           P == {s \in Seq(E) : IsInjective(s) => Counted(s)}
<1>1. <<>> \in P
  <2>1. Filter(<<>>, {e}) = <<>> /\ <<>> \in Seq(E) /\ Len(<<>>) = 0 /\ Range(<<>>) = {}
    BY FilterIs DEF Range
  <2>2. Counted(<<>>)
    BY <2>1, FS_EmptySet
  <2>3. QED
    BY <2>1, <2>2
<1>2. ASSUME NEW s \in Seq(E), s \in P, NEW x \in E PROVE Append(s, x) \in P
  <2> DEFINE t == Append(s, x)
             N == Len(s)
  <2>1. /\ t \in Seq(E) /\ Range(t) = Range(s) \cup {x} /\ Len(t) = N + 1 /\ N \in Nat
        /\ DOMAIN s = 1 .. N /\ DOMAIN t = 1 .. N + 1
        /\ t[N + 1] = x /\ \A i \in 1 .. N : t[i] = s[i]
    BY RangeIs, AppendProperties, LenProperties
  <2>2. Range(s) = {s[i] : i \in 1 .. N}
    BY <2>1 DEF Range
  <2>3. SUFFICES ASSUME IsInjective(t) PROVE Counted(t)
    BY <2>1
  <2> HIDE DEF t
  <2>4. \A i, j \in 1 .. N + 1 : t[i] = t[j] => i = j
    BY <2>1, <2>3 DEF IsInjective
  <2>5. IsInjective(s)
    <3>1. ASSUME NEW i \in 1 .. N, NEW j \in 1 .. N, s[i] = s[j] PROVE i = j
      <4>1. t[i] = t[j] /\ i \in 1 .. N + 1 /\ j \in 1 .. N + 1
        BY <2>1, <3>1
      <4>2. QED
        BY <2>4, <4>1
    <3>2. QED
      BY <2>1, <3>1 DEF IsInjective
  <2>6. x \notin Range(s)
    <3>1. SUFFICES ASSUME NEW i \in 1 .. N, s[i] = x PROVE FALSE
      BY <2>2
    <3>2. t[i] = t[N + 1] /\ i \in 1 .. N + 1 /\ N + 1 \in 1 .. N + 1
      BY <2>1, <3>1
    <3>3. i = N + 1
      BY <2>4, <3>2
    <3>4. QED
      BY <2>1, <3>3
  <2>7. Counted(s)
    BY <1>2, <2>5
  <2>8. IsFiniteSet(Range(t)) /\ Cardinality(Range(t)) = Len(t)
    <3>1. /\ IsFiniteSet(Range(s) \cup {x})
          /\ Cardinality(Range(s) \cup {x}) = Cardinality(Range(s)) + 1
      BY <2>6, <2>7, FS_AddElement
    <3>2. QED
      BY <2>1, <2>7, <3>1
  <2>9. Len(Filter(t, {e})) <= 1
    <3>1. Filter(t, {e}) = IF x = e THEN Append(Filter(s, {e}), x) ELSE Filter(s, {e})
      <4>1. Filter(Append(s, x), {e}) = FilterStep(Filter(s, {e}), x, {e})
        BY FilterIs
      <4>2. QED
        BY <4>1 DEF t, FilterStep
    <3>2. CASE x = e
      <4>1. Filter(s, {e}) = <<>>
        <5>1. Range(s) \cap {e} = {}
          BY <2>6, <3>2
        <5>2. QED
          BY <5>1, FilterKeeps
      <4>2. Filter(t, {e}) = Append(Filter(s, {e}), x)
        BY <3>1, <3>2
      <4>3. Filter(t, {e}) = Append(<<>>, x)
        BY Zenon, <4>1, <4>2
      <4>4. Len(Append(<<>>, x)) <= 1
        OBVIOUS
      <4>5. QED
        BY Zenon, <4>3, <4>4
    <3>3. CASE x # e
      BY <2>7, <3>1, <3>3
    <3>4. QED
      BY <3>2, <3>3
  <2>10. QED
    BY <2>8, <2>9
<1>3. \A s \in Seq(E) : s \in P
  <2> HIDE DEF P
  <2>1. QED
    BY <1>1, <1>2, SequenceInduction
<1>4. QED
  BY <1>3

-----------------------------------------------------------------------------
\* Words in lower case and whitespace.
PlainGraphemes == Letters \cup Spaces

PlainWords == Seq(Letters) \ {<<>>}

PlainState == [word : Seq(Letters), done : Seq(PlainWords)]

LEMMA PlainIs ==
    /\ Letters \subseteq Graphemes /\ PlainGraphemes \subseteq Graphemes
    /\ Letters \cap Spaces = {} /\ Letters \cap Capitals = {} /\ Letters \subseteq WordLike
    /\ Letters \cap Digits = {} /\ Letters \cap Connectors = {} /\ Letters \cap Symbols = {}
    /\ PlainGraphemes \cap Links = {} /\ Spaces \cap WordLike = {} /\ Spaces \subseteq Invisible
BY GraphemesAre, ClassesAreDisjoint, InvisibleIs, TextAssumption DEF PlainGraphemes, WordLike

LEMMA PlainFlushed ==
    ASSUME NEW v \in PlainState
    PROVE  Flushed(v) \in Seq(PlainWords)
<1>1. v.word \in Seq(Letters) /\ v.done \in Seq(PlainWords)
  BY DEF PlainState
<1>2. CASE v.word = <<>>
  BY <1>1, <1>2 DEF Flushed
<1>3. CASE v.word # <<>>
  <2>1. v.word \in PlainWords
    BY <1>1, <1>3 DEF PlainWords
  <2>2. Append(v.done, v.word) \in Seq(PlainWords)
    BY <1>1, <2>1
  <2>3. QED
    BY <1>3, <2>2 DEF Flushed
<1>4. QED
  BY <1>2, <1>3

LEMMA PlainStep ==
    ASSUME NEW v \in PlainState, NEW g \in PlainGraphemes
    PROVE  TokenStep(v, g) = FieldStep(v, g) /\ FieldStep(v, g) \in PlainState
<1>1. v.word \in Seq(Letters) /\ v.done \in Seq(PlainWords) /\ Flushed(v) \in Seq(PlainWords)
  BY PlainFlushed DEF PlainState
<1>2. CASE g \in Spaces
  <2>1. g \notin WordLike /\ g \in Invisible
    BY <1>2, PlainIs
  <2>2. <<>> \in Seq(Letters)
    OBVIOUS
  <2>3. QED
    BY <1>1, <1>2, <2>1, <2>2 DEF TokenStep, FieldStep, PlainState
<1>3. CASE g \in Letters
  <2>1. g \in WordLike /\ g \notin Spaces /\ Lower(g) = g
    BY <1>3, PlainIs DEF Lower
  <2>2. Append(v.word, g) \in Seq(Letters)
    BY <1>1, <1>3
  <2>3. QED
    BY <1>1, <2>1, <2>2 DEF TokenStep, FieldStep, PlainState
<1>4. QED
  BY <1>2, <1>3 DEF PlainGraphemes

\* The tokens of such a text are its words, each of letters.
LEMMA PlainText ==
    \A s \in Seq(PlainGraphemes) : Tokens(s) = Fields(s) /\ Fields(s) \in Seq(PlainWords)
<1> DEFINE P == {s \in Seq(PlainGraphemes) : TokensEnd(s) = FieldsEnd(s) /\ FieldsEnd(s) \in PlainState}
<1>1. <<>> \in P
  <2>1. TokensEnd(<<>>) = NoWords /\ FieldsEnd(<<>>) = NoWords /\ <<>> \in Seq(PlainGraphemes)
    BY TokensEndIs, FieldsEndIs
  <2>2. NoWords \in PlainState
    BY DEF NoWords, PlainState
  <2>3. QED
    BY <2>1, <2>2
<1>2. ASSUME NEW s \in Seq(PlainGraphemes), s \in P, NEW x \in PlainGraphemes
      PROVE  Append(s, x) \in P
  <2>1. Append(s, x) \in Seq(PlainGraphemes)
    OBVIOUS
  <2>2. s \in Seq(Graphemes) /\ x \in Graphemes
    BY PlainIs
  <2>3. /\ TokensEnd(Append(s, x)) = TokenStep(TokensEnd(s), x)
        /\ FieldsEnd(Append(s, x)) = FieldStep(FieldsEnd(s), x)
    BY <2>2, TokensEndIs, FieldsEndIs
  <2>4. TokensEnd(s) = FieldsEnd(s) /\ FieldsEnd(s) \in PlainState
    BY <1>2
  <2>5. TokensEnd(Append(s, x)) = FieldsEnd(Append(s, x)) /\ FieldsEnd(Append(s, x)) \in PlainState
    BY <2>3, <2>4, PlainStep
  <2>6. QED
    BY <2>1, <2>5
<1>3. \A s \in Seq(PlainGraphemes) : s \in P
  <2> HIDE DEF P
  <2>1. QED
    BY <1>1, <1>2, SequenceInduction
<1>4. ASSUME NEW s \in Seq(PlainGraphemes)
      PROVE  Tokens(s) = Fields(s) /\ Fields(s) \in Seq(PlainWords)
  <2>1. TokensEnd(s) = FieldsEnd(s) /\ FieldsEnd(s) \in PlainState
    BY <1>3
  <2>2. Tokens(s) = Flushed(TokensEnd(s)) /\ Fields(s) = Flushed(FieldsEnd(s))
    BY DEF Tokens, TokensEnd, Fields, FieldsEnd
  <2>3. QED
    BY <2>1, <2>2, PlainFlushed
<1>5. QED
  BY <1>4

\* A word of letters is not taken for random, however it is spelled.
LEMMA PlainWordsAreNotRandom ==
    ASSUME NEW p \in PlainWords
    PROVE  ~LikelyRandom(p)
<1>1. p \in Seq(Letters) /\ Len(p) \in Nat /\ Len(p) # 0 /\ Range(p) \subseteq Letters
  <2>1. p \in Seq(Letters) /\ p # <<>>
    BY DEF PlainWords
  <2>2. QED
    BY <2>1, EmptySeq, RangeOfSeq
<1>2. Count(p, Letters \cup Capitals) = Len(p)
  <2>1. Filter(p, Letters \cup Capitals) = p
    BY <1>1, FilterKeeps
  <2>2. QED
    BY <2>1 DEF Count
<1>3. Len(Without(p, WordLike)) = 0
  <2>1. Without(p, WordLike) = <<>>
    <3>1. Range(p) \cap (Range(p) \ WordLike) = {}
      BY <1>1, PlainIs
    <3>2. QED
      BY <1>1, <3>1, FilterKeeps DEF Without
  <2>2. QED
    BY <2>1
<1>4. Range(p) \cap Digits = {} /\ Range(p) \cap Connectors = {} /\ Range(p) \cap Capitals = {}
  BY <1>1, PlainIs
<1>5. SUFFICES ASSUME LikelyRandom(p) PROVE FALSE
  OBVIOUS
<1>6. ~(Len(p) >= 2)
  BY <1>2, <1>5 DEF LikelyRandom
<1>7. 100 * Len(Without(p, WordLike)) > 18 * Len(p)
  BY <1>4, <1>5 DEF LikelyRandom
<1>8. QED
  BY <1>1, <1>3, <1>7

LEMMA ProductGrows ==
    ASSUME NEW k \in Nat, NEW m \in Nat, NEW n \in Nat, m <= n
    PROVE  k * m <= k * n
<1>1. PICK d \in Nat : n = m + d
  <2>1. n - m \in Nat /\ n = m + (n - m)
    OBVIOUS
  <2>2. QED
    BY <2>1
<1>2. k * n = k * m + k * d /\ k * d \in Nat /\ k * m \in Nat
  BY <1>1
<1>3. QED
  BY <1>2

LEMMA BoundsAre ==
    /\ DominanceShare \in Nat \ {0} /\ DominanceMin \in Nat /\ DominanceShare * DominanceMin > 100
    /\ DiversityShare \in 0 .. 100 /\ SymbolsShare \in Nat \ {0} /\ SymbolsMin \in Nat \ {0}
    /\ VarietyMin \in Nat /\ MaxLength \in Nat /\ MaxURLCount \in Nat /\ MaxTokenLength \in Nat
    /\ RandomTokenMinCount \in Nat \ {0} /\ FingerprintLength \in Nat \ {0}
<1>1. /\ DominanceShare * DominanceMin > 100 /\ DominanceShare \in 1 .. 100
      /\ DiversityShare \in 0 .. 100 /\ SymbolsShare \in 1 .. 100
  BY Zenon, TextAssumption
<1>2. {MaxLength, MaxURLCount, MaxTokenLength, RandomTextMinLength, RandomTokenMinLength,
       RandomTokenMinCount, MaxRepeatedCharRun, MaxRepeatedSymbolRun, MaxRepeatedTokenRun,
       DiversityMinTokens, DiversityMinLength, DominanceMin, VarietyMin, SymbolsMin,
       FingerprintLength} \subseteq Nat \ {0}
  BY Zenon, TextAssumption
<1>3. QED
  BY <1>1, <1>2

\* No share is reached by few words in lower case that all differ.
LEMMA FewWordsPass ==
    ASSUME NEW content \in Seq(PlainGraphemes), Len(content) < VarietyMin, IsInjective(Fields(content))
    PROVE  ShareVerdict(content) = "ok"
<1> DEFINE graphemes == Without(content, Spaces)
           tokens == Tokens(content)
           words == Filter(tokens, {t \in Range(tokens) : WordToken(t)})
           analyzed == IF Len(words) >= DominanceMin THEN words ELSE tokens
<1>1. /\ tokens \in Seq(PlainWords) /\ IsInjective(tokens) /\ Len(tokens) \in Nat
      /\ Range(tokens) \subseteq PlainWords
  <2>1. tokens = Fields(content) /\ tokens \in Seq(PlainWords)
    BY PlainText
  <2>2. QED
    BY <2>1, RangeOfSeq
<1>2. words = tokens
  <2>1. ASSUME NEW t \in Range(tokens) PROVE WordToken(t)
    <3>1. t \in Seq(Letters) /\ t # <<>>
      BY <1>1 DEF PlainWords
    <3>2. t[1] \in Letters
      BY <3>1, EmptySeq
    <3>3. QED
      BY <3>2, PlainIs DEF WordToken
  <2>2. Range(tokens) \subseteq {t \in Range(tokens) : WordToken(t)}
    BY <2>1
  <2>3. QED
    BY <1>1, <2>2, FilterKeeps
<1>3. /\ DominanceShare \in Nat \ {0} /\ DominanceMin \in Nat /\ DominanceShare * DominanceMin > 100
      /\ DiversityShare \in 0 .. 100 /\ SymbolsShare \in Nat \ {0} /\ SymbolsMin \in Nat \ {0}
      /\ VarietyMin \in Nat
  BY BoundsAre
<1>4. Dominant(analyzed) = {}
  <2>1. analyzed = tokens
    BY <1>2
  <2>2. SUFFICES ASSUME NEW t \in Range(tokens), Len(tokens) >= DominanceMin,
                        100 * Count(tokens, {t}) >= DominanceShare * Len(tokens)
                 PROVE  FALSE
    <3> HIDE DEF tokens, analyzed
    <3>1. QED
      BY <2>1 DEF Dominant
  <2>3. Count(tokens, {t}) <= 1 /\ Count(tokens, {t}) \in Nat
    <3>1. Len(Filter(tokens, {t})) <= 1
      BY <1>1, InjectiveCounts
    <3>2. Filter(tokens, {t}) \in Seq(PlainWords)
      BY <1>1, FilterIs
    <3>3. QED
      BY <3>1, <3>2 DEF Count
  <2>4. DominanceShare * DominanceMin <= DominanceShare * Len(tokens)
    BY <1>1, <1>3, <2>2, ProductGrows
  <2>5. DominanceShare * Len(tokens) \in Nat /\ DominanceShare * DominanceMin \in Nat
    BY <1>1, <1>3
  <2> DEFINE some == DominanceShare * DominanceMin
             all == DominanceShare * Len(tokens)
  <2>6. some > 100 /\ some <= all /\ some \in Nat /\ all \in Nat /\ 100 * Count(tokens, {t}) >= all
    BY <1>3, <2>2, <2>4, <2>5
  <2> HIDE DEF some, all
  <2>7. QED
    BY <2>3, <2>6
<1>5. ~(100 * Cardinality(Range(words)) < DiversityShare * Len(words))
  <2>1. Cardinality(Range(tokens)) = Len(tokens)
    BY <1>1, InjectiveCounts
  <2>2. Len(tokens) * DiversityShare <= Len(tokens) * 100
    BY <1>1, <1>3, ProductGrows
  <2>3. QED
    BY <1>1, <1>2, <1>3, <2>1, <2>2
<1>6. /\ graphemes \in Seq(PlainGraphemes) /\ Len(graphemes) <= Len(content)
      /\ Range(graphemes) \subseteq PlainGraphemes \ Spaces
  <2>1. graphemes = Filter(content, PlainGraphemes \ Spaces)
    BY WithoutIs
  <2>2. graphemes \in Seq(PlainGraphemes)
    BY <2>1, FilterIs
  <2>3. Len(graphemes) <= Len(content) /\ Range(graphemes) \subseteq Range(content) \cap (PlainGraphemes \ Spaces)
    BY <2>1, FilterKeeps
  <2>4. QED
    BY <2>2, <2>3
<1>7. ~(Len(graphemes) >= VarietyMin)
  BY <1>3, <1>6
<1>8. ~(/\ Len(graphemes) >= SymbolsMin
        /\ 100 * Count(graphemes, Symbols) >= SymbolsShare * Len(graphemes))
  <2>1. Count(graphemes, Symbols) = 0
    <3>1. Range(graphemes) \cap Symbols = {}
      BY <1>6, PlainIs DEF PlainGraphemes
    <3>2. Filter(graphemes, Symbols) = <<>>
      BY <1>6, <3>1, FilterKeeps
    <3>3. QED
      BY <3>2 DEF Count
  <2>2. SUFFICES ASSUME Len(graphemes) >= SymbolsMin PROVE ~(0 >= SymbolsShare * Len(graphemes))
    BY <2>1
  <2>3. SymbolsShare * 1 <= SymbolsShare * Len(graphemes)
    BY <1>3, <1>6, <2>2, ProductGrows
  <2>4. SymbolsShare * Len(graphemes) \in Nat
    BY <1>3, <1>6
  <2>5. QED
    BY <1>3, <2>3, <2>4
<1> HIDE DEF graphemes, tokens, words, analyzed
<1>9. QED
  BY <1>4, <1>5, <1>7, <1>8 DEF ShareVerdict, graphemes, tokens, words, analyzed

LEMMA DifferentWordsAreFine ==
    text \in Seq(Graphemes) => DifferentWordsPass
<1> DEFINE content == Trim(text)
           pieces == Fields(content)
<1>1. SUFFICES ASSUME text \in Seq(Graphemes), content # <<>>,
                      Len(content) <= MaxLength, Len(content) < VarietyMin,
                      Range(content) \subseteq Letters \cup Spaces,
                      \A i \in DOMAIN pieces : Len(pieces[i]) <= MaxTokenLength,
                      IsInjective(pieces), RunVerdict(content) = "ok"
               PROVE  Verdict(text) = "ok"
  BY DEF DifferentWordsPass
<1>2. content \in Seq(Graphemes)
  BY <1>1, TrimmedType
<1>3. content \in Seq(PlainGraphemes)
  <2> HIDE DEF content
  <2>1. /\ Len(content) \in Nat /\ content = [i \in 1 .. Len(content) |-> content[i]]
        /\ DOMAIN content = 1 .. Len(content)
    BY <1>2
  <2>2. ASSUME NEW i \in 1 .. Len(content) PROVE content[i] \in PlainGraphemes
    <3>1. content[i] \in Range(content)
      BY <2>1 DEF Range
    <3>2. QED
      BY <1>1, <3>1 DEF PlainGraphemes
  <2>3. QED
    BY <2>1, <2>2
<1>4. pieces \in Seq(PlainWords) /\ Range(pieces) \subseteq PlainWords /\ Len(pieces) \in Nat
  <2>1. pieces \in Seq(PlainWords)
    BY <1>3, PlainText
  <2>2. QED
    BY <2>1, RangeOfSeq
<1>5. ~(Count(content, Links) > MaxURLCount)
  <2>1. Range(content) \cap Links = {}
    BY <1>1, PlainIs DEF PlainGraphemes
  <2>2. Filter(content, Links) = <<>>
    BY <1>3, <2>1, FilterKeeps
  <2>3. Count(content, Links) = 0
    BY <2>2 DEF Count
  <2>4. MaxURLCount \in Nat
    BY BoundsAre
  <2>5. QED
    BY <2>3, <2>4
<1>6. ~(Len(content) > MaxLength)
  <2>1. Len(content) \in Nat /\ MaxLength \in Nat
    BY <1>2, BoundsAre
  <2>2. QED
    BY <1>1, <2>1
<1>7. ~\E i \in DOMAIN pieces : Len(pieces[i]) > MaxTokenLength
  <2>1. SUFFICES ASSUME NEW i \in DOMAIN pieces PROVE ~(Len(pieces[i]) > MaxTokenLength)
    OBVIOUS
  <2>2. pieces[i] \in PlainWords
    BY <1>4
  <2>3. Len(pieces[i]) \in Nat /\ MaxTokenLength \in Nat
    BY <2>2, BoundsAre DEF PlainWords
  <2>4. Len(pieces[i]) <= MaxTokenLength
    BY <1>1
  <2>5. QED
    BY <2>3, <2>4
<1>8. ~(Count(pieces, {p \in Range(pieces) : LikelyRandom(p)}) >= RandomTokenMinCount)
  <2>1. {p \in Range(pieces) : LikelyRandom(p)} = {}
    BY <1>4, PlainWordsAreNotRandom
  <2>2. Filter(pieces, {}) = <<>>
    BY <1>4, FilterKeeps
  <2>3. Count(pieces, {}) = 0
    BY <2>2 DEF Count
  <2>4. RandomTokenMinCount \in Nat \ {0}
    BY BoundsAre
  <2>5. QED
    BY <2>1, <2>3, <2>4
<1>9. ShareVerdict(content) = "ok"
  BY <1>1, <1>3, FewWordsPass
<1> HIDE DEF content, pieces
<1>10. QED
  BY <1>1, <1>5, <1>6, <1>7, <1>8, <1>9 DEF Verdict, content, pieces

-----------------------------------------------------------------------------
\* What a fingerprint is written with.
Zero == "0"
Gap == " "
Address == "<url>"

Written == Graphemes \cup {Zero, Gap, Address}

PassState == [inside : BOOLEAN, out : Seq(Written)]

Started == [inside |-> FALSE, out |-> <<>>]

LEMMA StartedIs == Started \in PassState
BY DEF Started, PassState

LEMMA PiecesAppend ==
    ASSUME NEW E, NEW s \in Seq(E), NEW a \in E, NEW b \in E, NEW c \in E
    PROVE  /\ s \o <<a>> = Append(s, a)
           /\ s \o <<a, b>> = Append(Append(s, a), b)
           /\ s \o <<a, b, c>> = Append(Append(Append(s, a), b), c)
<1>1. s \o <<a>> = Append(s, a)
  OBVIOUS
<1>2. s \o <<a, b>> = Append(Append(s, a), b)
  OBVIOUS
<1>3. s \o <<a, b, c>> = Append(Append(Append(s, a), b), c)
  OBVIOUS
<1>4. QED
  BY <1>1, <1>2, <1>3

\* What the link, where a grapheme stands in one, becomes.
URLStep(state, g) ==
    IF state.inside /\ g \notin Spaces THEN state
    ELSE IF g \in Links
    THEN [inside |-> TRUE, out |-> state.out \o <<Gap, Address, Gap>>]
    ELSE [inside |-> FALSE, out |-> Append(state.out, g)]

RunsStep(state, g, set, replacement) ==
    IF g \notin set THEN [inside |-> FALSE, out |-> Append(state.out, g)]
    ELSE [inside |-> TRUE, out |-> IF state.inside THEN state.out ELSE Append(state.out, replacement)]

URLEnd(s) == Through(URLStep, Started, s)

RunsEnd(s, set, replacement) ==
    LET Step(state, g) == RunsStep(state, g, set, replacement) IN Through(Step, Started, s)

LEMMA PassesEnd ==
    ASSUME NEW s
    PROVE  /\ ReplaceURLs(s) = URLEnd(s).out
           /\ \A set, replacement : ReplaceRuns(s, set, replacement) = RunsEnd(s, set, replacement).out
<1>1. ReplaceURLs(s) = URLEnd(s).out
  BY DEF ReplaceURLs, URLEnd, Through, URLStep, Started, Gap, Address
<1>2. \A set, replacement : ReplaceRuns(s, set, replacement) = RunsEnd(s, set, replacement).out
  BY DEF ReplaceRuns, RunsEnd, Through, RunsStep, Started
<1>3. QED
  BY <1>1, <1>2

\* ReplaceURLs, one grapheme more at a time.
LEMMA URLEndIs ==
    /\ URLEnd(<<>>) = Started
    /\ \A s \in Seq(Graphemes) :
         /\ URLEnd(s) \in PassState
         /\ \A e \in Graphemes : URLEnd(Append(s, e)) = URLStep(URLEnd(s), e)
<1> DEFINE T == PassState
           step == [v \in T |-> [e \in Graphemes |-> URLStep(v, e)]]
           end == [s \in Seq(Graphemes) |-> URLEnd(s)]
<1>1. Started \in T /\ \A v \in T : \A e \in Graphemes : URLStep(v, e) \in T
  <2>1. ASSUME NEW v \in PassState, NEW e \in Graphemes PROVE URLStep(v, e) \in PassState
    <3>1. v.out \in Seq(Written) /\ e \in Written /\ Gap \in Written /\ Address \in Written
      BY DEF PassState, Written
    <3>2. /\ Append(v.out, e) \in Seq(Written)
          /\ Append(Append(Append(v.out, Gap), Address), Gap) \in Seq(Written)
      BY <3>1
    <3>4. v.out \o <<Gap, Address, Gap>> = Append(Append(Append(v.out, Gap), Address), Gap)
      BY <3>1, PiecesAppend
    <3>3. QED
      BY <3>2, <3>4 DEF URLStep, PassState
  <2>2. QED
    BY <2>1, StartedIs
<1> HIDE DEF T
<1>2. step \in ElementSteps(T, Graphemes)
  BY <1>1 DEF ElementSteps
<1>3. ASSUME NEW s \in Seq(Graphemes)
      PROVE  \E f : IsPass(f, T, Started, s, step) /\ end[s] = f[Len(s)]
  <2> DEFINE N == Len(s)
             Value(v, n) == IF n = 0 THEN Started ELSE URLStep(v[n - 1], s[n])
             g == CHOOSE v : v = [n \in 0 .. N |-> Value(v, n)]
  <2>1. N \in Nat /\ \A n \in 1 .. N : s[n] \in Graphemes
    OBVIOUS
  <2>2. PICK f : IsPass(f, T, Started, s, step)
    <3> HIDE DEF step
    <3>1. QED
      BY <1>1, <1>2, PassExists
  <2>3. f \in [0 .. N -> T] /\ f[0] = Started
    BY <2>2 DEF IsPass
  <2>4. ASSUME NEW v, NEW n \in 1 .. N, v[n - 1] \in T
        PROVE  Value(v, n) = step[v[n - 1]][s[n]]
    BY <2>1, <2>4
  <2>5. ASSUME NEW n \in 0 .. N PROVE f[n] = Value(f, n)
    <3>1. CASE n = 0
      BY <2>3, <3>1
    <3>2. CASE n # 0
      <4>1. n \in 1 .. N /\ f[n - 1] \in T
        BY <2>1, <2>3, <3>2
      <4>2. f[n] = step[f[n - 1]][s[n]]
        BY <2>2, <4>1 DEF IsPass
      <4>3. QED
        BY <2>4, <4>1, <4>2
    <3>3. QED
      BY <3>1, <3>2
  <2>6. end[s] = g[N]
    BY DEF URLEnd, Through
  <2> HIDE DEF Value, step, N
  <2>7. f = [n \in 0 .. N |-> Value(f, n)]
    BY <2>3, <2>5
  <2>8. g = [n \in 0 .. N |-> Value(g, n)]
    BY <2>7
  <2> HIDE DEF g
  <2>9. \A n \in 0 .. N : g[n] = Value(g, n)
    BY <2>8
  <2>10. TakesSteps(g, T, Started, s, step)
    BY <2>1, <2>4, <2>9 DEF TakesSteps, Value, N
  <2>11. Len(s) \in Nat
    BY <2>1 DEF N
  <2>12. g[Len(s)] = f[Len(s)]
    BY <2>2, <2>10, <2>11, PassIsDetermined
  <2>13. QED
    BY <2>2, <2>6, <2>12 DEF N
<1>4. Ends(end, Graphemes, T, Started, step)
  <2> HIDE DEF end, step
  <2>1. QED
    BY <1>1, <1>2, <1>3, PassEnds
<1>5. /\ end[<<>>] = Started
      /\ \A s \in Seq(Graphemes) : end[s] \in T /\ \A e \in Graphemes : end[Append(s, e)] = step[end[s]][e]
  <2> HIDE DEF end, step
  <2>1. QED
    BY <1>4 DEF Ends
<1>6. QED
  <2>1. URLEnd(<<>>) = Started
    BY <1>5
  <2>2. ASSUME NEW s \in Seq(Graphemes), NEW e \in Graphemes
        PROVE  URLEnd(Append(s, e)) = URLStep(URLEnd(s), e)
    <3>1. Append(s, e) \in Seq(Graphemes)
      OBVIOUS
    <3>2. QED
      BY <1>5, <3>1
  <2>3. QED
    BY <1>5, <2>1, <2>2 DEF T

\* ReplaceRuns, one element more at a time.
LEMMA RunsEndIs ==
    ASSUME NEW set, NEW replacement \in Written
    PROVE  /\ RunsEnd(<<>>, set, replacement) = Started
           /\ \A s \in Seq(Written) :
                /\ RunsEnd(s, set, replacement) \in PassState
                /\ \A e \in Written : RunsEnd(Append(s, e), set, replacement) = RunsStep(RunsEnd(s, set, replacement), e, set, replacement)
<1> DEFINE T == PassState
           step == [v \in T |-> [e \in Written |-> RunsStep(v, e, set, replacement)]]
           end == [s \in Seq(Written) |-> RunsEnd(s, set, replacement)]
<1>1. Started \in T /\ \A v \in T : \A e \in Written : RunsStep(v, e, set, replacement) \in T
  <2>1. ASSUME NEW v \in PassState, NEW e \in Written PROVE RunsStep(v, e, set, replacement) \in PassState
    <3>1. v.out \in Seq(Written)
      BY DEF PassState
    <3>2. Append(v.out, e) \in Seq(Written) /\ Append(v.out, replacement) \in Seq(Written)
      BY <3>1
    <3>3. QED
      BY <3>1, <3>2 DEF RunsStep, PassState
  <2>2. QED
    BY <2>1, StartedIs
<1> HIDE DEF T
<1>2. step \in ElementSteps(T, Written)
  BY <1>1 DEF ElementSteps
<1>3. ASSUME NEW s \in Seq(Written)
      PROVE  \E f : IsPass(f, T, Started, s, step) /\ end[s] = f[Len(s)]
  <2> DEFINE N == Len(s)
             Value(v, n) == IF n = 0 THEN Started ELSE RunsStep(v[n - 1], s[n], set, replacement)
             g == CHOOSE v : v = [n \in 0 .. N |-> Value(v, n)]
  <2>1. N \in Nat /\ \A n \in 1 .. N : s[n] \in Written
    OBVIOUS
  <2>2. PICK f : IsPass(f, T, Started, s, step)
    <3> HIDE DEF step
    <3>1. QED
      BY <1>1, <1>2, PassExists
  <2>3. f \in [0 .. N -> T] /\ f[0] = Started
    BY <2>2 DEF IsPass
  <2>4. ASSUME NEW v, NEW n \in 1 .. N, v[n - 1] \in T
        PROVE  Value(v, n) = step[v[n - 1]][s[n]]
    BY <2>1, <2>4
  <2>5. ASSUME NEW n \in 0 .. N PROVE f[n] = Value(f, n)
    <3>1. CASE n = 0
      BY <2>3, <3>1
    <3>2. CASE n # 0
      <4>1. n \in 1 .. N /\ f[n - 1] \in T
        BY <2>1, <2>3, <3>2
      <4>2. f[n] = step[f[n - 1]][s[n]]
        BY <2>2, <4>1 DEF IsPass
      <4>3. QED
        BY <2>4, <4>1, <4>2
    <3>3. QED
      BY <3>1, <3>2
  <2>6. end[s] = g[N]
    BY DEF RunsEnd, Through
  <2> HIDE DEF Value, step, N
  <2>7. f = [n \in 0 .. N |-> Value(f, n)]
    BY <2>3, <2>5
  <2>8. g = [n \in 0 .. N |-> Value(g, n)]
    BY <2>7
  <2> HIDE DEF g
  <2>9. \A n \in 0 .. N : g[n] = Value(g, n)
    BY <2>8
  <2>10. TakesSteps(g, T, Started, s, step)
    BY <2>1, <2>4, <2>9 DEF TakesSteps, Value, N
  <2>11. Len(s) \in Nat
    BY <2>1 DEF N
  <2>12. g[Len(s)] = f[Len(s)]
    BY <2>2, <2>10, <2>11, PassIsDetermined
  <2>13. QED
    BY <2>2, <2>6, <2>12 DEF N
<1>4. Ends(end, Written, T, Started, step)
  <2> HIDE DEF end, step
  <2>1. QED
    BY <1>1, <1>2, <1>3, PassEnds
<1>5. /\ end[<<>>] = Started
      /\ \A s \in Seq(Written) : end[s] \in T /\ \A e \in Written : end[Append(s, e)] = step[end[s]][e]
  <2> HIDE DEF end, step
  <2>1. QED
    BY <1>4 DEF Ends
<1>6. QED
  <2>1. RunsEnd(<<>>, set, replacement) = Started
    BY <1>5
  <2>2. ASSUME NEW s \in Seq(Written), NEW e \in Written
        PROVE  RunsEnd(Append(s, e), set, replacement) = RunsStep(RunsEnd(s, set, replacement), e, set, replacement)
    <3>1. Append(s, e) \in Seq(Written)
      OBVIOUS
    <3>2. QED
      BY <1>5, <3>1
  <2>3. QED
    BY <1>5, <2>1, <2>2 DEF T

-----------------------------------------------------------------------------
\* What is none of the replaced sets, and what the replacements are.
LEMMA WrittenClasses ==
    /\ Digits \subseteq Written /\ Noise \subseteq Written /\ White \subseteq Written
    /\ Signs \subseteq Written /\ Zero \in Written /\ Gap \in Written /\ Address \in Written
    /\ Digits \cap Noise = {} /\ Digits \cap White = {} /\ Noise \cap White = {}
    /\ Gap \in White /\ Zero \notin Noise /\ Zero \notin White
    /\ Address \notin Digits /\ Address \notin Noise /\ Address \notin White
    /\ Signs \cap (Digits \cup Noise \cup White) = {}
    /\ Zero \notin Signs /\ Gap \notin Signs /\ Address \notin Signs
<1>1. /\ {Zero, Gap, Address} \cap (Letters \cup Numbers \cup Symbols \cup Marks \cup Links) = {}
      /\ {Gap, Address} \cap Digits = {} /\ {Zero, Address} \cap Spaces = {}
  BY Zenon, TextAssumption DEF Zero, Gap, Address
<1>2. Zero # Gap /\ Zero # Address /\ Gap # Address
  BY Zenon DEF Zero, Gap, Address
<1>3. White = Spaces \cup {Gap}
  BY Zenon DEF White, Gap
<1>4. Angles \subseteq Symbols
  BY Zenon, TextAssumption
<1>5. Angles \cap Noise = {} /\ Noise \subseteq Symbols \cup Marks
  BY <1>4, ClassesAreDisjoint DEF Noise
<1>6. Signs \subseteq Letters \cup Numbers \cup Symbols /\ Signs \cap Noise = {}
  BY <1>4, <1>5, ClassesAreDisjoint DEF Signs
<1>7. QED
  BY <1>1, <1>2, <1>3, <1>5, <1>6, GraphemesAre, ClassesAreDisjoint DEF Written

DigitsEnd(s) == RunsEnd(s, Digits, Zero)
NoiseEnd(s) == RunsEnd(DigitsEnd(s).out, Noise, Gap)
WhiteEnd(s) == RunsEnd(NoiseEnd(s).out, White, Gap)

\* What the three passes over runs are inside of, and the text so far.
Condensed(s) ==
    [digit |-> DigitsEnd(s).inside, noise |-> NoiseEnd(s).inside,
     white |-> WhiteEnd(s).inside, out |-> WhiteEnd(s).out]

CondensedState == [digit : BOOLEAN, noise : BOOLEAN, white : BOOLEAN, out : Seq(Written)]

Uncondensed == [digit |-> FALSE, noise |-> FALSE, white |-> FALSE, out |-> <<>>]

Gapped(v) == IF v.white THEN v.out ELSE Append(v.out, Gap)

CondenseStep(v, x) ==
    IF x \in Digits
    THEN IF v.digit THEN v
         ELSE [digit |-> TRUE, noise |-> FALSE, white |-> FALSE, out |-> Append(v.out, Zero)]
    ELSE IF x \in Noise
    THEN [digit |-> FALSE, noise |-> TRUE, white |-> IF v.noise THEN v.white ELSE TRUE,
          out |-> IF v.noise THEN v.out ELSE Gapped(v)]
    ELSE IF x \in White
    THEN [digit |-> FALSE, noise |-> FALSE, white |-> TRUE, out |-> Gapped(v)]
    ELSE [digit |-> FALSE, noise |-> FALSE, white |-> FALSE, out |-> Append(v.out, x)]

LEMMA CondenseType ==
    ASSUME NEW v \in CondensedState, NEW x \in Written
    PROVE  CondenseStep(v, x) \in CondensedState
<1>1. v.out \in Seq(Written) /\ v.white \in BOOLEAN
  BY DEF CondensedState
<1>2. Append(v.out, x) \in Seq(Written) /\ Append(v.out, Zero) \in Seq(Written) /\ Gapped(v) \in Seq(Written)
  BY <1>1, WrittenClasses DEF Gapped
<1>3. QED
  BY <1>1, <1>2 DEF CondenseStep, CondensedState

\* One pass over runs: an element that it keeps, the first of a run, another one of it.
LEMMA RunsKeep ==
    ASSUME NEW set, NEW replacement \in Written, NEW s \in Seq(Written), NEW x \in Written, x \notin set
    PROVE  RunsEnd(Append(s, x), set, replacement)
               = [inside |-> FALSE, out |-> Append(RunsEnd(s, set, replacement).out, x)]
BY RunsEndIs DEF RunsStep

LEMMA RunsReplace ==
    ASSUME NEW set, NEW replacement \in Written, NEW s \in Seq(Written), NEW x \in Written, x \in set,
           ~RunsEnd(s, set, replacement).inside
    PROVE  RunsEnd(Append(s, x), set, replacement)
               = [inside |-> TRUE, out |-> Append(RunsEnd(s, set, replacement).out, replacement)]
BY RunsEndIs DEF RunsStep

LEMMA RunsContinue ==
    ASSUME NEW set, NEW replacement \in Written, NEW s \in Seq(Written), NEW x \in Written, x \in set,
           RunsEnd(s, set, replacement).inside
    PROVE  RunsEnd(Append(s, x), set, replacement) = RunsEnd(s, set, replacement)
<1> DEFINE end == RunsEnd(s, set, replacement)
<1>1. end \in PassState /\ RunsEnd(Append(s, x), set, replacement) = RunsStep(end, x, set, replacement)
  BY RunsEndIs
<1> HIDE DEF end
<1>2. end = [inside |-> end.inside, out |-> end.out] /\ end.inside \in BOOLEAN
  BY <1>1 DEF PassState
<1>3. end.inside
  BY DEF end
<1>4. RunsStep(end, x, set, replacement) = [inside |-> TRUE, out |-> end.out]
  BY <1>3 DEF RunsStep
<1>5. end = [inside |-> TRUE, out |-> end.out]
  BY <1>2, <1>3
<1>6. QED
  BY <1>1, <1>4, <1>5 DEF end

LEMMA RunsType ==
    ASSUME NEW set, NEW replacement \in Written, NEW s \in Seq(Written)
    PROVE  RunsEnd(s, set, replacement) \in PassState /\ RunsEnd(s, set, replacement).out \in Seq(Written)
<1> DEFINE end == RunsEnd(s, set, replacement)
<1>1. end \in PassState
  BY RunsEndIs
<1> HIDE DEF end
<1>2. end.out \in Seq(Written)
  BY <1>1 DEF PassState
<1>3. QED
  BY <1>1, <1>2 DEF end

\* The state of three passes, from the states of each.
Packed(d, n, w) == [digit |-> d.inside, noise |-> n.inside, white |-> w.inside, out |-> w.out]

LEMMA CondensedType ==
    ASSUME NEW s \in Seq(Written)
    PROVE  /\ DigitsEnd(s) \in PassState /\ DigitsEnd(s).out \in Seq(Written)
           /\ NoiseEnd(s) \in PassState /\ NoiseEnd(s).out \in Seq(Written)
           /\ WhiteEnd(s) \in PassState /\ WhiteEnd(s).out \in Seq(Written)
           /\ Condensed(s) \in CondensedState
           /\ Condensed(s) = Packed(DigitsEnd(s), NoiseEnd(s), WhiteEnd(s))
<1>1. DigitsEnd(s) \in PassState /\ DigitsEnd(s).out \in Seq(Written)
  BY WrittenClasses, RunsType DEF DigitsEnd
<1>2. NoiseEnd(s) \in PassState /\ NoiseEnd(s).out \in Seq(Written)
  BY <1>1, WrittenClasses, RunsType DEF NoiseEnd
<1>3. WhiteEnd(s) \in PassState /\ WhiteEnd(s).out \in Seq(Written)
  BY <1>2, WrittenClasses, RunsType DEF WhiteEnd
<1>4. DigitsEnd(s).inside \in BOOLEAN /\ NoiseEnd(s).inside \in BOOLEAN /\ WhiteEnd(s).inside \in BOOLEAN
  BY <1>1, <1>2, <1>3 DEF PassState
<1>5. Condensed(s) \in CondensedState
  BY <1>3, <1>4 DEF Condensed, CondensedState
<1>6. QED
  BY <1>1, <1>2, <1>3, <1>5 DEF Condensed, Packed

LEMMA CondensedStart == Condensed(<<>>) = Uncondensed
<1>1. \A set : \A replacement \in Written : RunsEnd(<<>>, set, replacement) = Started
  BY RunsEndIs
<1>2. Started.out = <<>> /\ Started.inside = FALSE
  BY DEF Started
<1>3. DigitsEnd(<<>>) = Started
  BY <1>1, WrittenClasses DEF DigitsEnd
<1>4. NoiseEnd(<<>>) = Started
  <2>1. DigitsEnd(<<>>).out = <<>>
    BY Zenon, <1>2, <1>3
  <2>2. RunsEnd(<<>>, Noise, Gap) = Started
    BY <1>1, WrittenClasses
  <2>3. QED
    BY Zenon, <2>1, <2>2 DEF NoiseEnd
<1>5. WhiteEnd(<<>>) = Started
  <2>1. NoiseEnd(<<>>).out = <<>>
    BY Zenon, <1>2, <1>4
  <2>2. RunsEnd(<<>>, White, Gap) = Started
    BY <1>1, WrittenClasses
  <2>3. QED
    BY Zenon, <2>1, <2>2 DEF WhiteEnd
<1>6. QED
  BY Zenon, <1>2, <1>3, <1>4, <1>5 DEF Condensed, Uncondensed

\* What one pass over runs makes of one element more.
LEMMA RunsMore ==
    ASSUME NEW set, NEW replacement \in Written, NEW s \in Seq(Written), NEW x \in Written
    PROVE  LET end == RunsEnd(s, set, replacement)
               more == RunsEnd(Append(s, x), set, replacement)
           IN  /\ x \notin set => more = [inside |-> FALSE, out |-> Append(end.out, x)]
               /\ x \in set /\ ~end.inside => more = [inside |-> TRUE, out |-> Append(end.out, replacement)]
               /\ x \in set /\ end.inside => more = end
<1> DEFINE end == RunsEnd(s, set, replacement)
           more == RunsEnd(Append(s, x), set, replacement)
<1>1. x \notin set => more = [inside |-> FALSE, out |-> Append(end.out, x)]
  BY RunsKeep
<1>2. x \in set /\ ~end.inside => more = [inside |-> TRUE, out |-> Append(end.out, replacement)]
  BY RunsReplace
<1>3. x \in set /\ end.inside => more = end
  BY RunsContinue
<1>4. QED
  BY <1>1, <1>2, <1>3

LEMMA InsideIs ==
    ASSUME NEW v \in PassState, v.inside
    PROVE  v = [inside |-> TRUE, out |-> v.out]
<1>1. v = [inside |-> v.inside, out |-> v.out] /\ v.inside \in BOOLEAN
  BY DEF PassState
<1>2. QED
  BY <1>1

LEMMA DigitsMore ==
    ASSUME NEW s \in Seq(Written), NEW x \in Written
    PROVE  LET t == Append(s, x) IN
           /\ x \notin Digits => DigitsEnd(t) = [inside |-> FALSE, out |-> Append(DigitsEnd(s).out, x)]
           /\ x \in Digits /\ ~DigitsEnd(s).inside =>
                  DigitsEnd(t) = [inside |-> TRUE, out |-> Append(DigitsEnd(s).out, Zero)]
           /\ x \in Digits /\ DigitsEnd(s).inside => DigitsEnd(t) = DigitsEnd(s)
<1>1. Zero \in Written
  BY WrittenClasses
<1>2. QED
  BY <1>1, RunsMore DEF DigitsEnd

LEMMA NoiseMore ==
    ASSUME NEW s \in Seq(Written), NEW t, NEW x \in Written, DigitsEnd(t).out = Append(DigitsEnd(s).out, x)
    PROVE  /\ x \notin Noise => NoiseEnd(t) = [inside |-> FALSE, out |-> Append(NoiseEnd(s).out, x)]
           /\ x \in Noise /\ ~NoiseEnd(s).inside =>
                  NoiseEnd(t) = [inside |-> TRUE, out |-> Append(NoiseEnd(s).out, Gap)]
           /\ x \in Noise /\ NoiseEnd(s).inside => NoiseEnd(t) = NoiseEnd(s)
<1> DEFINE u == DigitsEnd(s).out
<1>1. Gap \in Written /\ u \in Seq(Written)
  BY WrittenClasses, CondensedType
<1>2. NoiseEnd(t) = RunsEnd(Append(u, x), Noise, Gap) /\ NoiseEnd(s) = RunsEnd(u, Noise, Gap)
  BY Zenon DEF NoiseEnd
<1> HIDE DEF u
<1>3. x \notin Noise => NoiseEnd(t) = [inside |-> FALSE, out |-> Append(NoiseEnd(s).out, x)]
  BY <1>1, <1>2, RunsKeep
<1>4. x \in Noise /\ ~NoiseEnd(s).inside => NoiseEnd(t) = [inside |-> TRUE, out |-> Append(NoiseEnd(s).out, Gap)]
  BY <1>1, <1>2, RunsReplace
<1>5. x \in Noise /\ NoiseEnd(s).inside => NoiseEnd(t) = NoiseEnd(s)
  BY <1>1, <1>2, RunsContinue
<1>6. QED
  BY <1>3, <1>4, <1>5

LEMMA WhiteMore ==
    ASSUME NEW s \in Seq(Written), NEW t, NEW x \in Written, NoiseEnd(t).out = Append(NoiseEnd(s).out, x)
    PROVE  /\ x \notin White => WhiteEnd(t) = [inside |-> FALSE, out |-> Append(WhiteEnd(s).out, x)]
           /\ x \in White /\ ~WhiteEnd(s).inside =>
                  WhiteEnd(t) = [inside |-> TRUE, out |-> Append(WhiteEnd(s).out, Gap)]
           /\ x \in White /\ WhiteEnd(s).inside => WhiteEnd(t) = WhiteEnd(s)
<1> DEFINE u == NoiseEnd(s).out
<1>1. Gap \in Written /\ u \in Seq(Written)
  BY WrittenClasses, CondensedType
<1>2. WhiteEnd(t) = RunsEnd(Append(u, x), White, Gap) /\ WhiteEnd(s) = RunsEnd(u, White, Gap)
  BY Zenon DEF WhiteEnd
<1> HIDE DEF u
<1>3. x \notin White => WhiteEnd(t) = [inside |-> FALSE, out |-> Append(WhiteEnd(s).out, x)]
  BY <1>1, <1>2, RunsKeep
<1>4. x \in White /\ ~WhiteEnd(s).inside => WhiteEnd(t) = [inside |-> TRUE, out |-> Append(WhiteEnd(s).out, Gap)]
  BY <1>1, <1>2, RunsReplace
<1>5. x \in White /\ WhiteEnd(s).inside => WhiteEnd(t) = WhiteEnd(s)
  BY <1>1, <1>2, RunsContinue
<1>6. QED
  BY <1>3, <1>4, <1>5

\* A pass that was inside of a run ends as it was.
LEMMA WhiteGap ==
    ASSUME NEW s \in Seq(Written), NEW t, NEW x \in White, NoiseEnd(t).out = Append(NoiseEnd(s).out, x)
    PROVE  WhiteEnd(t) = [inside |-> TRUE,
                          out |-> IF WhiteEnd(s).inside THEN WhiteEnd(s).out ELSE Append(WhiteEnd(s).out, Gap)]
<1>1. x \in Written
  BY WrittenClasses
<1>2. CASE ~WhiteEnd(s).inside
  <2>1. WhiteEnd(t) = [inside |-> TRUE, out |-> Append(WhiteEnd(s).out, Gap)]
    BY <1>1, <1>2, WhiteMore
  <2>2. QED
    BY <1>2, <2>1
<1>3. CASE WhiteEnd(s).inside
  <2>1. WhiteEnd(t) = WhiteEnd(s)
    BY <1>1, <1>3, WhiteMore
  <2>2. WhiteEnd(s) = [inside |-> TRUE, out |-> WhiteEnd(s).out]
    BY <1>3, CondensedType, InsideIs
  <2>3. QED
    BY <1>3, <2>1, <2>2
<1>4. QED
  BY <1>2, <1>3

LEMMA CondensedDigit ==
    ASSUME NEW s \in Seq(Written), NEW x \in Written, x \in Digits
    PROVE  Condensed(Append(s, x)) = CondenseStep(Condensed(s), x)
<1> DEFINE t == Append(s, x)
           d == DigitsEnd(s)
           n == NoiseEnd(s)
           w == WhiteEnd(s)
<1>1. Condensed(s) = Packed(d, n, w) /\ Condensed(t) = Packed(DigitsEnd(t), NoiseEnd(t), WhiteEnd(t))
  BY DEF Condensed, Packed
<1>2. Zero \in Written /\ Zero \notin Noise /\ Zero \notin White
  BY WrittenClasses
<1>3. CASE d.inside
  <2>1. DigitsEnd(t) = d
    BY <1>3, DigitsMore
  <2>2. NoiseEnd(t) = n
    BY <2>1 DEF NoiseEnd
  <2>3. WhiteEnd(t) = w
    BY <2>2 DEF WhiteEnd
  <2>4. Condensed(t) = Condensed(s)
    BY <1>1, <2>1, <2>2, <2>3
  <2> HIDE DEF d, n, w, t
  <2>5. Packed(d, n, w).digit
    BY <1>3 DEF Packed
  <2>6. QED
    BY <1>1, <2>4, <2>5 DEF CondenseStep, t
<1>4. CASE ~d.inside
  <2>1. DigitsEnd(t) = [inside |-> TRUE, out |-> Append(d.out, Zero)]
    BY <1>4, DigitsMore
  <2>2. NoiseEnd(t) = [inside |-> FALSE, out |-> Append(n.out, Zero)]
    <3>1. DigitsEnd(t).out = Append(d.out, Zero)
      BY <2>1
    <3>2. QED
      BY <1>2, <3>1, NoiseMore
  <2>3. WhiteEnd(t) = [inside |-> FALSE, out |-> Append(w.out, Zero)]
    <3>1. NoiseEnd(t).out = Append(n.out, Zero)
      BY <2>2
    <3>2. QED
      BY <1>2, <3>1, WhiteMore
  <2> HIDE DEF d, n, w, t
  <2>4. Condensed(t) = [digit |-> TRUE, noise |-> FALSE, white |-> FALSE, out |-> Append(w.out, Zero)]
    BY <1>1, <2>1, <2>2, <2>3 DEF Packed
  <2>5. ~Packed(d, n, w).digit /\ Packed(d, n, w).out = w.out
    BY <1>4 DEF Packed
  <2>6. QED
    BY <1>1, <2>4, <2>5 DEF CondenseStep, t
<1>5. QED
  BY <1>3, <1>4

LEMMA CondensedNoise ==
    ASSUME NEW s \in Seq(Written), NEW x \in Written, x \in Noise
    PROVE  Condensed(Append(s, x)) = CondenseStep(Condensed(s), x)
<1> DEFINE t == Append(s, x)
           d == DigitsEnd(s)
           n == NoiseEnd(s)
           w == WhiteEnd(s)
<1>1. Condensed(s) = Packed(d, n, w) /\ Condensed(t) = Packed(DigitsEnd(t), NoiseEnd(t), WhiteEnd(t))
  BY DEF Condensed, Packed
<1>2. x \notin Digits /\ Gap \in White
  BY WrittenClasses
<1>3. DigitsEnd(t) = [inside |-> FALSE, out |-> Append(d.out, x)]
  BY <1>2, DigitsMore
<1>4. DigitsEnd(t).out = Append(d.out, x)
  BY <1>3
<1>5. CASE n.inside
  <2>1. NoiseEnd(t) = n
    BY <1>4, <1>5, NoiseMore
  <2>2. WhiteEnd(t) = w
    BY <2>1 DEF WhiteEnd
  <2>3. NoiseEnd(t) = [inside |-> TRUE, out |-> n.out]
    <3>1. n = [inside |-> TRUE, out |-> n.out]
      BY <1>5, CondensedType, InsideIs
    <3>2. QED
      BY Zenon, <2>1, <3>1
  <2> HIDE DEF d, n, w, t
  <2>4. Condensed(t) = [digit |-> FALSE, noise |-> TRUE, white |-> w.inside, out |-> w.out]
    BY <1>1, <1>3, <2>2, <2>3 DEF Packed
  <2>5. Packed(d, n, w).noise /\ Packed(d, n, w).out = w.out /\ Packed(d, n, w).white = w.inside
    BY <1>5 DEF Packed
  <2>6. QED
    BY <1>1, <1>2, <2>4, <2>5 DEF CondenseStep, t
<1>6. CASE ~n.inside
  <2>1. NoiseEnd(t) = [inside |-> TRUE, out |-> Append(n.out, Gap)]
    BY <1>4, <1>6, NoiseMore
  <2>2. WhiteEnd(t) = [inside |-> TRUE, out |-> IF w.inside THEN w.out ELSE Append(w.out, Gap)]
    <3>1. NoiseEnd(t).out = Append(n.out, Gap)
      BY <2>1
    <3>2. QED
      BY <1>2, <3>1, WhiteGap
  <2> HIDE DEF d, n, w, t
  <2>3. Condensed(t) = [digit |-> FALSE, noise |-> TRUE, white |-> TRUE,
                        out |-> IF w.inside THEN w.out ELSE Append(w.out, Gap)]
    BY <1>1, <1>3, <2>1, <2>2 DEF Packed
  <2>4. ~Packed(d, n, w).noise /\ Gapped(Packed(d, n, w)) = IF w.inside THEN w.out ELSE Append(w.out, Gap)
    BY <1>6 DEF Packed, Gapped
  <2>5. QED
    BY <1>1, <1>2, <2>3, <2>4 DEF CondenseStep, t
<1>7. QED
  BY <1>5, <1>6

LEMMA CondensedOther ==
    ASSUME NEW s \in Seq(Written), NEW x \in Written, x \notin Digits, x \notin Noise
    PROVE  Condensed(Append(s, x)) = CondenseStep(Condensed(s), x)
<1> DEFINE t == Append(s, x)
           d == DigitsEnd(s)
           n == NoiseEnd(s)
           w == WhiteEnd(s)
<1>1. Condensed(s) = Packed(d, n, w) /\ Condensed(t) = Packed(DigitsEnd(t), NoiseEnd(t), WhiteEnd(t))
  BY DEF Condensed, Packed
<1>2. DigitsEnd(t) = [inside |-> FALSE, out |-> Append(d.out, x)]
  BY DigitsMore
<1>3. NoiseEnd(t) = [inside |-> FALSE, out |-> Append(n.out, x)]
  <2>1. DigitsEnd(t).out = Append(d.out, x)
    BY <1>2
  <2>2. QED
    BY <2>1, NoiseMore
<1>4. NoiseEnd(t).out = Append(n.out, x)
  BY <1>3
<1>5. CASE x \in White
  <2>1. WhiteEnd(t) = [inside |-> TRUE, out |-> IF w.inside THEN w.out ELSE Append(w.out, Gap)]
    BY <1>4, <1>5, WhiteGap
  <2> HIDE DEF d, n, w, t
  <2>2. Condensed(t) = [digit |-> FALSE, noise |-> FALSE, white |-> TRUE,
                        out |-> IF w.inside THEN w.out ELSE Append(w.out, Gap)]
    BY <1>1, <1>2, <1>3, <2>1 DEF Packed
  <2>3. Gapped(Packed(d, n, w)) = IF w.inside THEN w.out ELSE Append(w.out, Gap)
    BY DEF Packed, Gapped
  <2>4. QED
    BY <1>1, <1>5, <2>2, <2>3 DEF CondenseStep, t
<1>6. CASE x \notin White
  <2>1. WhiteEnd(t) = [inside |-> FALSE, out |-> Append(w.out, x)]
    BY <1>4, <1>6, WhiteMore
  <2> HIDE DEF d, n, w, t
  <2>2. Condensed(t) = [digit |-> FALSE, noise |-> FALSE, white |-> FALSE, out |-> Append(w.out, x)]
    BY <1>1, <1>2, <1>3, <2>1 DEF Packed
  <2>3. Packed(d, n, w).out = w.out
    BY DEF Packed
  <2>4. QED
    BY <1>1, <1>6, <2>2, <2>3 DEF CondenseStep, t
<1>7. QED
  BY <1>5, <1>6

\* The three passes over runs, one element more at a time.
LEMMA CondensedIs ==
    /\ Condensed(<<>>) = Uncondensed
    /\ \A s \in Seq(Written) :
         /\ Condensed(s) \in CondensedState
         /\ \A x \in Written : Condensed(Append(s, x)) = CondenseStep(Condensed(s), x)
BY CondensedStart, CondensedType, CondensedDigit, CondensedNoise, CondensedOther

-----------------------------------------------------------------------------
\* A text as its fingerprint sees it: whether a link has not ended, and what
\* the passes over runs make of what is written for it.
Seen(s) == [link |-> URLEnd(Lowered(s)).inside, text |-> Condensed(URLEnd(Lowered(s)).out)]

SeenState == [link : BOOLEAN, text : CondensedState]

Unseen == [link |-> FALSE, text |-> Uncondensed]

LinkSeen(v) == CondenseStep(CondenseStep(CondenseStep(v, Gap), Address), Gap)

SeenStep(v, g) ==
    IF v.link /\ g \notin Spaces THEN v
    ELSE IF g \in Links THEN [link |-> TRUE, text |-> LinkSeen(v.text)]
    ELSE [link |-> FALSE, text |-> CondenseStep(v.text, Lower(g))]

LEMMA GraphemesWritten ==
    /\ Graphemes \subseteq Written
    /\ \A g \in Graphemes : Lower(g) \in Written
    /\ \A g \in Graphemes : Lower(g) \in Spaces <=> g \in Spaces
    /\ \A g \in Graphemes : Lower(g) \in Links <=> g \in Links
    /\ \A g \in Graphemes : g \notin Capitals => Lower(g) = g
<1>1. Graphemes \subseteq Written
  BY DEF Written
<1>2. \A g \in Graphemes : Lower(g) \in Graphemes
  BY LowerIs
<1>3. ASSUME NEW g \in Graphemes
      PROVE  /\ Lower(g) \in Spaces <=> g \in Spaces
             /\ Lower(g) \in Links <=> g \in Links
             /\ g \notin Capitals => Lower(g) = g
  <2>1. CASE g \in Capitals
    <3>1. Lower(g) \in Letters
      BY <2>1, LowerIs
    <3>2. QED
      BY <2>1, <3>1, ClassesAreDisjoint
  <2>2. CASE g \notin Capitals
    BY <2>2, LowerIs
  <2>3. QED
    BY <2>1, <2>2
<1>4. QED
  BY <1>1, <1>2, <1>3

LEMMA LinkSeenType ==
    ASSUME NEW v \in CondensedState
    PROVE  LinkSeen(v) \in CondensedState
BY CondenseType, WrittenClasses DEF LinkSeen

LEMMA SeenStepType ==
    ASSUME NEW v \in SeenState, NEW g \in Graphemes
    PROVE  SeenStep(v, g) \in SeenState
<1>1. v.text \in CondensedState /\ v.link \in BOOLEAN
  BY DEF SeenState
<1>2. LinkSeen(v.text) \in CondensedState /\ CondenseStep(v.text, Lower(g)) \in CondensedState
  BY <1>1, LinkSeenType, CondenseType, GraphemesWritten
<1>3. QED
  BY <1>2 DEF SeenStep, SeenState

\* A text as its fingerprint sees it, one grapheme more at a time.
LEMMA SeenIs ==
    /\ Seen(<<>>) = Unseen
    /\ \A s \in Seq(Graphemes) :
         /\ Seen(s) \in SeenState
         /\ \A g \in Graphemes : Seen(Append(s, g)) = SeenStep(Seen(s), g)
<1>1. Seen(<<>>) = Unseen
  <2>1. Lowered(<<>>) = <<>> /\ URLEnd(<<>>) = Started /\ Condensed(<<>>) = Uncondensed
    BY LoweredIs, URLEndIs, CondensedIs
  <2>2. Started.inside = FALSE /\ Started.out = <<>>
    BY DEF Started
  <2>3. QED
    BY Zenon, <2>1, <2>2 DEF Seen, Unseen
<1>2. ASSUME NEW s \in Seq(Graphemes)
      PROVE  /\ Lowered(s) \in Seq(Graphemes) /\ URLEnd(Lowered(s)) \in PassState
             /\ URLEnd(Lowered(s)).out \in Seq(Written) /\ URLEnd(Lowered(s)).inside \in BOOLEAN
             /\ Condensed(URLEnd(Lowered(s)).out) \in CondensedState
  <2>1. Lowered(s) \in Seq(Graphemes)
    BY LoweredIs
  <2>2. URLEnd(Lowered(s)) \in PassState
    BY <2>1, URLEndIs
  <2>3. URLEnd(Lowered(s)).out \in Seq(Written) /\ URLEnd(Lowered(s)).inside \in BOOLEAN
    BY <2>2 DEF PassState
  <2>4. QED
    BY <2>1, <2>2, <2>3, CondensedIs
<1>3. ASSUME NEW s \in Seq(Graphemes) PROVE Seen(s) \in SeenState
  BY <1>2 DEF Seen, SeenState
<1>4. ASSUME NEW s \in Seq(Graphemes), NEW g \in Graphemes
      PROVE  Seen(Append(s, g)) = SeenStep(Seen(s), g)
  <2> DEFINE u == URLEnd(Lowered(s))
             v == URLEnd(Lowered(Append(s, g)))
             h == Lower(g)
  <2>1. h \in Graphemes /\ h \in Written /\ (h \in Spaces <=> g \in Spaces) /\ (h \in Links <=> g \in Links)
    BY LowerIs, GraphemesWritten
  <2>2. v = URLStep(u, h)
    <3>1. Lowered(Append(s, g)) = Append(Lowered(s), h) /\ Lowered(s) \in Seq(Graphemes)
      BY LoweredIs
    <3>2. URLEnd(Append(Lowered(s), h)) = URLStep(URLEnd(Lowered(s)), h)
      BY <2>1, <3>1, URLEndIs
    <3>3. QED
      BY <3>1, <3>2
  <2>3. /\ u \in PassState /\ u.out \in Seq(Written) /\ u.inside \in BOOLEAN
        /\ Condensed(u.out) \in CondensedState
    BY <1>2
  <2>4. /\ Seen(s) = [link |-> u.inside, text |-> Condensed(u.out)]
        /\ Seen(Append(s, g)) = [link |-> v.inside, text |-> Condensed(v.out)]
    BY DEF Seen
  <2> HIDE DEF u, v, h
  <2>5. Seen(s).link = u.inside /\ Seen(s).text = Condensed(u.out)
    BY <2>3, <2>4
  <2>6. CASE u.inside /\ g \notin Spaces
    <3>1. v = u
      BY <2>1, <2>2, <2>6 DEF URLStep
    <3>2. QED
      BY <2>3, <2>4, <2>5, <2>6, <3>1 DEF SeenStep
  <2>7. CASE ~(u.inside /\ g \notin Spaces) /\ g \in Links
    <3>1. v = [inside |-> TRUE, out |-> u.out \o <<Gap, Address, Gap>>]
      BY <2>1, <2>2, <2>7 DEF URLStep
    <3>2. Gap \in Written /\ Address \in Written
      BY WrittenClasses
    <3>3. u.out \o <<Gap, Address, Gap>> = Append(Append(Append(u.out, Gap), Address), Gap)
      BY <2>3, <3>2, PiecesAppend
    <3>4. Condensed(Append(Append(Append(u.out, Gap), Address), Gap)) = LinkSeen(Condensed(u.out))
      <4>1. Append(u.out, Gap) \in Seq(Written) /\ Append(Append(u.out, Gap), Address) \in Seq(Written)
        BY <2>3, <3>2
      <4>2. /\ Condensed(Append(u.out, Gap)) = CondenseStep(Condensed(u.out), Gap)
            /\ Condensed(Append(Append(u.out, Gap), Address)) = CondenseStep(Condensed(Append(u.out, Gap)), Address)
            /\ Condensed(Append(Append(Append(u.out, Gap), Address), Gap))
                   = CondenseStep(Condensed(Append(Append(u.out, Gap), Address)), Gap)
        BY <2>3, <3>2, <4>1, CondensedIs
      <4>3. QED
        BY Zenon, <4>2 DEF LinkSeen
    <3>5. v.inside = TRUE /\ Condensed(v.out) = LinkSeen(Condensed(u.out))
      BY <3>1, <3>3, <3>4
    <3>6. QED
      BY <2>3, <2>4, <2>5, <2>7, <3>5 DEF SeenStep
  <2>8. CASE ~(u.inside /\ g \notin Spaces) /\ g \notin Links
    <3>1. v = [inside |-> FALSE, out |-> Append(u.out, h)]
      BY <2>1, <2>2, <2>8 DEF URLStep
    <3>2. v.inside = FALSE /\ v.out = Append(u.out, h)
      BY <3>1
    <3>3. Condensed(v.out) = CondenseStep(Condensed(u.out), h)
      BY <2>1, <2>3, <3>2, CondensedIs
    <3>4. QED
      BY <2>3, <2>4, <2>5, <2>8, <3>2, <3>3 DEF SeenStep, h
  <2>9. QED
    BY <2>6, <2>7, <2>8
<1>5. QED
  BY <1>1, <1>3, <1>4

\* Elements of one of the sets are written alike, and another one changes nothing.
LEMMA CondenseSame ==
    ASSUME NEW v \in CondensedState, NEW set \in {Digits, Noise, White}, NEW x \in set, NEW y \in set
    PROVE  /\ CondenseStep(v, x) = CondenseStep(v, y)
           /\ CondenseStep(CondenseStep(v, x), y) = CondenseStep(v, x)
<1>1. CASE set = Digits
  <2>1. x \in Digits /\ y \in Digits
    BY <1>1
  <2>2. CASE v.digit
    BY <2>1, <2>2 DEF CondenseStep
  <2>3. CASE ~v.digit
    <3> DEFINE w == [digit |-> TRUE, noise |-> FALSE, white |-> FALSE, out |-> Append(v.out, Zero)]
    <3>1. CondenseStep(v, x) = w /\ CondenseStep(v, y) = w
      BY <2>1, <2>3 DEF CondenseStep
    <3>2. w.digit
      OBVIOUS
    <3> HIDE DEF w
    <3>3. CondenseStep(w, y) = w
      BY <2>1, <3>2 DEF CondenseStep
    <3>4. QED
      BY <3>1, <3>3
  <2>4. QED
    BY <2>2, <2>3
<1>2. CASE set = Noise
  <2>1. x \in Noise /\ y \in Noise /\ x \notin Digits /\ y \notin Digits
    BY <1>2, WrittenClasses
  <2> DEFINE w == [digit |-> FALSE, noise |-> TRUE, white |-> IF v.noise THEN v.white ELSE TRUE,
                   out |-> IF v.noise THEN v.out ELSE Gapped(v)]
  <2>2. CondenseStep(v, x) = w /\ CondenseStep(v, y) = w
    BY <2>1 DEF CondenseStep
  <2>3. w.noise
    OBVIOUS
  <2>4. w = [digit |-> FALSE, noise |-> TRUE, white |-> w.white, out |-> w.out]
    OBVIOUS
  <2> HIDE DEF w
  <2>5. CondenseStep(w, y) = [digit |-> FALSE, noise |-> TRUE, white |-> w.white, out |-> w.out]
    BY <2>1, <2>3 DEF CondenseStep
  <2>6. QED
    BY Zenon, <2>2, <2>4, <2>5
<1>3. CASE set = White
  <2>1. x \in White /\ y \in White /\ x \notin Digits /\ y \notin Digits /\ x \notin Noise /\ y \notin Noise
    BY <1>3, WrittenClasses
  <2> DEFINE w == [digit |-> FALSE, noise |-> FALSE, white |-> TRUE, out |-> Gapped(v)]
  <2>2. CondenseStep(v, x) = w /\ CondenseStep(v, y) = w
    BY <2>1 DEF CondenseStep
  <2>3. w.white
    OBVIOUS
  <2>4. w = [digit |-> FALSE, noise |-> FALSE, white |-> TRUE, out |-> w.out]
    OBVIOUS
  <2> HIDE DEF w
  <2>5. Gapped(w) = w.out
    BY <2>3 DEF Gapped
  <2>6. CondenseStep(w, y) = [digit |-> FALSE, noise |-> FALSE, white |-> TRUE, out |-> w.out]
    BY <2>1, <2>5 DEF CondenseStep
  <2>7. QED
    BY Zenon, <2>2, <2>4, <2>6
<1>4. QED
  BY <1>1, <1>2, <1>3

LEMMA CondensedFields ==
    ASSUME NEW v \in CondensedState
    PROVE  v.out \in Seq(Written) /\ Filter(v.out, Signs) \in Seq(Written)
<1>1. v.out \in Seq(Written)
  BY DEF CondensedState
<1> DEFINE out == v.out
<1>2. Filter(out, Signs) \in Seq(Written)
  <2> HIDE DEF out
  <2>1. out \in Seq(Written)
    BY <1>1 DEF out
  <2>2. QED
    BY <2>1, FilterIs
<1>3. QED
  BY <1>1, <1>2

LEMMA SignsOfMore ==
    ASSUME NEW s \in Seq(Written), NEW x \in Written
    PROVE  Filter(Append(s, x), Signs) = IF x \in Signs THEN Append(Filter(s, Signs), x) ELSE Filter(s, Signs)
<1>1. Filter(Append(s, x), Signs) = FilterStep(Filter(s, Signs), x, Signs)
  BY FilterIs
<1>2. QED
  BY <1>1 DEF FilterStep

\* The signs of what is written: none but the signs of the text.
LEMMA CondenseKeeps ==
    ASSUME NEW v \in CondensedState, NEW x \in Written
    PROVE  /\ x \in Signs => /\ Filter(CondenseStep(v, x).out, Signs) = Append(Filter(v.out, Signs), x)
           /\ x \in Digits \cup Noise \cup White \cup {Address} =>
                  Filter(CondenseStep(v, x).out, Signs) = Filter(v.out, Signs)
<1> DEFINE kept == Filter(v.out, Signs)
<1>1. v.out \in Seq(Written) /\ Zero \in Written /\ Gap \in Written
  BY CondensedFields, WrittenClasses
<1>2. ASSUME NEW y \in Written
      PROVE  Filter(Append(v.out, y), Signs) = IF y \in Signs THEN Append(kept, y) ELSE kept
  <2> DEFINE s == v.out
  <2>1. s \in Seq(Written)
    BY <1>1
  <2> HIDE DEF s
  <2>2. Filter(Append(s, y), Signs) = IF y \in Signs THEN Append(Filter(s, Signs), y) ELSE Filter(s, Signs)
    BY <2>1, SignsOfMore
  <2>3. QED
    BY <2>2 DEF s
<1>3. Filter(Append(v.out, Zero), Signs) = kept /\ Filter(Append(v.out, Gap), Signs) = kept
  BY <1>1, <1>2, WrittenClasses
<1>4. Filter(Gapped(v), Signs) = kept
  BY <1>3 DEF Gapped
<1>5. ASSUME x \in Signs PROVE Filter(CondenseStep(v, x).out, Signs) = Append(kept, x)
  <2>1. x \notin Digits /\ x \notin Noise /\ x \notin White
    BY <1>5, WrittenClasses
  <2>2. CondenseStep(v, x).out = Append(v.out, x)
    BY <2>1 DEF CondenseStep
  <2>3. QED
    BY <1>2, <1>5, <2>2
<1>6. CASE x \in Digits
  <2>1. CondenseStep(v, x).out = IF v.digit THEN v.out ELSE Append(v.out, Zero)
    BY <1>6 DEF CondenseStep
  <2>2. x \notin Signs
    BY <1>6, WrittenClasses
  <2>3. QED
    BY <1>3, <2>1, <2>2
<1>7. CASE x \in Noise
  <2>1. x \notin Digits /\ x \notin Signs
    BY <1>7, WrittenClasses
  <2>2. CondenseStep(v, x).out = IF v.noise THEN v.out ELSE Gapped(v)
    BY <1>7, <2>1 DEF CondenseStep
  <2>3. QED
    BY <1>4, <2>1, <2>2
<1>8. CASE x \in White
  <2>1. x \notin Digits /\ x \notin Signs /\ x \notin Noise
    BY <1>8, WrittenClasses
  <2>2. CondenseStep(v, x).out = Gapped(v)
    BY <1>8, <2>1 DEF CondenseStep
  <2>3. QED
    BY <1>4, <2>1, <2>2
<1>9. CASE x = Address
  <2>1. x \notin Digits /\ x \notin Signs /\ x \notin Noise /\ x \notin White
    BY <1>9, WrittenClasses
  <2>2. CondenseStep(v, x).out = Append(v.out, x)
    BY <2>1 DEF CondenseStep
  <2>3. QED
    BY <1>2, <2>1, <2>2
<1>10. QED
  BY <1>5, <1>6, <1>7, <1>8, <1>9

-----------------------------------------------------------------------------
\* What the fingerprint of a text depends on: whether anything is visible yet,
\* the text from there, and what of it is left when whitespace ends it.
Weighed(s) == [blank |-> Led(s) = <<>>, led |-> Seen(Led(s)), trim |-> Seen(Trim(s)).text.out]

WeighedState == [blank : BOOLEAN, led : SeenState, trim : Seq(Written)]

Unweighed == [blank |-> TRUE, led |-> Unseen, trim |-> <<>>]

WeighStep(v, g) ==
    IF g \in Spaces
    THEN IF v.blank THEN v ELSE [blank |-> FALSE, led |-> SeenStep(v.led, g), trim |-> v.trim]
    ELSE [blank |-> FALSE, led |-> SeenStep(v.led, g), trim |-> SeenStep(v.led, g).text.out]

LEMMA WeighedIs ==
    /\ Weighed(<<>>) = Unweighed
    /\ \A s \in Seq(Graphemes) :
         /\ Weighed(s) \in WeighedState
         /\ \A g \in Graphemes : Weighed(Append(s, g)) = WeighStep(Weighed(s), g)
<1>1. Weighed(<<>>) = Unweighed
  <2>1. Led(<<>>) = <<>> /\ Trim(<<>>) = <<>> /\ Seen(<<>>) = Unseen
    BY TrimIs, SeenIs
  <2>2. Unseen.text.out = <<>>
    BY DEF Unseen, Uncondensed
  <2>3. QED
    BY <2>1, <2>2 DEF Weighed, Unweighed
<1>2. ASSUME NEW s \in Seq(Graphemes)
      PROVE  Seen(Led(s)) \in SeenState /\ Seen(Trim(s)).text.out \in Seq(Written)
  <2>1. Led(s) \in Seq(Graphemes) /\ Trim(s) \in Seq(Graphemes)
    BY TrimmedType
  <2>2. Seen(Led(s)) \in SeenState /\ Seen(Trim(s)) \in SeenState
    BY <2>1, SeenIs
  <2>3. Seen(Trim(s)).text \in CondensedState
    BY <2>2 DEF SeenState
  <2>4. QED
    BY <2>2, <2>3, CondensedFields
<1>3. ASSUME NEW s \in Seq(Graphemes) PROVE Weighed(s) \in WeighedState
  BY <1>2 DEF Weighed, WeighedState
<1>4. ASSUME NEW s \in Seq(Graphemes), NEW g \in Graphemes
      PROVE  Weighed(Append(s, g)) = WeighStep(Weighed(s), g)
  <2> DEFINE t == Append(s, g)
             v == Weighed(s)
  <2>1. /\ Led(t) = IF Led(s) = <<>> /\ g \in Spaces THEN <<>> ELSE Append(Led(s), g)
        /\ Trim(t) = IF g \in Spaces THEN Trim(s) ELSE Append(Led(s), g)
    BY TrimIs
  <2>2. Seen(Append(Led(s), g)) = SeenStep(Seen(Led(s)), g)
    <3>1. Led(s) \in Seq(Graphemes)
      BY TrimmedType
    <3>2. QED
      BY <3>1, SeenIs
  <2>3. Append(Led(s), g) # <<>>
    <3>1. Led(s) \in Seq(Graphemes)
      BY TrimmedType
    <3>2. QED
      BY <3>1, AppendProperties
  <2>4. v.blank <=> Led(s) = <<>>
    BY DEF Weighed
  <2>5. v.led = Seen(Led(s)) /\ v.trim = Seen(Trim(s)).text.out
    BY DEF Weighed
  <2>6. Weighed(t) = [blank |-> Led(t) = <<>>, led |-> Seen(Led(t)), trim |-> Seen(Trim(t)).text.out]
    BY DEF Weighed
  <2>7. CASE g \in Spaces /\ Led(s) = <<>>
    <3>1. Led(t) = Led(s) /\ Trim(t) = Trim(s)
      BY <2>1, <2>7
    <3>2. Weighed(t) = v
      BY Zenon, <3>1 DEF Weighed
    <3> HIDE DEF v, t
    <3>3. WeighStep(v, g) = v
      BY <2>4, <2>7 DEF WeighStep
    <3>4. QED
      BY <3>2, <3>3 DEF v, t
  <2>8. CASE g \in Spaces /\ Led(s) # <<>>
    <3>1. Led(t) = Append(Led(s), g) /\ Trim(t) = Trim(s)
      BY <2>1, <2>8
    <3>2. Led(t) # <<>> /\ Seen(Led(t)) = SeenStep(v.led, g) /\ Seen(Trim(t)).text.out = v.trim
      BY Zenon, <2>2, <2>3, <2>5, <3>1
    <3> HIDE DEF v, t
    <3>3. WeighStep(v, g) = [blank |-> FALSE, led |-> SeenStep(v.led, g), trim |-> v.trim]
      BY <2>4, <2>8 DEF WeighStep
    <3>4. QED
      BY <2>6, <3>2, <3>3 DEF v, t
  <2>9. CASE g \notin Spaces
    <3>1. Led(t) = Append(Led(s), g) /\ Trim(t) = Append(Led(s), g)
      BY <2>1, <2>9
    <3>2. /\ Led(t) # <<>> /\ Seen(Led(t)) = SeenStep(v.led, g)
          /\ Seen(Trim(t)).text.out = SeenStep(v.led, g).text.out
      BY Zenon, <2>2, <2>3, <2>5, <3>1
    <3> HIDE DEF v, t
    <3>3. WeighStep(v, g) = [blank |-> FALSE, led |-> SeenStep(v.led, g), trim |-> SeenStep(v.led, g).text.out]
      BY <2>9 DEF WeighStep
    <3>4. QED
      BY <2>6, <3>2, <3>3 DEF v, t
  <2>10. QED
    BY <2>7, <2>8, <2>9
<1>5. QED
  BY <1>1, <1>3, <1>4

\* The fingerprint is the beginning of what is weighed.
LEMMA FingerprintIs ==
    ASSUME NEW s
    PROVE  LET words == Weighed(s).trim
           IN  Fingerprint(s) = SubSeq(words, 1, Min({Len(words), FingerprintLength}))
<1> DEFINE u == URLEnd(Lowered(Trim(s))).out
           words == WhiteEnd(u).out
<1>1. Weighed(s).trim = words
  BY Zenon DEF Weighed, Seen, Condensed
<1>2. ReplaceRuns(ReplaceRuns(ReplaceRuns(ReplaceURLs(Lowered(Trim(s))), Digits, Zero), Noise, Gap), White, Gap) = words
  <2>1. ReplaceURLs(Lowered(Trim(s))) = u
    BY Zenon, PassesEnd
  <2>2. ReplaceRuns(u, Digits, Zero) = DigitsEnd(u).out
    BY Zenon, PassesEnd DEF DigitsEnd
  <2>3. ReplaceRuns(DigitsEnd(u).out, Noise, Gap) = NoiseEnd(u).out
    BY Zenon, PassesEnd DEF NoiseEnd
  <2>4. ReplaceRuns(NoiseEnd(u).out, White, Gap) = WhiteEnd(u).out
    BY Zenon, PassesEnd DEF WhiteEnd
  <2> HIDE DEF u
  <2>5. QED
    BY Zenon, <2>1, <2>2, <2>3, <2>4
<1> HIDE DEF words
<1>3. Fingerprint(s) = SubSeq(words, 1, Min({Len(words), FingerprintLength}))
  BY Zenon, <1>2 DEF Fingerprint, Zero, Gap
<1>4. QED
  BY Zenon, <1>1, <1>3

-----------------------------------------------------------------------------
\* No link is open, and what whitespace at the end takes away has no sign.
SignsWeighed(v) == Filter(v.led.text.out, Signs)

Even(v) == ~v.led.link /\ Filter(v.trim, Signs) = SignsWeighed(v)

\* Behind what is visible, and no whitespace.
Behind(c) == [blank |-> FALSE, led |-> [link |-> FALSE, text |-> c], trim |-> c.out]

LEMMA BehindIs == \A c : Even(Behind(c)) /\ SignsWeighed(Behind(c)) = Filter(c.out, Signs)
BY DEF Behind, Even, SignsWeighed

LEMMA WeighedFields ==
    ASSUME NEW v \in WeighedState
    PROVE  /\ v.led \in SeenState /\ v.led.text \in CondensedState
           /\ v.trim \in Seq(Written) /\ SignsWeighed(v) \in Seq(Written)
<1>1. v.led \in SeenState /\ v.trim \in Seq(Written)
  BY DEF WeighedState
<1>2. v.led.text \in CondensedState
  <2> DEFINE led == v.led
  <2>1. led \in SeenState
    BY <1>1
  <2> HIDE DEF led
  <2>2. led.text \in CondensedState
    BY <2>1 DEF SeenState
  <2>3. QED
    BY <2>2 DEF led
<1>3. SignsWeighed(v) \in Seq(Written)
  BY <1>2, CondensedFields DEF SignsWeighed
<1>4. QED
  BY <1>1, <1>2, <1>3

\* A grapheme outside a link that is neither whitespace nor one.
LEMMA VisibleWeighs ==
    ASSUME NEW v \in WeighedState, ~v.led.link, NEW g \in Graphemes, g \notin Spaces, g \notin Links
    PROVE  WeighStep(v, g) = Behind(CondenseStep(v.led.text, Lower(g)))
<1>1. SeenStep(v.led, g) = [link |-> FALSE, text |-> CondenseStep(v.led.text, Lower(g))]
  BY DEF SeenStep
<1>2. QED
  BY <1>1 DEF WeighStep, Behind

LEMMA SpaceWeighs ==
    ASSUME NEW v \in WeighedState, NEW g \in Spaces
    PROVE  WeighStep(v, g) = IF v.blank THEN v
                             ELSE [blank |-> FALSE, led |-> [link |-> FALSE, text |-> CondenseStep(v.led.text, g)],
                                   trim |-> v.trim]
<1>1. g \in Graphemes /\ g \notin Links /\ g \notin Capitals
  BY GraphemesAre, ClassesAreDisjoint
<1>2. Lower(g) = g
  BY <1>1, LowerIs
<1>3. SeenStep(v.led, g) = [link |-> FALSE, text |-> CondenseStep(v.led.text, g)]
  BY <1>1, <1>2 DEF SeenStep
<1>4. QED
  BY <1>3 DEF WeighStep

LEMMA WordsAre ==
    \A g \in Words : /\ g \in Graphemes /\ g \notin Spaces /\ g \notin Links
                     /\ Lower(g) \in Signs
<1>1. Angles \subseteq Symbols
  BY Zenon, TextAssumption
<1>2. SUFFICES ASSUME NEW g \in Words
               PROVE  /\ g \in Graphemes /\ g \notin Spaces /\ g \notin Links
                      /\ Lower(g) \in Signs
  OBVIOUS
<1>3. CASE g \in Capitals
  <2>1. Lower(g) \in Letters
    BY <1>3, LowerIs
  <2>2. QED
    BY <1>3, <2>1, GraphemesAre, ClassesAreDisjoint DEF Signs
<1>4. CASE g \in Signs /\ g \notin Capitals
  <2>1. Lower(g) = g
    BY <1>4, LowerIs
  <2>2. QED
    BY <1>1, <1>4, <2>1, GraphemesAre, ClassesAreDisjoint DEF Signs
<1>5. QED
  BY <1>3, <1>4 DEF Words

LEMMA SignAppears ==
    ASSUME NEW v \in WeighedState, Even(v), NEW g \in Words
    PROVE  /\ WeighStep(v, g) = Behind(CondenseStep(v.led.text, Lower(g)))
           /\ Even(WeighStep(v, g)) /\ SignsWeighed(WeighStep(v, g)) = Append(SignsWeighed(v), Lower(g))
<1>1. g \in Graphemes /\ g \notin Spaces /\ g \notin Links /\ Lower(g) \in Signs /\ Lower(g) \in Written
  BY WordsAre, WrittenClasses
<1>2. WeighStep(v, g) = Behind(CondenseStep(v.led.text, Lower(g)))
  BY <1>1, VisibleWeighs DEF Even
<1>3. Filter(CondenseStep(v.led.text, Lower(g)).out, Signs) = Append(SignsWeighed(v), Lower(g))
  BY <1>1, WeighedFields, CondenseKeeps DEF SignsWeighed
<1>4. QED
  BY <1>2, <1>3, BehindIs

\* A run of digits, of noise or of whitespace: which and how many does not matter.
LEMMA RunWeighs ==
    ASSUME NEW v \in WeighedState, Even(v), NEW set \in {Digits, Noise, Spaces}, NEW g \in set, NEW h \in set
    PROVE  /\ WeighStep(v, g) = WeighStep(v, h)
           /\ WeighStep(WeighStep(v, g), h) = WeighStep(v, g)
           /\ Even(WeighStep(v, g)) /\ SignsWeighed(WeighStep(v, g)) = SignsWeighed(v)
<1> DEFINE c == v.led.text
<1>1. c \in CondensedState /\ ~v.led.link
  BY WeighedFields DEF Even
<1>2. CASE set \in {Digits, Noise}
  <2>1. ASSUME NEW x \in set
        PROVE  x \in Graphemes /\ x \notin Spaces /\ x \notin Links /\ Lower(x) = x /\ x \in Written
    <3>1. x \in Graphemes /\ x \notin Spaces /\ x \notin Links /\ x \notin Capitals
      BY <1>2, GraphemesAre, ClassesAreDisjoint DEF Noise
    <3>2. QED
      BY <3>1, LowerIs, GraphemesWritten
  <2> DEFINE d == CondenseStep(c, g)
  <2>2. WeighStep(v, g) = Behind(CondenseStep(c, g)) /\ WeighStep(v, h) = Behind(CondenseStep(c, h))
    <3>1. Lower(g) = g /\ Lower(h) = h
      BY <2>1
    <3>2. WeighStep(v, g) = Behind(CondenseStep(c, Lower(g))) /\ WeighStep(v, h) = Behind(CondenseStep(c, Lower(h)))
      BY <1>1, <2>1, VisibleWeighs
    <3>3. QED
      BY Zenon, <3>1, <3>2
  <2>3. CondenseStep(c, g) = CondenseStep(c, h) /\ CondenseStep(d, h) = d
    BY <1>1, <1>2, CondenseSame
  <2>4. d \in CondensedState
    BY <1>1, <2>1, CondenseType
  <2>5. Filter(d.out, Signs) = SignsWeighed(v)
    <3>1. g \in Digits \cup Noise \cup White \cup {Address} /\ g \in Written
      BY <1>2, <2>1
    <3>2. QED
      BY <1>1, <3>1, CondenseKeeps DEF SignsWeighed
  <2>6. WeighStep(Behind(d), h) = Behind(d)
    <3> DEFINE w == Behind(d)
    <3>1. w \in WeighedState /\ ~w.led.link /\ w.led.text = d
      <4>1. d.out \in Seq(Written)
        BY <2>4, CondensedFields
      <4> HIDE DEF d
      <4>2. [link |-> FALSE, text |-> d] \in SeenState
        BY <2>4 DEF SeenState
      <4>3. QED
        BY <4>1, <4>2 DEF Behind, WeighedState
    <3> HIDE DEF w, d
    <3>2. WeighStep(w, h) = Behind(CondenseStep(d, Lower(h)))
      BY <2>1, <3>1, VisibleWeighs
    <3>3. Lower(h) = h
      BY <2>1
    <3>4. QED
      BY Zenon, <2>3, <3>2, <3>3 DEF w, d
  <2> HIDE DEF d
  <2>7. WeighStep(v, g) = Behind(d)
    BY <2>2 DEF d
  <2>8. QED
    BY <2>2, <2>3, <2>5, <2>6, <2>7, BehindIs
<1>3. CASE set = Spaces
  <2>1. g \in Spaces /\ h \in Spaces /\ g \in White /\ h \in White /\ White \in {Digits, Noise, White}
    BY <1>3 DEF White
  <2>2. CASE v.blank
    <3>1. WeighStep(v, g) = v /\ WeighStep(v, h) = v
      BY <2>1, <2>2, SpaceWeighs
    <3>2. QED
      BY <3>1
  <2>3. CASE ~v.blank
    <3> DEFINE d == CondenseStep(c, g)
               w == [blank |-> FALSE, led |-> [link |-> FALSE, text |-> d], trim |-> v.trim]
    <3>1. CondenseStep(c, g) = CondenseStep(c, h) /\ CondenseStep(d, h) = d
      BY <1>1, <2>1, CondenseSame
    <3>2. WeighStep(v, g) = w /\ WeighStep(v, h) = [blank |-> FALSE, led |-> [link |-> FALSE, text |-> CondenseStep(c, h)], trim |-> v.trim]
      BY <2>1, <2>3, SpaceWeighs
    <3>3. WeighStep(v, g) = WeighStep(v, h)
      BY <3>1, <3>2
    <3>4. g \in Written
      BY <2>1, WrittenClasses
    <3>5. d \in CondensedState
      BY <1>1, <3>4, CondenseType
    <3>6. Filter(d.out, Signs) = SignsWeighed(v)
      <4>1. g \in Digits \cup Noise \cup White \cup {Address}
        BY <2>1
      <4>2. QED
        BY <1>1, <3>4, <4>1, CondenseKeeps DEF SignsWeighed
    <3> HIDE DEF d
    <3>7. w \in WeighedState
      <4>1. [link |-> FALSE, text |-> d] \in SeenState
        BY <3>5 DEF SeenState
      <4>2. v.trim \in Seq(Written)
        BY WeighedFields
      <4>3. QED
        BY <4>1, <4>2 DEF WeighedState
    <3>8. w.blank = FALSE /\ w.led.text = d /\ w.trim = v.trim /\ w.led.link = FALSE
      OBVIOUS
    <3> HIDE DEF w
    <3>9. WeighStep(w, h) = w
      <4>1. WeighStep(w, h) = [blank |-> FALSE, led |-> [link |-> FALSE, text |-> CondenseStep(w.led.text, h)], trim |-> w.trim]
        BY <2>1, <3>7, <3>8, SpaceWeighs
      <4>2. WeighStep(w, h) = [blank |-> FALSE, led |-> [link |-> FALSE, text |-> d], trim |-> v.trim]
        BY Zenon, <3>1, <3>8, <4>1
      <4>3. QED
        BY <4>2 DEF w
    <3>10. Even(w) /\ SignsWeighed(w) = SignsWeighed(v)
      BY <3>6, <3>8 DEF Even, SignsWeighed
    <3>11. QED
      BY Zenon, <3>2, <3>3, <3>9, <3>10
  <2>4. QED
    BY <2>2, <2>3
<1>4. QED
  BY <1>2, <1>3

\* A link, whichever, up to whitespace.
LinkWeighed(v) ==
    [blank |-> FALSE, led |-> [link |-> FALSE, text |-> CondenseStep(LinkSeen(v.led.text), Gap)],
     trim |-> LinkSeen(v.led.text).out]

LEMMA LinkWeighs ==
    ASSUME NEW v \in WeighedState, Even(v), NEW l \in Links, NEW g \in Letters \cup Marks, NEW s \in Spaces
    PROVE  /\ WeighStep(WeighStep(WeighStep(v, l), g), s) = LinkWeighed(v)
           /\ Even(LinkWeighed(v)) /\ SignsWeighed(LinkWeighed(v)) = SignsWeighed(v)
<1> DEFINE c == v.led.text
           d == LinkSeen(c)
           inner == [link |-> TRUE, text |-> d]
           w == [blank |-> FALSE, led |-> inner, trim |-> d.out]
<1>1. c \in CondensedState /\ d \in CondensedState /\ ~v.led.link
  BY WeighedFields, LinkSeenType DEF Even
<1>2. /\ l \notin Spaces /\ g \notin Spaces /\ s \in White /\ Gap \in White /\ White \in {Digits, Noise, White}
      /\ Gap \in Written /\ Address \in Written
  BY ClassesAreDisjoint, WrittenClasses DEF White
<1> HIDE DEF d
<1>3. WeighStep(v, l) = w
  <2>1. SeenStep(v.led, l) = inner
    BY <1>1 DEF SeenStep, d
  <2>2. QED
    BY <1>2, <2>1 DEF WeighStep
<1>4. WeighStep(w, g) = w
  <2>1. w.led = inner
    OBVIOUS
  <2>2. SeenStep(inner, g) = inner
    BY <1>2 DEF SeenStep
  <2>3. inner.text.out = d.out
    OBVIOUS
  <2> HIDE DEF inner
  <2>4. QED
    BY <1>2, <2>1, <2>2, <2>3 DEF WeighStep
<1>5. WeighStep(w, s) = LinkWeighed(v)
  <2>1. w \in WeighedState
    <3>1. inner \in SeenState
      BY <1>1 DEF SeenState
    <3>2. d.out \in Seq(Written)
      BY <1>1, CondensedFields
    <3> HIDE DEF inner
    <3>3. QED
      BY <3>1, <3>2 DEF WeighedState
  <2>2. w.blank = FALSE /\ w.led.text = d /\ w.trim = d.out
    OBVIOUS
  <2> HIDE DEF w
  <2>3. WeighStep(w, s) = [blank |-> FALSE, led |-> [link |-> FALSE, text |-> CondenseStep(w.led.text, s)], trim |-> w.trim]
    BY <2>1, <2>2, SpaceWeighs
  <2>4. CondenseStep(d, s) = CondenseStep(d, Gap)
    BY <1>1, <1>2, CondenseSame
  <2>5. QED
    BY Zenon, <2>2, <2>3, <2>4 DEF LinkWeighed, d
<1>6. Filter(d.out, Signs) = Filter(c.out, Signs)
  <2>1. /\ CondenseStep(c, Gap) \in CondensedState
        /\ CondenseStep(CondenseStep(c, Gap), Address) \in CondensedState
    BY <1>1, <1>2, CondenseType
  <2>2. /\ Filter(CondenseStep(c, Gap).out, Signs) = Filter(c.out, Signs)
        /\ Filter(CondenseStep(CondenseStep(c, Gap), Address).out, Signs) = Filter(CondenseStep(c, Gap).out, Signs)
        /\ Filter(CondenseStep(CondenseStep(CondenseStep(c, Gap), Address), Gap).out, Signs)
               = Filter(CondenseStep(CondenseStep(c, Gap), Address).out, Signs)
    <3>1. Gap \in Digits \cup Noise \cup White \cup {Address} /\ Address \in Digits \cup Noise \cup White \cup {Address}
      BY <1>2
    <3>2. QED
      BY <1>1, <1>2, <2>1, <3>1, CondenseKeeps
  <2>3. QED
    BY Zenon, <2>2 DEF d, LinkSeen
<1>7. Filter(CondenseStep(d, Gap).out, Signs) = Filter(d.out, Signs)
  <2>1. Gap \in Digits \cup Noise \cup White \cup {Address}
    BY <1>2
  <2>2. QED
    BY <1>1, <1>2, <2>1, CondenseKeeps
<1>8. Even(LinkWeighed(v)) /\ SignsWeighed(LinkWeighed(v)) = SignsWeighed(v)
  <2> DEFINE e == CondenseStep(d, Gap)
  <2>1. LinkWeighed(v) = [blank |-> FALSE, led |-> [link |-> FALSE, text |-> e], trim |-> d.out]
    BY Zenon DEF LinkWeighed, d
  <2>2. Filter(e.out, Signs) = Filter(d.out, Signs)
    BY <1>7
  <2> HIDE DEF e
  <2>3. QED
    BY <1>6, <2>1, <2>2 DEF Even, SignsWeighed
<1>9. QED
  BY Zenon, <1>3, <1>4, <1>5, <1>8

\* The beginning of a sequence is shorter, or all of it.
LEMMA CutIs ==
    ASSUME NEW E, NEW s \in Seq(E), NEW n \in Nat,
           Len(SubSeq(s, 1, Min({Len(s), n}))) < n
    PROVE  SubSeq(s, 1, Min({Len(s), n})) = s
<1> DEFINE N == Len(s)
           m == Min({N, n})
<1>1. N \in Nat /\ m \in {N, n} /\ m <= N /\ m <= n
  <2>1. {N, n} \in SUBSET Nat /\ {N, n} # {}
    OBVIOUS
  <2> HIDE DEF N
  <2>2. m \in {N, n} /\ \A u \in {N, n} : m <= u
    BY <2>1, LeastExists DEF Min
  <2>3. QED
    BY <2>1, <2>2
<1> HIDE DEF m
<1>2. Len(SubSeq(s, 1, m)) = m
  <2>1. 1 \in 1 .. Len(s) + 1 /\ m \in 0 .. Len(s) /\ 1 <= m + 1 /\ m - 1 + 1 = m
    BY <1>1
  <2>2. QED
    BY <2>1, PartIs
<1>3. m < n
  BY <1>2 DEF m
<1>4. m = N
  BY <1>1, <1>3
<1>5. SubSeq(s, 1, N) = s
  <2> DEFINE u == SubSeq(s, 1, N)
  <2>1. 1 \in 1 .. Len(s) + 1 /\ N \in 0 .. Len(s) /\ 1 <= N + 1 /\ N - 1 + 1 = N /\ \A i \in 1 .. N : 1 + i - 1 = i
    BY <1>1
  <2>2. u \in Seq(E) /\ Len(u) = N /\ \A i \in 1 .. N : u[i] = s[1 + i - 1]
    BY <2>1, PartIs
  <2> HIDE DEF u
  <2>3. \A i \in 1 .. Len(u) : u[i] = s[i]
    BY <2>1, <2>2
  <2>4. QED
    BY <2>2, <2>3, SeqEqual DEF u
<1>6. QED
  BY <1>4, <1>5 DEF m

-----------------------------------------------------------------------------
\* What is typed is a text.
TextType == text \in Seq(Graphemes)

LEMMA TextTyped == TextSpec => []TextType
<1>1. TextInit => TextType
  BY DEF TextInit, TextType
<1>2. TextType /\ [TextNext]_text => TextType'
  <2>1. SUFFICES ASSUME TextType, [TextNext]_text PROVE TextType'
    OBVIOUS
  <2>2. ASSUME NEW g \in Typed, TypeText(g) PROVE TextType'
    <3>1. g \in Graphemes
      BY TypedAssumption
    <3>2. QED
      BY <2>1, <2>2, <3>1 DEF TypeText, TextType
  <2>3. CASE UNCHANGED text
    BY <2>1, <2>3 DEF TextType
  <2>4. QED
    BY <2>1, <2>2, <2>3 DEF TextNext
<1>3. QED
  BY <1>1, <1>2, PTL DEF TextSpec

\* The inductive invariant of the variations: no link is open in either
\* comment, both weigh the same while they are alike, and the signs that are
\* weighed differ from when they are not.
VariationsWeigh ==
    LET v == Weighed(FlattenSeq(first))
        w == Weighed(FlattenSeq(second))
    IN  /\ first \in Seq(Seq(Graphemes)) /\ second \in Seq(Seq(Graphemes))
        /\ Even(v) /\ Even(w)
        /\ alike => v = w
        /\ ~alike => SignsWeighed(v) # SignsWeighed(w)

\* What a piece adds to the weight of a comment.
LEMMA AppendedWeighs ==
    ASSUME NEW s \in Seq(Graphemes), NEW a \in Graphemes, NEW b \in Graphemes
    PROVE  /\ Weighed(s \o <<a>>) = WeighStep(Weighed(s), a)
           /\ Weighed(s \o <<a, b>>) = WeighStep(WeighStep(Weighed(s), a), b)
<1>1. s \o <<a>> = Append(s, a) /\ s \o <<a, b>> = Append(Append(s, a), b)
  BY PiecesAppend
<1>2. Append(s, a) \in Seq(Graphemes)
  OBVIOUS
<1>3. /\ Weighed(Append(s, a)) = WeighStep(Weighed(s), a)
      /\ Weighed(Append(Append(s, a), b)) = WeighStep(Weighed(Append(s, a)), b)
  BY <1>2, WeighedIs
<1>4. QED
  BY Zenon, <1>1, <1>3

LEMMA FlatWithMore ==
    ASSUME NEW ss \in Seq(Seq(Graphemes)), NEW p \in Seq(Graphemes)
    PROVE  FlattenSeq(Append(ss, p)) = FlattenSeq(ss) \o p /\ FlattenSeq(ss) \in Seq(Graphemes)
BY FlattenIs

LEMMA PieceWeighs ==
    ASSUME NEW ss \in Seq(Seq(Graphemes)), NEW a \in Graphemes, NEW b \in Graphemes
    PROVE  /\ Weighed(FlattenSeq(Append(ss, <<a>>))) = WeighStep(Weighed(FlattenSeq(ss)), a)
           /\ Weighed(FlattenSeq(Append(ss, <<a, b>>))) = WeighStep(WeighStep(Weighed(FlattenSeq(ss)), a), b)
<1> DEFINE s == FlattenSeq(ss)
<1>1. <<a>> \in Seq(Graphemes) /\ <<a, b>> \in Seq(Graphemes)
  OBVIOUS
<1>2. /\ s \in Seq(Graphemes) /\ FlattenSeq(Append(ss, <<a>>)) = s \o <<a>>
      /\ FlattenSeq(Append(ss, <<a, b>>)) = s \o <<a, b>>
  BY Zenon, <1>1, FlatWithMore
<1> HIDE DEF s
<1>3. Weighed(s \o <<a>>) = WeighStep(Weighed(s), a)
  BY <1>2, AppendedWeighs
<1>4. Weighed(s \o <<a, b>>) = WeighStep(WeighStep(Weighed(s), a), b)
  BY <1>2, AppendedWeighs
<1>5. QED
  BY Zenon, <1>2, <1>3, <1>4 DEF s

LEMMA LongPieceWeighs ==
    ASSUME NEW ss \in Seq(Seq(Graphemes)), NEW a \in Graphemes, NEW b \in Graphemes, NEW c \in Graphemes
    PROVE  Weighed(FlattenSeq(Append(ss, <<a, b, c>>)))
               = WeighStep(WeighStep(WeighStep(Weighed(FlattenSeq(ss)), a), b), c)
<1> DEFINE s == FlattenSeq(ss)
<1>1. <<a, b, c>> \in Seq(Graphemes)
  OBVIOUS
<1>2. s \in Seq(Graphemes) /\ FlattenSeq(Append(ss, <<a, b, c>>)) = s \o <<a, b, c>>
  BY Zenon, <1>1, FlatWithMore
<1> HIDE DEF s
<1>3. s \o <<a, b, c>> = Append(Append(Append(s, a), b), c)
  BY <1>2, PiecesAppend
<1>4. Append(s, a) \in Seq(Graphemes) /\ Append(Append(s, a), b) \in Seq(Graphemes)
  BY <1>2
<1>5. /\ Weighed(Append(s, a)) = WeighStep(Weighed(s), a)
      /\ Weighed(Append(Append(s, a), b)) = WeighStep(Weighed(Append(s, a)), b)
      /\ Weighed(Append(Append(Append(s, a), b), c)) = WeighStep(Weighed(Append(Append(s, a), b)), c)
  BY <1>2, <1>4, WeighedIs
<1>6. QED
  BY Zenon, <1>2, <1>3, <1>5 DEF s

\* A piece that changes no signs: what it weighs depends on the weight before it.
LEMMA VariationStays ==
    ASSUME VariationsWeigh, UNCHANGED alike,
           NEW p \in Seq(Graphemes), NEW q \in Seq(Graphemes), AddPiece(p, q),
           NEW Weight,
           \A v \in WeighedState : Even(v) => Even(Weight[v]) /\ SignsWeighed(Weight[v]) = SignsWeighed(v),
           Weighed(FlattenSeq(first')) = Weight[Weighed(FlattenSeq(first))],
           Weighed(FlattenSeq(second')) = Weight[Weighed(FlattenSeq(second))]
    PROVE  VariationsWeigh'
<1> DEFINE v == Weighed(FlattenSeq(first))
           w == Weighed(FlattenSeq(second))
<1>1. /\ first \in Seq(Seq(Graphemes)) /\ second \in Seq(Seq(Graphemes)) /\ Even(v) /\ Even(w)
      /\ alike => v = w
      /\ ~alike => SignsWeighed(v) # SignsWeighed(w)
  BY DEF VariationsWeigh
<1>2. v \in WeighedState /\ w \in WeighedState
  BY <1>1, FlattenIs, WeighedIs
<1>3. first' \in Seq(Seq(Graphemes)) /\ second' \in Seq(Seq(Graphemes))
  BY <1>1 DEF AddPiece
<1> HIDE DEF v, w
<1>4. Weighed(FlattenSeq(first')) = Weight[v] /\ Weighed(FlattenSeq(second')) = Weight[w]
  BY DEF v, w
<1>5. /\ Even(Weight[v]) /\ SignsWeighed(Weight[v]) = SignsWeighed(v)
      /\ Even(Weight[w]) /\ SignsWeighed(Weight[w]) = SignsWeighed(w)
  BY <1>1, <1>2
<1>6. alike' <=> alike
  OBVIOUS
<1>7. QED
  BY Zenon, <1>1, <1>3, <1>4, <1>5, <1>6 DEF VariationsWeigh

LEMMA PiecesOf ==
    ASSUME NEW set
    PROVE  /\ \A p \in One(set) : \E g \in set : p = <<g>>
           /\ \A q \in Some(set) : \E g, h \in set : q = <<g>> \/ q = <<g, h>>
<1>1. \A p \in One(set) : \E g \in set : p = <<g>>
  BY Zenon DEF One
<1>2. \A q \in Some(set) : \E g, h \in set : q = <<g>> \/ q = <<g, h>>
  <2>1. SUFFICES ASSUME NEW q \in Some(set) PROVE \E g, h \in set : q = <<g>> \/ q = <<g, h>>
    OBVIOUS
  <2>2. CASE q \in One(set)
    <3>1. PICK g \in set : q = <<g>>
      BY Zenon, <1>1, <2>2
    <3>2. QED
      BY Zenon, <3>1
  <2>3. CASE q \in [1 .. 2 -> set]
    <3>1. q[1] \in set /\ q[2] \in set /\ q = <<q[1], q[2]>>
      BY <2>3
    <3>2. QED
      BY Zenon, <3>1
  <2>4. QED
    BY Zenon, <2>2, <2>3 DEF Some
<1>3. QED
  BY Zenon, <1>1, <1>2

\* Runs of digits, of noise and of whitespace, of any length.
LEMMA VariationRuns ==
    ASSUME VariationsWeigh, NEW set \in {Digits, Noise, Spaces},
           NEW p \in One(set), NEW q \in Some(set), AddPiece(p, q), UNCHANGED alike
    PROVE  VariationsWeigh'
<1>1. PICK g \in set : p = <<g>>
  BY Zenon, PiecesOf
<1>2. PICK h \in set, i \in set : q = <<h>> \/ q = <<h, i>>
  BY Zenon, PiecesOf
<1>3. set \subseteq Graphemes
  BY GraphemesAre DEF Noise
<1>4. p \in Seq(Graphemes) /\ q \in Seq(Graphemes)
  <2>1. g \in Graphemes /\ h \in Graphemes /\ i \in Graphemes
    BY <1>3
  <2>2. <<g>> \in Seq(Graphemes) /\ <<h>> \in Seq(Graphemes) /\ <<h, i>> \in Seq(Graphemes)
    BY <2>1
  <2>3. QED
    BY Zenon, <1>1, <1>2, <2>2
<1> DEFINE v == Weighed(FlattenSeq(first))
           w == Weighed(FlattenSeq(second))
           Weight == [u \in WeighedState |-> WeighStep(u, g)]
<1>5. /\ first \in Seq(Seq(Graphemes)) /\ second \in Seq(Seq(Graphemes)) /\ Even(v) /\ Even(w)
  BY DEF VariationsWeigh
<1>6. first' = Append(first, p) /\ second' = Append(second, q)
  BY DEF AddPiece
<1>7. v \in WeighedState /\ w \in WeighedState
  BY <1>5, FlattenIs, WeighedIs
<1>8. Weighed(FlattenSeq(first')) = WeighStep(v, g)
  <2>1. Weighed(FlattenSeq(Append(first, <<g>>))) = WeighStep(v, g)
    BY <1>3, <1>5, PieceWeighs
  <2>2. QED
    BY Zenon, <1>1, <1>6, <2>1
<1>9. Weighed(FlattenSeq(second')) = WeighStep(w, g)
  <2>1. /\ Weighed(FlattenSeq(Append(second, <<h>>))) = WeighStep(w, h)
        /\ Weighed(FlattenSeq(Append(second, <<h, i>>))) = WeighStep(WeighStep(w, h), i)
    BY <1>3, <1>5, PieceWeighs
  <2> HIDE DEF w
  <2>2. WeighStep(w, h) = WeighStep(w, g) /\ WeighStep(WeighStep(w, h), i) = WeighStep(w, h)
    BY <1>5, <1>7, RunWeighs
  <2>3. QED
    BY Zenon, <1>2, <1>6, <2>1, <2>2
<1>10. ASSUME NEW u \in WeighedState, Even(u)
       PROVE  Even(WeighStep(u, g)) /\ SignsWeighed(WeighStep(u, g)) = SignsWeighed(u)
  BY <1>10, RunWeighs
<1>11. \A u \in WeighedState : Even(u) => Even(Weight[u]) /\ SignsWeighed(Weight[u]) = SignsWeighed(u)
  BY <1>10
<1>12. Weighed(FlattenSeq(first')) = Weight[v] /\ Weighed(FlattenSeq(second')) = Weight[w]
  BY <1>7, <1>8, <1>9
<1> HIDE DEF Weight
<1>13. QED
  BY <1>4, <1>11, <1>12, VariationStays

\* Links, whichever.
LEMMA VariationLinks ==
    ASSUME VariationsWeigh, Link
    PROVE  VariationsWeigh'
<1>1. PICK l \in Links, m \in Links, a \in Letters \cup Marks, b \in Letters \cup Marks, s \in Spaces :
          AddPiece(<<l, a, s>>, <<m, b, s>>) /\ UNCHANGED alike
  BY Zenon DEF Link
<1>2. /\ l \in Graphemes /\ m \in Graphemes /\ a \in Graphemes /\ b \in Graphemes /\ s \in Graphemes
  BY GraphemesAre
<1> DEFINE v == Weighed(FlattenSeq(first))
           w == Weighed(FlattenSeq(second))
           p == <<l, a, s>>
           q == <<m, b, s>>
           Weight == [u \in WeighedState |-> LinkWeighed(u)]
<1>3. p \in Seq(Graphemes) /\ q \in Seq(Graphemes)
  BY <1>2
<1>4. /\ first \in Seq(Seq(Graphemes)) /\ second \in Seq(Seq(Graphemes)) /\ Even(v) /\ Even(w)
  BY DEF VariationsWeigh
<1>5. first' = Append(first, p) /\ second' = Append(second, q)
  BY Zenon, <1>1 DEF AddPiece
<1>6. v \in WeighedState /\ w \in WeighedState
  BY <1>4, FlattenIs, WeighedIs
<1>7. /\ Weighed(FlattenSeq(Append(first, p))) = WeighStep(WeighStep(WeighStep(v, l), a), s)
      /\ Weighed(FlattenSeq(Append(second, q))) = WeighStep(WeighStep(WeighStep(w, m), b), s)
  <2>1. Weighed(FlattenSeq(Append(first, <<l, a, s>>))) = WeighStep(WeighStep(WeighStep(v, l), a), s)
    BY <1>2, <1>4, LongPieceWeighs
  <2>2. Weighed(FlattenSeq(Append(second, <<m, b, s>>))) = WeighStep(WeighStep(WeighStep(w, m), b), s)
    BY <1>2, <1>4, LongPieceWeighs
  <2>3. QED
    BY Zenon, <2>1, <2>2
<1> HIDE DEF v, w
<1>8. /\ WeighStep(WeighStep(WeighStep(v, l), a), s) = LinkWeighed(v)
      /\ WeighStep(WeighStep(WeighStep(w, m), b), s) = LinkWeighed(w)
  BY <1>4, <1>6, LinkWeighs
<1>9. ASSUME NEW u \in WeighedState, Even(u)
      PROVE  Even(LinkWeighed(u)) /\ SignsWeighed(LinkWeighed(u)) = SignsWeighed(u)
  BY <1>9, LinkWeighs
<1>10. \A u \in WeighedState : Even(u) => Even(Weight[u]) /\ SignsWeighed(Weight[u]) = SignsWeighed(u)
  BY <1>9
<1>11. Weight[v] = LinkWeighed(v) /\ Weight[w] = LinkWeighed(w)
  BY <1>6
<1> HIDE DEF Weight, p, q
<1>12. Weighed(FlattenSeq(first')) = Weight[v] /\ Weighed(FlattenSeq(second')) = Weight[w]
  BY Zenon, <1>5, <1>7, <1>8, <1>11
<1>13. AddPiece(p, q) /\ UNCHANGED alike
  BY Zenon, <1>1 DEF p, q
<1>14. QED
  BY <1>3, <1>10, <1>12, <1>13, VariationStays DEF v, w

\* A sign in each: alike as long as they are one sign in lower case.
LEMMA VariationSigns ==
    ASSUME VariationsWeigh, Sign
    PROVE  VariationsWeigh'
<1>1. PICK g \in Words, h \in Words : AddPiece(<<g>>, <<h>>) /\ alike' = (alike /\ Lower(g) = Lower(h))
  BY Zenon DEF Sign
<1>2. g \in Graphemes /\ h \in Graphemes /\ Lower(g) \in Written /\ Lower(h) \in Written
  BY WordsAre, GraphemesWritten
<1> DEFINE v == Weighed(FlattenSeq(first))
           w == Weighed(FlattenSeq(second))
           p == <<g>>
           q == <<h>>
<1>3. p \in Seq(Graphemes) /\ q \in Seq(Graphemes)
  BY <1>2
<1>4. /\ first \in Seq(Seq(Graphemes)) /\ second \in Seq(Seq(Graphemes)) /\ Even(v) /\ Even(w)
      /\ alike => v = w
      /\ ~alike => SignsWeighed(v) # SignsWeighed(w)
  BY DEF VariationsWeigh
<1>5. first' = Append(first, p) /\ second' = Append(second, q)
  BY Zenon, <1>1 DEF AddPiece
<1>6. v \in WeighedState /\ w \in WeighedState
  BY <1>4, FlattenIs, WeighedIs
<1>7. /\ Weighed(FlattenSeq(Append(first, p))) = WeighStep(v, g)
      /\ Weighed(FlattenSeq(Append(second, q))) = WeighStep(w, h)
  BY <1>2, <1>4, PieceWeighs
<1> HIDE DEF v, w, p, q
<1>8. Weighed(FlattenSeq(first')) = WeighStep(v, g) /\ Weighed(FlattenSeq(second')) = WeighStep(w, h)
  BY Zenon, <1>5, <1>7
<1>9. /\ WeighStep(v, g) = Behind(CondenseStep(v.led.text, Lower(g)))
      /\ WeighStep(w, h) = Behind(CondenseStep(w.led.text, Lower(h)))
      /\ Even(WeighStep(v, g)) /\ SignsWeighed(WeighStep(v, g)) = Append(SignsWeighed(v), Lower(g))
      /\ Even(WeighStep(w, h)) /\ SignsWeighed(WeighStep(w, h)) = Append(SignsWeighed(w), Lower(h))
  BY <1>4, <1>6, SignAppears
<1>10. first' \in Seq(Seq(Graphemes)) /\ second' \in Seq(Seq(Graphemes))
  BY <1>3, <1>4, <1>5
<1>11. alike' => WeighStep(v, g) = WeighStep(w, h)
  <2>1. alike' => v = w /\ Lower(g) = Lower(h)
    BY Zenon, <1>1, <1>4
  <2>2. QED
    BY Zenon, <1>9, <2>1
<1>12. ~alike' => SignsWeighed(WeighStep(v, g)) # SignsWeighed(WeighStep(w, h))
  <2>1. SUFFICES ASSUME ~alike', Append(SignsWeighed(v), Lower(g)) = Append(SignsWeighed(w), Lower(h)) PROVE FALSE
    BY Zenon, <1>9
  <2>2. SignsWeighed(v) \in Seq(Written) /\ SignsWeighed(w) \in Seq(Written)
    BY <1>6, WeighedFields
  <2>3. SignsWeighed(v) = SignsWeighed(w) /\ Lower(g) = Lower(h)
    BY <1>2, <2>1, <2>2, AppendCancels
  <2>4. QED
    BY Zenon, <1>1, <1>4, <2>1, <2>3
<1>13. QED
  BY Zenon, <1>8, <1>9, <1>10, <1>11, <1>12 DEF VariationsWeigh

LEMMA VariationsStep == VariationsWeigh /\ [VariationNext]_variationVars => VariationsWeigh'
<1>1. SUFFICES ASSUME VariationsWeigh, [VariationNext]_variationVars PROVE VariationsWeigh'
  OBVIOUS
<1>2. CASE Sign
  BY <1>1, <1>2, VariationSigns
<1>3. CASE Number
  BY <1>1, <1>3, VariationRuns DEF Number
<1>4. CASE Noises
  BY <1>1, <1>4, VariationRuns DEF Noises, Noise
<1>5. CASE Whitespace
  BY <1>1, <1>5, VariationRuns DEF Whitespace
<1>6. CASE Link
  BY <1>1, <1>6, VariationLinks
<1>7. CASE UNCHANGED variationVars
  BY Zenon, <1>1, <1>7 DEF VariationsWeigh, variationVars
<1>8. QED
  BY <1>1, <1>2, <1>3, <1>4, <1>5, <1>6, <1>7 DEF VariationNext

LEMMA VariationsStart == VariationInit => VariationsWeigh
<1>1. SUFFICES ASSUME VariationInit PROVE VariationsWeigh
  OBVIOUS
<1>2. first = <<>> /\ second = <<>> /\ alike = TRUE
  BY <1>1 DEF VariationInit
<1>3. FlattenSeq(<<>>) = <<>> /\ Weighed(<<>>) = Unweighed /\ <<>> \in Seq(Seq(Graphemes))
  BY FlattenIs, WeighedIs
<1>4. Even(Unweighed)
  BY DEF Even, Unweighed, Unseen, Uncondensed, SignsWeighed
<1>5. QED
  BY Zenon, <1>2, <1>3, <1>4 DEF VariationsWeigh

LEMMA WeighedSame == VariationsWeigh => SameExactlyForVariations
<1> DEFINE v == Weighed(FlattenSeq(first)).trim
           w == Weighed(FlattenSeq(second)).trim
           x == Fingerprint(FlattenSeq(first))
           y == Fingerprint(FlattenSeq(second))
<1>1. SUFFICES ASSUME VariationsWeigh
               PROVE  (alike => x = y) /\ (~alike /\ Len(x) < FingerprintLength => x # y)
  BY DEF SameExactlyForVariations
<1>2. /\ x = SubSeq(v, 1, Min({Len(v), FingerprintLength}))
      /\ y = SubSeq(w, 1, Min({Len(w), FingerprintLength}))
  BY FingerprintIs
<1>3. /\ first \in Seq(Seq(Graphemes)) /\ second \in Seq(Seq(Graphemes))
      /\ Filter(v, Signs) = SignsWeighed(Weighed(FlattenSeq(first)))
      /\ Filter(w, Signs) = SignsWeighed(Weighed(FlattenSeq(second)))
      /\ alike => v = w
      /\ ~alike => SignsWeighed(Weighed(FlattenSeq(first))) # SignsWeighed(Weighed(FlattenSeq(second)))
  BY Zenon, <1>1 DEF VariationsWeigh, Even
<1>4. v \in Seq(Written) /\ w \in Seq(Written)
  <2>1. Weighed(FlattenSeq(first)) \in WeighedState /\ Weighed(FlattenSeq(second)) \in WeighedState
    BY <1>3, FlattenIs, WeighedIs
  <2>2. QED
    BY <2>1, WeighedFields
<1>5. ~alike => v # w
  BY Zenon, <1>3
<1>6. FingerprintLength \in Nat
  BY BoundsAre
<1> HIDE DEF v, w, x, y
<1>7. alike => x = y
  BY Zenon, <1>2, <1>3
<1>8. ~alike /\ Len(x) < FingerprintLength => x # y
  <2>1. SUFFICES ASSUME ~alike, Len(x) < FingerprintLength, x = y PROVE FALSE
    OBVIOUS
  <2>2. x = v
    BY <1>2, <1>4, <1>6, <2>1, CutIs
  <2>3. y = w
    BY <1>2, <1>4, <1>6, <2>1, CutIs
  <2>4. QED
    BY <1>5, <2>1, <2>2, <2>3
<1>9. QED
  BY <1>7, <1>8

LEMMA VariationsSame == VariationSpec => []SameExactlyForVariations
BY VariationsStart, VariationsStep, WeighedSame, PTL DEF VariationSpec

LEMMA TextIsJudged == TextType /\ SameExactlyForVariations => CommentsAreJudged
BY RunsAreFound, TextIsKept, DifferentWordsAreFine DEF CommentsAreJudged, TextType

\* Of any text, typed grapheme by grapheme, and any two comments, written piece
\* by piece side by side: repetition is found wherever it stands, the tokens
\* are what is visible, different words pass, and a fingerprint tells a comment
\* from others exactly as far as its letters, its numbers other than digits and
\* its angles do (ValidateContent, Fingerprint).  Texts are those TextAnalysis
\* reads: a grapheme is one rune, the marker of a link is one grapheme and is
\* spelled by no others, and repetition is judged in texts without links.
THEOREM CommentsAreSound == TextSpec /\ VariationSpec => []CommentsAreJudged
BY TextTyped, VariationsSame, TextIsJudged, PTL
=============================================================================
