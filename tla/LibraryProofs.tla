--------------------------- MODULE LibraryProofs ----------------------------
(***************************************************************************)
(* Proofs about the library: division, the search for memory and the       *)
(* command line.                                                           *)
(* Division: __qdivrem is right for every base that is a power of two and  *)
(* for all arguments.  The invariant (Knuth) says that the digits found so *)
(* far times the divisor, and what is left of u, are the shifted dividend, *)
(* and that the guess for the next digit is never too small (GuessIsEnough)*)
(* and after D3 at most one too large (GuessIsNear).  What the loops over  *)
(* the digits compute is a telescoping sum of their columns (Telescope).   *)
(* Search: mbi_find_memory finds what it should, for all memory maps, also *)
(* unordered ones with blocks in a page, whenever it returns.  The invariant*)
(* of its loop (LoopInv): what was found is the highest place in the blocks*)
(* before the one at hand.                                                 *)
(* Command line: every option is in force, for all lines that fit into the *)
(* buffer.  strtoull is the number the digits stand for (StrtoullIs) and   *)
(* strtok_r finds the words behind the cursor (StrtokIs).  The invariant   *)
(* (IInv): behind the cursor the buffer still holds the line, the options  *)
(* before it are in force, and behind the inner cursor the arguments not   *)
(* read yet are untouched.                                                 *)
(***************************************************************************)
EXTENDS Qdivrem, FreeMemory, CommandOptions,
        FiniteSetTheorems, SequenceTheorems, WellFoundedInduction, TLAPS

(* A digit, and the base.                                                   *)
Digit == 0..(B - 1)

-----------------------------------------------------------------------------
(* Powers of two: a set of one element more has twice the subsets.          *)
LEMMA PowerOfTwo == ASSUME NEW e \in Nat PROVE 2^e \in Nat /\ 2^(e + 1) = 2 * 2^e
<1> DEFINE S == 1..e
           x == e + 1
           R == {t \cup {x} : t \in SUBSET S}
<1>1. IsFiniteSet(S) /\ Cardinality(S) = e /\ IsFiniteSet(1..x) /\ Cardinality(1..x) = x
  BY FS_Interval
<1>2. IsFiniteSet(SUBSET S) /\ Cardinality(SUBSET S) = 2^e
  BY <1>1, FS_SUBSET, Zenon
<1>3. Cardinality(SUBSET (1..x)) = 2^x
  BY <1>1, FS_SUBSET, Zenon
<1>4. SUBSET (1..x) = (SUBSET S) \cup R
  <2>1. ASSUME NEW t \in SUBSET (1..x) PROVE t \in (SUBSET S) \cup R
    <3>1. t \ {x} \in SUBSET S
      <4>1. \A y \in 1..x : y # x => y \in S
        OBVIOUS
      <4> HIDE DEF S, x
      <4> QED
        BY <4>1
    <3>2. t = t \ {x} \/ t = (t \ {x}) \cup {x}
      OBVIOUS
    <3> QED
      BY <3>1, <3>2
  <2>2. S \subseteq 1..x /\ x \in 1..x
    OBVIOUS
  <2>3. R \subseteq SUBSET (1..x) /\ SUBSET S \subseteq SUBSET (1..x)
    BY <2>2
  <2> QED
    BY <2>1, <2>3
<1>5. (SUBSET S) \cap R = {}
  OBVIOUS
<1>6. ExistsBijection(SUBSET S, R)
  <2> DEFINE f == [t \in SUBSET S |-> t \cup {x}]
  <2>1. x \notin S
    OBVIOUS
  <2> HIDE DEF S, x
  <2>2. ASSUME NEW s \in SUBSET S, NEW t \in SUBSET S, f[s] = f[t] PROVE s = t
    BY <2>1, <2>2
  <2>3. f \in [SUBSET S -> R] /\ \A r \in R : \E t \in SUBSET S : f[t] = r
    OBVIOUS
  <2> HIDE DEF f
  <2>4. IsInjective(f) /\ DOMAIN f = SUBSET S
    BY <2>2, <2>3 DEF IsInjective
  <2>5. f \in Bijection(SUBSET S, R)
    BY <2>3, <2>4, Zenon DEF Bijection, Injection, Surjection
  <2> QED
    BY <2>5 DEF ExistsBijection
<1> HIDE DEF S, R, x
<1>7. IsFiniteSet(R) /\ Cardinality(R) = Cardinality(SUBSET S)
  BY <1>2, <1>6, FS_Bijection
<1>8. Cardinality(SUBSET (1..x)) = Cardinality(SUBSET S) + Cardinality(R)
  <2>1. Cardinality(SUBSET (1..x))
          = Cardinality(SUBSET S) + Cardinality(R) - Cardinality((SUBSET S) \cap R)
    BY <1>2, <1>4, <1>7, FS_Union
  <2>2. Cardinality((SUBSET S) \cap R) = 0
    BY <1>5, FS_EmptySet
  <2> QED
    BY <1>2, <1>7, <2>1, <2>2, FS_CardinalityType
<1>9. 2^e \in Nat
  BY <1>2, FS_CardinalityType
<1>10. 2^x = 2 * 2^e
  BY <1>2, <1>3, <1>7, <1>8, <1>9
<1> QED
  BY <1>9, <1>10 DEF x

(* Induction over numbers, from the order on pairs of them.                 *)
Less == {p \in Nat \X Nat : p[1] < p[2]}

LEMMA LessWellFounded == IsWellFoundedOn(Less, Nat)
<1>1. Less \cap (Nat \X Nat) \subseteq OpToRel(<, Nat)
  BY Zenon DEF Less, OpToRel
<1> QED
  BY <1>1, NatLessThanWellFounded, IsWellFoundedOnSubrelation, Zenon

(* A set of numbers has a least one, and induction.                         *)
LEMMA Least ==
  ASSUME NEW T, T \subseteq Nat, T # {}
  PROVE  \E x \in T : \A y \in T : x <= y
<1>1. PICK x \in T : \A y \in T : ~(<<y, x>> \in Less)
  BY LessWellFounded, WFMin, Zenon
<1>2. ASSUME NEW y \in T PROVE x <= y
  <2>1. <<y, x>> \notin Less /\ x \in Nat /\ y \in Nat
    BY <1>1
  <2> QED
    BY <2>1 DEF Less
<1> QED
  BY <1>2

LEMMA Induction ==
  ASSUME NEW S, S \subseteq Nat, 0 \in S, \A e \in S : e + 1 \in S PROVE \A e \in Nat : e \in S
<1> SUFFICES ASSUME NEW e \in Nat, e \notin S PROVE FALSE
  OBVIOUS
<1> DEFINE T == Nat \ S
<1>1. PICK x \in T : \A y \in T : x <= y
  <2>1. T \subseteq Nat /\ T # {}
    OBVIOUS
  <2> HIDE DEF T
  <2> QED
    BY <2>1, Least
<1>2. x \in Nat /\ x # 0
  OBVIOUS
<1>3. x - 1 \in Nat /\ ~(x <= x - 1)
  BY <1>2
<1>4. x - 1 \in S
  BY <1>1, <1>3
<1>5. (x - 1) + 1 = x
  BY <1>2
<1> QED
  BY <1>4, <1>5

(* Quotient and remainder.                                                  *)
LEMMA DivMod ==
  ASSUME NEW a \in Int, NEW b \in Nat \ {0}
  PROVE  a = b * (a \div b) + (a % b) /\ a % b \in 0..(b - 1) /\ a \div b \in Int
         /\ (a >= 0 => a \div b \in Nat)
  OBVIOUS

(* What the shifts of D1 and D8 multiply with and divide by.                *)
LEMMA PowerOfSum ==
  ASSUME NEW a \in Nat PROVE \A b \in Nat : 2^(a + b) = 2^a * 2^b /\ 2^b \in Nat \ {0}
<1> DEFINE S == {b \in Nat : 2^(a + b) = 2^a * 2^b /\ 2^b \in Nat \ {0}}
<1>1. 2^a \in Nat
  BY PowerOfTwo
<1>2. 0 \in S
  <2>1. a + 0 = a /\ 2^0 = 1
    OBVIOUS
  <2> QED
    BY <1>1, <2>1
<1>3. ASSUME NEW b \in S PROVE b + 1 \in S
  <2>1. b \in Nat /\ 2^(a + b) = 2^a * 2^b /\ 2^b \in Nat \ {0}
    OBVIOUS
  <2>2. 2^(b + 1) = 2 * 2^b /\ 2^((a + b) + 1) = 2 * 2^(a + b)
    BY <2>1, PowerOfTwo
  <2>3. a + (b + 1) = (a + b) + 1
    BY <2>1
  <2> DEFINE x == 2^a
             y == 2^b
  <2>4. 2 * (x * y) = x * (2 * y) /\ 2 * y \in Nat \ {0}
    <3>1. x \in Nat /\ y \in Nat \ {0}
      BY <1>1, <2>1
    <3> HIDE DEF x, y
    <3> QED
      BY <3>1
  <2>5. 2^(a + (b + 1)) = 2^a * 2^(b + 1)
    BY <2>1, <2>2, <2>3, <2>4, Zenon
  <2>6. 2^(b + 1) \in Nat \ {0}
    BY <2>2, <2>4, Zenon
  <2> QED
    BY <2>1, <2>5, <2>6
<1>4. \A b \in Nat : b \in S
  <2>1. S \subseteq Nat
    OBVIOUS
  <2> HIDE DEF S
  <2> QED
    BY <1>2, <1>3, <2>1, Induction
<1> QED
  BY <1>4

(* D1 has a shift for every first digit, and it divides the base.           *)
IsShift(x, k) == B <= 2 * x * 2^k /\ x * 2^k < B

LEMMA ShiftExists ==
  ASSUME NEW x \in 1..(B - 1) PROVE \E k \in 0..B : IsShift(x, k)
<1>1. PICK k0 \in 0..B : 2^k0 = B
  BY QdivremAssumption
<1>2. B \in Nat /\ B > 1
  BY QdivremAssumption
<1> DEFINE T == {k \in Nat : B <= 2 * x * 2^k}
<1>3. k0 \in T
  BY <1>1, <1>2
<1>4. PICK k \in T : \A y \in T : k <= y
  <2>1. T \subseteq Nat
    OBVIOUS
  <2> HIDE DEF T
  <2> QED
    BY <1>3, <2>1, Least
<1>5. k \in 0..B
  BY <1>1, <1>2, <1>3, <1>4
<1>6. x * 2^k < B
  <2>1. CASE k = 0
    <3>1. 2^0 = 1
      OBVIOUS
    <3> QED
      BY <1>2, <2>1, <3>1
  <2>2. CASE k # 0
    <3>1. k - 1 \in Nat /\ (k - 1) + 1 = k /\ k \in Nat /\ ~(k <= k - 1)
      BY <1>4, <2>2
    <3>2. 2^k = 2 * 2^(k - 1) /\ 2^(k - 1) \in Nat
      BY <3>1, PowerOfTwo
    <3>3. k - 1 \notin T
      BY <1>4, <3>1
    <3>4. ~(B <= 2 * x * 2^(k - 1))
      BY <3>1, <3>3
    <3> DEFINE y == 2^(k - 1)
    <3>5. x * (2 * y) < B
      <4>1. y \in Nat /\ ~(B <= 2 * x * y)
        BY <3>2, <3>4
      <4> HIDE DEF y
      <4> QED
        BY <1>2, <4>1
    <3> QED
      BY <3>2, <3>5, Zenon
  <2> QED
    BY <2>1, <2>2
<1> QED
  BY <1>4, <1>5, <1>6 DEF IsShift

LEMMA ShiftDivides ==
  ASSUME NEW x \in 1..(B - 1), NEW k \in 0..B, IsShift(x, k)
  PROVE  2^k \in Nat \ {0} /\ \E t \in Nat \ {0} : 2^k * t = B
<1>1. PICK k0 \in 0..B : 2^k0 = B
  BY QdivremAssumption
<1>2. B \in Nat /\ B > 1
  BY QdivremAssumption
<1>3. k \in Nat /\ k0 \in Nat
  BY <1>1, <1>2
<1>4. 2^k \in Nat \ {0}
  BY <1>3, PowerOfSum
<1>5. k <= k0
  <2> SUFFICES ASSUME k > k0 PROVE FALSE
    BY <1>3
  <2>1. k - k0 \in Nat /\ k0 + (k - k0) = k
    BY <1>3
  <2>2. 2^k = B * 2^(k - k0) /\ 2^(k - k0) \in Nat \ {0}
    BY <1>1, <1>3, <2>1, PowerOfSum
  <2> DEFINE y == 2^(k - k0)
  <2>3. y \in Nat \ {0} /\ x * (B * y) < B
    BY <2>2 DEF IsShift
  <2> HIDE DEF y
  <2>4. B * y >= B /\ B * y \in Nat
    BY <1>2, <2>3
  <2> DEFINE z == B * y
  <2> HIDE DEF z
  <2>5. z \in Nat /\ z >= B /\ x * z < B
    BY <2>3, <2>4 DEF z
  <2>6. x * z >= z
    BY <2>5, <1>2
  <2> QED
    BY <2>5, <2>6, <1>2
<1>6. k0 - k \in Nat /\ k + (k0 - k) = k0
  BY <1>3, <1>5
<1>7. 2^k * 2^(k0 - k) = B /\ 2^(k0 - k) \in Nat \ {0}
  BY <1>1, <1>3, <1>6, PowerOfSum
<1> QED
  BY <1>4, <1>7

-----------------------------------------------------------------------------
(* Numbers of two to five digits.                                           *)
N2(a, b)          == B * a + b
N3(a, b, c)       == B * N2(a, b) + c
N4(a, b, c, e)    == B * N3(a, b, c) + e
N5(a, b, c, e, f) == B * N4(a, b, c, e) + f

LEMMA BaseIs == B \in Nat /\ B > 1
  BY QdivremAssumption

(* Value follows the recursion of the function it takes the last of, and so *)
(* is the number of its digits, for up to five.                             *)
LEMMA ValueSteps ==
  ASSUME NEW s, Len(s) \in 0..5, \A i \in 1..Len(s) : s[i] \in Int
  PROVE  \E val : /\ val[0] = 0 /\ \A i \in 1..Len(s) : val[i] = B * val[i - 1] + s[i]
                  /\ Value(s) = val[Len(s)]
<1> DEFINE Is(f) == f = [i \in 0..Len(s) |-> IF i = 0 THEN 0 ELSE B * f[i - 1] + s[i]]
           g == [i \in 0..Len(s) |->
                   IF i = 0 THEN 0 ELSE IF i = 1 THEN s[1] ELSE IF i = 2 THEN N2(s[1], s[2])
                   ELSE IF i = 3 THEN N3(s[1], s[2], s[3])
                   ELSE IF i = 4 THEN N4(s[1], s[2], s[3], s[4])
                   ELSE N5(s[1], s[2], s[3], s[4], s[5])]
<1>1. Is(g)
  <2>1. \A i \in 1..Len(s) : g[i] = B * g[i - 1] + s[i]
    <3>1. B * 0 + s[1] = s[1] \/ Len(s) = 0
      BY BaseIs
    <3> SUFFICES ASSUME NEW i \in 1..Len(s) PROVE g[i] = B * g[i - 1] + s[i]
      OBVIOUS
    <3>2. i \in 1..5 /\ i - 1 \in 0..Len(s) /\ i \in 0..Len(s) /\ i - 1 \in 0..4
      OBVIOUS
    <3>3. CASE i = 1
      BY <3>1, <3>2, <3>3
    <3>4. CASE i = 2
      BY <3>2, <3>4 DEF N2
    <3>5. CASE i = 3
      BY <3>2, <3>5 DEF N3
    <3>6. CASE i = 4
      BY <3>2, <3>6 DEF N4
    <3>7. CASE i = 5
      BY <3>2, <3>7 DEF N5
    <3> QED
      BY <3>2, <3>3, <3>4, <3>5, <3>6, <3>7
  <2>2. g[0] = 0
    OBVIOUS
  <2> HIDE DEF g
  <2>3. g = [i \in 0..Len(s) |-> g[i]]
    BY DEF g
  <2>4. \A i \in 0..Len(s) : g[i] = IF i = 0 THEN 0 ELSE B * g[i - 1] + s[i]
    BY <2>1, <2>2
  <2> QED
    BY <2>3, <2>4
<1> DEFINE val == CHOOSE f : Is(f)
<1>2. Value(s) = val[Len(s)]
  BY DEF Value
<1>3. Is(val)
  <2> HIDE DEF Is, g
  <2> QED
    BY <1>1, Zenon
<1> HIDE DEF val
<1>4. \A i \in 0..Len(s) : val[i] = IF i = 0 THEN 0 ELSE B * val[i - 1] + s[i]
  BY <1>3
<1>5. val[0] = 0 /\ \A i \in 1..Len(s) : val[i] = B * val[i - 1] + s[i]
  BY <1>4
<1> QED
  BY <1>2, <1>5

LEMMA ValueIs ==
  ASSUME NEW s, \A i \in 1..Len(s) : s[i] \in Int
  PROVE  /\ Len(s) = 1 => Value(s) = s[1]
         /\ Len(s) = 2 => Value(s) = N2(s[1], s[2])
         /\ Len(s) = 3 => Value(s) = N3(s[1], s[2], s[3])
         /\ Len(s) = 4 => Value(s) = N4(s[1], s[2], s[3], s[4])
         /\ Len(s) = 5 => Value(s) = N5(s[1], s[2], s[3], s[4], s[5])
<1> SUFFICES ASSUME Len(s) \in 1..5
             PROVE  /\ Len(s) = 1 => Value(s) = s[1]
                    /\ Len(s) = 2 => Value(s) = N2(s[1], s[2])
                    /\ Len(s) = 3 => Value(s) = N3(s[1], s[2], s[3])
                    /\ Len(s) = 4 => Value(s) = N4(s[1], s[2], s[3], s[4])
                    /\ Len(s) = 5 => Value(s) = N5(s[1], s[2], s[3], s[4], s[5])
  OBVIOUS
<1>1. PICK val : /\ val[0] = 0 /\ \A i \in 1..Len(s) : val[i] = B * val[i - 1] + s[i]
                 /\ Value(s) = val[Len(s)]
  BY ValueSteps
<1>2. val[1] = s[1]
  BY <1>1, BaseIs
<1>3. Len(s) >= 2 => val[2] = N2(s[1], s[2])
  BY <1>1, <1>2 DEF N2
<1>4. Len(s) >= 3 => val[3] = N3(s[1], s[2], s[3])
  BY <1>1, <1>3 DEF N3
<1>5. Len(s) >= 4 => val[4] = N4(s[1], s[2], s[3], s[4])
  BY <1>1, <1>4 DEF N4
<1>6. Len(s) >= 5 => val[5] = N5(s[1], s[2], s[3], s[4], s[5])
  BY <1>1, <1>5 DEF N5
<1>7. \A l \in {1, 2, 3, 4, 5} : Len(s) = l => Value(s) = val[l]
  BY <1>1
<1> QED
  BY <1>2, <1>3, <1>4, <1>5, <1>6, <1>7

(* Products of numbers in order are in order.                               *)
LEMMA Grows ==
  ASSUME NEW a \in Int, NEW b \in Int, NEW c \in Nat, a <= b PROVE a * c <= b * c
  OBVIOUS

LEMMA GrowsStrictly ==
  ASSUME NEW a \in Int, NEW b \in Int, NEW c \in Nat \ {0}, a < b PROVE a * c < b * c
  OBVIOUS

-----------------------------------------------------------------------------
(* A step of Algorithm D: the first digits a, b, c of a number, and x, y of *)
(* the divisor, which have R after them.                                    *)
IsStep(a, b, c, x, y, R, r, s, num, div) ==
  /\ a \in Digit /\ b \in Digit /\ c \in Digit /\ x \in Digit /\ y \in Digit
  /\ R \in Nat \ {0} /\ r \in 0..(R - 1) /\ s \in 0..(R - 1)
  /\ num = N3(a, b, c) * R + r /\ div = N2(x, y) * R + s
  /\ B <= 2 * x

(* All the numbers in such a step are natural numbers.                      *)
LEMMA StepTypes ==
  ASSUME NEW a, NEW b, NEW c, NEW x, NEW y, NEW R, NEW r, NEW s, NEW num, NEW div,
         IsStep(a, b, c, x, y, R, r, s, num, div)
  PROVE  /\ num \in Nat /\ div \in Nat \ {0} /\ x \in Nat \ {0}
         /\ N2(a, b) \in Nat /\ N3(a, b, c) \in Nat /\ N2(x, y) \in Nat \ {0}
<1>1. N2(a, b) \in Nat /\ N2(x, y) \in Nat \ {0} /\ x \in Nat \ {0}
  BY BaseIs DEF IsStep, Digit, N2
<1>2. N3(a, b, c) \in Nat
  BY <1>1, BaseIs DEF IsStep, Digit, N3
<1>3. N3(a, b, c) * R \in Nat /\ N2(x, y) * R \in Nat \ {0}
  BY <1>1, <1>2 DEF IsStep
<1> QED
  BY <1>1, <1>2, <1>3 DEF IsStep

(* The product of the divisor and z is above the number if it is for the    *)
(* leading digits.                                                          *)
LEMMA Above ==
  ASSUME NEW a, NEW b, NEW c, NEW x, NEW y, NEW R, NEW r, NEW s, NEW num, NEW div,
         IsStep(a, b, c, x, y, R, r, s, num, div), NEW z \in Nat,
         z * N2(x, y) > N3(a, b, c)
  PROVE  z * div > num
<1>1. N2(x, y) \in Nat /\ N3(a, b, c) \in Nat /\ R \in Nat \ {0} /\ r \in 0..(R - 1) /\ s \in Nat
  BY StepTypes DEF IsStep
<1> DEFINE P == N2(x, y)
           M == N3(a, b, c)
<1>2. num = M * R + r /\ div = P * R + s
  BY DEF IsStep
<1> HIDE DEF P, M
<1>3. P \in Nat /\ M \in Nat /\ z * P >= M + 1
  BY <1>1 DEF P, M
<1>4. (z * P) * R >= (M + 1) * R
  BY <1>1, <1>3, Grows
<1>5. z * div = (z * P) * R + z * s
  BY <1>1, <1>2, <1>3
<1>6. z * s >= 0
  BY <1>1
<1>7. (M + 1) * R = M * R + R
  BY <1>1, <1>3
<1>8. (z * P) * R \in Int /\ M * R \in Int /\ z * s \in Int
  BY <1>1, <1>3
<1> QED
  BY <1>1, <1>2, <1>4, <1>5, <1>6, <1>7, <1>8

(* The first digit of a number below B times the divisor is at most the     *)
(* first of the divisor: D3 meets no other case than uj0 <= v[1].           *)
LEMMA FirstDigit ==
  ASSUME NEW a, NEW b, NEW c, NEW x, NEW y, NEW R, NEW r, NEW s, NEW num, NEW div,
         IsStep(a, b, c, x, y, R, r, s, num, div), num < B * div
  PROVE  a <= x
<1> SUFFICES ASSUME a > x PROVE FALSE
  BY DEF IsStep, Digit
<1>1. a \in Nat /\ b \in Nat /\ c \in Nat /\ x \in Nat /\ y \in 0..(B - 1) /\ R \in Nat \ {0}
      /\ r \in Nat /\ s \in 0..(R - 1) /\ B \in Nat
  BY BaseIs DEF IsStep, Digit
<1>2. N2(x, y) + 1 <= B * a
  <2>1. B * (x + 1) <= B * a
    BY <1>1
  <2> QED
    BY <1>1, <2>1 DEF N2
<1> DEFINE P == N2(x, y)
<1>3. P \in Nat
  BY StepTypes
<1>4. div <= (P + 1) * R /\ div \in Nat
  <2>1. div = P * R + s
    BY DEF IsStep
  <2> HIDE DEF P
  <2> QED
    BY <1>1, <1>3, <2>1
<1>5. num >= (B * (B * a)) * R
  <2>1. N3(a, b, c) >= B * (B * a) /\ N3(a, b, c) \in Int
    <3>1. N2(a, b) >= B * a /\ N2(a, b) \in Int
      BY <1>1 DEF N2
    <3>2. B * N2(a, b) >= B * (B * a)
      BY <1>1, <3>1
    <3> QED
      BY <1>1, <3>1, <3>2 DEF N3
  <2>2. num = N3(a, b, c) * R + r
    BY DEF IsStep
  <2> DEFINE M == N3(a, b, c)
             z == B * (B * a)
  <2>3. z \in Int
    BY <1>1
  <2> HIDE DEF M, z
  <2>4. M * R >= z * R
    BY <1>1, <2>1, <2>3, Grows DEF M, z
  <2>5. M * R \in Int /\ z * R \in Int
    BY <1>1, <2>1, <2>3 DEF M
  <2>6. num >= z * R
    BY <1>1, <2>2, <2>4, <2>5 DEF M
  <2> QED
    BY <2>6 DEF z
<1>6. B * div <= B * ((B * a) * R)
  <2> DEFINE z == B * a
  <2>1. z \in Nat /\ P + 1 <= z
    BY <1>1, <1>2
  <2> HIDE DEF P, z
  <2>2. (P + 1) * R <= z * R
    BY <1>1, <1>3, <2>1, Grows
  <2>3. div <= z * R /\ z * R \in Int
    BY <1>1, <1>3, <1>4, <2>1, <2>2
  <2>4. B * div <= B * (z * R)
    BY <1>1, <1>4, <2>3
  <2> QED
    BY <2>4 DEF z
<1>7. B * ((B * a) * R) = (B * (B * a)) * R /\ (B * (B * a)) * R \in Int
  BY <1>1
<1> QED
  BY <1>1, <1>4, <1>5, <1>6, <1>7, StepTypes

(* D3: the guess is never too small.                                        *)
LEMMA GuessIsHigh ==
  ASSUME NEW a, NEW b, NEW c, NEW x, NEW y, NEW R, NEW r, NEW s, NEW num, NEW div,
         IsStep(a, b, c, x, y, R, r, s, num, div), a < x
  PROVE  LET z == N2(a, b) \div x
             w == N2(a, b) % x
         IN /\ z \in Digit /\ w \in 0..(x - 1) /\ z * x + w = N2(a, b) /\ (z + 1) * div > num
<1>1. a \in Nat /\ b \in 0..(B - 1) /\ c \in 0..(B - 1) /\ x \in Nat \ {0} /\ x < B /\ y \in Nat
      /\ R \in Nat \ {0} /\ B \in Nat
  BY BaseIs, StepTypes DEF IsStep, Digit
<1> DEFINE M == N2(a, b)
           z == M \div x
           w == M % x
<1>2. M \in Nat /\ M = B * a + b
  BY <1>1 DEF N2
<1> HIDE DEF M
<1>3. M = x * z + w /\ w \in 0..(x - 1) /\ z \in Nat
  <2>1. M \in Int /\ M >= 0
    BY <1>2
  <2> QED
    BY <1>1, <2>1, DivMod, Zenon
<1> HIDE DEF z, w
<1>4. z < B
  <2> SUFFICES ASSUME z >= B PROVE FALSE
    BY <1>1, <1>3
  <2>1. B * x <= z * x /\ z * x = x * z
    BY <1>1, <1>3, Grows
  <2>2. B * (a + 1) <= B * x
    BY <1>1
  <2>3. B * (a + 1) = B * a + B
    BY <1>1
  <2>4. B * x \in Int /\ x * z \in Int /\ B * a \in Int
    BY <1>1, <1>3
  <2> QED
    BY <1>1, <1>2, <1>3, <2>1, <2>2, <2>3, <2>4
<1>5. (z + 1) * N2(x, y) > N3(a, b, c)
  <2>1. (z + 1) * x >= M + 1
    BY <1>1, <1>2, <1>3
  <2>2. B * ((z + 1) * x) >= B * (M + 1)
    <3> DEFINE k == (z + 1) * x
    <3>1. k \in Int /\ k >= M + 1
      BY <1>1, <1>3, <2>1
    <3> HIDE DEF k
    <3> QED
      BY <1>1, <1>2, <3>1 DEF k
  <2>3. (z + 1) * N2(x, y) = B * ((z + 1) * x) + (z + 1) * y
    BY <1>1, <1>3 DEF N2
  <2>4. (z + 1) * y >= 0 /\ (z + 1) * y \in Int /\ B * ((z + 1) * x) \in Int
    BY <1>1, <1>3
  <2>5. N3(a, b, c) = B * M + c /\ B * (M + 1) = B * M + B /\ B * M \in Int
    BY <1>1, <1>2 DEF N3, M
  <2> QED
    BY <1>1, <2>2, <2>3, <2>4, <2>5
<1>6. (z + 1) * div > num
  BY <1>3, <1>5, Above
<1>7. z * x + w = M
  BY <1>1, <1>3
<1> QED
  BY <1>1, <1>3, <1>4, <1>6, <1>7 DEF Digit, M, z, w

(* The loop of D3 decrements only a guess that is too large.                *)
LEMMA TooLarge ==
  ASSUME NEW a, NEW b, NEW c, NEW x, NEW y, NEW R, NEW r, NEW s, NEW num, NEW div,
         IsStep(a, b, c, x, y, R, r, s, num, div), NEW z \in Nat, NEW w \in Nat,
         z * x + w = N2(a, b), y * z > B * w + c
  PROVE  z * div > num /\ z # 0
<1>1. c \in Nat /\ x \in Nat /\ y \in Nat /\ B \in Nat
  BY BaseIs DEF IsStep, Digit
<1>2. z * N2(x, y) = B * (z * x) + y * z
  BY <1>1 DEF N2
<1>3. N3(a, b, c) = B * (z * x) + B * w + c
  BY <1>1 DEF N3
<1>4. B * (z * x) \in Int /\ y * z \in Int /\ B * w \in Nat
  BY <1>1
<1>5. z * N2(x, y) > N3(a, b, c)
  BY <1>1, <1>2, <1>3, <1>4
<1> QED
  BY <1>1, <1>4, <1>5, Above

(* When it ends, the guess is at most one too large.                        *)
LEMMA CloseEnough ==
  ASSUME NEW a, NEW b, NEW c, NEW x, NEW y, NEW R, NEW r, NEW s, NEW num, NEW div,
         IsStep(a, b, c, x, y, R, r, s, num, div), NEW z \in Digit, NEW w \in Nat,
         z * x + w = N2(a, b), w >= B \/ y * z <= B * w + c
  PROVE  (z - 1) * div <= num
<1>1. /\ c \in Nat /\ x \in Nat /\ y \in 0..(B - 1) /\ B \in Nat /\ B > 1 /\ z \in 0..(B - 1)
      /\ R \in Nat \ {0} /\ r \in 0..(R - 1) /\ s \in 0..(R - 1) /\ B <= 2 * x
  BY BaseIs DEF IsStep, Digit
<1> DEFINE P == N2(x, y)
           M == N3(a, b, c)
<1>2. P \in Nat /\ M \in Nat /\ P >= B
  <2>1. P \in Nat /\ M \in Nat
    BY StepTypes
  <2>2. B * 1 <= B * x
    BY <1>1
  <2> QED
    BY <1>1, <2>1, <2>2 DEF N2
<1>3. y * z <= B * w + c
  <2> SUFFICES ASSUME w >= B PROVE y * z <= B * w + c
    OBVIOUS
  <2>1. y * z <= B * z
    BY <1>1
  <2>2. B * z <= B * w
    BY <1>1
  <2>3. y * z \in Int /\ B * z \in Int /\ B * w \in Int
    BY <1>1
  <2> QED
    BY <1>1, <2>1, <2>2, <2>3
<1>4. z * P <= M
  <2>1. z * P = B * (z * x) + y * z
    BY <1>1 DEF N2
  <2>2. M = B * (z * x) + B * w + c
    BY <1>1 DEF N3
  <2>3. B * (z * x) \in Int /\ y * z \in Int /\ B * w \in Nat
    BY <1>1
  <2> QED
    BY <1>1, <1>3, <2>1, <2>2, <2>3
<1>5. num = M * R + r /\ div = P * R + s
  BY DEF IsStep
<1> HIDE DEF P, M
<1>6. (z * P) * R <= M * R
  BY <1>1, <1>2, <1>4, Grows
<1>7. z * s <= P * R
  <2>1. z * s <= z * R
    BY <1>1
  <2>2. z * R <= P * R
    BY <1>1, <1>2, Grows
  <2>3. z * s \in Int /\ z * R \in Int /\ P * R \in Int
    BY <1>1, <1>2
  <2> QED
    BY <2>1, <2>2, <2>3
<1>8. (z - 1) * div = (z * P) * R + z * s - P * R - s
  BY <1>1, <1>2, <1>5
<1>9. (z * P) * R \in Int /\ M * R \in Int /\ z * s \in Int /\ P * R \in Int
  BY <1>1, <1>2
<1> QED
  BY <1>1, <1>5, <1>6, <1>7, <1>8, <1>9

-----------------------------------------------------------------------------
(* A quotient and a remainder are known by their sum and bounds.            *)
LEMMA DivIs ==
  ASSUME NEW c \in Int, NEW a \in Int, NEW b \in Nat \ {0}, NEW r \in 0..(b - 1), c = a * b + r
  PROVE  c \div b = a /\ c % b = r
  OBVIOUS

LEMMA DivSmall == ASSUME NEW b \in Nat \ {0}, NEW r \in 0..(b - 1) PROVE r \div b = 0 /\ r % b = r
  OBVIOUS

(* `long' has more numbers than a digit.                                    *)
LEMMA LongIs == Long \in Nat \ {0} /\ B < Long /\ Long = B * B
<1>1. B * B >= 2 * B
  BY BaseIs
<1> QED
  BY <1>1, BaseIs DEF Long

(* One digit of D4: what is left, and the borrow.                           *)
LEMMA Borrow ==
  ASSUME NEW a \in Digit, NEW x \in Digit, NEW z \in Digit, NEW w \in Digit
  PROVE  LET t == (a - x * z - w) % Long IN
         /\ LHALF(t) \in Digit /\ (B - HHALF(t)) % B \in Digit
         /\ LHALF(t) = a - x * z - w + B * ((B - HHALF(t)) % B)
<1> DEFINE y == a - x * z - w
           h == y \div B
           l == y % B
           k == IF h < 0 THEN h + B ELSE h
           t == y % Long
<1>1. B \in Nat /\ B > 1 /\ a \in 0..(B - 1) /\ x \in 0..(B - 1) /\ z \in 0..(B - 1)
      /\ w \in 0..(B - 1)
  BY BaseIs DEF Digit
<1>2. x * z <= (B - 1) * (B - 1) /\ x * z \in Nat
  <2>1. x * z <= (B - 1) * z /\ (B - 1) * z <= (B - 1) * (B - 1)
    BY <1>1
  <2>2. x * z \in Nat /\ (B - 1) * z \in Int /\ (B - 1) * (B - 1) \in Int
    BY <1>1
  <2> QED
    BY <2>1, <2>2
<1>3. y \in Int /\ y <= B - 1 /\ y >= -((B - 1) * B)
  <2>1. (B - 1) * (B - 1) + (B - 1) = (B - 1) * B /\ (B - 1) * (B - 1) \in Int
    BY <1>1
  <2> QED
    BY <1>1, <1>2, <2>1
<1> HIDE DEF y
<1>4. y = B * h + l /\ l \in 0..(B - 1) /\ h \in Int
  BY <1>1, <1>3, DivMod
<1> HIDE DEF h, l
<1>5. h \in (-(B - 1))..0
  <2>1. h <= 0
    <3> SUFFICES ASSUME h >= 1 PROVE FALSE
      BY <1>4
    <3>1. B * h >= B * 1
      BY <1>1, <1>4
    <3> QED
      BY <1>1, <1>3, <1>4, <3>1
  <2>2. h >= -(B - 1)
    <3> SUFFICES ASSUME h <= -B PROVE FALSE
      BY <1>1, <1>4
    <3>1. B * h <= B * (-B)
      BY <1>1, <1>4
    <3>2. (B - 1) * B = B * B - B /\ B * (-B) = -(B * B) /\ B * B \in Int /\ B * h \in Int
      BY <1>1, <1>4
    <3> QED
      BY <1>1, <1>3, <1>4, <3>1, <3>2
  <2> QED
    BY <1>1, <1>4, <2>1, <2>2
<1>6. k \in 0..(B - 1) /\ B * k + l \in 0..(Long - 1)
  <2>1. k \in 0..(B - 1)
    BY <1>1, <1>5
  <2> HIDE DEF k
  <2>2. B * k <= B * (B - 1) /\ B * k >= 0 /\ B * k \in Int
    BY <1>1, <2>1
  <2>3. B * (B - 1) = B * B - B /\ B * B \in Int
    BY <1>1
  <2> QED
    BY <1>1, <1>4, <2>1, <2>2, <2>3, LongIs
<1>7. t = B * k + l
  <2>1. CASE h < 0
    <3>1. B * k = B * h + Long
      BY <1>1, <1>4, <2>1, LongIs
    <3>2. y = (-1) * Long + (B * k + l)
      BY <1>1, <1>4, <1>6, <3>1, LongIs
    <3> QED
      BY <1>6, <3>2, LongIs, DivIs
  <2>2. CASE ~(h < 0)
    <3>1. y = 0 * Long + (B * k + l)
      BY <1>1, <1>4, <1>6, <2>2, LongIs
    <3> QED
      BY <1>6, <3>1, LongIs, DivIs
  <2> QED
    BY <2>1, <2>2
<1>8. LHALF(t) = l /\ HHALF(t) = k
  <2>1. t = k * B + l
    BY <1>1, <1>4, <1>6, <1>7
  <2>2. t \in Int /\ k \in Int /\ B \in Nat \ {0}
    BY <1>1, <1>4, <1>6, <1>7
  <2> HIDE DEF t, k
  <2> QED
    BY <1>4, <2>1, <2>2, DivIs, Zenon DEF LHALF, HHALF
<1>9. (B - k) % B = -h
  <2>1. CASE h < 0
    <3>1. B - k = 0 * B + (-h) /\ -h \in 0..(B - 1)
      BY <1>1, <1>5, <2>1
    <3> QED
      BY <1>1, <3>1, DivIs
  <2>2. CASE ~(h < 0)
    <3>1. h = 0 /\ B - k = 1 * B + 0
      BY <1>1, <1>5, <2>2
    <3> QED
      BY <1>1, <3>1, DivIs
  <2> QED
    BY <2>1, <2>2
<1>10. l = y + B * (-h) /\ -h \in 0..(B - 1)
  BY <1>1, <1>4, <1>5
<1> HIDE DEF k, t
<1> QED
  BY <1>4, <1>8, <1>9, <1>10 DEF y, t, Digit

(* The first digit of D4, and the test of D5.                               *)
LEMMA LastBorrow ==
  ASSUME NEW a \in Digit, NEW w \in Digit
  PROVE  LET t == (a - w) % Long IN
         /\ a >= w => LHALF(t) = a - w /\ HHALF(t) = 0
         /\ a < w => LHALF(t) = a - w + B /\ HHALF(t) # 0
<1>1. B \in Nat /\ B > 1 /\ a \in 0..(B - 1) /\ w \in 0..(B - 1)
  BY BaseIs DEF Digit
<1>2. CASE a >= w
  <2> DEFINE y == a - w
  <2>1. y \in 0..(Long - 1) /\ y \in 0..(B - 1)
    BY <1>1, <1>2, LongIs
  <2> HIDE DEF y
  <2>2. B \in Nat \ {0} /\ Long \in Nat \ {0}
    BY <1>1, LongIs
  <2>3. y % Long = y
    BY <2>1, <2>2, DivSmall, Zenon
  <2>4. y % B = y /\ y \div B = 0
    BY <2>1, <2>2, DivSmall, Zenon
  <2> QED
    BY <1>1, <1>2, <2>3, <2>4 DEF LHALF, HHALF, y
<1>3. CASE a < w
  <2> DEFINE x == a - w
             z == a - w + B
             y == x + Long
  <2>1. y \in 0..(Long - 1) /\ x = (-1) * Long + y /\ x \in Int /\ y \in Int
    BY <1>1, <1>3, LongIs
  <2>2. y = (B - 1) * B + z /\ z \in 0..(B - 1)
    BY <1>1, <1>3, LongIs
  <2>3. (-1) \in Int /\ B - 1 \in Int /\ B \in Nat \ {0} /\ Long \in Nat \ {0}
    BY <1>1, LongIs
  <2> HIDE DEF y, x, z
  <2>4. x % Long = y
    BY <2>1, <2>3, DivIs, Zenon
  <2>5. y \div B = B - 1 /\ y % B = z
    BY <2>1, <2>2, <2>3, DivIs, Zenon
  <2>6. LHALF(x % Long) = z /\ HHALF(x % Long) = B - 1
    BY <2>4, <2>5 DEF LHALF, HHALF
  <2> QED
    BY <1>1, <1>3, <2>6 DEF x, z
<1> QED
  BY <1>1, <1>2, <1>3

(* One digit of D6.                                                         *)
LEMMA Carry ==
  ASSUME NEW a \in Digit, NEW x \in Digit, NEW w \in {0, 1}
  PROVE  LET t == w + a + x IN
         LHALF(t) \in Digit /\ HHALF(t) \in {0, 1} /\ LHALF(t) = w + a + x - B * HHALF(t)
<1>1. B \in Nat /\ B > 1 /\ a \in 0..(B - 1) /\ x \in 0..(B - 1)
  BY BaseIs DEF Digit
<1> DEFINE t == w + a + x
<1>2. CASE t < B
  <2>1. t = 0 * B + t /\ t \in 0..(B - 1) /\ t \in Int /\ 0 \in Int /\ B \in Nat \ {0}
    BY <1>1, <1>2
  <2> HIDE DEF t
  <2>2. t \div B = 0 /\ t % B = t
    BY <2>1, DivIs, Zenon
  <2> QED
    BY <1>1, <2>1, <2>2 DEF LHALF, HHALF, Digit, t
<1>3. CASE t >= B
  <2>1. t = 1 * B + (t - B) /\ t - B \in 0..(B - 1) /\ t \in Int /\ 1 \in Int /\ B \in Nat \ {0}
    BY <1>1, <1>3
  <2> HIDE DEF t
  <2>2. t \div B = 1 /\ t % B = t - B
    BY <2>1, DivIs, Zenon
  <2> QED
    BY <1>1, <2>1, <2>2 DEF LHALF, HHALF, Digit, t
<1> QED
  BY <1>1, <1>2, <1>3

(* k digits of f from o + 1 on, and B^k.                                    *)
Num(f, o, k) ==
  IF k = 2 THEN N2(f[o + 1], f[o + 2])
  ELSE IF k = 3 THEN N3(f[o + 1], f[o + 2], f[o + 3])
  ELSE N4(f[o + 1], f[o + 2], f[o + 3], f[o + 4])

Weight(k) ==
  IF k = 0 THEN 1 ELSE IF k = 1 THEN B ELSE IF k = 2 THEN B * B ELSE IF k = 3 THEN B * (B * B)
  ELSE B * (B * (B * B))

(* What B^k and the numbers of k digits are.                                *)
LEMMA WeightType == ASSUME NEW k \in 0..4 PROVE Weight(k) \in Nat \ {0}
<1>1. B * B \in Nat \ {0}
  BY BaseIs
<1>2. B * (B * B) \in Nat \ {0}
  BY <1>1, BaseIs
<1>3. B * (B * (B * B)) \in Nat \ {0}
  BY <1>2, BaseIs
<1> QED
  BY <1>1, <1>2, <1>3, BaseIs DEF Weight

LEMMA NextDigit ==
  ASSUME NEW a \in Nat, NEW W \in Nat, a < W, NEW b \in Digit
  PROVE  N2(a, b) \in Nat /\ N2(a, b) < B * W
<1>1. B \in Nat /\ b \in 0..(B - 1)
  BY BaseIs DEF Digit
<1>2. B * (a + 1) <= B * W /\ B * (a + 1) = B * a + B /\ B * a \in Nat /\ B * W \in Nat
  BY <1>1
<1> QED
  BY <1>1, <1>2 DEF N2

LEMMA NumBound ==
  ASSUME NEW k \in 2..4, NEW o \in Int, NEW f, \A i \in 1..k : f[o + i] \in Digit
  PROVE  Num(f, o, k) \in Nat /\ Num(f, o, k) < Weight(k)
<1>1. B \in Nat /\ B > 1 /\ B * B \in Nat /\ B * (B * B) \in Nat
  <2>1. B \in Nat /\ B > 1
    BY BaseIs
  <2>2. B * B \in Nat
    BY <2>1
  <2> QED
    BY <2>1, <2>2
<1>2. f[o + 1] \in Digit /\ f[o + 2] \in Digit
  OBVIOUS
<1> DEFINE a == N2(f[o + 1], f[o + 2])
<1>3. a \in Nat /\ a < B * B
  BY <1>1, <1>2, NextDigit DEF Digit
<1> HIDE DEF a
<1>4. CASE k = 2
  BY <1>3, <1>4 DEF Num, Weight, a
<1>5. CASE k # 2
  <2>1. f[o + 3] \in Digit
    BY <1>5
  <2> DEFINE b == N2(a, f[o + 3])
  <2>2. b \in Nat /\ b < B * (B * B)
    BY <1>1, <1>3, <2>1, NextDigit
  <2>3. N3(f[o + 1], f[o + 2], f[o + 3]) = b
    BY DEF N2, N3, a
  <2> HIDE DEF b
  <2>4. CASE k = 3
    BY <2>2, <2>3, <2>4 DEF Num, Weight
  <2>5. CASE k = 4
    <3>1. f[o + 4] \in Digit
      BY <2>5
    <3>2. N2(b, f[o + 4]) \in Nat /\ N2(b, f[o + 4]) < B * (B * (B * B))
      BY <1>1, <2>2, <3>1, NextDigit
    <3>3. N4(f[o + 1], f[o + 2], f[o + 3], f[o + 4]) = N2(b, f[o + 4])
      BY <2>3 DEF N4, N2
    <3> QED
      BY <2>5, <3>2, <3>3 DEF Num, Weight
  <2> QED
    BY <1>5, <2>4, <2>5
<1> QED
  BY <1>4, <1>5

(* One column of D4: y is left of the digits before it and w is borrowed    *)
(* from what is before those; l is left of f, which borrows b from them.    *)
IsRow(z, a, x, y, W, w, b, f, g, l, c) ==
  /\ z \in Int /\ a \in Int /\ x \in Int /\ y \in Int /\ W \in Int /\ w \in Int /\ b \in Int
  /\ f \in Int /\ g \in Int /\ l \in Int /\ c \in Int
  /\ a - z * x = y - W * w + b
  /\ l = f - g * z - c + B * b

(* The columns so far and the next one are a number of one digit more.      *)
LEMMA TelescopeStep ==
  ASSUME NEW z, NEW a, NEW x, NEW y, NEW W, NEW w, NEW b, NEW f, NEW g, NEW l, NEW c,
         IsRow(z, a, x, y, W, w, b, f, g, l, c)
  PROVE  N2(a, f) - z * N2(x, g) = N2(y, l) - (B * W) * w + c
<1> DEFINE p == B * a
           r == z * (B * x)
           t == B * y
           h == (B * W) * w
           e == B * b
           o == g * z
           a2 == N2(a, f)
           y2 == N2(y, l)
           zx == z * N2(x, g)
<1>1. B \in Nat
  BY BaseIs
<1>2. p \in Int /\ r \in Int /\ t \in Int /\ h \in Int /\ e \in Int /\ o \in Int
      /\ f \in Int /\ l \in Int /\ c \in Int
  BY <1>1 DEF IsRow
<1>3. p - r = t - h + e
  <2>1. B * (a - z * x) = B * (y - W * w + b)
    BY DEF IsRow
  <2>2. B * (a - z * x) = p - r
    BY <1>1 DEF IsRow
  <2>3. B * (y - W * w + b) = t - h + e
    BY <1>1 DEF IsRow
  <2> QED
    BY <2>1, <2>2, <2>3
<1>4. a2 = p + f /\ y2 = t + l
  BY DEF N2
<1>5. zx = r + o
  BY <1>1 DEF N2, IsRow
<1>6. l = f - o - c + e
  BY DEF IsRow
<1> HIDE DEF p, r, t, h, e, o, a2, y2, zx
<1>7. a2 - zx = y2 - h + c
  BY <1>2, <1>3, <1>4, <1>5, <1>6
<1> QED
  BY <1>7 DEF h, a2, y2, zx

(* k columns of digits: z times g is taken from f, l is left and w borrowed. *)
IsColumns(k, o, f, g, l, w, z) ==
  /\ k \in 2..4 /\ o \in Int /\ z \in Int
  /\ \A i \in 1..k : f[o + i] \in Int /\ g[i] \in Int /\ l[i] \in Int /\ w[i] \in Int
  /\ w[k + 1] = 0
  /\ \A i \in 1..k : l[i] = f[o + i] - g[i] * z - w[i + 1] + B * w[i]

(* Over k columns only the borrow of the first one remains.                 *)
LEMMA Telescope ==
  ASSUME NEW k, NEW o, NEW f, NEW g, NEW l, NEW w, NEW z, IsColumns(k, o, f, g, l, w, z)
  PROVE  Num(f, o, k) - z * Num(g, 0, k) = Num(l, 0, k) - Weight(k) * w[1]
<1> /\ k \in 2..4 /\ o \in Int /\ z \in Int
    /\ \A i \in 1..k : f[o + i] \in Int /\ g[i] \in Int /\ l[i] \in Int /\ w[i] \in Int
    /\ w[k + 1] = 0
    /\ \A i \in 1..k : l[i] = f[o + i] - g[i] * z - w[i + 1] + B * w[i]
  BY DEF IsColumns
<1> DEFINE F(i) == f[o + i]
           G(i) == g[i]
           L(i) == l[i]
           C(i) == w[i]
<1>1. B \in Nat /\ B * B \in Int /\ B * (B * B) \in Int
  <2>1. B \in Nat
    BY BaseIs
  <2>2. B * B \in Int
    BY <2>1
  <2> QED
    BY <2>1, <2>2
<1>2. /\ F(1) \in Int /\ G(1) \in Int /\ L(1) \in Int /\ C(1) \in Int
      /\ F(2) \in Int /\ G(2) \in Int /\ L(2) \in Int /\ C(2) \in Int /\ C(3) \in Int
      /\ L(1) = F(1) - G(1) * z - C(2) + B * C(1) /\ L(2) = F(2) - G(2) * z - C(3) + B * C(2)
  <2>1. 1 \in 1..k /\ 2 \in 1..k /\ 1 + 1 = 2 /\ 2 + 1 = 3 /\ (3 \in 1..k \/ 3 = k + 1)
    OBVIOUS
  <2>2. C(3) \in Int
    BY <2>1
  <2> QED
    BY <2>1, <2>2
<1>3. F(1) - z * G(1) = L(1) - B * C(1) + C(2)
  BY <1>1, <1>2
<1> DEFINE F2 == N2(F(1), F(2))
           G2 == N2(G(1), G(2))
           L2 == N2(L(1), L(2))
<1> HIDE DEF F, G, L, C
<1>4. F2 - z * G2 = L2 - (B * B) * C(1) + C(3)
  <2>1. IsRow(z, F(1), G(1), L(1), B, C(1), C(2), F(2), G(2), L(2), C(3))
    BY <1>1, <1>2, <1>3 DEF IsRow
  <2> QED
    BY <2>1, TelescopeStep
<1> USE DEF F, G, L, C
<1>5. CASE k = 2
  <2>1. C(3) = 0 /\ C(1) = w[1]
    BY <1>5
  <2>2. Num(f, o, k) = F2 /\ Num(g, 0, k) = G2 /\ Num(l, 0, k) = L2 /\ Weight(k) = B * B
    BY <1>5 DEF Num, Weight
  <2>3. F2 - z * G2 = L2 - Weight(k) * w[1] + 0
    BY <1>4, <2>1, <2>2
  <2>4. L2 \in Int /\ Weight(k) * w[1] \in Int
    BY <1>1, <1>2, <2>1, <2>2 DEF N2
  <2> HIDE DEF F2, G2, L2
  <2> QED
    BY <2>2, <2>3, <2>4
<1>6. CASE k # 2
  <2>1. /\ F(3) \in Int /\ G(3) \in Int /\ L(3) \in Int /\ C(3) \in Int /\ C(4) \in Int
        /\ L(3) = F(3) - G(3) * z - C(4) + B * C(3)
    <3>1. 3 \in 1..k /\ 3 + 1 = 4 /\ (4 \in 1..k \/ 4 = k + 1)
      BY <1>6
    <3>2. C(4) \in Int
      BY <3>1
    <3> QED
      BY <3>1, <3>2
  <2>2. F2 \in Int /\ G2 \in Int /\ L2 \in Int
    BY <1>1, <1>2 DEF N2
  <2> DEFINE F3 == N2(F2, F(3))
             G3 == N2(G2, G(3))
             L3 == N2(L2, L(3))
  <2>3. /\ F3 = N3(F(1), F(2), F(3)) /\ G3 = N3(G(1), G(2), G(3)) /\ L3 = N3(L(1), L(2), L(3))
    BY DEF N2, N3
  <2> HIDE DEF F, G, L, C, F2, G2, L2
  <2>4. F3 - z * G3 = L3 - (B * (B * B)) * C(1) + C(4)
    <3>1. IsRow(z, F2, G2, L2, B * B, C(1), C(3), F(3), G(3), L(3), C(4))
      BY <1>1, <1>2, <1>4, <2>1, <2>2 DEF IsRow
    <3> QED
      BY <3>1, TelescopeStep
  <2>5. F3 \in Int /\ G3 \in Int /\ L3 \in Int
    BY <1>1, <2>1, <2>2 DEF N2
  <2>6. CASE k = 3
    <3>1. C(4) = 0 /\ C(1) = w[1]
      BY <2>6 DEF C
    <3>2. Num(f, o, k) = F3 /\ Num(g, 0, k) = G3 /\ Num(l, 0, k) = L3 /\ Weight(k) = B * (B * B)
      BY <2>3, <2>6 DEF Num, Weight, F, G, L
    <3> HIDE DEF F3, G3, L3
    <3> QED
      BY <1>1, <1>2, <2>4, <2>5, <3>1, <3>2
  <2>7. CASE k = 4
    <3>1. /\ F(4) \in Int /\ G(4) \in Int /\ L(4) \in Int /\ C(5) = 0 /\ C(1) = w[1]
          /\ L(4) = F(4) - G(4) * z - C(5) + B * C(4)
      <4>1. 4 \in 1..k /\ 4 + 1 = 5 /\ k + 1 = 5
        BY <2>7
      <4> QED
        BY <4>1 DEF F, G, L, C
    <3> DEFINE F4 == N2(F3, F(4))
               G4 == N2(G3, G(4))
               L4 == N2(L3, L(4))
    <3>2. /\ Num(f, o, k) = F4 /\ Num(g, 0, k) = G4 /\ Num(l, 0, k) = L4
          /\ Weight(k) = B * (B * (B * B))
      BY <2>3, <2>7 DEF Num, Weight, F, G, L, N2, N4
    <3> HIDE DEF F3, G3, L3
    <3>3. F4 - z * G4 = L4 - (B * (B * (B * B))) * C(1) + C(5)
      <4>1. IsRow(z, F3, G3, L3, B * (B * B), C(1), C(4), F(4), G(4), L(4), C(5))
        BY <1>1, <1>2, <2>1, <2>4, <2>5, <3>1 DEF IsRow
      <4> QED
        BY <4>1, TelescopeStep
    <3>4. F4 \in Int /\ G4 \in Int /\ L4 \in Int /\ (B * (B * (B * B))) * C(1) \in Int
      <4>1. B * (B * (B * B)) \in Int
        BY <1>1
      <4> QED
        BY <1>1, <1>2, <2>5, <3>1, <4>1 DEF N2
    <3> HIDE DEF F4, G4, L4
    <3> QED
      BY <3>1, <3>2, <3>3, <3>4
  <2> QED
    BY <1>6, <2>6, <2>7
<1> QED
  BY <1>5, <1>6

LEMMA PowersOfB ==
  B * B \in Nat \ {0} /\ B * (B * B) \in Nat \ {0} /\ B * (B * (B * B)) \in Nat \ {0}
<1>1. B * B \in Nat \ {0}
  BY BaseIs
<1>2. B * (B * B) \in Nat \ {0}
  BY <1>1, BaseIs
<1> QED
  BY <1>1, <1>2, BaseIs

(* A digit in front of others.                                              *)
IsPrepended(x, W, a, y, f) ==
  /\ x \in Int /\ W \in Int /\ a \in Int /\ y \in Int /\ f \in Int
  /\ x = W * a + y

LEMMA Prepend ==
  ASSUME NEW x, NEW W, NEW a, NEW y, NEW f, IsPrepended(x, W, a, y, f)
  PROVE  N2(x, f) = (B * W) * a + N2(y, f)
<1>1. B \in Nat
  BY BaseIs
<1>2. B * x = (B * W) * a + B * y
  BY <1>1 DEF IsPrepended
<1>3. (B * W) * a \in Int /\ B * y \in Int /\ B * x \in Int
  BY <1>1 DEF IsPrepended
<1> QED
  BY <1>2, <1>3 DEF N2, IsPrepended

AreInts(a, b, c, e, f) == a \in Int /\ b \in Int /\ c \in Int /\ e \in Int /\ f \in Int

(* The first digit of a number of up to five, and the others.               *)
LEMMA FirstDigits ==
  ASSUME NEW a, NEW b, NEW c, NEW e, NEW f, AreInts(a, b, c, e, f)
  PROVE  /\ N2(a, b) \in Int /\ N3(a, b, c) \in Int /\ N4(a, b, c, e) \in Int
         /\ N3(a, b, c) = (B * B) * a + N2(b, c)
         /\ N4(a, b, c, e) = (B * (B * B)) * a + N3(b, c, e)
         /\ N5(a, b, c, e, f) = (B * (B * (B * B))) * a + N4(b, c, e, f)
<1>1. B \in Int /\ B * B \in Int /\ B * (B * B) \in Int
  BY BaseIs, PowersOfB
<1>2. a \in Int /\ b \in Int /\ c \in Int /\ e \in Int /\ f \in Int
  BY DEF AreInts
<1>3. N2(a, b) \in Int /\ N2(b, c) \in Int
  BY <1>1, <1>2 DEF N2
<1>4. N3(a, b, c) \in Int /\ N3(b, c, e) \in Int
  BY <1>1, <1>2, <1>3 DEF N3
<1>5. N4(a, b, c, e) \in Int
  BY <1>1, <1>2, <1>4 DEF N4
<1>6. N3(a, b, c) = (B * B) * a + N2(b, c)
  <2>1. IsPrepended(N2(a, b), B, a, b, c)
    BY <1>1, <1>2, <1>3 DEF IsPrepended, N2
  <2>2. N2(N2(a, b), c) = (B * B) * a + N2(b, c)
    BY <2>1, Prepend
  <2> QED
    BY <2>2 DEF N2, N3
<1>7. N4(a, b, c, e) = (B * (B * B)) * a + N3(b, c, e)
  <2>1. IsPrepended(N3(a, b, c), B * B, a, N2(b, c), e)
    BY <1>1, <1>2, <1>3, <1>4, <1>6 DEF IsPrepended
  <2>2. N2(N3(a, b, c), e) = (B * (B * B)) * a + N2(N2(b, c), e)
    BY <2>1, Prepend
  <2> QED
    BY <2>2 DEF N2, N3, N4
<1>8. N5(a, b, c, e, f) = (B * (B * (B * B))) * a + N4(b, c, e, f)
  <2>1. IsPrepended(N4(a, b, c, e), B * (B * B), a, N3(b, c, e), f)
    BY <1>1, <1>2, <1>4, <1>5, <1>7 DEF IsPrepended
  <2>2. N2(N4(a, b, c, e), f) = (B * (B * (B * B))) * a + N2(N3(b, c, e), f)
    BY <2>1, Prepend
  <2> QED
    BY <2>2 DEF N2, N4, N5
<1> QED
  BY <1>3, <1>4, <1>5, <1>6, <1>7, <1>8

-----------------------------------------------------------------------------
(* The digits from p on, of which the first is new, and the divisor, as the *)
(* guess of D3 sees them.                                                   *)
LEMMA Leading ==
  ASSUME NEW k \in 2..4, NEW p \in 0..(4 - k), NEW f, NEW g,
         \A i \in 0..4 : f[i] \in Digit, \A i \in 1..k : g[i] \in Digit, B <= 2 * g[1]
  PROVE  \E R, r, s : IsStep(f[p], f[p + 1], f[p + 2], g[1], g[2], R, r, s,
                             Weight(k) * f[p] + Num(f, p, k), Num(g, 0, k))
<1>1. /\ f[p] \in Digit /\ f[p + 1] \in Digit /\ f[p + 2] \in Digit /\ g[1] \in Digit /\ g[2] \in Digit
      /\ B \in Nat /\ B > 1
  BY BaseIs
<1> DEFINE a == f[p]
           b == f[p + 1]
           c == f[p + 2]
           M == N3(a, b, c)
           P == N2(g[1], g[2])
<1>2. M = (B * B) * a + N2(b, c) /\ M \in Int /\ P \in Int /\ N2(b, c) \in Int
  BY <1>1 DEF N2, N3, Digit
<1>3. CASE k = 2
  <2>1. M * 1 + 0 = M /\ P * 1 + 0 = P
    BY <1>2
  <2>2. Weight(k) * f[p] + Num(f, p, k) = M /\ Num(g, 0, k) = P
    BY <1>2, <1>3 DEF Num, Weight
  <2>3. IsStep(a, b, c, g[1], g[2], 1, 0, 0, M, P)
    BY <1>1, <2>1 DEF IsStep
  <2> QED
    BY <2>2, <2>3
<1>4. CASE k = 3
  <2> DEFINE x == f[p + 3]
             y == g[3]
  <2>1. x \in 0..(B - 1) /\ y \in 0..(B - 1)
    BY <1>4 DEF Digit
  <2>2. Num(f, p, k) = B * N2(b, c) + x /\ Num(g, 0, k) = P * B + y
    BY <1>1, <1>2, <1>4 DEF Num, N3
  <2>3. Weight(k) * a = B * ((B * B) * a)
    BY <1>1, <1>4 DEF Weight, Digit
  <2>4. Weight(k) * a + Num(f, p, k) = M * B + x
    <3>1. (B * B) * a \in Int
      BY <1>1 DEF Digit
    <3> HIDE DEF a, b, c, M, P
    <3> QED
      BY <1>1, <1>2, <2>1, <2>2, <2>3, <3>1
  <2>5. IsStep(a, b, c, g[1], g[2], B, x, y, M * B + x, P * B + y)
    BY <1>1, <2>1 DEF IsStep
  <2> QED
    BY <2>2, <2>4, <2>5
<1>5. CASE k = 4
  <2> DEFINE x == N2(f[p + 3], f[p + 4])
             y == N2(g[3], g[4])
             R == B * B
  <2>1. f[p + 3] \in Digit /\ g[3] \in Digit /\ f[p + 4] \in Digit /\ g[4] \in Digit
    BY <1>5
  <2>2. x \in 0..(R - 1) /\ y \in 0..(R - 1) /\ R \in Nat \ {0}
    <3>1. f[p + 3] \in Nat /\ f[p + 3] < B /\ g[3] \in Nat /\ g[3] < B
      BY <1>1, <2>1 DEF Digit
    <3>2. x \in Nat /\ x < B * B /\ y \in Nat /\ y < B * B
      BY <1>1, <2>1, <3>1, NextDigit
    <3> HIDE DEF x, y
    <3> QED
      BY <3>2, PowersOfB
  <2>3. Num(f, p, k) = R * N2(b, c) + x /\ Num(g, 0, k) = P * R + y
    BY <1>1, <1>2, <1>5, <2>1 DEF Num, N2, N3, N4, Digit
  <2>4. Weight(k) * a = R * (R * a) /\ R * a \in Int
    BY <1>1, <1>5 DEF Weight, Digit
  <2>5. Weight(k) * a + Num(f, p, k) = M * R + x
    <3>1. M = R * a + N2(b, c)
      BY <1>2
    <3> HIDE DEF a, b, c, M, P, R, x
    <3> QED
      BY <1>2, <2>2, <2>3, <2>4, <3>1
  <2>6. IsStep(a, b, c, g[1], g[2], R, x, y, M * R + x, P * R + y)
    BY <1>1, <2>2 DEF IsStep
  <2> QED
    BY <2>3, <2>5, <2>6
<1> QED
  BY <1>3, <1>4, <1>5

(* What is behind the digit at o.                                           *)
Low(f, o) == IF o = 4 THEN 0 ELSE IF o = 3 THEN f[4] ELSE N2(f[3], f[4])
Whole(f) == N5(f[0], f[1], f[2], f[3], f[4])

(* u is its window, after zeros, and the digits behind that.                *)
LEMMA Split ==
  ASSUME NEW k \in 2..4, NEW p \in 0..(4 - k), NEW f,
         \A i \in 0..4 : f[i] \in Digit, \A i \in 0..(p - 1) : f[i] = 0
  PROVE  /\ Whole(f) = (Weight(k) * f[p] + Num(f, p, k)) * Weight(4 - p - k) + Low(f, p + k)
         /\ Low(f, p + k) \in Nat /\ Whole(f) \in Nat
<1>1. /\ f[0] \in Nat /\ f[1] \in Nat /\ f[2] \in Nat /\ f[3] \in Nat /\ f[4] \in Nat
      /\ B \in Nat /\ B > 1
  BY BaseIs DEF Digit
<1>1a. AreInts(f[0], f[1], f[2], f[3], f[4]) /\ AreInts(f[1], f[2], f[3], f[4], 0)
  BY <1>1 DEF AreInts
<1> DEFINE W == Weight(k) * f[p] + Num(f, p, k)
<1>2. Low(f, p + k) \in Nat /\ Whole(f) \in Nat
  <2>1. N2(f[0], f[1]) \in Nat /\ N2(f[3], f[4]) \in Nat
    BY <1>1 DEF N2
  <2>2. N3(f[0], f[1], f[2]) \in Nat
    BY <1>1, <2>1 DEF N3
  <2>3. N4(f[0], f[1], f[2], f[3]) \in Nat
    BY <1>1, <2>2 DEF N4
  <2> QED
    BY <1>1, <2>1, <2>3 DEF Low, Whole, N5
<1>3. CASE p = 0 /\ k = 4
  <2>1. Whole(f) = W
    <3>1. Whole(f) = (B * (B * (B * B))) * f[0] + N4(f[1], f[2], f[3], f[4])
      BY <1>1a, FirstDigits DEF Whole
    <3> QED
      BY <1>3, <3>1 DEF Num, Weight
  <2>2. W * 1 + 0 = W
    BY <1>2, <2>1
  <2> QED
    BY <1>2, <1>3, <2>1, <2>2 DEF Low, Weight
<1>4. CASE p = 0 /\ k = 3
  <2>1. W = N4(f[0], f[1], f[2], f[3])
    BY <1>1a, <1>4, FirstDigits DEF Num, Weight
  <2>2. N4(f[0], f[1], f[2], f[3]) \in Int
    BY <1>1 DEF N2, N3, N4
  <2>3. Whole(f) = W * B + f[4]
    BY <1>1, <2>1, <2>2 DEF Whole, N5
  <2> QED
    BY <1>2, <1>4, <2>3 DEF Low, Weight
<1>5. CASE p = 0 /\ k = 2
  <2>1. W = N3(f[0], f[1], f[2])
    BY <1>1, <1>5 DEF Num, Weight, N2, N3
  <2>2. N3(f[0], f[1], f[2]) \in Int
    BY <1>1 DEF N2, N3
  <2>3. Whole(f) = W * (B * B) + N2(f[3], f[4])
    <3> HIDE DEF W
    <3> QED
      BY <1>1, <2>1, <2>2 DEF Whole, N5, N4, N2
  <2> QED
    BY <1>2, <1>5, <2>3 DEF Low, Weight
<1>6. CASE p = 1 /\ k = 3
  <2>1. f[0] = 0
    BY <1>6
  <2>2. N2(f[0], f[1]) = f[1]
    BY <1>1, <2>1 DEF N2
  <2>3. Whole(f) = W
    <3>1. Whole(f) = N4(f[1], f[2], f[3], f[4])
      <4>1. N3(f[0], f[1], f[2]) = N2(f[1], f[2])
        BY <2>2 DEF N3, N2
      <4>2. N4(f[0], f[1], f[2], f[3]) = N3(f[1], f[2], f[3])
        BY <4>1 DEF N3, N4
      <4> QED
        BY <4>2 DEF N4, N5, Whole
    <3> QED
      BY <1>1a, <1>6, <3>1, FirstDigits DEF Num, Weight
  <2>4. W * 1 + 0 = W
    BY <1>2, <2>3
  <2> QED
    BY <1>2, <1>6, <2>3, <2>4 DEF Low, Weight
<1>7. CASE p = 1 /\ k = 2
  <2>1. f[0] = 0
    BY <1>7
  <2>2. N2(f[0], f[1]) = f[1]
    BY <1>1, <2>1 DEF N2
  <2>3. W = N4(f[0], f[1], f[2], f[3])
    <3>1. N4(f[0], f[1], f[2], f[3]) = N3(f[1], f[2], f[3])
      <4>1. N3(f[0], f[1], f[2]) = N2(f[1], f[2])
        BY <2>2 DEF N3, N2
      <4> QED
        BY <4>1 DEF N3, N4
    <3> QED
      BY <1>1a, <1>7, <3>1, FirstDigits DEF Num, Weight
  <2>4. N4(f[0], f[1], f[2], f[3]) \in Int
    BY <1>1 DEF N2, N3, N4
  <2>5. Whole(f) = W * B + f[4]
    BY <1>1, <2>3, <2>4 DEF Whole, N5
  <2> QED
    BY <1>2, <1>7, <2>5 DEF Low, Weight
<1>8. CASE p = 2 /\ k = 2
  <2>1. f[0] = 0 /\ f[1] = 0
    BY <1>8
  <2>2. N2(f[0], f[1]) = 0 /\ N3(f[0], f[1], f[2]) = f[2]
    BY <1>1, <2>1 DEF N2, N3
  <2>3. Whole(f) = W
    <3>1. N4(f[0], f[1], f[2], f[3]) = N2(f[2], f[3])
      BY <2>2 DEF N2, N4
    <3>2. Whole(f) = N3(f[2], f[3], f[4])
      BY <3>1 DEF Whole, N3, N5
    <3>3. AreInts(f[2], f[3], f[4], 0, 0)
      BY <1>1 DEF AreInts
    <3>4. N3(f[2], f[3], f[4]) = (B * B) * f[2] + N2(f[3], f[4])
      BY <3>3, FirstDigits
    <3> QED
      BY <1>8, <3>2, <3>4 DEF Num, Weight
  <2>4. W * 1 + 0 = W
    BY <1>2, <2>3
  <2> QED
    BY <1>2, <1>8, <2>3, <2>4 DEF Low, Weight
<1>9. \/ p = 0 /\ k = 4
      \/ p = 0 /\ k = 3
      \/ p = 0 /\ k = 2
      \/ p = 1 /\ k = 3
      \/ p = 1 /\ k = 2
      \/ p = 2 /\ k = 2
  OBVIOUS
<1> QED
  BY <1>3, <1>4, <1>5, <1>6, <1>7, <1>8, <1>9

(* A digit of the quotient is stored behind those found so far.             *)
LEMMA QuotientDigit ==
  ASSUME NEW e \in 0..2, NEW f, NEW g, NEW z \in Digit, \A i \in 1..4 : f[i] \in Digit,
         \A i \in (4 - e)..4 : f[i] = 0, \A i \in 1..4 : g[i] = IF i = 4 - e THEN z ELSE f[i]
  PROVE  /\ N4(g[1], g[2], g[3], g[4]) = N4(f[1], f[2], f[3], f[4]) + z * Weight(e)
         /\ N4(f[1], f[2], f[3], f[4]) \in Nat
<1>1. /\ f[1] \in Nat /\ f[2] \in Nat /\ f[3] \in Nat /\ f[4] \in Nat /\ z \in Nat
      /\ B \in Nat /\ B > 1 /\ B * B \in Nat /\ B * (B * B) \in Nat
  BY BaseIs, PowersOfB DEF Digit
<1>3. N4(f[1], f[2], f[3], f[4]) \in Nat
  <2>1. N2(f[1], f[2]) \in Nat
    BY <1>1 DEF N2
  <2>2. N3(f[1], f[2], f[3]) \in Nat
    BY <1>1, <2>1 DEF N3
  <2> QED
    BY <1>1, <2>2 DEF N4
<1>4. CASE e = 0
  <2>1. g[1] = f[1] /\ g[2] = f[2] /\ g[3] = f[3] /\ g[4] = z /\ f[4] = 0
    BY <1>4
  <2> DEFINE x == N3(f[1], f[2], f[3])
  <2>2. B * x + 0 \in Nat /\ N4(g[1], g[2], g[3], g[4]) = B * x + z
    BY <1>3, <2>1 DEF N4
  <2>3. B * x \in Int
    <3>1. x \in Nat
      BY <1>1 DEF N2, N3
    <3> HIDE DEF x
    <3> QED
      BY <3>1, <1>1
  <2>4. N4(f[1], f[2], f[3], f[4]) = B * x + 0 /\ z * Weight(e) = z
    BY <1>1, <1>4, <2>1 DEF N4, Weight
  <2> HIDE DEF x
  <2> QED
    BY <1>1, <1>3, <2>2, <2>3, <2>4
<1>5. CASE e = 1
  <2>1. g[1] = f[1] /\ g[2] = f[2] /\ g[3] = z /\ g[4] = 0 /\ f[4] = 0 /\ f[3] = 0
    BY <1>5
  <2>2. N2(f[1], f[2]) \in Nat /\ N2(f[1], f[2]) = N2(g[1], g[2])
    BY <1>1, <2>1 DEF N2
  <2> QED
    BY <1>1, <1>3, <1>5, <2>1, <2>2 DEF N3, N4, Weight
<1>6. CASE e = 2
  <2>1. g[1] = f[1] /\ g[2] = z /\ g[3] = 0 /\ g[4] = 0 /\ f[4] = 0 /\ f[3] = 0 /\ f[2] = 0
    BY <1>6
  <2> QED
    <3>1. N4(f[1], 0, 0, 0) = (B * (B * B)) * f[1] + N3(0, 0, 0)
          /\ N4(f[1], z, 0, 0) = (B * (B * B)) * f[1] + N3(z, 0, 0)
      <4>1. AreInts(f[1], 0, 0, 0, 0) /\ AreInts(f[1], z, 0, 0, 0)
        BY <1>1 DEF AreInts
      <4> QED
        BY <4>1, FirstDigits
    <3>2. N3(0, 0, 0) = 0
      BY <1>1 DEF N2, N3
    <3>3. N3(z, 0, 0) = (B * B) * z + N2(0, 0) /\ N2(0, 0) = 0
      <4>1. AreInts(z, 0, 0, 0, 0)
        BY <1>1 DEF AreInts
      <4>2. N2(0, 0) = 0
        BY <1>1 DEF N2
      <4> QED
        BY <4>1, <4>2, FirstDigits
    <3>4. (B * B) * z = z * Weight(e) /\ (B * B) * z \in Int /\ (B * (B * B)) * f[1] \in Int
      BY <1>1, <1>6 DEF Weight
    <3>5. N4(g[1], g[2], g[3], g[4]) = N4(f[1], z, 0, 0)
          /\ N4(f[1], f[2], f[3], f[4]) = N4(f[1], 0, 0, 0)
      BY <2>1
    <3> DEFINE P == (B * (B * B)) * f[1]
               Q == (B * B) * z
    <3>6. N4(f[1], 0, 0, 0) = P + 0 /\ N4(f[1], z, 0, 0) = P + (Q + 0)
      BY <3>1, <3>2, <3>3
    <3> HIDE DEF P, Q
    <3>7. N4(f[1], z, 0, 0) = N4(f[1], 0, 0, 0) + z * Weight(e)
      BY <3>4, <3>6 DEF P, Q
    <3> QED
      BY <1>3, <3>5, <3>7
<1> QED
  BY <1>4, <1>5, <1>6

(* One digit more of u: what is above is less than the divisor.             *)
LEMMA Shifted ==
  ASSUME NEW k \in 2..4, NEW p \in 0..(4 - k), NEW f, \A i \in 0..4 : f[i] \in Digit
  PROVE  Weight(k) * f[p] + Num(f, p, k) = N2(Num(f, p - 1, k), f[p + k])
<1>1. \A i \in 0..4 : f[i] \in Nat
  BY BaseIs DEF Digit
<1>2. p - 1 + 1 = p /\ p - 1 + 2 = p + 1 /\ p - 1 + 3 = p + 2 /\ p - 1 + 4 = p + 3
  OBVIOUS
<1>3. f[p] \in Nat /\ f[p + 1] \in Nat /\ f[p + 2] \in Nat /\ B \in Nat
  BY <1>1, BaseIs
<1>4. CASE k = 2
  BY <1>2, <1>3, <1>4 DEF Num, Weight, N2
<1>5. CASE k = 3
  <2>1. f[p + 3] \in Nat
    BY <1>1, <1>5
  <2> QED
    BY <1>2, <1>3, <1>5, <2>1 DEF Num, Weight, N2, N3
<1>6. CASE k = 4
  <2>1. f[p + 3] \in Nat /\ f[p + 4] \in Nat
    BY <1>1, <1>6
  <2> QED
    BY <1>2, <1>3, <1>6, <2>1 DEF Num, Weight, N2, N3, N4
<1> QED
  BY <1>4, <1>5, <1>6

(* D4 over all the digits of the window.                                    *)
DigitLeft(i, w) ==
  LET t == (u[U0 + j + i] - v[i] * qhat - w) % Long IN <<LHALF(t), (B - HHALF(t)) % B>>

LEMMA DifferenceIs ==
  ASSUME n \in 2..4, U0 + j \in 0..(4 - n), u \in [0..4 -> Digit], v \in [1..n -> Digit],
         qhat \in Digit
  PROVE  /\ Difference[n + 1] = <<0, 0>>
         /\ \A i \in 1..n : /\ Difference[i][1] \in Digit /\ Difference[i][2] \in Digit
                            /\ Difference[i][1] = u[U0 + j + i] - v[i] * qhat
                                                  - Difference[i + 1][2] + B * Difference[i][2]
<1> DEFINE Is(f) == f = [i \in 1..(n + 1) |->
                           IF i = n + 1 THEN <<0, 0>>
                           ELSE LET t == (u[U0 + j + i] - v[i] * qhat - f[i + 1][2]) % Long
                                IN <<LHALF(t), (B - HHALF(t)) % B>>]
           a == DigitLeft(n, 0)
           b == DigitLeft(n - 1, a[2])
           c == DigitLeft(n - 2, b[2])
           e == DigitLeft(n - 3, c[2])
           g == [i \in 1..(n + 1) |-> IF i = n + 1 THEN <<0, 0>> ELSE IF i = n THEN a
                                      ELSE IF i = n - 1 THEN b ELSE IF i = n - 2 THEN c ELSE e]
<1>1. Is(g)
  <2>1. \A i \in 1..n : g[i] = DigitLeft(i, g[i + 1][2])
    <3> SUFFICES ASSUME NEW i \in 1..n PROVE g[i] = DigitLeft(i, g[i + 1][2])
      OBVIOUS
    <3>1. i = n \/ i = n - 1 \/ i = n - 2 \/ i = n - 3
      OBVIOUS
    <3>2. i \in 1..(n + 1) /\ i + 1 \in 1..(n + 1) /\ n \in Nat
      OBVIOUS
    <3> HIDE DEF a, b, c, e
    <3>3. CASE i = n
      <4>1. g[i] = a /\ g[i + 1] = <<0, 0>>
        BY <3>2, <3>3
      <4>2. <<0, 0>>[2] = 0
        OBVIOUS
      <4> HIDE DEF g
      <4> QED
        BY <3>3, <4>1, <4>2 DEF a
    <3>4. CASE i = n - 1
      <4>1. g[i] = b /\ g[i + 1] = a
        BY <3>2, <3>4
      <4> HIDE DEF g
      <4> QED
        BY <3>4, <4>1 DEF b
    <3>5. CASE i = n - 2
      <4>1. g[i] = c /\ g[i + 1] = b
        BY <3>2, <3>5
      <4> HIDE DEF g
      <4> QED
        BY <3>5, <4>1 DEF c
    <3>6. CASE i = n - 3
      <4>1. g[i] = e /\ g[i + 1] = c
        BY <3>2, <3>6
      <4> HIDE DEF g
      <4> QED
        BY <3>6, <4>1 DEF e
    <3> QED
      BY <3>1, <3>3, <3>4, <3>5, <3>6
  <2>2. g[n + 1] = <<0, 0>> /\ g = [i \in 1..(n + 1) |-> g[i]]
    <3> HIDE DEF a, b, c, e
    <3> QED
      OBVIOUS
  <2> HIDE DEF g
  <2>3. \A i \in 1..(n + 1) :
          g[i] = IF i = n + 1 THEN <<0, 0>>
                 ELSE LET t == (u[U0 + j + i] - v[i] * qhat - g[i + 1][2]) % Long
                      IN <<LHALF(t), (B - HHALF(t)) % B>>
    <3>1. \A i \in 1..(n + 1) : i = n + 1 \/ i \in 1..n
      OBVIOUS
    <3>2. \A i \in 1..n : i # n + 1
      OBVIOUS
    <3> QED
      BY <2>1, <2>2, <3>1, <3>2, Zenon DEF DigitLeft
  <2> QED
    BY <2>2, <2>3, Zenon
<1> DEFINE r == CHOOSE f : Is(f)
<1>2. Difference = r
  BY DEF Difference
<1>3. Is(r)
  <2> HIDE DEF Is, g
  <2> QED
    BY <1>1, Zenon
<1> HIDE DEF r
<1>4. r[n + 1] = <<0, 0>> /\ r[n + 1][2] = 0
  <2>1. n + 1 \in 1..(n + 1) /\ <<0, 0>>[2] = 0
    OBVIOUS
  <2>2. r[n + 1] = <<0, 0>>
    BY <1>3, <2>1
  <2> QED
    BY <2>1, <2>2
<1>5. \A i \in 1..n : /\ r[i][1] = LHALF((u[U0 + j + i] - v[i] * qhat - r[i + 1][2]) % Long)
                      /\ r[i][2] = (B - HHALF((u[U0 + j + i] - v[i] * qhat - r[i + 1][2]) % Long)) % B
  <2> SUFFICES ASSUME NEW i \in 1..n
               PROVE  /\ r[i][1] = LHALF((u[U0 + j + i] - v[i] * qhat - r[i + 1][2]) % Long)
                      /\ r[i][2] = (B - HHALF((u[U0 + j + i] - v[i] * qhat - r[i + 1][2]) % Long)) % B
    OBVIOUS
  <2>1. i \in 1..(n + 1) /\ i # n + 1
    OBVIOUS
  <2>2. r[i] = LET t == (u[U0 + j + i] - v[i] * qhat - r[i + 1][2]) % Long
               IN <<LHALF(t), (B - HHALF(t)) % B>>
    BY <1>3, <2>1
  <2> QED
    BY <2>2
<1> HIDE DEF Is
<1>6. \A i \in 1..n : r[i + 1][2] \in Digit =>
         /\ r[i][1] \in Digit /\ r[i][2] \in Digit
         /\ r[i][1] = u[U0 + j + i] - v[i] * qhat - r[i + 1][2] + B * r[i][2]
  <2> SUFFICES ASSUME NEW i \in 1..n, r[i + 1][2] \in Digit
               PROVE  /\ r[i][1] \in Digit /\ r[i][2] \in Digit
                      /\ r[i][1] = u[U0 + j + i] - v[i] * qhat - r[i + 1][2] + B * r[i][2]
    OBVIOUS
  <2>1. u[U0 + j + i] \in Digit /\ v[i] \in Digit
    <3>1. U0 + j + i \in 0..4
      OBVIOUS
    <3> QED
      BY <3>1
  <2> QED
    BY <1>5, <2>1, Borrow
<1>7. r[n + 1][2] \in Digit
  BY <1>4, BaseIs DEF Digit
<1>8. \A i \in 1..n : r[i + 1][2] \in Digit
  <2>1. n \in 1..n /\ n - 1 \in 1..n /\ n - 1 + 1 = n
    OBVIOUS
  <2>2. r[n][2] \in Digit
    BY <1>6, <1>7, <2>1
  <2>3. r[n - 1][2] \in Digit
    BY <1>6, <2>1, <2>2
  <2>4. n >= 3 => r[n - 2][2] \in Digit
    <3>1. n - 2 + 1 = n - 1
      OBVIOUS
    <3> QED
      BY <1>6, <2>3, <3>1
  <2> SUFFICES ASSUME NEW i \in 1..n PROVE r[i + 1][2] \in Digit
    OBVIOUS
  <2>5. i + 1 = n + 1 \/ i + 1 = n \/ i + 1 = n - 1 \/ (n >= 3 /\ i + 1 = n - 2)
    OBVIOUS
  <2> QED
    BY <1>7, <2>2, <2>3, <2>4, <2>5
<1> QED
  BY <1>2, <1>4, <1>6, <1>8

(* D6 over all the digits of the window.                                    *)
DigitSum(i, w) == LET t == w + u[U0 + j + i] + v[i] IN <<LHALF(t), HHALF(t)>>

LEMMA SumIs ==
  ASSUME n \in 2..4, U0 + j \in 0..(4 - n), u \in [0..4 -> Digit], v \in [1..n -> Digit]
  PROVE  /\ Sum[n + 1] = <<0, 0>>
         /\ \A i \in 1..n : /\ Sum[i][1] \in Digit /\ Sum[i][2] \in {0, 1}
                            /\ Sum[i][1] = Sum[i + 1][2] + u[U0 + j + i] + v[i] - B * Sum[i][2]
<1> DEFINE Is(f) == f = [i \in 1..(n + 1) |->
                           IF i = n + 1 THEN <<0, 0>>
                           ELSE LET t == f[i + 1][2] + u[U0 + j + i] + v[i]
                                IN <<LHALF(t), HHALF(t)>>]
           a == DigitSum(n, 0)
           b == DigitSum(n - 1, a[2])
           c == DigitSum(n - 2, b[2])
           e == DigitSum(n - 3, c[2])
           g == [i \in 1..(n + 1) |-> IF i = n + 1 THEN <<0, 0>> ELSE IF i = n THEN a
                                      ELSE IF i = n - 1 THEN b ELSE IF i = n - 2 THEN c ELSE e]
<1>1. Is(g)
  <2>1. \A i \in 1..n : g[i] = DigitSum(i, g[i + 1][2])
    <3> SUFFICES ASSUME NEW i \in 1..n PROVE g[i] = DigitSum(i, g[i + 1][2])
      OBVIOUS
    <3>1. i = n \/ i = n - 1 \/ i = n - 2 \/ i = n - 3
      OBVIOUS
    <3>2. i \in 1..(n + 1) /\ i + 1 \in 1..(n + 1) /\ n \in Nat
      OBVIOUS
    <3> HIDE DEF a, b, c, e
    <3>3. CASE i = n
      <4>1. g[i] = a /\ g[i + 1] = <<0, 0>>
        BY <3>2, <3>3
      <4>2. <<0, 0>>[2] = 0
        OBVIOUS
      <4> HIDE DEF g
      <4> QED
        BY <3>3, <4>1, <4>2 DEF a
    <3>4. CASE i = n - 1
      <4>1. g[i] = b /\ g[i + 1] = a
        BY <3>2, <3>4
      <4> HIDE DEF g
      <4> QED
        BY <3>4, <4>1 DEF b
    <3>5. CASE i = n - 2
      <4>1. g[i] = c /\ g[i + 1] = b
        BY <3>2, <3>5
      <4> HIDE DEF g
      <4> QED
        BY <3>5, <4>1 DEF c
    <3>6. CASE i = n - 3
      <4>1. g[i] = e /\ g[i + 1] = c
        BY <3>2, <3>6
      <4> HIDE DEF g
      <4> QED
        BY <3>6, <4>1 DEF e
    <3> QED
      BY <3>1, <3>3, <3>4, <3>5, <3>6
  <2>2. g[n + 1] = <<0, 0>> /\ g = [i \in 1..(n + 1) |-> g[i]]
    <3> HIDE DEF a, b, c, e
    <3> QED
      OBVIOUS
  <2> HIDE DEF g
  <2>3. \A i \in 1..(n + 1) :
          g[i] = IF i = n + 1 THEN <<0, 0>>
                 ELSE LET t == g[i + 1][2] + u[U0 + j + i] + v[i]
                      IN <<LHALF(t), HHALF(t)>>
    <3>1. \A i \in 1..(n + 1) : i = n + 1 \/ i \in 1..n
      OBVIOUS
    <3>2. \A i \in 1..n : i # n + 1
      OBVIOUS
    <3> QED
      BY <2>1, <2>2, <3>1, <3>2, Zenon DEF DigitSum
  <2> QED
    BY <2>2, <2>3, Zenon
<1> DEFINE r == CHOOSE f : Is(f)
<1>2. Sum = r
  BY DEF Sum
<1>3. Is(r)
  <2> HIDE DEF Is, g
  <2> QED
    BY <1>1, Zenon
<1> HIDE DEF r
<1>4. r[n + 1] = <<0, 0>> /\ r[n + 1][2] = 0
  <2>1. n + 1 \in 1..(n + 1) /\ <<0, 0>>[2] = 0
    OBVIOUS
  <2>2. r[n + 1] = <<0, 0>>
    BY <1>3, <2>1
  <2> QED
    BY <2>1, <2>2
<1>5. \A i \in 1..n : /\ r[i][1] = LHALF(r[i + 1][2] + u[U0 + j + i] + v[i])
                      /\ r[i][2] = HHALF(r[i + 1][2] + u[U0 + j + i] + v[i])
  <2> SUFFICES ASSUME NEW i \in 1..n
               PROVE  /\ r[i][1] = LHALF(r[i + 1][2] + u[U0 + j + i] + v[i])
                      /\ r[i][2] = HHALF(r[i + 1][2] + u[U0 + j + i] + v[i])
    OBVIOUS
  <2>1. i \in 1..(n + 1) /\ i # n + 1
    OBVIOUS
  <2>2. r[i] = LET t == r[i + 1][2] + u[U0 + j + i] + v[i]
               IN <<LHALF(t), HHALF(t)>>
    BY <1>3, <2>1
  <2> QED
    BY <2>2
<1> HIDE DEF Is
<1>6. \A i \in 1..n : r[i + 1][2] \in {0, 1} =>
         /\ r[i][1] \in Digit /\ r[i][2] \in {0, 1}
         /\ r[i][1] = r[i + 1][2] + u[U0 + j + i] + v[i] - B * r[i][2]
  <2> SUFFICES ASSUME NEW i \in 1..n, r[i + 1][2] \in {0, 1}
               PROVE  /\ r[i][1] \in Digit /\ r[i][2] \in {0, 1}
                      /\ r[i][1] = r[i + 1][2] + u[U0 + j + i] + v[i] - B * r[i][2]
    OBVIOUS
  <2>1. u[U0 + j + i] \in Digit /\ v[i] \in Digit
    <3>1. U0 + j + i \in 0..4
      OBVIOUS
    <3> QED
      BY <3>1
  <2> QED
    BY <1>5, <2>1, Carry
<1>7. r[n + 1][2] \in {0, 1}
  BY <1>4
<1>8. \A i \in 1..n : r[i + 1][2] \in {0, 1}
  <2>1. n \in 1..n /\ n - 1 \in 1..n /\ n - 1 + 1 = n
    OBVIOUS
  <2>2. r[n][2] \in {0, 1}
    BY <1>6, <1>7, <2>1
  <2>3. r[n - 1][2] \in {0, 1}
    BY <1>6, <2>1, <2>2
  <2>4. n >= 3 => r[n - 2][2] \in {0, 1}
    <3>1. n - 2 + 1 = n - 1
      OBVIOUS
    <3> QED
      BY <1>6, <2>3, <3>1
  <2> SUFFICES ASSUME NEW i \in 1..n PROVE r[i + 1][2] \in {0, 1}
    OBVIOUS
  <2>5. i + 1 = n + 1 \/ i + 1 = n \/ i + 1 = n - 1 \/ (n >= 3 /\ i + 1 = n - 2)
    OBVIOUS
  <2> QED
    BY <1>7, <2>2, <2>3, <2>4, <2>5
<1> QED
  BY <1>2, <1>4, <1>6, <1>8

(* The remainders of a division by one digit.                               *)
Remainders(t) == LET r[i \in 0..4] == IF i = 0 THEN 0 ELSE COMBINE(r[i - 1], u[i]) % t IN r

(* Digit by digit, they are less than the divisor.                          *)
LEMMA RemaindersAre ==
  ASSUME NEW t \in Digit \ {0}, u \in [0..4 -> Digit]
  PROVE  /\ Remainders(t)[0] = 0 /\ \A i \in 0..4 : Remainders(t)[i] \in 0..(t - 1)
         /\ \A i \in 1..4 : Remainders(t)[i] = COMBINE(Remainders(t)[i - 1], u[i]) % t
<1> DEFINE Is(f) == f = [i \in 0..4 |-> IF i = 0 THEN 0 ELSE COMBINE(f[i - 1], u[i]) % t]
           a == COMBINE(0, u[1]) % t
           b == COMBINE(a, u[2]) % t
           c == COMBINE(b, u[3]) % t
           e == COMBINE(c, u[4]) % t
           g == [i \in 0..4 |-> IF i = 0 THEN 0 ELSE IF i = 1 THEN a ELSE IF i = 2 THEN b
                                ELSE IF i = 3 THEN c ELSE e]
<1>1. Is(g)
  <2>1. \A i \in 1..4 : g[i] = COMBINE(g[i - 1], u[i]) % t
    <3>1. g[1] = a /\ g[2] = b /\ g[3] = c /\ g[4] = e /\ g[0] = 0
      <4> HIDE DEF a, b, c, e
      <4> QED
        OBVIOUS
    <3> HIDE DEF g
    <3>2. /\ g[1] = COMBINE(g[0], u[1]) % t /\ g[2] = COMBINE(g[1], u[2]) % t
          /\ g[3] = COMBINE(g[2], u[3]) % t /\ g[4] = COMBINE(g[3], u[4]) % t
      BY <3>1, Zenon
    <3>3. \A i \in 1..4 : i = 1 \/ i = 2 \/ i = 3 \/ i = 4
      OBVIOUS
    <3>4. 1 - 1 = 0 /\ 2 - 1 = 1 /\ 3 - 1 = 2 /\ 4 - 1 = 3
      OBVIOUS
    <3> SUFFICES ASSUME NEW i \in 1..4 PROVE g[i] = COMBINE(g[i - 1], u[i]) % t
      OBVIOUS
    <3> QED
      BY <3>2, <3>3, <3>4, Zenon
  <2>2. g[0] = 0 /\ g = [i \in 0..4 |-> g[i]]
    <3> HIDE DEF a, b, c, e
    <3> QED
      OBVIOUS
  <2> HIDE DEF g
  <2>3. \A i \in 0..4 : g[i] = IF i = 0 THEN 0 ELSE COMBINE(g[i - 1], u[i]) % t
    <3>1. \A i \in 0..4 : i = 0 \/ i \in 1..4
      OBVIOUS
    <3>2. \A i \in 1..4 : i # 0
      OBVIOUS
    <3> QED
      BY <2>1, <2>2, <3>1, <3>2, Zenon
  <2> QED
    BY <2>2, <2>3, Zenon
<1> DEFINE r == CHOOSE f : Is(f)
<1>2. Remainders(t) = r
  BY DEF Remainders
<1>3. Is(r)
  <2> HIDE DEF Is, g
  <2> QED
    BY <1>1, Zenon
<1> HIDE DEF r
<1>4. r[0] = 0
  BY <1>3
<1>5. \A i \in 1..4 : r[i] = COMBINE(r[i - 1], u[i]) % t
  <2>1. \A i \in 1..4 : i \in 0..4 /\ i # 0
    OBVIOUS
  <2> QED
    BY <1>3, <2>1
<1> HIDE DEF Is
<1>6. \A i \in 1..4 : r[i - 1] \in 0..(t - 1) => r[i] \in 0..(t - 1)
  <2> SUFFICES ASSUME NEW i \in 1..4, r[i - 1] \in 0..(t - 1) PROVE r[i] \in 0..(t - 1)
    OBVIOUS
  <2>1. u[i] \in Digit /\ t \in Nat \ {0} /\ B \in Nat
    BY BaseIs DEF Digit
  <2>2. COMBINE(r[i - 1], u[i]) \in Int
    BY <2>1 DEF COMBINE, Digit
  <2> QED
    BY <1>5, <2>1, <2>2, DivMod
<1>7. r[0] \in 0..(t - 1) /\ r[1] \in 0..(t - 1) /\ r[2] \in 0..(t - 1) /\ r[3] \in 0..(t - 1)
      /\ r[4] \in 0..(t - 1)
  <2>1. r[0] \in 0..(t - 1)
    BY <1>4, BaseIs DEF Digit
  <2>2. 1 - 1 = 0 /\ 2 - 1 = 1 /\ 3 - 1 = 2 /\ 4 - 1 = 3 /\ 1 \in 1..4 /\ 2 \in 1..4 /\ 3 \in 1..4
        /\ 4 \in 1..4
    OBVIOUS
  <2>3. r[1] \in 0..(t - 1)
    BY <1>6, <2>1, <2>2
  <2>4. r[2] \in 0..(t - 1)
    BY <1>6, <2>2, <2>3
  <2>5. r[3] \in 0..(t - 1)
    BY <1>6, <2>2, <2>4
  <2>6. r[4] \in 0..(t - 1)
    BY <1>6, <2>2, <2>5
  <2> QED
    BY <2>1, <2>3, <2>4, <2>5, <2>6
<1>8. \A i \in 0..4 : r[i] \in 0..(t - 1)
  <2>1. \A i \in 0..4 : i = 0 \/ i = 1 \/ i = 2 \/ i = 3 \/ i = 4
    OBVIOUS
  <2> QED
    BY <1>7, <2>1, Zenon
<1> QED
  BY <1>2, <1>4, <1>5, <1>8

(* What "short" returns is the quotient and the remainder.                  *)
LEMMA ShortDivides ==
  ASSUME NEW t \in Digit \ {0}, u \in [0..4 -> Digit]
  PROVE  LET r == Remainders(t)
             z == Value([i \in 1..4 |-> COMBINE(r[i - 1], u[i]) \div t])
         IN N4(u[1], u[2], u[3], u[4]) = z * t + r[4] /\ r[4] \in 0..(t - 1) /\ z \in Int
<1> DEFINE r == Remainders(t)
           f == [i \in 0..4 |-> u[i]]
           g == [i \in 1..4 |-> COMBINE(r[i - 1], u[i]) \div t]
           l == [i \in 1..4 |-> IF i = 4 THEN r[4] ELSE 0]
           w == [i \in 1..5 |-> IF i = 5 THEN 0 ELSE r[i - 1]]
<1>1. /\ r[0] = 0 /\ \A i \in 0..4 : r[i] \in 0..(t - 1)
      /\ \A i \in 1..4 : r[i] = COMBINE(r[i - 1], u[i]) % t
  BY RemaindersAre
<1> HIDE DEF r
<1>2. t \in Nat \ {0} /\ B \in Nat /\ \A i \in 0..4 : u[i] \in Int /\ r[i] \in Int
  BY <1>1, BaseIs DEF Digit
<1>3. \A i \in 1..4 : g[i] \in Int /\ COMBINE(r[i - 1], u[i]) = t * g[i] + r[i]
  <2> SUFFICES ASSUME NEW i \in 1..4
               PROVE  g[i] \in Int /\ COMBINE(r[i - 1], u[i]) = t * g[i] + r[i]
    OBVIOUS
  <2>1. COMBINE(r[i - 1], u[i]) \in Int
    <3>1. i - 1 \in 0..4 /\ i \in 0..4
      OBVIOUS
    <3>2. r[i - 1] \in Int /\ u[i] \in Int
      BY <1>2, <3>1
    <3> QED
      BY <1>2, <3>2 DEF COMBINE
  <2>2. g[i] = COMBINE(r[i - 1], u[i]) \div t
    OBVIOUS
  <2> HIDE DEF g
  <2> QED
    BY <1>1, <1>2, <2>1, <2>2, DivMod
<1>4. l[1] = 0 /\ l[2] = 0 /\ l[3] = 0 /\ l[4] = r[4]
  OBVIOUS
<1>5. w[1] = 0 /\ w[2] = r[1] /\ w[3] = r[2] /\ w[4] = r[3] /\ w[5] = 0
  BY <1>1
<1>6. Value(g) = N4(g[1], g[2], g[3], g[4])
  <2>1. Len(g) = 4 /\ \A i \in 1..Len(g) : g[i] \in Int
    <3>1. g \in Seq(Int)
      BY <1>3
    <3> QED
      BY <3>1, <1>3
  <2> HIDE DEF g
  <2> QED
    BY <2>1, ValueIs
<1>7. Value(g) \in Int
  <2>1. g[1] \in Int /\ g[2] \in Int /\ g[3] \in Int /\ g[4] \in Int
    BY <1>3
  <2> HIDE DEF g
  <2>2. AreInts(g[1], g[2], g[3], g[4], 0)
    BY <2>1 DEF AreInts
  <2> QED
    BY <1>6, <2>2, FirstDigits
<1>8. \A i \in 1..4 : u[0 + i] \in Int /\ g[i] \in Int /\ l[i] \in Int /\ w[i] \in Int
  <2>1. \A i \in 1..4 : i = 1 \/ i = 2 \/ i = 3 \/ i = 4
    OBVIOUS
  <2>2. \A i \in 1..4 : l[i] \in Int /\ w[i] \in Int
    <3> HIDE DEF l, w
    <3> QED
      BY <1>2, <1>4, <1>5, <2>1
  <2> HIDE DEF l, w, g
  <2> QED
    BY <1>2, <1>3, <2>2
<1>9. \A i \in 1..4 : l[i] = u[0 + i] - g[i] * t - w[i + 1] + B * w[i]
  <2> HIDE DEF l, w, g
  <2> SUFFICES ASSUME NEW i \in 1..4 PROVE l[i] = u[i] - g[i] * t - w[i + 1] + B * w[i]
    OBVIOUS
  <2>1. B * r[i - 1] + u[i] = t * g[i] + r[i] /\ g[i] \in Int /\ t * g[i] \in Int /\ g[i] * t = t * g[i]
    BY <1>2, <1>3 DEF COMBINE
  <2>2. r[i - 1] \in Int /\ r[i] \in Int /\ u[i] \in Int
    <3>1. i - 1 \in 0..4 /\ i \in 0..4
      OBVIOUS
    <3> QED
      BY <1>2, <3>1
  <2>3. w[i] = r[i - 1]
    <3>1. i = 1 \/ i = 2 \/ i = 3 \/ i = 4
      OBVIOUS
    <3> QED
      BY <1>1, <1>5, <3>1
  <2>4. l[i] = r[i] - w[i + 1]
    <3>1. i = 1 \/ i = 2 \/ i = 3 \/ i = 4
      OBVIOUS
    <3> QED
      BY <1>2, <1>4, <1>5, <3>1
  <2>5. B * r[i - 1] \in Int /\ w[i + 1] \in Int
    <3>1. i = 1 \/ i = 2 \/ i = 3 \/ i = 4
      OBVIOUS
    <3> QED
      BY <1>2, <1>5, <2>2, <3>1
  <2>6. B * w[i] = B * r[i - 1]
    BY <2>3
  <2> DEFINE x == B * r[i - 1]
             y == t * g[i]
  <2>7. x + u[i] = y + r[i] /\ x \in Int /\ y \in Int /\ g[i] * t = y /\ B * w[i] = x
    BY <2>1, <2>5, <2>6
  <2> HIDE DEF x, y
  <2> QED
    BY <2>2, <2>4, <2>5, <2>7
<1>10. Num(u, 0, 4) - t * Num(g, 0, 4) = Num(l, 0, 4) - Weight(4) * w[1]
  <2> HIDE DEF l, w, g
  <2>1. t \in Int /\ w[4 + 1] = 0
    BY <1>2, <1>5
  <2>2. IsColumns(4, 0, u, g, l, w, t)
    BY <1>8, <1>9, <2>1 DEF IsColumns
  <2> QED
    BY <2>2, Telescope
<1>11. /\ Num(u, 0, 4) = N4(u[1], u[2], u[3], u[4]) /\ Num(g, 0, 4) = Value(g)
       /\ Num(l, 0, 4) = r[4] /\ Weight(4) * w[1] = 0
  <2> HIDE DEF l, w, g
  <2>1. Num(l, 0, 4) = N4(0, 0, 0, r[4])
    BY <1>4 DEF Num
  <2>2. N4(0, 0, 0, r[4]) = r[4]
    BY <1>2 DEF N2, N3, N4
  <2>3. Weight(4) \in Nat
    BY WeightType
  <2> QED
    BY <1>5, <1>6, <2>1, <2>2, <2>3 DEF Num
<1>12. N4(u[1], u[2], u[3], u[4]) \in Int
  <2>1. AreInts(u[1], u[2], u[3], u[4], 0)
    BY <1>2 DEF AreInts
  <2> QED
    BY <2>1, FirstDigits
<1>13. N4(u[1], u[2], u[3], u[4]) - t * Value(g) = r[4] - 0
  BY <1>10, <1>11
<1>14. t * Value(g) = Value(g) * t /\ t * Value(g) \in Int
  <2> HIDE DEF g
  <2> QED
    BY <1>2, <1>7
<1> HIDE DEF g
<1>15. N4(u[1], u[2], u[3], u[4]) = Value(g) * t + r[4]
  BY <1>2, <1>12, <1>13, <1>14
<1>16. r[4] \in 0..(t - 1)
  BY <1>1
<1> QED
  BY <1>7, <1>15, <1>16 DEF g, r

(* z times the divisor V go from the dividend T to the quotient A.          *)
IsSum(T, A, V, X, R, L) ==
  /\ T \in Int /\ A \in Int /\ V \in Int /\ X \in Int /\ R \in Int /\ L \in Int
  /\ T = A * V + (X * R + L)

(* z times the divisor more in the quotient are z times less in the rest.   *)
LEMMA TakeAway ==
  ASSUME NEW T, NEW A, NEW V, NEW X, NEW R, NEW L, IsSum(T, A, V, X, R, L), NEW z \in Int
  PROVE  IsSum(T, A + z * R, V, X - z * V, R, L)
<1>1. T \in Int /\ A \in Int /\ V \in Int /\ X \in Int /\ R \in Int /\ L \in Int
      /\ T = A * V + (X * R + L)
  BY DEF IsSum
<1>2. (A + z * R) * V = A * V + (z * R) * V /\ (X - z * V) * R = X * R - (z * V) * R
      /\ (z * R) * V = (z * V) * R
  BY <1>1
<1>3. A * V \in Int /\ X * R \in Int /\ z * R \in Int /\ z * V \in Int
  BY <1>1
<1>4. (z * V) * R \in Int
  BY <1>1, <1>3
<1>5. A + z * R \in Int /\ X - z * V \in Int
  BY <1>1, <1>3
<1>6. T = (A + z * R) * V + ((X - z * V) * R + L)
  BY <1>1, <1>2, <1>3, <1>4
<1> QED
  BY <1>1, <1>5, <1>6 DEF IsSum

(* The same digits at another place are the same number.                    *)
LEMMA NumAgrees ==
  ASSUME NEW k \in 2..4, NEW o \in Int, NEW f, NEW s \in Int, NEW g,
         \A i \in 1..k : g[s + i] = f[o + i]
  PROVE  Num(g, s, k) = Num(f, o, k)
<1>1. g[s + 1] = f[o + 1] /\ g[s + 2] = f[o + 2] /\ (k >= 3 => g[s + 3] = f[o + 3])
      /\ (k = 4 => g[s + 4] = f[o + 4])
  OBVIOUS
<1> QED
  BY <1>1 DEF Num

(* The numbers of the code's properties, as numbers of digits.              *)
LEMMA ValueOfRow ==
  ASSUME NEW k \in 2..4, NEW f, f \in [1..k -> Int]
  PROVE  Value(f) = Num(f, 0, k)
<1>1. Len(f) = k /\ \A i \in 1..Len(f) : f[i] \in Int
  <2>1. f \in Seq(Int)
    OBVIOUS
  <2> QED
    BY <2>1
<1>2. k = 2 \/ k = 3 \/ k = 4
  OBVIOUS
<1>3. 0 + 1 = 1 /\ 0 + 2 = 2 /\ 0 + 3 = 3 /\ 0 + 4 = 4
  OBVIOUS
<1> QED
  BY <1>1, <1>2, <1>3, ValueIs DEF Num

(* Window and the whole of u likewise.                                      *)
LEMMA WindowIs ==
  ASSUME NEW k \in 2..4, NEW p \in 0..(4 - k), NEW f, \A i \in 0..4 : f[i] \in Digit
  PROVE  Value([i \in 1..(k + 1) |-> f[p + i - 1]]) = Weight(k) * f[p] + Num(f, p, k)
<1> DEFINE g == [i \in 1..(k + 1) |-> f[p + i - 1]]
<1>1. \A i \in 0..4 : f[i] \in Int
  BY DEF Digit
<1>2. \A i \in 1..(k + 1) : g[i] = f[p + i - 1] /\ g[i] \in Int
  BY <1>1
<1>3. Len(g) = k + 1 /\ \A i \in 1..Len(g) : g[i] \in Int
  <2>1. g \in [1..(k + 1) -> Int]
    BY <1>2
  <2>2. g \in Seq(Int)
    BY <2>1
  <2> HIDE DEF g
  <2> QED
    BY <1>2, <2>1, <2>2
<1> HIDE DEF g
<1>4. g[1] = f[p] /\ g[2] = f[p + 1] /\ g[3] = f[p + 2]
      /\ (k >= 3 => g[4] = f[p + 3]) /\ (k = 4 => g[5] = f[p + 4])
  BY <1>2
<1>5. CASE k = 2
  <2>1. Value(g) = N3(f[p], f[p + 1], f[p + 2])
    BY <1>3, <1>4, <1>5, ValueIs
  <2>2. AreInts(f[p], f[p + 1], f[p + 2], 0, 0)
    BY <1>1, <1>5 DEF AreInts
  <2> QED
    BY <1>5, <2>1, <2>2, FirstDigits DEF Num, Weight, g
<1>6. CASE k = 3
  <2>1. Value(g) = N4(f[p], f[p + 1], f[p + 2], f[p + 3])
    BY <1>3, <1>4, <1>6, ValueIs, SMTT(30)
  <2>2. AreInts(f[p], f[p + 1], f[p + 2], f[p + 3], 0)
    BY <1>1, <1>6 DEF AreInts
  <2> QED
    BY <1>6, <2>1, <2>2, FirstDigits DEF Num, Weight, g
<1>7. CASE k = 4
  <2>1. Value(g) = N5(f[p], f[p + 1], f[p + 2], f[p + 3], f[p + 4])
    BY <1>3, <1>4, <1>7, ValueIs, SMTT(30)
  <2>2. AreInts(f[p], f[p + 1], f[p + 2], f[p + 3], f[p + 4])
    BY <1>1, <1>7 DEF AreInts
  <2> QED
    BY <1>7, <2>1, <2>2, FirstDigits DEF Num, Weight, g
<1> QED
  BY <1>5, <1>6, <1>7

LEMMA WholeIs ==
  ASSUME NEW f, \A i \in 0..4 : f[i] \in Digit
  PROVE  Value([i \in 1..5 |-> f[i - 1]]) = Whole(f)
<1> DEFINE g == [i \in 1..5 |-> f[i - 1]]
<1>1. g \in [1..5 -> Int]
  BY DEF Digit
<1>2. g \in Seq(Int)
  BY <1>1
<1>3. g[1] = f[0] /\ g[2] = f[1] /\ g[3] = f[2] /\ g[4] = f[3] /\ g[5] = f[4]
  OBVIOUS
<1>4. Len(g) = 5 /\ \A i \in 1..Len(g) : g[i] \in Int
  BY <1>1, <1>2
<1> HIDE DEF g
<1>5. Value(g) = N5(f[0], f[1], f[2], f[3], f[4])
  BY <1>3, <1>4, ValueIs
<1> QED
  BY <1>5 DEF Whole, g

(* Zeros in front of a number.                                              *)
LEMMA NoZeros ==
  N2(0, 0) = 0 /\ \A a \in Int : N2(0, a) = a
  BY BaseIs DEF N2

(* The digits NothingLost takes to have been divided.                       *)
LEMMA LeadingZeros ==
  ASSUME NEW k \in 2..4, NEW p \in 0..(5 - k), NEW f, \A i \in 0..4 : f[i] \in Digit,
         \A i \in 0..(p - 1) : f[i] = 0
  PROVE  Value([i \in 1..(p + k) |-> f[i - 1]]) = Num(f, p - 1, k)
<1> DEFINE g == [i \in 1..(p + k) |-> f[i - 1]]
<1>1. \A i \in 0..4 : f[i] \in Int
  BY DEF Digit
<1>2. \A i \in 1..(p + k) : g[i] = f[i - 1] /\ g[i] \in Int
  BY <1>1
<1>3. Len(g) = p + k /\ \A i \in 1..Len(g) : g[i] \in Int
  <2>1. g \in [1..(p + k) -> Int]
    BY <1>2
  <2>2. g \in Seq(Int)
    BY <2>1
  <2> HIDE DEF g
  <2> QED
    BY <1>2, <2>1, <2>2
<1> HIDE DEF g
<1>4. f[0] \in Int /\ f[1] \in Int /\ f[2] \in Int /\ f[3] \in Int /\ f[4] \in Int
  BY <1>1
<1>5. N2(0, 0) = 0 /\ N2(0, f[1]) = f[1] /\ N2(0, f[2]) = f[2] /\ N2(0, f[3]) = f[3]
  BY <1>4, NoZeros
<1>6. p - 1 + 1 = p /\ p - 1 + 2 = p + 1 /\ p - 1 + 3 = p + 2 /\ p - 1 + 4 = p + 3
  OBVIOUS
<1>7. CASE p = 0
  <2>1. k = 2 => g[1] = f[0] /\ g[2] = f[1]
    BY <1>2, <1>7
  <2>2. k = 3 => g[1] = f[0] /\ g[2] = f[1] /\ g[3] = f[2]
    BY <1>2, <1>7
  <2>3. k = 4 => g[1] = f[0] /\ g[2] = f[1] /\ g[3] = f[2] /\ g[4] = f[3]
    BY <1>2, <1>7
  <2>4. Num(f, p - 1, k) = IF k = 2 THEN N2(f[0], f[1]) ELSE IF k = 3 THEN N3(f[0], f[1], f[2])
                           ELSE N4(f[0], f[1], f[2], f[3])
    BY <1>7 DEF Num
  <2>5. Len(g) = k
    BY <1>3, <1>7
  <2>6. Value(g) = Num(f, p - 1, k)
    <3>1. /\ Len(g) = 2 => Value(g) = N2(g[1], g[2])
          /\ Len(g) = 3 => Value(g) = N3(g[1], g[2], g[3])
          /\ Len(g) = 4 => Value(g) = N4(g[1], g[2], g[3], g[4])
      BY <1>3, ValueIs
    <3>2. k = 2 \/ k = 3 \/ k = 4
      OBVIOUS
    <3> QED
      BY <2>1, <2>2, <2>3, <2>4, <2>5, <3>1, <3>2
  <2> QED
    BY <2>6 DEF g
<1>8. CASE p = 1
  <2>1. g[1] = 0 /\ f[0] = 0 /\ g[2] = f[1] /\ g[3] = f[2]
    BY <1>2, <1>8
  <2>2. CASE k = 2
    <3>1. Value(g) = N3(0, f[1], f[2])
      BY <1>3, <1>8, <2>1, <2>2, ValueIs
    <3>2. N3(0, f[1], f[2]) = N2(f[1], f[2])
      BY <1>5 DEF N3, N2
    <3> QED
      BY <1>6, <1>8, <2>2, <3>1, <3>2 DEF Num, g
  <2>3. CASE k = 3
    <3>1. g[4] = f[3]
      BY <1>2, <1>8, <2>3
    <3>2. Value(g) = N4(0, f[1], f[2], f[3])
      BY <1>3, <1>8, <2>1, <2>3, <3>1, ValueIs
    <3>3. N3(0, f[1], f[2]) = N2(f[1], f[2])
      BY <1>5 DEF N3, N2
    <3>4. N4(0, f[1], f[2], f[3]) = N3(f[1], f[2], f[3])
      BY <3>3 DEF N3, N4
    <3> QED
      BY <1>6, <1>8, <2>3, <3>2, <3>4 DEF Num, g
  <2>4. CASE k = 4
    <3>1. g[4] = f[3] /\ g[5] = f[4]
      BY <1>2, <1>8, <2>4
    <3>2. Value(g) = N5(0, f[1], f[2], f[3], f[4])
      BY <1>3, <1>8, <2>1, <2>4, <3>1, ValueIs
    <3>3. N3(0, f[1], f[2]) = N2(f[1], f[2])
      BY <1>5 DEF N3, N2
    <3>4. N4(0, f[1], f[2], f[3]) = N3(f[1], f[2], f[3])
      BY <3>3 DEF N3, N4
    <3>5. N5(0, f[1], f[2], f[3], f[4]) = N4(f[1], f[2], f[3], f[4])
      BY <3>4 DEF N4, N5
    <3> QED
      BY <1>6, <1>8, <2>4, <3>2, <3>5 DEF Num, g
  <2> QED
    BY <2>2, <2>3, <2>4
<1>9. CASE p = 2
  <2>1. g[1] = 0 /\ g[2] = 0 /\ g[3] = f[2] /\ g[4] = f[3]
    BY <1>2, <1>9
  <2>2. CASE k = 2
    <3>1. Value(g) = N4(0, 0, f[2], f[3])
      BY <1>3, <1>9, <2>1, <2>2, ValueIs
    <3>2. N3(0, 0, f[2]) = f[2]
      BY <1>5 DEF N3, N2
    <3>3. N4(0, 0, f[2], f[3]) = N2(f[2], f[3])
      BY <3>2 DEF N2, N4
    <3> QED
      BY <1>6, <1>9, <2>2, <3>1, <3>3 DEF Num, g
  <2>3. CASE k = 3
    <3>1. g[5] = f[4]
      BY <1>2, <1>9, <2>3
    <3>2. Value(g) = N5(0, 0, f[2], f[3], f[4])
      <4>1. Len(g) = 5
        BY <1>3, <1>9, <2>3
      <4> QED
        BY <1>3, <2>1, <3>1, <4>1, ValueIs
    <3>3. N3(0, 0, f[2]) = f[2]
      BY <1>5 DEF N3, N2
    <3>4. N4(0, 0, f[2], f[3]) = N2(f[2], f[3])
      BY <3>3 DEF N2, N4
    <3>5. N5(0, 0, f[2], f[3], f[4]) = N3(f[2], f[3], f[4])
      BY <3>4 DEF N3, N5
    <3> QED
      BY <1>6, <1>9, <2>3, <3>2, <3>5 DEF Num, g
  <2> QED
    BY <1>9, <2>2, <2>3
<1>10. CASE p = 3
  <2>1. g[1] = 0 /\ g[2] = 0 /\ g[3] = 0 /\ g[4] = f[3] /\ g[5] = f[4] /\ k = 2
    BY <1>2, <1>10
  <2>2. Value(g) = N5(0, 0, 0, f[3], f[4])
    BY <1>3, <1>10, <2>1, ValueIs
  <2>3. N3(0, 0, 0) = 0
    BY <1>5 DEF N3, N2
  <2>4. N4(0, 0, 0, f[3]) = f[3]
    BY <1>5, <2>3 DEF N2, N4
  <2>5. N5(0, 0, 0, f[3], f[4]) = N2(f[3], f[4])
    BY <2>4 DEF N2, N5
  <2> QED
    BY <1>6, <1>10, <2>1, <2>2, <2>5 DEF Num, g
<1> QED
  BY <1>7, <1>8, <1>9, <1>10

-----------------------------------------------------------------------------
(* The inductive invariant.  Pos is the digit of u the step for q[j] starts *)
(* at, Part the number in its digits of u; the dividend is                  *)
(* quotient * Divisor + what is left in u.                                  *)
Pos      == U0 + j
Divisor  == Num(v, 0, n)
Part     == Weight(n) * u[Pos] + Num(u, Pos, n)
Dividend == uq * 2^d
Quotient == N4(q[1], q[2], q[3], q[4])

(* What holds from the first guess to the last digit: D1 has given v[1] its *)
(* highest bit, the digits not found yet are zero, and so are those of u    *)
(* before the window.                                                       *)
Shape ==
  /\ n \in 2..4 /\ m \in 0..(4 - n) /\ d \in 0..B /\ j \in 0..(m + 1)
  /\ u \in [0..4 -> Digit] /\ v \in [1..n -> Digit] /\ q \in [1..4 -> Digit]
  /\ B <= 2 * v[1]
  /\ uq \in Nat /\ vq \in Nat \ {0} /\ Divisor = vq * 2^d
  /\ 2^d \in Nat \ {0} /\ \E t \in Nat \ {0} : 2^d * t = B
  /\ \A i \in (4 - m + j)..4 : q[i] = 0
  /\ \A i \in 0..(Pos - 1) : u[i] = 0

(* Between two digits: what was divided is less than the divisor.           *)
Between ==
  /\ Shape
  /\ Num(u, Pos - 1, n) < Divisor
  /\ Dividend = Quotient * Divisor + Whole(u)

(* The guess: it is never too small, rhat is what it leaves of the first two *)
(* digits, and after D3 it is at most one too large.                        *)
GuessIsEnough == qhat \in Digit /\ (qhat + 1) * Divisor > Part
GuessHasRest  == rhat \in Nat /\ qhat * v[1] + rhat = N2(u[Pos], u[Pos + 1])
GuessIsNear   == (qhat - 1) * Divisor <= Part

(* After D4 with a guess that was one too large, the window is below zero,  *)
(* modulo B^(n+1).                                                          *)
TakenTooOften ==
  /\ qhat \in 1..(B - 1) /\ u[Pos] = B - 1 /\ Num(u, Pos, n) + Divisor >= Weight(n)
  /\ IsSum(Dividend, Quotient + qhat * Weight(m - j), Divisor, Num(u, Pos, n) - Weight(n),
           Weight(m - j), Low(u, Pos + n))

(* After D4, or D6: the digit is right, and its rest less than the divisor. *)
Taken ==
  /\ qhat \in Digit /\ u[Pos] = 0 /\ Num(u, Pos, n) < Divisor
  /\ Dividend = (Quotient + qhat * Weight(m - j)) * Divisor + Whole(u)

(* Each of them at its place.                                               *)
AtGuess    == pc = "guess" => Between /\ j <= m
AtCorrect  == pc = "correct" => Between /\ j <= m /\ GuessIsEnough /\ GuessHasRest
AtSubtract == pc = "subtract" => Between /\ j <= m /\ GuessIsEnough /\ GuessIsNear
AtAddBack  == pc = "addBack" => Shape /\ j <= m /\ TakenTooOften
AtStore    == pc = "store" => Shape /\ j <= m /\ Taken
AtUnshift  == pc = "unshift" => Between /\ j = m + 1
AtDigits == AtGuess /\ AtCorrect /\ AtSubtract /\ AtAddBack /\ AtStore /\ AtUnshift

(* The result, and what Enter leaves to "short" and to Shift.               *)
AtReturn == pc = "return" => vq \in Nat \ {0} /\ quo = uq \div vq /\ rem = uq % vq
AtEnter == pc = "enter" => q = Zeros
AtShort ==
  pc = "short" =>
    /\ v[1] \in Digit \ {0} /\ vq = v[1] /\ u \in [0..4 -> Digit]
    /\ N4(u[1], u[2], u[3], u[4]) = uq

AtShift ==
  pc = "shift" =>
    /\ n \in 2..4 /\ m \in 0..(4 - n) /\ q = Zeros
    /\ u \in [0..4 -> Digit] /\ v \in [1..n -> Digit] /\ v[1] # 0
    /\ Num(v, 0, n) = vq /\ Weight(n - 1) <= vq /\ vq \in Nat \ {0}
    /\ (\A i \in 0..U0 : u[i] = 0) /\ Num(u, U0, m + n) = uq
    /\ uq < Weight(m + n) /\ uq \in Nat

AtDone ==
  pc = "done" => /\ vq # 0 /\ rem = uq % vq
                 /\ quo = IF neg THEN Minus(uq \div vq) ELSE uq \div vq

(* The inductive invariant of __qdivrem.                                    *)
Knuth == /\ in \in Inputs /\ AtEnter /\ AtShort /\ AtShift /\ AtDigits /\ AtReturn /\ AtDone

(* What a step may use of Shape and Between.                                *)
LEMMA ShapeFacts ==
  ASSUME Shape
  PROVE  /\ Divisor \in Nat \ {0} /\ Divisor < Weight(n) /\ Quotient \in Nat /\ Whole(u) \in Nat
         /\ Dividend \in Nat /\ Weight(n) \in Nat \ {0} /\ B \in Nat /\ B > 1
         /\ (j <= m => /\ Pos \in 0..(4 - n) /\ Part \in Nat /\ Num(u, Pos, n) \in Nat
                       /\ Num(u, Pos, n) < Weight(n) /\ Weight(m - j) \in Nat \ {0}
                       /\ Low(u, Pos + n) \in Nat
                       /\ Whole(u) = Part * Weight(m - j) + Low(u, Pos + n))
<1>1. Divisor \in Nat /\ Divisor < Weight(n)
  <2>1. \A i \in 1..n : v[0 + i] \in Digit
    BY DEF Shape
  <2> QED
    BY <2>1, NumBound DEF Shape, Divisor
<1>2. Divisor # 0
  BY DEF Shape
<1>3. Quotient \in Nat
  <2>1. q[1] \in Nat /\ q[2] \in Nat /\ q[3] \in Nat /\ q[4] \in Nat /\ B \in Nat
    BY BaseIs DEF Shape, Digit
  <2>2. N2(q[1], q[2]) \in Nat
    BY <2>1 DEF N2
  <2>3. N3(q[1], q[2], q[3]) \in Nat
    BY <2>1, <2>2 DEF N3
  <2> QED
    BY <2>1, <2>3 DEF N4, Quotient
<1>4. Whole(u) \in Nat
  <2>1. u[0] \in Nat /\ u[1] \in Nat /\ u[2] \in Nat /\ u[3] \in Nat /\ u[4] \in Nat /\ B \in Nat
    BY BaseIs DEF Shape, Digit
  <2>2. N2(u[0], u[1]) \in Nat
    BY <2>1 DEF N2
  <2>3. N3(u[0], u[1], u[2]) \in Nat
    BY <2>1, <2>2 DEF N3
  <2>4. N4(u[0], u[1], u[2], u[3]) \in Nat
    BY <2>1, <2>3 DEF N4
  <2> QED
    BY <2>1, <2>4 DEF N5, Whole
<1>5. Dividend \in Nat
  BY DEF Shape, Dividend
<1>6. Weight(n) \in Nat \ {0}
  BY WeightType DEF Shape
<1>7. ASSUME j <= m
      PROVE  /\ Pos \in 0..(4 - n) /\ Part \in Nat /\ Num(u, Pos, n) \in Nat
             /\ Num(u, Pos, n) < Weight(n) /\ Weight(m - j) \in Nat \ {0}
             /\ Low(u, Pos + n) \in Nat
             /\ Whole(u) = Part * Weight(m - j) + Low(u, Pos + n)
  <2>1. n \in 2..4 /\ m \in 0..(4 - n) /\ j \in 0..m
    BY <1>7 DEF Shape
  <2>2. Pos \in 0..(4 - n) /\ 4 - Pos - n = m - j /\ m - j \in 0..4
    BY <2>1 DEF Pos, U0
  <2>3. Weight(m - j) \in Nat \ {0}
    BY <2>2, WeightType
  <2>4. \A i \in 0..4 : u[i] \in Digit
    BY DEF Shape
  <2>5. \A i \in 1..n : u[Pos + i] \in Digit
    BY <2>1, <2>2, <2>4
  <2>6. Num(u, Pos, n) \in Nat /\ Num(u, Pos, n) < Weight(n)
    BY <2>1, <2>2, <2>5, NumBound
  <2>7. u[Pos] \in Nat
    BY <2>1, <2>2, <2>4 DEF Digit
  <2>8. Part \in Nat
    BY <1>6, <2>6, <2>7 DEF Part
  <2>9. \A i \in 0..(Pos - 1) : u[i] = 0
    BY DEF Shape
  <2>10. /\ Whole(u) = (Weight(n) * u[Pos] + Num(u, Pos, n)) * Weight(4 - Pos - n) + Low(u, Pos + n)
         /\ Low(u, Pos + n) \in Nat
    BY <2>1, <2>2, <2>4, <2>9, Split
  <2> QED
    BY <2>2, <2>3, <2>6, <2>8, <2>10 DEF Part
<1> QED
  BY <1>1, <1>2, <1>3, <1>4, <1>5, <1>6, <1>7, BaseIs

LEMMA BetweenFacts ==
  ASSUME Between, j <= m
  PROVE  /\ Part < B * Divisor
         /\ \E R, r, s : IsStep(u[Pos], u[Pos + 1], u[Pos + 2], v[1], v[2], R, r, s, Part, Divisor)
<1>1. /\ Shape /\ Pos \in 0..(4 - n) /\ Divisor \in Nat \ {0} /\ B \in Nat /\ B > 1
      /\ n \in 2..4 /\ B <= 2 * v[1]
  BY ShapeFacts DEF Between, Shape
<1>2. (\A i \in 0..4 : u[i] \in Digit) /\ (\A i \in 1..n : v[i] \in Digit)
  BY DEF Between, Shape
<1>3. Part < B * Divisor
  <2>1. Part = N2(Num(u, Pos - 1, n), u[Pos + n])
    BY <1>1, <1>2, Shifted DEF Part
  <2>2. \A i \in 1..n : u[Pos - 1 + i] \in Digit
    BY <1>1, <1>2
  <2>3. Num(u, Pos - 1, n) \in Nat /\ Num(u, Pos - 1, n) < Divisor
    <3> DEFINE o == Pos - 1
    <3>1. o \in Int /\ \A i \in 1..n : u[o + i] \in Digit
      BY <1>1, <2>2
    <3> HIDE DEF o
    <3>2. Num(u, o, n) \in Nat
      BY <1>1, <3>1, NumBound
    <3> QED
      BY <3>2 DEF Between, o
  <2>4. u[Pos + n] \in Digit
    BY <1>1, <1>2
  <2>5. N2(Num(u, Pos - 1, n), u[Pos + n]) < B * Divisor
    BY <1>1, <2>3, <2>4, NextDigit
  <2> QED
    BY <2>1, <2>5
<1>4. \E R, r, s : IsStep(u[Pos], u[Pos + 1], u[Pos + 2], v[1], v[2], R, r, s, Part, Divisor)
  BY <1>1, <1>2, Leading DEF Part, Divisor
<1> QED
  BY <1>3, <1>4

(* They are about the number alone, not about the guess.                    *)
LEMMA Stays ==
  ASSUME UNCHANGED <<in, u, v, q, n, m, d, j>>
  PROVE  /\ (Shape => Shape') /\ (Between => Between')
         /\ Pos' = Pos /\ Part' = Part /\ Divisor' = Divisor /\ Dividend' = Dividend
         /\ Quotient' = Quotient /\ Whole(u)' = Whole(u)
<1>1. uq' = uq /\ vq' = vq
  BY DEF uq, vq
<1>2. Pos' = Pos /\ Divisor' = Divisor /\ Quotient' = Quotient /\ Whole(u)' = Whole(u)
  BY DEF Pos, U0, Divisor, Quotient, Whole
<1>3. Part' = Part /\ Num(u, Pos - 1, n)' = Num(u, Pos - 1, n)
  BY <1>2 DEF Part
<1>4. Dividend' = Dividend
  BY <1>1 DEF Dividend
<1>5. Shape => Shape'
  BY <1>1, <1>2 DEF Shape
<1>6. Between => Between'
  BY <1>2, <1>3, <1>4, <1>5 DEF Between
<1> QED
  BY <1>2, <1>3, <1>4, <1>5, <1>6

-----------------------------------------------------------------------------
(* The steps of one digit of the quotient.                                  *)
LEMMA GuessStep == ASSUME AtDigits, Guess PROVE AtDigits'
<1>1. Between /\ j <= m /\ pc = "guess" /\ UNCHANGED <<in, u, v, q, n, m, d, j>>
  BY DEF AtDigits, AtGuess, Guess
<1>2. /\ Between' /\ j' <= m' /\ Part' = Part /\ Divisor' = Divisor /\ Pos' = Pos
      /\ u' = u /\ v' = v
  BY <1>1, Stays
<1>3. PICK R, r, s : IsStep(u[Pos], u[Pos + 1], u[Pos + 2], v[1], v[2], R, r, s, Part, Divisor)
  BY <1>1, BetweenFacts
<1>4. /\ Part \in Nat /\ Divisor \in Nat \ {0} /\ Part < B * Divisor /\ B \in Nat /\ B > 1
      /\ Pos \in 0..4
  <2>1. Shape /\ n \in 2..4
    BY <1>1 DEF Between, Shape
  <2> QED
    BY <1>1, <2>1, BetweenFacts, ShapeFacts
<1> DEFINE a == u[Pos]
           b == u[Pos + 1]
           x == v[1]
<1>5. a \in Digit /\ b \in Digit /\ x \in Digit
  BY <1>3 DEF IsStep
<1>6. a <= x
  BY <1>3, <1>4, FirstDigit
<1>7. CASE a = x
  <2>1. qhat' = B - 1 /\ rhat' = b + x /\ pc' = IF b + x >= B THEN "subtract" ELSE "correct"
    BY <1>7 DEF Guess, Pos
  <2>2. qhat' \in Digit /\ rhat' \in Nat
    BY <1>4, <1>5, <2>1 DEF Digit
  <2>3. qhat' * x + rhat' = N2(a, b)
    BY <1>4, <1>5, <1>7, <2>1 DEF N2, Digit
  <2>4. (qhat' + 1) * Divisor > Part
    BY <1>4, <2>1
  <2>5. CASE b + x >= B
    <3>1. (qhat' - 1) * Divisor <= Part
      BY <1>3, <2>1, <2>2, <2>3, <2>5, CloseEnough
    <3> QED
      BY <1>2, <2>1, <2>2, <2>4, <2>5, <3>1
      DEF AtDigits, AtGuess, AtCorrect, AtSubtract, AtAddBack, AtStore, AtUnshift,
          GuessIsEnough, GuessIsNear
  <2>6. CASE ~(b + x >= B)
    BY <1>2, <2>1, <2>2, <2>3, <2>4, <2>6
    DEF AtDigits, AtGuess, AtCorrect, AtSubtract, AtAddBack, AtStore, AtUnshift,
        GuessIsEnough, GuessHasRest
  <2> QED
    BY <2>5, <2>6
<1>8. CASE a # x
  <2>1. a < x
    BY <1>5, <1>6, <1>8 DEF Digit
  <2>2. pc' = "correct" /\ qhat' = N2(a, b) \div x /\ rhat' = N2(a, b) % x
    BY <1>8 DEF Guess, Pos, COMBINE, N2
  <2>3. /\ qhat' \in Digit /\ rhat' \in 0..(x - 1) /\ qhat' * x + rhat' = N2(a, b)
        /\ (qhat' + 1) * Divisor > Part
    BY <1>3, <2>1, <2>2, GuessIsHigh
  <2> QED
    BY <1>2, <2>2, <2>3
    DEF AtDigits, AtGuess, AtCorrect, AtSubtract, AtAddBack, AtStore, AtUnshift,
        GuessIsEnough, GuessHasRest
<1> QED
  BY <1>7, <1>8

(* A guess that D3 decrements was too large; when it ends, it is close.     *)
LEMMA CorrectStep == ASSUME AtDigits, Correct PROVE AtDigits'
<1>1. /\ Between /\ j <= m /\ pc = "correct" /\ UNCHANGED <<in, u, v, q, n, m, d, j>>
      /\ GuessIsEnough /\ GuessHasRest
  BY DEF AtDigits, AtCorrect, Correct
<1>2. /\ Between' /\ j' <= m' /\ Part' = Part /\ Divisor' = Divisor /\ Pos' = Pos
      /\ u' = u /\ v' = v
  BY <1>1, Stays
<1>3. PICK R, r, s : IsStep(u[Pos], u[Pos + 1], u[Pos + 2], v[1], v[2], R, r, s, Part, Divisor)
  BY <1>1, BetweenFacts
<1>4. /\ Part \in Nat /\ Divisor \in Nat \ {0} /\ B \in Nat /\ B > 1
  BY <1>1, ShapeFacts DEF Between
<1> DEFINE a == u[Pos]
           b == u[Pos + 1]
           c == u[Pos + 2]
           x == v[1]
           y == v[2]
<1>5. a \in Digit /\ b \in Digit /\ c \in Digit /\ x \in Digit /\ y \in Digit
  BY <1>3 DEF IsStep
<1>6. qhat \in Digit /\ rhat \in Nat /\ qhat * x + rhat = N2(a, b) /\ (qhat + 1) * Divisor > Part
  BY <1>1 DEF GuessIsEnough, GuessHasRest
<1>7. CASE y * qhat > B * rhat + c
  <2>1. /\ qhat' = qhat - 1 /\ rhat' = rhat + x
        /\ pc' = IF rhat + x >= B THEN "subtract" ELSE "correct"
    BY <1>7 DEF Correct, Pos, COMBINE
  <2>2. qhat * Divisor > Part /\ qhat # 0
    <3>1. qhat \in Nat
      BY <1>6 DEF Digit
    <3> QED
      BY <1>3, <1>6, <1>7, <3>1, TooLarge
  <2>3. qhat' \in Digit /\ rhat' \in Nat
    BY <1>4, <1>5, <1>6, <2>1, <2>2 DEF Digit
  <2>4. (qhat' + 1) * Divisor > Part
    <3>1. qhat' + 1 = qhat
      BY <1>4, <1>6, <2>1 DEF Digit
    <3> QED
      BY <2>2, <3>1
  <2>5. qhat' * x + rhat' = N2(a, b)
    <3>1. (qhat - 1) * x = qhat * x - x /\ qhat * x \in Int /\ x \in Int
      BY <1>4, <1>5, <1>6 DEF Digit
    <3> QED
      BY <1>6, <2>1, <3>1
  <2>6. CASE rhat + x >= B
    <3>1. (qhat' - 1) * Divisor <= Part
      BY <1>3, <2>1, <2>3, <2>5, <2>6, CloseEnough
    <3> QED
      BY <1>2, <2>1, <2>3, <2>4, <2>6, <3>1
      DEF AtDigits, AtGuess, AtCorrect, AtSubtract, AtAddBack, AtStore, AtUnshift,
          GuessIsEnough, GuessIsNear
  <2>7. CASE ~(rhat + x >= B)
    BY <1>2, <2>1, <2>3, <2>4, <2>5, <2>7
    DEF AtDigits, AtGuess, AtCorrect, AtSubtract, AtAddBack, AtStore, AtUnshift,
        GuessIsEnough, GuessHasRest
  <2> QED
    BY <2>6, <2>7
<1>8. CASE ~(y * qhat > B * rhat + c)
  <2>1. pc' = "subtract" /\ qhat' = qhat /\ rhat' = rhat
    BY <1>8 DEF Correct, Pos, COMBINE
  <2>2. y * qhat <= B * rhat + c
    <3>1. y * qhat \in Int /\ B * rhat \in Int /\ c \in Int
      BY <1>4, <1>5, <1>6 DEF Digit
    <3> QED
      BY <1>8, <3>1
  <2>3. (qhat - 1) * Divisor <= Part
    BY <1>3, <1>6, <2>2, CloseEnough
  <2> QED
    BY <1>2, <1>6, <2>1, <2>3
    DEF AtDigits, AtGuess, AtCorrect, AtSubtract, AtAddBack, AtStore, AtUnshift,
        GuessIsEnough, GuessIsNear
<1> QED
  BY <1>7, <1>8

(* The digit goes to its place in q, and the window one digit on.           *)
LEMMA StoreStep == ASSUME AtDigits, Store PROVE AtDigits'
<1>1. /\ Shape /\ j \in 0..m /\ Taken /\ UNCHANGED <<in, u, v, n, m, d>> /\ j' = j + 1
      /\ q' = [q EXCEPT ![4 - m + j] = qhat]
      /\ pc' = IF j + 1 <= m THEN "guess" ELSE "unshift"
  BY DEF AtDigits, AtStore, Store, Shape
<1>2. n \in 2..4 /\ m \in 0..(4 - n) /\ qhat \in Digit /\ m - j \in 0..2 /\ 4 - (m - j) \in 1..4
  BY <1>1 DEF Shape, Taken
<1>3. uq' = uq /\ vq' = vq /\ Divisor' = Divisor /\ Whole(u)' = Whole(u) /\ U0' = U0
  BY <1>1 DEF uq, vq, Divisor, Whole, U0
<1>4. Pos' = Pos + 1 /\ Dividend' = Dividend
  BY <1>1, <1>2, <1>3 DEF Pos, Dividend, U0
<1>5. q' \in [1..4 -> Digit]
  BY <1>1, <1>2 DEF Shape
<1>6. Quotient' = Quotient + qhat * Weight(m - j)
  <2>1. \A i \in 1..4 : q[i] \in Digit
    BY <1>1 DEF Shape
  <2>2. \A i \in (4 - (m - j))..4 : q[i] = 0
    <3>1. 4 - (m - j) = 4 - m + j
      BY <1>1, <1>2
    <3> QED
      BY <1>1, <3>1 DEF Shape
  <2>3. \A i \in 1..4 : q'[i] = IF i = 4 - (m - j) THEN qhat ELSE q[i]
    <3>1. 4 - (m - j) = 4 - m + j
      BY <1>1, <1>2
    <3> QED
      BY <1>1, <3>1 DEF Shape
  <2>4. N4(q'[1], q'[2], q'[3], q'[4]) = N4(q[1], q[2], q[3], q[4]) + qhat * Weight(m - j)
    <3> DEFINE e == m - j
               g == q'
    <3>1. /\ e \in 0..2 /\ \A i \in (4 - e)..4 : q[i] = 0
          /\ \A i \in 1..4 : g[i] = IF i = 4 - e THEN qhat ELSE q[i]
      BY <1>2, <2>2, <2>3
    <3> HIDE DEF e, g
    <3>2. N4(g[1], g[2], g[3], g[4]) = N4(q[1], q[2], q[3], q[4]) + qhat * Weight(e)
      BY <1>2, <2>1, <3>1, QuotientDigit
    <3> QED
      BY <3>2 DEF e, g
  <2> QED
    BY <2>4 DEF Quotient
<1>7. \A i \in 0..(Pos' - 1) : u[i] = 0
  <2>1. \A i \in 0..Pos : i = Pos \/ i \in 0..(Pos - 1)
    BY <1>1, <1>2 DEF Pos, U0
  <2>2. Pos' - 1 = Pos
    BY <1>1, <1>2, <1>4 DEF Pos, U0
  <2> QED
    BY <1>1, <2>1, <2>2 DEF Shape, Taken
<1>8. \A i \in (4 - m + j')..4 : q'[i] = 0
  <2> SUFFICES ASSUME NEW i \in (4 - m + j')..4 PROVE q'[i] = 0
    OBVIOUS
  <2>1. i \in (4 - m + j)..4 /\ i # 4 - m + j /\ i \in 1..4
    BY <1>1, <1>2
  <2> QED
    BY <1>1, <2>1 DEF Shape
<1>9. Shape'
  BY <1>1, <1>2, <1>3, <1>5, <1>7, <1>8 DEF Shape
<1>10. Num(u', Pos' - 1, n') < Divisor'
  <2>1. Pos' - 1 = Pos
    BY <1>1, <1>2, <1>4 DEF Pos, U0
  <2> QED
    BY <1>1, <1>3, <2>1 DEF Taken
<1>11. Dividend' = Quotient' * Divisor' + Whole(u)'
  BY <1>1, <1>3, <1>4, <1>6 DEF Taken
<1>12. Between'
  BY <1>9, <1>10, <1>11 DEF Between
<1>13. IF j + 1 <= m THEN j' <= m' /\ pc' = "guess" ELSE j' = m' + 1 /\ pc' = "unshift"
  BY <1>1, <1>2
<1> QED
  BY <1>12, <1>13
  DEF AtDigits, AtGuess, AtCorrect, AtSubtract, AtAddBack, AtStore, AtUnshift

(* D4: after it, the window is what is left or, if the guess was one too    *)
(* large, B^(n + 1) more than that.                                         *)
LEMMA SubtractStep == ASSUME AtDigits, Subtract PROVE AtDigits'
<1>1. /\ Between /\ Shape /\ j \in 0..m /\ GuessIsEnough /\ GuessIsNear
      /\ UNCHANGED <<in, v, q, n, m, d, j, qhat>>
  <2>1. pc = "subtract" /\ UNCHANGED <<in, v, q, n, m, d, j, qhat>>
    BY DEF Subtract
  <2>2. Between /\ j <= m /\ GuessIsEnough /\ GuessIsNear
    BY <2>1 DEF AtDigits, AtSubtract
  <2>3. Shape /\ m \in 0..(4 - n) /\ j \in 0..(m + 1) /\ n \in 2..4
    BY <2>2 DEF Between, Shape
  <2> QED
    BY <2>1, <2>2, <2>3
<1>2. /\ n \in 2..4 /\ m \in 0..(4 - n) /\ Pos \in 0..(4 - n) /\ U0 + j = Pos
      /\ u \in [0..4 -> Digit] /\ v \in [1..n -> Digit] /\ qhat \in Digit
  <2>1. n \in 2..4 /\ m \in 0..(4 - n) /\ u \in [0..4 -> Digit] /\ v \in [1..n -> Digit] /\ j <= m
    BY <1>1 DEF Shape
  <2>2. Pos \in 0..(4 - n)
    BY <1>1, <2>1, ShapeFacts
  <2> QED
    BY <1>1, <2>1, <2>2 DEF Pos, GuessIsEnough
<1> DEFINE r == Difference
           w == r[1][2]
           a == u[Pos]
           W == Weight(n)
           R == Weight(m - j)
           V == Divisor
           X == Part - qhat * V
           Y == Num(u', Pos, n)
           t == (a - w) % Long
<1>3. /\ V \in Nat \ {0} /\ V < W /\ W \in Nat \ {0} /\ B \in Nat /\ B > 1 /\ Part \in Nat
      /\ R \in Nat \ {0} /\ Whole(u) = Part * R + Low(u, Pos + n) /\ Low(u, Pos + n) \in Nat
      /\ Quotient \in Nat /\ Dividend \in Nat /\ Num(u, Pos, n) \in Nat
  BY <1>1, ShapeFacts
<1>4. /\ r[n + 1] = <<0, 0>>
      /\ \A i \in 1..n : /\ r[i][1] \in Digit /\ r[i][2] \in Digit
                         /\ r[i][1] = u[Pos + i] - v[i] * qhat - r[i + 1][2] + B * r[i][2]
  BY <1>2, DifferenceIs
<1>5. /\ u' = [k \in 0..4 |-> IF k = Pos THEN LHALF(t)
                             ELSE IF k \in (Pos + 1)..(Pos + n) THEN r[k - Pos][1] ELSE u[k]]
      /\ pc' = IF HHALF(t) # 0 THEN "addBack" ELSE "store"
  <2>1. \A k \in 0..4 : r[k - U0 - j][1] = r[k - Pos][1]
    <3>1. U0 \in Int /\ j \in Int
      BY <1>1, <1>2 DEF U0
    <3>2. \A k \in 0..4 : k - U0 - j = k - Pos
      BY <1>2, <3>1
    <3> QED
      BY <3>2
  <2> HIDE DEF r
  <2> QED
    BY <1>2, <2>1 DEF Subtract, r
<1> HIDE DEF r
<1>6. a \in Digit /\ w \in Digit
  <2>1. Pos \in 0..4 /\ 1 \in 1..n
    BY <1>2
  <2> QED
    BY <1>2, <1>4, <2>1
<1>7. /\ a >= w => LHALF(t) = a - w /\ HHALF(t) = 0
      /\ a < w => LHALF(t) = a - w + B /\ HHALF(t) # 0
  BY <1>6, LastBorrow
<1> HIDE DEF t
<1>8. LHALF(t) \in Digit
  BY <1>3, <1>6, <1>7 DEF Digit
<1>9. u' \in [0..4 -> Digit]
  <2>1. \A k \in (Pos + 1)..(Pos + n) : k - Pos \in 1..n
    BY <1>2
  <2>2. \A k \in (Pos + 1)..(Pos + n) : r[k - Pos][1] \in Digit
    BY <1>4, <2>1
  <2> QED
    BY <1>2, <1>5, <1>8, <2>2
<1>10. /\ u'[Pos] = LHALF(t) /\ \A i \in 1..n : u'[Pos + i] = r[i][1]
       /\ \A k \in 0..(Pos - 1) : u'[k] = u[k]
       /\ \A k \in (Pos + n + 1)..4 : u'[k] = u[k]
  <2>1. \A i \in 1..n : /\ Pos + i \in 0..4 /\ Pos + i # Pos /\ Pos + i \in (Pos + 1)..(Pos + n)
                        /\ Pos + i - Pos = i
    BY <1>2
  <2>2. \A k \in 0..(Pos - 1) : k \in 0..4 /\ k # Pos /\ ~(k \in (Pos + 1)..(Pos + n))
    BY <1>2
  <2>3. \A k \in (Pos + n + 1)..4 : k \in 0..4 /\ k # Pos /\ ~(k \in (Pos + 1)..(Pos + n))
    BY <1>2
  <2>4. Pos \in 0..4
    BY <1>2
  <2> QED
    BY <1>5, <2>1, <2>2, <2>3, <2>4
<1>11. Low(u', Pos + n) = Low(u, Pos + n)
  <2>1. Pos + n \in 2..4 /\ Pos \in Int /\ n \in Int
    BY <1>2
  <2>2. (Pos + n = 2 => u'[3] = u[3]) /\ (Pos + n # 4 => u'[4] = u[4])
    BY <1>10, <2>1
  <2> QED
    BY <2>1, <2>2 DEF Low
<1>12. Num(u, Pos, n) - qhat * V = Y - W * w
  <2> DEFINE l == [i \in 1..n |-> r[i][1]]
             b == [i \in 1..(n + 1) |-> r[i][2]]
  <2>1. \A i \in 1..n : l[i] = r[i][1] /\ b[i] = r[i][2] /\ b[i + 1] = r[i + 1][2]
    BY <1>2
  <2>2. b[n + 1] = 0
    <3>1. b[n + 1] = r[n + 1][2] /\ <<0, 0>>[2] = 0
      BY <1>2
    <3> QED
      BY <1>4, <3>1
  <2> HIDE DEF l, b
  <2>3. \A i \in 1..n : u[Pos + i] \in Int /\ v[i] \in Int /\ l[i] \in Int /\ b[i] \in Int
    <3>1. \A i \in 1..n : Pos + i \in 0..4
      BY <1>2
    <3>2. \A x \in Digit : x \in Int
      BY DEF Digit
    <3>3. \A i \in 1..n : u[Pos + i] \in Digit /\ v[i] \in Digit /\ l[i] \in Digit /\ b[i] \in Digit
      BY <1>2, <1>4, <2>1, <3>1
    <3> QED
      BY <3>2, <3>3
  <2>4. \A i \in 1..n : l[i] = u[Pos + i] - v[i] * qhat - b[i + 1] + B * b[i]
    BY <1>4, <2>1
  <2>5. IsColumns(n, Pos, u, v, l, b, qhat)
    <3>1. Pos \in Int /\ qhat \in Int
      BY <1>2 DEF Digit
    <3> QED
      BY <1>2, <2>2, <2>3, <2>4, <3>1 DEF IsColumns
  <2>6. Num(u, Pos, n) - qhat * Num(v, 0, n) = Num(l, 0, n) - Weight(n) * b[1]
    BY <2>5, Telescope
  <2>7. Num(l, 0, n) = Y
    <3>1. \A i \in 1..n : u'[Pos + i] = l[0 + i]
      BY <1>10, <2>1
    <3> QED
      BY <1>2, <3>1, NumAgrees
  <2>8. b[1] = w
    BY <1>2, <2>1
  <2> QED
    BY <2>6, <2>7, <2>8 DEF Divisor
<1>13. Y \in Nat /\ Y < W
  <2>1. \A i \in 1..n : u'[Pos + i] \in Digit
    BY <1>4, <1>10
  <2>2. n \in 2..4 /\ Pos \in Int
    BY <1>2
  <2>3. Num(u', Pos, n) \in Nat /\ Num(u', Pos, n) < Weight(n)
    BY <2>1, <2>2, NumBound
  <2> QED
    BY <2>3
<1>14. X = W * (a - w) + Y /\ X \in Int
  <2>1. Part = W * a + Num(u, Pos, n)
    BY DEF Part
  <2>2. qhat * V \in Int /\ W * a \in Int /\ W * w \in Int /\ W * (a - w) = W * a - W * w
    <3>1. W \in Int /\ a \in Int /\ w \in Int /\ qhat \in Int /\ V \in Int
      <4>1. \A x \in Digit : x \in Int
        BY DEF Digit
      <4>2. a \in Int /\ w \in Int /\ qhat \in Int
        BY <1>2, <1>6, <4>1
      <4> QED
        BY <1>3, <4>2
    <3> HIDE DEF W, a, w, V
    <3> QED
      BY <3>1
  <2> DEFINE Z == qhat * V
             aa == W * a
             ww == W * w
  <2>3. Part = aa + Num(u, Pos, n) /\ Num(u, Pos, n) - Z = Y - ww /\ W * (a - w) = aa - ww
        /\ Z \in Int /\ aa \in Int /\ ww \in Int /\ X = Part - Z
    BY <1>12, <2>1, <2>2
  <2> HIDE DEF X, Y, Z, aa, ww
  <2> QED
    BY <1>3, <1>13, <2>3 DEF Y
<1>15. X < V /\ X >= -V
  <2>1. (qhat + 1) * V = qhat * V + V /\ (qhat - 1) * V = qhat * V - V /\ qhat * V \in Int
    BY <1>2, <1>3 DEF Digit
  <2>2. (qhat + 1) * V > Part /\ (qhat - 1) * V <= Part
    BY <1>1 DEF GuessIsEnough, GuessIsNear
  <2> DEFINE Z == qhat * V
  <2>3. X = Part - Z /\ Z + V > Part /\ Z - V <= Part /\ Z \in Int
    BY <2>1, <2>2
  <2> HIDE DEF X, Z
  <2> QED
    BY <1>3, <2>3
<1>16. IsSum(Dividend, Quotient + qhat * R, V, X, R, Low(u, Pos + n))
  <2>1. IsSum(Dividend, Quotient, V, Part, R, Low(u, Pos + n))
    BY <1>1, <1>3 DEF IsSum, Between
  <2>2. qhat \in Int
    BY <1>2 DEF Digit
  <2> QED
    BY <2>1, <2>2, TakeAway
<1>17. /\ uq' = uq /\ vq' = vq /\ Divisor' = Divisor /\ Dividend' = Dividend /\ Quotient' = Quotient
       /\ Pos' = Pos /\ Weight(m - j)' = R
  BY <1>1 DEF uq, vq, Divisor, Dividend, Quotient, Pos, U0
<1>18. Shape'
  <2>1. \A i \in 0..(Pos - 1) : u'[i] = 0
    BY <1>1, <1>10 DEF Shape
  <2> QED
    BY <1>1, <1>9, <1>17, <2>1 DEF Shape
<1> DEFINE e == a - w
<1>19. e \in Int /\ X = W * e + Y
  BY <1>6, <1>14 DEF Digit
<1>20. CASE a >= w
  <2>1. e = 0
    <3>1. e >= 0
      BY <1>6, <1>20 DEF Digit
    <3>2. CASE e >= 1
      <4>1. W * e >= W
        BY <1>3, <1>19, <3>2
      <4> HIDE DEF X, Y, e
      <4> QED
        BY <1>3, <1>13, <1>15, <1>19, <4>1
    <3> HIDE DEF e
    <3> QED
      BY <1>19, <3>1, <3>2
  <2>2. u'[Pos] = 0 /\ pc' = "store"
    BY <1>5, <1>7, <1>10, <1>20, <2>1
  <2>3. X = Y
    BY <1>3, <1>13, <1>19, <2>1
  <2>4. Whole(u') = Y * R + Low(u, Pos + n)
    <3>1. \A i \in 0..4 : u'[i] \in Digit
      BY <1>9
    <3>2. \A i \in 0..(Pos - 1) : u'[i] = 0
      BY <1>1, <1>10 DEF Shape
    <3>3. Whole(u') = (W * u'[Pos] + Y) * Weight(4 - Pos - n) + Low(u', Pos + n)
      <4> DEFINE f == u'
      <4> HIDE DEF f
      <4>1. Whole(f) = (W * f[Pos] + Num(f, Pos, n)) * Weight(4 - Pos - n) + Low(f, Pos + n)
        BY <1>2, <3>1, <3>2, Split DEF f
      <4> QED
        BY <4>1 DEF f
    <3>4. W * u'[Pos] + Y = Y
      BY <1>3, <1>13, <2>2
    <3>5. 4 - Pos - n = m - j
      BY <1>1, <1>2 DEF U0
    <3> QED
      BY <1>11, <3>3, <3>4, <3>5
  <2>5. Dividend' = (Quotient' + qhat' * Weight(m - j)') * Divisor' + Whole(u')
    <3>1. Dividend = (Quotient + qhat * R) * V + (Y * R + Low(u, Pos + n))
      BY <1>16, <2>3 DEF IsSum
    <3> QED
      BY <1>1, <1>17, <2>4, <3>1
  <2>6. Taken'
    <3>1. Num(u, Pos, n)' = Y /\ Y < V
      BY <1>1, <1>15, <1>17, <2>3
    <3> QED
      BY <1>1, <1>2, <1>17, <2>2, <2>5, <3>1 DEF Taken
  <2> QED
    BY <1>1, <1>18, <2>2, <2>6
    DEF AtDigits, AtGuess, AtCorrect, AtSubtract, AtAddBack, AtStore, AtUnshift
<1>21. CASE a < w
  <2>1. e = -1
    <3>1. e <= -1
      BY <1>6, <1>21 DEF Digit
    <3>2. CASE e <= -2
      <4>1. W * e <= -2 * W
        BY <1>3, <1>19, <3>2
      <4> HIDE DEF X, Y, e
      <4> QED
        BY <1>3, <1>13, <1>15, <1>19, <4>1
    <3> HIDE DEF e
    <3> QED
      BY <1>19, <3>1, <3>2
  <2>2. u'[Pos] = B - 1 /\ pc' = "addBack"
    <3>1. a - w + B = B - 1
      BY <1>3, <2>1
    <3> QED
      BY <1>5, <1>7, <1>10, <1>21, <3>1
  <2>3. X = Y - W
    BY <1>3, <1>13, <1>19, <2>1
  <2>4. qhat \in 1..(B - 1)
    <3>1. qhat # 0
      <4>1. qhat = 0 => X = Part
        BY <1>3
      <4>2. X < 0
        BY <1>3, <1>13, <2>3
      <4> HIDE DEF X
      <4> QED
        BY <1>3, <4>1, <4>2
    <3> QED
      BY <1>2, <1>3, <3>1 DEF Digit
  <2>5. Y + V >= W
    <3>1. Y - W >= -V
      BY <1>15, <2>3
    <3> HIDE DEF Y, X
    <3> QED
      BY <1>3, <1>13, <3>1 DEF Y
  <2>6. TakenTooOften'
    <3>1. IsSum(Dividend, Quotient + qhat * R, V, Y - W, R, Low(u', Pos + n))
      BY <1>11, <1>16, <2>3
    <3>2. /\ Num(u, Pos, n)' = Y /\ Weight(n)' = W /\ Low(u, Pos + n)' = Low(u', Pos + n)
          /\ qhat' = qhat /\ u[Pos]' = u'[Pos]
      BY <1>1, <1>17
    <3> QED
      BY <1>17, <2>2, <2>4, <2>5, <3>1, <3>2 DEF TakenTooOften
  <2> QED
    BY <1>1, <1>18, <2>2, <2>6
    DEF AtDigits, AtGuess, AtCorrect, AtSubtract, AtAddBack, AtStore, AtUnshift
<1>22. a >= w \/ a < w
  BY <1>6 DEF Digit
<1> QED
  BY <1>20, <1>21, <1>22

(* D6: one addition of the divisor repairs it.                              *)
LEMMA AddBackStep == ASSUME AtDigits, AddBack PROVE AtDigits'
<1>1. /\ Shape /\ j \in 0..m /\ TakenTooOften
      /\ UNCHANGED <<in, v, q, n, m, d, j>> /\ qhat' = qhat - 1 /\ pc' = "store"
  BY DEF AtDigits, AtAddBack, AddBack, Shape
<1>2. /\ n \in 2..4 /\ m \in 0..(4 - n) /\ Pos \in 0..(4 - n) /\ U0 + j = Pos
      /\ u \in [0..4 -> Digit] /\ v \in [1..n -> Digit] /\ qhat \in 1..(B - 1)
  <2>1. n \in 2..4 /\ m \in 0..(4 - n) /\ u \in [0..4 -> Digit] /\ v \in [1..n -> Digit] /\ j <= m
    BY <1>1 DEF Shape
  <2>2. Pos \in 0..(4 - n)
    BY <1>1, <2>1, ShapeFacts
  <2> QED
    BY <1>1, <2>1, <2>2 DEF Pos, TakenTooOften
<1> DEFINE r == Sum
           c == r[1][2]
           W == Weight(n)
           R == Weight(m - j)
           V == Divisor
           Z == Num(u, Pos, n)
           Y == Num(u', Pos, n)
<1>3. /\ V \in Nat \ {0} /\ V < W /\ W \in Nat \ {0} /\ B \in Nat /\ B > 1
      /\ R \in Nat \ {0} /\ Low(u, Pos + n) \in Nat
      /\ Quotient \in Nat /\ Dividend \in Nat /\ Z \in Nat /\ Z < W
  BY <1>1, ShapeFacts
<1>4. /\ r[n + 1] = <<0, 0>>
      /\ \A i \in 1..n : /\ r[i][1] \in Digit /\ r[i][2] \in {0, 1}
                         /\ r[i][1] = r[i + 1][2] + u[Pos + i] + v[i] - B * r[i][2]
  BY <1>2, SumIs
<1>5. u' = [k \in 0..4 |-> IF k = Pos THEN LHALF(u[k] + c)
                          ELSE IF k \in (Pos + 1)..(Pos + n) THEN r[k - Pos][1] ELSE u[k]]
  <2>1. \A k \in 0..4 : r[k - U0 - j][1] = r[k - Pos][1]
    <3>1. U0 \in Int /\ j \in Int
      BY <1>1, <1>2 DEF U0
    <3>2. \A k \in 0..4 : k - U0 - j = k - Pos
      BY <1>2, <3>1
    <3> QED
      BY <3>2
  <2> HIDE DEF r
  <2> QED
    BY <1>2, <2>1 DEF AddBack, r
<1> HIDE DEF r
<1>6. c \in {0, 1} /\ u[Pos] = B - 1
  <2>1. 1 \in 1..n
    BY <1>2
  <2> QED
    BY <1>1, <1>4, <2>1 DEF TakenTooOften
<1>7. LHALF(u[Pos] + c) = IF c = 1 THEN 0 ELSE B - 1
  <2>1. B % B = 0 /\ (B - 1) % B = B - 1
    BY <1>3
  <2>2. u[Pos] + c = IF c = 1 THEN B ELSE B - 1
    BY <1>3, <1>6
  <2> QED
    BY <1>6, <2>1, <2>2 DEF LHALF
<1>8. LHALF(u[Pos] + c) \in Digit
  BY <1>3, <1>7 DEF Digit
<1>9. u' \in [0..4 -> Digit]
  <2>1. \A k \in (Pos + 1)..(Pos + n) : k - Pos \in 1..n
    BY <1>2
  <2>2. \A k \in (Pos + 1)..(Pos + n) : r[k - Pos][1] \in Digit
    BY <1>4, <2>1
  <2> QED
    BY <1>2, <1>5, <1>8, <2>2
<1>10. /\ u'[Pos] = LHALF(u[Pos] + c) /\ \A i \in 1..n : u'[Pos + i] = r[i][1]
       /\ \A k \in 0..(Pos - 1) : u'[k] = u[k]
       /\ \A k \in (Pos + n + 1)..4 : u'[k] = u[k]
  <2>1. \A i \in 1..n : /\ Pos + i \in 0..4 /\ Pos + i # Pos /\ Pos + i \in (Pos + 1)..(Pos + n)
                        /\ Pos + i - Pos = i
    BY <1>2
  <2>2. \A k \in 0..(Pos - 1) : k \in 0..4 /\ k # Pos /\ ~(k \in (Pos + 1)..(Pos + n))
    BY <1>2
  <2>3. \A k \in (Pos + n + 1)..4 : k \in 0..4 /\ k # Pos /\ ~(k \in (Pos + 1)..(Pos + n))
    BY <1>2
  <2>4. Pos \in 0..4
    BY <1>2
  <2> QED
    BY <1>5, <2>1, <2>2, <2>3, <2>4
<1>11. Low(u', Pos + n) = Low(u, Pos + n)
  <2>1. Pos + n \in 2..4 /\ Pos \in Int /\ n \in Int
    BY <1>2
  <2>2. (Pos + n = 2 => u'[3] = u[3]) /\ (Pos + n # 4 => u'[4] = u[4])
    BY <1>10, <2>1
  <2> QED
    BY <2>1, <2>2 DEF Low
<1>12. Z + V = Y + W * c
  <2> DEFINE l == [i \in 1..n |-> r[i][1]]
             b == [i \in 1..(n + 1) |-> -r[i][2]]
  <2>1. \A i \in 1..n : l[i] = r[i][1] /\ b[i] = -r[i][2] /\ b[i + 1] = -r[i + 1][2]
    BY <1>2
  <2>2. b[n + 1] = 0
    <3>1. b[n + 1] = -r[n + 1][2] /\ <<0, 0>>[2] = 0
      BY <1>2
    <3> QED
      BY <1>4, <3>1
  <2> HIDE DEF l, b
  <2>3. \A i \in 1..n : u[Pos + i] \in Int /\ v[i] \in Int /\ l[i] \in Int /\ b[i] \in Int
    <3>1. \A i \in 1..n : Pos + i \in 0..4
      BY <1>2
    <3>2. \A x \in Digit : x \in Int
      BY DEF Digit
    <3>3. \A i \in 1..n : u[Pos + i] \in Digit /\ v[i] \in Digit /\ l[i] \in Digit
      BY <1>2, <1>4, <2>1, <3>1
    <3>4. \A i \in 1..n : b[i] \in Int
      BY <1>4, <2>1
    <3> QED
      BY <3>2, <3>3, <3>4
  <2>4. \A i \in 1..n : l[i] = u[Pos + i] - v[i] * (-1) - b[i + 1] + B * b[i]
    <3> SUFFICES ASSUME NEW i \in 1..n
                 PROVE  l[i] = u[Pos + i] - v[i] * (-1) - b[i + 1] + B * b[i]
      OBVIOUS
    <3>1. l[i] = r[i + 1][2] + u[Pos + i] + v[i] - B * r[i][2]
      BY <1>4, <2>1
    <3>2. b[i + 1] = -r[i + 1][2] /\ b[i] = -r[i][2] /\ r[i][2] \in Int
      BY <1>4, <2>1
    <3>3. r[i + 1][2] \in Int
      <4>1. i + 1 \in 1..n \/ i + 1 = n + 1
        BY <1>2
      <4>2. <<0, 0>>[2] = 0
        OBVIOUS
      <4> QED
        BY <1>4, <4>1, <4>2
    <3>4. B * b[i] = -(B * r[i][2]) /\ B * r[i][2] \in Int /\ v[i] * (-1) = -v[i]
      BY <1>3, <2>3, <3>2
    <3> QED
      BY <2>3, <3>1, <3>2, <3>3, <3>4
  <2>5. IsColumns(n, Pos, u, v, l, b, -1)
    <3>1. Pos \in Int /\ -1 \in Int
      BY <1>2
    <3> QED
      BY <1>2, <2>2, <2>3, <2>4, <3>1 DEF IsColumns
  <2>6. Num(u, Pos, n) - (-1) * Num(v, 0, n) = Num(l, 0, n) - Weight(n) * b[1]
    BY <2>5, Telescope
  <2>7. Num(l, 0, n) = Y
    <3>1. \A i \in 1..n : u'[Pos + i] = l[0 + i]
      BY <1>10, <2>1
    <3> QED
      BY <1>2, <3>1, NumAgrees
  <2>8. b[1] = -c
    BY <1>2, <2>1
  <2>9. Z - (-1) * V = Y - W * (-c)
    BY <2>6, <2>7, <2>8 DEF Divisor
  <2>10. (-1) * V = -V /\ W * (-c) = -(W * c) /\ W * c \in Int
    BY <1>3, <1>6
  <2>11. Y \in Int
    <3>1. \A i \in 1..n : u'[Pos + i] \in Digit
      BY <1>4, <1>10
    <3> QED
      BY <1>2, <3>1, NumBound
  <2> HIDE DEF Z, Y, V, W, c
  <2> QED
    BY <1>3, <2>9, <2>10, <2>11
<1>13. Y \in Nat /\ Y < W
  <2>1. \A i \in 1..n : u'[Pos + i] \in Digit
    BY <1>4, <1>10
  <2>2. n \in 2..4 /\ Pos \in Int
    BY <1>2
  <2>3. Num(u', Pos, n) \in Nat /\ Num(u', Pos, n) < Weight(n)
    BY <2>1, <2>2, NumBound
  <2> QED
    BY <2>3
<1>14. c = 1 /\ Y = Z + V - W /\ Y < V
  <2>1. Z + V >= W
    BY <1>1 DEF TakenTooOften
  <2>2. c = 0 => W * c = 0
    BY <1>3
  <2>3. c = 1 => W * c = W
    BY <1>3
  <2> HIDE DEF Z, Y, V, W, c
  <2> QED
    BY <1>3, <1>6, <1>12, <1>13, <2>1, <2>2, <2>3
<1>15. u'[Pos] = 0
  BY <1>7, <1>10, <1>14
<1>16. Dividend = (Quotient + (qhat - 1) * R) * V + (Y * R + Low(u, Pos + n))
  <2>1. IsSum(Dividend, Quotient + qhat * R, V, Z - W, R, Low(u, Pos + n))
    BY <1>1 DEF TakenTooOften
  <2>2. IsSum(Dividend, Quotient + qhat * R + (-1) * R, V, Z - W - (-1) * V, R, Low(u, Pos + n))
    BY <2>1, TakeAway
  <2>3. Z - W - (-1) * V = Y
    <3>1. (-1) * V = -V
      BY <1>3
    <3> HIDE DEF Z, Y, V, W
    <3> QED
      BY <1>3, <1>14, <3>1
  <2>4. Quotient + qhat * R + (-1) * R = Quotient + (qhat - 1) * R
    <3> HIDE DEF R
    <3>1. (qhat - 1) * R = qhat * R - R /\ (-1) * R = -R /\ qhat * R \in Int
      BY <1>2, <1>3, SMTT(30)
    <3> QED
      BY <1>3, <3>1
  <2> QED
    BY <2>2, <2>3, <2>4 DEF IsSum
<1>17. /\ uq' = uq /\ vq' = vq /\ Divisor' = Divisor /\ Dividend' = Dividend /\ Quotient' = Quotient
       /\ Pos' = Pos /\ Weight(m - j)' = R
  BY <1>1 DEF uq, vq, Divisor, Dividend, Quotient, Pos, U0
<1>18. Shape'
  <2>1. \A i \in 0..(Pos - 1) : u'[i] = 0
    BY <1>1, <1>10 DEF Shape
  <2> QED
    BY <1>1, <1>9, <1>17, <2>1 DEF Shape
<1>19. Whole(u') = Y * R + Low(u, Pos + n)
  <2>1. \A i \in 0..4 : u'[i] \in Digit
    BY <1>9
  <2>2. \A i \in 0..(Pos - 1) : u'[i] = 0
    BY <1>1, <1>10 DEF Shape
  <2>3. Whole(u') = (W * u'[Pos] + Y) * Weight(4 - Pos - n) + Low(u', Pos + n)
    <3> DEFINE f == u'
    <3> HIDE DEF f
    <3>1. Whole(f) = (W * f[Pos] + Num(f, Pos, n)) * Weight(4 - Pos - n) + Low(f, Pos + n)
      BY <1>2, <2>1, <2>2, Split DEF f
    <3> QED
      BY <3>1 DEF f
  <2>4. W * u'[Pos] + Y = Y
    BY <1>3, <1>13, <1>15
  <2>5. 4 - Pos - n = m - j
    BY <1>1, <1>2 DEF U0
  <2> QED
    BY <1>11, <2>3, <2>4, <2>5
<1>20. Taken'
  <2>1. Num(u, Pos, n)' = Y /\ Y < V
    BY <1>1, <1>14, <1>17
  <2>2. qhat' \in Digit
    BY <1>1, <1>2, <1>3 DEF Digit
  <2>3. Dividend' = (Quotient' + qhat' * Weight(m - j)') * Divisor' + Whole(u')
    BY <1>1, <1>16, <1>17, <1>19
  <2> QED
    BY <1>15, <1>17, <2>1, <2>2, <2>3 DEF Taken
<1> QED
  BY <1>1, <1>18, <1>20
  DEF AtDigits, AtGuess, AtCorrect, AtSubtract, AtAddBack, AtStore, AtUnshift

-----------------------------------------------------------------------------
(* A factor cancels.                                                        *)
LEMMA Cancel ==
  ASSUME NEW a \in Int, NEW b \in Int, NEW c \in Nat \ {0}, a * c = b * c PROVE a = b
<1>1. a < b => a * c < b * c
  BY GrowsStrictly
<1>2. b < a => b * c < a * c
  BY GrowsStrictly
<1>3. a * c \in Int /\ b * c \in Int
  OBVIOUS
<1> QED
  BY <1>1, <1>2, <1>3

(* A digit to the left or to the right by the bits of S * T = B.            *)
LEMMA Halves ==
  ASSUME NEW a \in Digit, NEW S \in Nat \ {0}, NEW T \in Nat \ {0}, S * T = B
  PROVE  /\ a % T \in 0..(T - 1) /\ a \div T \in 0..(S - 1) /\ a = T * (a \div T) + (a % T)
         /\ HHALF(a * S) = a \div T /\ LHALF(a * S) = (a % T) * S
<1> DEFINE h == a \div T
           e == a % T
<1>1. B \in Nat \ {0} /\ a \in Nat /\ a < B
  BY BaseIs DEF Digit
<1>2. a = T * h + e /\ e \in 0..(T - 1) /\ h \in Nat
  <2>1. a \in Int /\ a >= 0
    BY <1>1
  <2>2. a = T * (a \div T) + (a % T) /\ a % T \in 0..(T - 1) /\ (a >= 0 => a \div T \in Nat)
    BY <2>1, DivMod
  <2> QED
    BY <2>1, <2>2
<1> HIDE DEF h, e
<1>3. h < S
  <2>1. CASE h >= S
    <3>1. T * h >= T * S /\ T * S = B /\ T * h \in Nat
      BY <1>2, <2>1
    <3> QED
      BY <1>1, <1>2, <3>1
  <2> QED
    BY <1>2, <2>1
<1>4. a * S = h * B + e * S
  <2>1. a * S = (T * h) * S + e * S
    BY <1>2
  <2>2. (T * h) * S = h * (S * T)
    BY <1>2
  <2> QED
    BY <2>1, <2>2
<1>5. e * S \in 0..(B - 1)
  <2>1. e * S <= (T - 1) * S /\ (T - 1) * S = B - S /\ e * S \in Nat
    BY <1>2
  <2> QED
    BY <1>1, <2>1
<1>6. (a * S) \div B = h /\ (a * S) % B = e * S
  <2>1. a * S \in Int
    BY <1>1
  <2> QED
    BY <1>1, <1>2, <1>4, <1>5, <2>1, DivIs
<1> QED
  BY <1>2, <1>3, <1>6 DEF HHALF, LHALF, h, e

(* The bits of two neighbours make a digit.                                 *)
LEMMA Joined ==
  ASSUME NEW S \in Nat \ {0}, NEW T \in Nat \ {0}, S * T = B, NEW e \in 0..(T - 1),
         NEW h \in 0..(S - 1)
  PROVE  e * S + h \in Digit
<1>1. e * S <= (T - 1) * S /\ (T - 1) * S = B - S /\ e * S \in Nat
  OBVIOUS
<1> QED
  BY <1>1, BaseIs DEF Digit

LEMMA PowerOfZero == 2^0 = 1
  OBVIOUS

(* What D8 divides and takes as the remainder.                              *)
LEMMA RestIs ==
  ASSUME NEW a \in Nat, NEW b \in Nat \ {0}, NEW S \in Nat \ {0}, NEW z \in Nat, NEW w \in Nat,
         a * S = z * (b * S) + w, w < b * S
  PROVE  a \div b = z /\ w = (a % b) * S
<1> DEFINE r == a - z * b
<1>1. r \in Int /\ z * b \in Int
  OBVIOUS
<1>2. r * S = w
  <2>1. r * S = a * S - (z * b) * S /\ (z * b) * S = z * (b * S) /\ a * S \in Int /\ (z * b) * S \in Int
    BY <1>1
  <2> HIDE DEF r
  <2> QED
    BY <2>1
<1>3. a = z * b + r
  BY <1>1
<1> HIDE DEF r
<1>4. r >= 0
  <2>1. r < 0 => r * S < 0 * S
    BY <1>1, GrowsStrictly
  <2> QED
    BY <1>1, <1>2, <2>1
<1>5. r < b
  <2>1. b <= r => b * S <= r * S
    BY <1>1, Grows
  <2>2. b * S \in Int
    OBVIOUS
  <2> QED
    BY <1>1, <1>2, <2>1, <2>2
<1>6. a \div b = z /\ a % b = r
  <2>1. r \in 0..(b - 1)
    BY <1>1, <1>4, <1>5
  <2> QED
    BY <1>3, <2>1, DivIs
<1> QED
  BY <1>2, <1>6

(* D8: the digits moved back to the right are the remainder.                *)
LEMMA UnshiftedIs ==
  ASSUME NEW k \in 2..4, NEW f, NEW g, NEW S \in Nat \ {0}, NEW T \in Nat \ {0}, S * T = B,
         \A i \in 0..4 : f[i] \in Digit, \A i \in 0..(4 - k) : f[i] = 0 /\ g[i] = 0,
         \A i \in (5 - k)..4 : g[i] = f[i] \div S + LHALF(f[i - 1] * T),
         NEW r \in Int, Whole(f) = r * S
  PROVE  r = N4(g[1], g[2], g[3], g[4])
<1> DEFINE o == 4 - k
           y == [i \in 1..k |-> g[o + i]]
           l == [i \in 1..k |-> 0]
           w == [i \in 1..(k + 1) |-> IF i = k + 1 THEN 0 ELSE f[o + i - 1] % S]
<1>1. \A i \in 0..4 : f[i] % S \in 0..(S - 1) /\ f[i] \div S \in 0..(T - 1)
                      /\ f[i] = S * (f[i] \div S) + (f[i] % S) /\ LHALF(f[i] * T) = (f[i] % S) * T
  <2>1. T * S = B
    OBVIOUS
  <2> QED
    BY <2>1, Halves
<1>2. \A i \in 0..4 : g[i] \in Digit
  <2> SUFFICES ASSUME NEW i \in 0..4 PROVE g[i] \in Digit
    OBVIOUS
  <2>1. CASE i \in 0..(4 - k)
    BY <2>1, BaseIs DEF Digit
  <2>2. CASE i \in (5 - k)..4
    <3>1. i - 1 \in 0..4
      BY <2>2
    <3>2. f[i] \div S \in 0..(T - 1) /\ f[i - 1] % S \in 0..(S - 1)
          /\ LHALF(f[i - 1] * T) = (f[i - 1] % S) * T
      BY <1>1, <3>1
    <3>3. (f[i - 1] % S) * T + f[i] \div S \in Digit
      <4>1. T * S = B
        OBVIOUS
      <4> QED
        BY <3>2, <4>1, Joined
    <3>4. (f[i - 1] % S) * T \in Int /\ f[i] \div S \in Int
      BY <3>2
    <3>5. g[i] = (f[i - 1] % S) * T + f[i] \div S
      BY <2>2, <3>2, <3>4
    <3> QED
      BY <3>3, <3>5
  <2> QED
    BY <2>1, <2>2
<1>3. f[4] % S = 0
  <2> DEFINE x == N4(f[0], f[1], f[2], f[3])
  <2>1. x \in Int /\ Whole(f) = B * x + f[4] /\ f[4] \in Int
    <3>1. AreInts(f[0], f[1], f[2], f[3], f[4])
      BY DEF Digit, AreInts
    <3> QED
      BY <3>1, FirstDigits DEF Whole, N5, AreInts
  <2> HIDE DEF x
  <2>2. f[4] = (r - T * x) * S + 0
    <3>1. (r - T * x) * S = r * S - (T * x) * S /\ (T * x) * S = (S * T) * x
      BY <2>1
    <3>2. B * x \in Int /\ r * S \in Int /\ (S * T) * x = B * x
      BY <2>1, BaseIs
    <3>3. (r - T * x) * S = r * S - B * x
      BY <3>1, <3>2
    <3> QED
      BY <2>1, <3>2, <3>3
  <2>3. r - T * x \in Int /\ 0 \in 0..(S - 1)
    BY <2>1
  <2> QED
    BY <2>1, <2>2, <2>3, DivIs
<1>4. /\ \A i \in 1..k : y[i] = g[o + i] /\ l[i] = 0 /\ w[i] = f[o + i - 1] % S
      /\ w[k + 1] = 0
  OBVIOUS
<1>5. \A i \in 1..k : w[i + 1] = f[o + i] % S
  <2> SUFFICES ASSUME NEW i \in 1..k PROVE w[i + 1] = f[o + i] % S
    OBVIOUS
  <2>1. CASE i = k
    <3>1. o + i = 4
      BY <2>1
    <3> QED
      BY <1>3, <1>4, <2>1, <3>1
  <2>2. CASE i # k
    <3>1. i + 1 \in 1..k /\ o + (i + 1) - 1 = o + i
      BY <2>2
    <3> QED
      BY <1>4, <3>1
  <2> QED
    BY <2>1, <2>2
<1> HIDE DEF y, l, w
<1>6. \A i \in 1..k : /\ f[o + i] \in Int /\ y[i] \in Int /\ l[i] \in Int /\ w[i] \in Int
                      /\ l[i] = f[o + i] - y[i] * S - w[i + 1] + B * w[i]
  <2> SUFFICES ASSUME NEW i \in 1..k
               PROVE  /\ f[o + i] \in Int /\ y[i] \in Int /\ l[i] \in Int /\ w[i] \in Int
                      /\ l[i] = f[o + i] - y[i] * S - w[i + 1] + B * w[i]
    OBVIOUS
  <2>1. o + i \in 0..4 /\ o + i - 1 \in 0..4 /\ o + i \in (5 - k)..4
    OBVIOUS
  <2> DEFINE h == f[o + i] \div S
             e == f[o + i] % S
             c == f[o + i - 1] % S
  <2>2. /\ h \in Int /\ e \in Int /\ c \in Int /\ f[o + i] = S * h + e
        /\ LHALF(f[o + i - 1] * T) = c * T
    <3> DEFINE z == o + i
               z0 == o + i - 1
    <3>1. z \in 0..4 /\ z0 \in 0..4
      BY <2>1
    <3> HIDE DEF z, z0
    <3>2. f[z] % S \in Int /\ f[z] \div S \in Int /\ f[z0] % S \in Int
          /\ f[z] = S * (f[z] \div S) + (f[z] % S) /\ LHALF(f[z0] * T) = (f[z0] % S) * T
      BY <1>1, <3>1
    <3> QED
      BY <3>2 DEF z, z0
  <2>3. y[i] = h + c * T /\ w[i + 1] = e /\ w[i] = c /\ l[i] = 0
    <3>1. y[i] = g[o + i] /\ w[i + 1] = e /\ w[i] = c /\ l[i] = 0
      BY <1>4, <1>5
    <3>2. g[o + i] = h + LHALF(f[o + i - 1] * T)
      BY <2>1
    <3> QED
      BY <2>2, <3>1, <3>2
  <2> HIDE DEF h, e, c, o
  <2>4. y[i] * S = S * h + B * c
    <3>1. (h + c * T) * S = S * h + (c * T) * S /\ (c * T) * S = (S * T) * c
      BY <2>2
    <3> QED
      BY <2>3, <3>1
  <2>5. S * h \in Int /\ B * c \in Int /\ c * T \in Int
    BY <2>2, BaseIs
  <2> QED
    BY <2>2, <2>3, <2>4, <2>5
<1>7. IsColumns(k, o, f, y, l, w, S)
  <2>1. o \in Int
    BY DEF o
  <2> QED
    BY <1>4, <1>6, <2>1 DEF IsColumns
<1>8. Num(f, o, k) - S * Num(y, 0, k) = Num(l, 0, k) - Weight(k) * w[1]
  BY <1>7, Telescope
<1>9. w[1] = 0
  <2>1. 1 \in 1..k /\ o + 1 - 1 = 4 - k
    OBVIOUS
  <2>2. w[1] = f[4 - k] % S
    BY <1>4, <2>1
  <2>3. f[4 - k] = 0
    OBVIOUS
  <2> QED
    BY <2>2, <2>3
<1>10. Num(l, 0, k) = 0
  <2>1. l[0 + 1] = 0 /\ l[0 + 2] = 0 /\ (k >= 3 => l[0 + 3] = 0) /\ (k = 4 => l[0 + 4] = 0)
    BY <1>4
  <2>2. N2(0, 0) = 0
    BY NoZeros
  <2>3. N3(0, 0, 0) = 0 /\ N4(0, 0, 0, 0) = 0
    BY <2>2 DEF N2, N3, N4
  <2> QED
    BY <2>1, <2>2, <2>3 DEF Num
<1>11. Num(y, 0, k) = Num(g, o, k)
  <2>1. \A i \in 1..k : y[0 + i] = g[o + i]
    BY <1>4
  <2>2. o \in Int
    BY DEF o
  <2> QED
    BY <2>1, <2>2, NumAgrees
<1>12. Whole(f) = Num(f, o, k)
  <2>1. 5 - k \in 0..(5 - k) /\ 5 - k - 1 = o /\ 5 - k + k = 5
    BY DEF o
  <2>2. \A i \in 0..(5 - k - 1) : f[i] = 0
    OBVIOUS
  <2> DEFINE p == 5 - k
  <2>3. p \in 0..(5 - k) /\ \A i \in 0..(p - 1) : f[i] = 0
    BY <2>1, <2>2
  <2>4. p - 1 = o /\ p + k = 5
    BY <2>1
  <2> HIDE DEF p
  <2>5. Value([i \in 1..(p + k) |-> f[i - 1]]) = Num(f, p - 1, k)
    BY <2>3, LeadingZeros
  <2> QED
    BY <2>4, <2>5, WholeIs
<1>13. Whole(g) = Num(g, o, k)
  <2>1. 5 - k \in 0..(5 - k) /\ 5 - k - 1 = o /\ 5 - k + k = 5
    BY DEF o
  <2>2. \A i \in 0..(5 - k - 1) : g[i] = 0
    OBVIOUS
  <2> DEFINE p == 5 - k
  <2>3. p \in 0..(5 - k) /\ \A i \in 0..(p - 1) : g[i] = 0
    BY <2>1, <2>2
  <2>4. p - 1 = o /\ p + k = 5
    BY <2>1
  <2> HIDE DEF p
  <2>5. Value([i \in 1..(p + k) |-> g[i - 1]]) = Num(g, p - 1, k)
    BY <1>2, <2>3, LeadingZeros
  <2> QED
    BY <1>2, <2>4, <2>5, WholeIs
<1>14. Whole(g) = N4(g[1], g[2], g[3], g[4]) /\ Whole(g) \in Int
  <2>1. \A i \in 0..4 : g[i] \in Int
    BY <1>2 DEF Digit
  <2>2. AreInts(g[0], g[1], g[2], g[3], g[4]) /\ AreInts(g[1], g[2], g[3], g[4], 0)
    BY <2>1 DEF AreInts
  <2>3. g[0] = 0
    OBVIOUS
  <2>4. (B * (B * (B * B))) * g[0] = 0
    BY <2>3, PowersOfB
  <2> QED
    BY <2>2, <2>4, FirstDigits DEF Whole
<1>15. r * S = Whole(g) * S
  <2>1. Weight(k) * w[1] = 0
    BY <1>9, WeightType
  <2>2. Whole(f) - S * Whole(g) = 0
    BY <1>8, <1>10, <1>11, <1>12, <1>13, <2>1
  <2>3. S * Whole(g) = Whole(g) * S /\ S * Whole(g) \in Int /\ r * S \in Int
    BY <1>14
  <2> QED
    BY <2>2, <2>3
<1>16. r = Whole(g)
  BY <1>14, <1>15, Cancel
<1> QED
  BY <1>14, <1>16

(* After it, quotient and remainder are those of the arguments.             *)
LEMMA UnshiftStep ==
  ASSUME AtUnshift, Unshift
  PROVE  pc' = "return" /\ vq \in Nat \ {0} /\ quo' = uq \div vq /\ rem' = uq % vq
<1>1. /\ Between /\ Shape /\ j = m + 1 /\ pc' = "return"
      /\ u' = IF d = 0 THEN u
              ELSE [k \in 0..4 |->
                      IF k = U0 + m THEN 0
                      ELSE IF k > U0 + m
                        THEN u[k] \div 2^d + LHALF(u[k - 1] * (B \div 2^d)) ELSE u[k]]
      /\ rem' = Value(<<u'[1], u'[2], u'[3], u'[4]>>) /\ quo' = Value(q)
  BY DEF AtUnshift, Unshift, Between
<1>2. /\ n \in 2..4 /\ m \in 0..(4 - n) /\ U0 + m = 4 - n /\ Pos = 5 - n /\ Pos - 1 = 4 - n
      /\ u \in [0..4 -> Digit] /\ q \in [1..4 -> Digit] /\ uq \in Nat /\ vq \in Nat \ {0}
      /\ d \in Nat
  BY <1>1, BaseIs DEF Shape, Pos, U0
<1> DEFINE S == 2^d
<1>3. PICK T \in Nat \ {0} : S * T = B
  BY <1>1 DEF Shape
<1>4. S \in Nat \ {0}
  BY <1>1 DEF Shape
<1>5. \A i \in 0..4 : u[i] \in Digit
  BY <1>2
<1>6. \A i \in 0..(4 - n) : u[i] = 0
  BY <1>1, <1>2 DEF Shape
<1>7. Whole(u) = Num(u, 4 - n, n) /\ Whole(u) \in Nat
  <2> DEFINE p == 5 - n
  <2>1. p \in 0..(5 - n) /\ \A i \in 0..(p - 1) : u[i] = 0
    BY <1>2, <1>6
  <2>2. p - 1 = 4 - n /\ p + n = 5
    BY <1>2
  <2> HIDE DEF p
  <2>3. Value([i \in 1..(p + n) |-> u[i - 1]]) = Num(u, p - 1, n)
    BY <1>2, <1>5, <2>1, LeadingZeros
  <2>4. Whole(u) \in Nat
    BY <1>1, ShapeFacts
  <2> QED
    BY <1>5, <2>2, <2>3, <2>4, WholeIs
<1>8. Whole(u) < vq * S /\ Divisor = vq * S
  BY <1>1, <1>2, <1>7 DEF Between, Shape
<1>9. uq * S = Quotient * (vq * S) + Whole(u) /\ Quotient \in Nat
  BY <1>1, <1>8, ShapeFacts DEF Between, Dividend
<1> DEFINE r == uq % vq
<1>10. uq \div vq = Quotient /\ Whole(u) = r * S
  <2> HIDE DEF S
  <2> QED
    <3>1. uq \in Nat /\ vq \in Nat \ {0} /\ S \in Nat \ {0} /\ Quotient \in Nat /\ Whole(u) \in Nat
      BY <1>2, <1>4, <1>7, <1>9
    <3> DEFINE a == uq
               b == vq
               z == Quotient
               w == Whole(u)
    <3>2. /\ a \in Nat /\ b \in Nat \ {0} /\ S \in Nat \ {0} /\ z \in Nat /\ w \in Nat
          /\ a * S = z * (b * S) + w /\ w < b * S
      BY <1>8, <1>9, <3>1
    <3> HIDE DEF a, b, z, w
    <3>3. a \div b = z /\ w = (a % b) * S
      BY <3>2, RestIs
    <3> QED
      BY <3>3 DEF a, b, z, w
<1>11. quo' = Quotient
  <2>1. q \in [1..4 -> Int]
    BY <1>2 DEF Digit
  <2>2. Value(q) = Num(q, 0, 4)
    BY <2>1, ValueOfRow
  <2> QED
    BY <1>1, <2>2 DEF Num, Quotient
<1>12. r \in Nat
  BY <1>2, DivMod
<1>13. r = N4(u'[1], u'[2], u'[3], u'[4]) /\ \A i \in 1..4 : u'[i] \in Int
  <2>1. CASE d = 0
    <3>1. u' = u /\ S = 1
      BY <1>1, <2>1, PowerOfZero
    <3>2. Whole(u) = r
      BY <1>10, <1>12, <3>1
    <3>3. Whole(u) = N4(u[1], u[2], u[3], u[4])
      <4>1. AreInts(u[0], u[1], u[2], u[3], u[4]) /\ AreInts(u[1], u[2], u[3], u[4], 0)
        BY <1>5 DEF Digit, AreInts
      <4>2. u[0] = 0
        BY <1>2, <1>6
      <4>3. (B * (B * (B * B))) * u[0] = 0
        BY <4>2, PowersOfB
      <4> QED
        BY <4>1, <4>3, FirstDigits DEF Whole
    <3>4. \A i \in 1..4 : u[i] \in Int
      BY <1>5 DEF Digit
    <3> QED
      BY <3>1, <3>2, <3>3, <3>4
  <2>2. CASE d # 0
    <3>1. B \div S = T
      <4>1. B = T * S + 0 /\ 0 \in 0..(S - 1) /\ B \in Int
        BY <1>3, <1>4, BaseIs
      <4> HIDE DEF S
      <4> QED
        BY <1>3, <1>4, <4>1, DivIs
    <3>2. u' = [k \in 0..4 |-> IF k = 4 - n THEN 0
                               ELSE IF k > 4 - n THEN u[k] \div S + LHALF(u[k - 1] * T) ELSE u[k]]
      BY <1>1, <1>2, <2>2, <3>1
    <3> DEFINE g == u'
    <3>3. /\ \A i \in 0..(4 - n) : u[i] = 0 /\ g[i] = 0
          /\ \A i \in (5 - n)..4 : g[i] = u[i] \div S + LHALF(u[i - 1] * T)
      <4>1. \A i \in 0..(4 - n) : i \in 0..4 /\ ~(i > 4 - n)
        BY <1>2
      <4>2. \A i \in (5 - n)..4 : i \in 0..4 /\ i # 4 - n /\ i > 4 - n
        BY <1>2
      <4> HIDE DEF S
      <4> QED
        BY <1>6, <3>2, <4>1, <4>2
    <3>4. \A i \in 1..4 : g[i] \in Int
      <4>1. S \in Int /\ T \in Int /\ B \in Nat \ {0}
        BY <1>3, <1>4, BaseIs
      <4>2. \A i \in 0..4 : u[i] \in Int
        BY <1>5 DEF Digit
      <4> SUFFICES ASSUME NEW i \in 1..4 PROVE g[i] \in Int
        OBVIOUS
      <4>3. i \in 0..4 /\ i - 1 \in 0..4
        OBVIOUS
      <4>4. u[i] \div S \in Int
        <5> HIDE DEF S
        <5> QED
          BY <1>4, <4>2, <4>3, DivMod
      <4>5. LHALF(u[i - 1] * T) \in Int
        <5>1. u[i - 1] * T \in Int
          BY <4>1, <4>2, <4>3
        <5> QED
          <6> DEFINE x == u[i - 1] * T
          <6> HIDE DEF x
          <6>1. x \in Int => x % B \in Int
            BY <4>1, DivMod
          <6> QED
            BY <5>1, <6>1 DEF LHALF, x
      <4>6. i \in 0..(4 - n) \/ i \in (5 - n)..4
        BY <1>2
      <4> HIDE DEF g, S
      <4> QED
        BY <3>3, <4>4, <4>5, <4>6
    <3> HIDE DEF g, S, r
    <3>5. r = N4(g[1], g[2], g[3], g[4])
      BY <1>2, <1>3, <1>4, <1>5, <1>10, <1>12, <3>3, UnshiftedIs
    <3> QED
      BY <3>4, <3>5 DEF g
  <2> QED
    BY <2>1, <2>2
<1>14. rem' = r
  <2> DEFINE s == <<u'[1], u'[2], u'[3], u'[4]>>
  <2>1. Len(s) = 4 /\ s[1] = u'[1] /\ s[2] = u'[2] /\ s[3] = u'[3] /\ s[4] = u'[4]
    OBVIOUS
  <2>2. \A i \in 1..Len(s) : s[i] \in Int
    <3>1. \A i \in 1..4 : i = 1 \/ i = 2 \/ i = 3 \/ i = 4
      OBVIOUS
    <3>2. s[1] \in Int /\ s[2] \in Int /\ s[3] \in Int /\ s[4] \in Int
      BY <1>13, <2>1
    <3> HIDE DEF s
    <3> QED
      BY <2>1, <3>1, <3>2
  <2>3. rem' = Value(s)
    BY <1>1
  <2> HIDE DEF s
  <2> QED
    BY <1>13, <2>1, <2>2, <2>3, ValueIs
<1> QED
  BY <1>1, <1>2, <1>10, <1>11, <1>14

-----------------------------------------------------------------------------
(* The four digits of an argument.                                          *)
LEMMA DigitsAre ==
  ASSUME NEW x \in 0..(Quad - 1)
  PROVE  /\ \A i \in 1..4 : Digits(x)[i] \in Digit
         /\ N4(Digits(x)[1], Digits(x)[2], Digits(x)[3], Digits(x)[4]) = x
<1> DEFINE x1 == x \div B
           x2 == x1 \div B
           x3 == x2 \div B
           d4 == x % B
           d3 == x1 % B
           d2 == x2 % B
<1>1. B \in Nat \ {0} /\ B > 1 /\ B - 1 \in Nat
  BY BaseIs
<1>2. x \in Nat /\ x < Quad
  <2>1. Quad \in Nat
    <3>1. Long \in Nat
      BY LongIs
    <3> QED
      BY <3>1 DEF Quad
  <2> QED
    BY <2>1
<1>3. x = B * x1 + d4 /\ d4 \in 0..(B - 1) /\ x1 \in Nat
  <2>1. x \in Int /\ x >= 0
    BY <1>2
  <2>2. x = B * (x \div B) + (x % B) /\ x % B \in 0..(B - 1) /\ (x >= 0 => x \div B \in Nat)
    BY <1>1, <2>1, DivMod
  <2> QED
    BY <2>1, <2>2
<1> HIDE DEF x1, d4
<1>4. x1 = B * x2 + d3 /\ d3 \in 0..(B - 1) /\ x2 \in Nat
  <2>1. x1 \in Int /\ x1 >= 0
    BY <1>3
  <2>2. x1 = B * (x1 \div B) + (x1 % B) /\ x1 % B \in 0..(B - 1) /\ (x1 >= 0 => x1 \div B \in Nat)
    BY <1>1, <2>1, DivMod
  <2> QED
    BY <2>1, <2>2
<1> HIDE DEF x2, d3
<1>5. x2 = B * x3 + d2 /\ d2 \in 0..(B - 1) /\ x3 \in Nat
  <2>1. x2 \in Int /\ x2 >= 0
    BY <1>4
  <2>2. x2 = B * (x2 \div B) + (x2 % B) /\ x2 % B \in 0..(B - 1) /\ (x2 >= 0 => x2 \div B \in Nat)
    BY <1>1, <2>1, DivMod
  <2> QED
    BY <2>1, <2>2
<1> HIDE DEF x3, d2
<1>6. x2 = N2(x3, d2) /\ x1 = N3(x3, d2, d3) /\ x = N4(x3, d2, d3, d4)
  <2>1. x2 = N2(x3, d2)
    BY <1>5 DEF N2
  <2>2. x1 = N3(x3, d2, d3)
    BY <1>4, <2>1 DEF N3
  <2> QED
    BY <1>3, <2>1, <2>2 DEF N4
<1>7. AreInts(x3, d2, d3, d4, 0) /\ AreInts(d2, d3, d4, 0, 0)
  BY <1>1, <1>3, <1>4, <1>5 DEF AreInts
<1>8. d2 \in Digit /\ d3 \in Digit /\ d4 \in Digit
  BY <1>3, <1>4, <1>5 DEF Digit
<1>9. N2(d3, d4) \in Nat /\ N2(d3, d4) < B * B
  <2>1. d3 \in Nat /\ d3 < B
    BY <1>1, <1>4
  <2> QED
    BY <1>1, <1>8, <2>1, NextDigit
<1>10. N3(d2, d3, d4) \in Nat /\ N3(d2, d3, d4) < B * (B * B)
  <2>1. N2(d2, d3) \in Nat /\ N2(d2, d3) < B * B
    <3>1. d2 \in Nat /\ d2 < B
      BY <1>1, <1>5
    <3> QED
      BY <1>1, <1>8, <3>1, NextDigit
  <2>2. B * B \in Nat
    BY <1>1
  <2>3. N2(N2(d2, d3), d4) \in Nat /\ N2(N2(d2, d3), d4) < B * (B * B)
    BY <1>8, <2>1, <2>2, NextDigit
  <2> QED
    BY <2>3 DEF N2, N3
<1>11. x \div Long = x2
  <2>1. x = x2 * Long + N2(d3, d4)
    <3>1. N3(x2, d3, d4) = (B * B) * x2 + N2(d3, d4)
      <4>1. AreInts(x2, d3, d4, 0, 0)
        BY <1>3, <1>4 DEF AreInts
      <4> QED
        BY <4>1, FirstDigits
    <3>2. x = N3(x2, d3, d4)
      BY <1>3, <1>4 DEF N2, N3
    <3>3. (B * B) * x2 = x2 * (B * B)
      BY <1>1, <1>4
    <3> QED
      BY <3>1, <3>2, <3>3, LongIs
  <2>2. N2(d3, d4) \in 0..(Long - 1) /\ Long \in Nat \ {0}
    BY <1>9, LongIs
  <2> DEFINE y == N2(d3, d4)
  <2> HIDE DEF y
  <2>3. x \in Int /\ x2 \in Int /\ y \in 0..(Long - 1) /\ x = x2 * Long + y
    BY <1>2, <1>4, <2>1, <2>2 DEF y
  <2> QED
    BY <2>2, <2>3, DivIs
<1>12. x \div (B * Long) = x3
  <2>1. x = (B * (B * B)) * x3 + N3(d2, d3, d4)
    BY <1>6, <1>7, FirstDigits
  <2> DEFINE y == N3(d2, d3, d4)
             W == B * (B * B)
  <2>2. W \in Nat \ {0} /\ y \in Nat /\ y < W /\ x = W * x3 + y
    BY <1>10, <2>1, PowersOfB
  <2>3. B * Long = W
    BY LongIs
  <2> HIDE DEF y, W
  <2>4. x = x3 * W + y /\ y \in 0..(W - 1) /\ x3 \in Int /\ x \in Int
    BY <1>2, <1>5, <2>2
  <2> QED
    BY <2>2, <2>3, <2>4, DivIs
<1>13. x3 \in Digit
  <2> DEFINE W == B * (B * B)
  <2>1. W \in Nat \ {0} /\ x >= W * x3 /\ W * x3 \in Int
    <3>1. x = W * x3 + N3(d2, d3, d4) /\ W \in Nat \ {0}
      BY <1>6, <1>7, FirstDigits, PowersOfB
    <3> HIDE DEF W
    <3>2. W * x3 \in Int
      BY <1>5, <3>1
    <3> QED
      BY <1>10, <3>1, <3>2
  <2>2. Quad = W * B
    <3>1. Quad = (B * B) * (B * B)
      BY LongIs DEF Quad
    <3> QED
      BY <1>1, <3>1
  <2> HIDE DEF W
  <2>3. CASE x3 >= B
    <3>1. W * x3 >= W * B /\ W * B \in Int
      BY <1>1, <1>5, <2>1, <2>3
    <3> QED
      BY <1>2, <2>1, <2>2, <3>1
  <2> QED
    BY <1>1, <1>5, <2>3 DEF Digit
<1>14. Digits(x) = <<x3, d2, d3, d4>>
  BY <1>11, <1>12 DEF Digits, d2, d3, d4, x1
<1>15. Digits(x)[1] = x3 /\ Digits(x)[2] = d2 /\ Digits(x)[3] = d3 /\ Digits(x)[4] = d4
  BY <1>14
<1>16. \A i \in 1..4 : i = 1 \/ i = 2 \/ i = 3 \/ i = 4
  OBVIOUS
<1> QED
  BY <1>6, <1>8, <1>13, <1>15, <1>16

(* Width finds a first digit that is not zero.                              *)
LEMMA WidthIs ==
  ASSUME NEW x
  PROVE  /\ Width(x) \in 0..4 /\ \A k \in 1..(4 - Width(x)) : Digits(x)[k] = 0
         /\ Width(x) > 0 => Digits(x)[5 - Width(x)] # 0
<1> DEFINE D(k) == Digits(x)[k]
           Is(w) == (\A k \in 1..(4 - w) : D(k) = 0) /\ (w > 0 => D(5 - w) # 0)
<1>1. \E w \in 0..4 : Is(w)
  <2> HIDE DEF D
  <2>1. D(1) # 0 => Is(4)
    OBVIOUS
  <2>2. D(1) = 0 /\ D(2) # 0 => Is(3)
    OBVIOUS
  <2>3. D(1) = 0 /\ D(2) = 0 /\ D(3) # 0 => Is(2)
    OBVIOUS
  <2>4. D(1) = 0 /\ D(2) = 0 /\ D(3) = 0 /\ D(4) # 0 => Is(1)
    OBVIOUS
  <2>5. D(1) = 0 /\ D(2) = 0 /\ D(3) = 0 /\ D(4) = 0 => Is(0)
    OBVIOUS
  <2>6. 0 \in 0..4 /\ 1 \in 0..4 /\ 2 \in 0..4 /\ 3 \in 0..4 /\ 4 \in 0..4
    OBVIOUS
  <2> HIDE DEF Is
  <2> QED
    BY <2>1, <2>2, <2>3, <2>4, <2>5, <2>6
<1> DEFINE y == CHOOSE w \in 0..4 : Is(w)
<1>2. y \in 0..4 /\ Is(y)
  <2> HIDE DEF Is
  <2> QED
    BY <1>1, Zenon
<1>3. Width(x) = y
  BY DEF Width
<1> HIDE DEF y
<1> QED
  BY <1>2, <1>3

(* More digits are more.                                                    *)
LEMMA WeightStep ==
  ASSUME NEW k \in 0..3 PROVE Weight(k + 1) = B * Weight(k) /\ Weight(k) <= Weight(k + 1)
<1>1. Weight(k) \in Nat \ {0} /\ B \in Nat /\ B > 1
  BY WeightType, BaseIs
<1>2. Weight(k + 1) = B * Weight(k)
  <2>1. k = 0 \/ k = 1 \/ k = 2 \/ k = 3
    OBVIOUS
  <2>2. B * 1 = B
    BY <1>1
  <2> QED
    BY <2>1, <2>2 DEF Weight
<1>3. Weight(k) <= B * Weight(k)
  BY <1>1
<1> QED
  BY <1>2, <1>3

LEMMA WeightGrows == ASSUME NEW a \in 0..4, NEW b \in 0..4, a <= b PROVE Weight(a) <= Weight(b)
<1>1. Weight(0) <= Weight(1) /\ Weight(1) <= Weight(2) /\ Weight(2) <= Weight(3) /\ Weight(3) <= Weight(4)
  <2>1. 0 + 1 = 1 /\ 1 + 1 = 2 /\ 2 + 1 = 3 /\ 3 + 1 = 4
    OBVIOUS
  <2>2. Weight(0) <= Weight(0 + 1) /\ Weight(1) <= Weight(1 + 1) /\ Weight(2) <= Weight(2 + 1)
        /\ Weight(3) <= Weight(3 + 1)
    BY WeightStep
  <2> QED
    BY <2>1, <2>2
<1>2. Weight(0) \in Nat /\ Weight(1) \in Nat /\ Weight(2) \in Nat /\ Weight(3) \in Nat /\ Weight(4) \in Nat
  BY WeightType
<1>3. a \in {0, 1, 2, 3, 4} /\ b \in {0, 1, 2, 3, 4}
  OBVIOUS
<1> DEFINE P(y, z) == Weight(y) <= Weight(z)
<1>4. /\ P(0, 0) /\ P(0, 1) /\ P(0, 2) /\ P(0, 3) /\ P(0, 4) /\ P(1, 1) /\ P(1, 2) /\ P(1, 3)
      /\ P(1, 4) /\ P(2, 2) /\ P(2, 3) /\ P(2, 4) /\ P(3, 3) /\ P(3, 4) /\ P(4, 4)
  BY <1>1, <1>2
<1> HIDE DEF P
<1>5. P(a, b)
  BY <1>3, <1>4
<1> QED
  BY <1>5 DEF P

(* An argument of w digits.                                                 *)
LEMMA WidthBounds ==
  ASSUME NEW x \in 0..(Quad - 1)
  PROVE  /\ x < Weight(Width(x)) /\ (Width(x) > 0 => Weight(Width(x) - 1) <= x)
         /\ Width(x) >= 2 => Num(Digits(x), 4 - Width(x), Width(x)) = x
         /\ Width(x) = 1 => Digits(x)[4] = x
<1> DEFINE w == Width(x)
           a == Digits(x)[1]
           b == Digits(x)[2]
           c == Digits(x)[3]
           e == Digits(x)[4]
<1>1. a \in Digit /\ b \in Digit /\ c \in Digit /\ e \in Digit /\ N4(a, b, c, e) = x
  BY DigitsAre
<1>2. /\ w \in 0..4 /\ (w <= 3 => a = 0) /\ (w <= 2 => b = 0) /\ (w <= 1 => c = 0) /\ (w <= 0 => e = 0)
      /\ (w = 4 => a # 0) /\ (w = 3 => b # 0) /\ (w = 2 => c # 0) /\ (w = 1 => e # 0)
  BY WidthIs
<1>3. /\ w = 2 => Num(Digits(x), 4 - w, w) = N2(c, e)
      /\ w = 3 => Num(Digits(x), 4 - w, w) = N3(b, c, e)
      /\ w = 4 => Num(Digits(x), 4 - w, w) = N4(a, b, c, e)
  BY <1>2 DEF Num
<1> HIDE DEF w, a, b, c, e
<1>4. a \in Nat /\ b \in Nat /\ c \in Nat /\ e \in Nat /\ B \in Nat /\ B > 1
  BY <1>1, BaseIs DEF Digit
<1>5. N2(c, e) \in Nat /\ N2(c, e) < B * B /\ N3(b, c, e) \in Nat /\ N3(b, c, e) < B * (B * B)
  <2>1. B * B \in Nat /\ b < B /\ c < B
    BY <1>1, <1>4 DEF Digit
  <2>2. N2(c, e) \in Nat /\ N2(c, e) < B * B
    BY <1>1, <1>4, <2>1, NextDigit
  <2>3. N2(b, c) \in Nat /\ N2(b, c) < B * B
    BY <1>1, <1>4, <2>1, NextDigit
  <2>4. N2(N2(b, c), e) \in Nat /\ N2(N2(b, c), e) < B * (B * B)
    BY <1>1, <2>1, <2>3, NextDigit
  <2> QED
    BY <2>2, <2>4 DEF N2, N3
<1>6. AreInts(a, b, c, e, 0) /\ AreInts(b, c, e, 0, 0)
  BY <1>4 DEF AreInts
<1>7. x = (B * (B * B)) * a + N3(b, c, e) /\ N3(b, c, e) = (B * B) * b + N2(c, e)
  BY <1>1, <1>6, FirstDigits
<1>8. x \in Nat /\ x < B * (B * (B * B))
  <2> DEFINE f == <<a, b, c, e>>
  <2>1. f[0 + 1] = a /\ f[0 + 2] = b /\ f[0 + 3] = c /\ f[0 + 4] = e
    OBVIOUS
  <2>2. \A i \in 1..4 : f[0 + i] \in Digit
    <3>1. \A i \in 1..4 : i = 1 \/ i = 2 \/ i = 3 \/ i = 4
      OBVIOUS
    <3> HIDE DEF f
    <3> QED
      BY <1>1, <2>1, <3>1
  <2> HIDE DEF f
  <2>3. Num(f, 0, 4) \in Nat /\ Num(f, 0, 4) < Weight(4)
    BY <2>2, NumBound
  <2> QED
    BY <1>1, <2>1, <2>3 DEF Num, Weight
<1>9. CASE w = 4
  <2>1. x >= B * (B * B)
    <3>1. (B * (B * B)) * a >= B * (B * B) /\ (B * (B * B)) * a \in Nat /\ B * (B * B) \in Nat
      BY <1>2, <1>4, <1>9, PowersOfB
    <3> QED
      BY <1>5, <1>7, <3>1
  <2> QED
    BY <1>1, <1>3, <1>8, <1>9, <2>1 DEF Weight, w
<1>10. CASE w = 3
  <2>1. x = N3(b, c, e)
    <3>1. (B * (B * B)) * a = 0
      BY <1>2, <1>10, PowersOfB
    <3> QED
      BY <1>5, <1>7, <3>1
  <2>2. x >= B * B
    <3>1. (B * B) * b >= B * B /\ (B * B) * b \in Nat /\ B * B \in Nat
      BY <1>2, <1>4, <1>10, PowersOfB
    <3> QED
      BY <1>5, <1>7, <2>1, <3>1
  <2> QED
    BY <1>3, <1>5, <1>10, <2>1, <2>2 DEF Weight, w
<1>11. CASE w \in {0, 1, 2}
  <2>1. x = N2(c, e)
    <3>1. (B * (B * B)) * a = 0 /\ (B * B) * b = 0
      BY <1>2, <1>11, PowersOfB
    <3> QED
      BY <1>5, <1>7, <3>1
  <2>2. CASE w = 2
    <3>1. x >= B
      <4>1. B * c >= B /\ B * c \in Nat
        BY <1>2, <1>4, <2>2
      <4> QED
        BY <1>4, <2>1, <4>1 DEF N2
    <3> QED
      BY <1>3, <1>5, <2>1, <2>2, <3>1 DEF Weight, w
  <2>3. CASE w \in {0, 1}
    <3>1. x = e
      <4>1. B * c = 0
        BY <1>2, <1>4, <2>3
      <4> QED
        BY <1>4, <2>1, <4>1 DEF N2
    <3>2. e < B
      BY <1>1, <1>4 DEF Digit
    <3>3. w = 0 => x = 0
      BY <1>2, <3>1
    <3>4. w = 1 => x >= 1
      BY <1>2, <1>4, <3>1
    <3>5. Weight(0) = 1 /\ Weight(1) = B /\ 1 - 1 = 0
      BY DEF Weight
    <3>6. x < Weight(w) /\ (w > 0 => Weight(w - 1) <= x) /\ ~(w >= 2) /\ (w = 1 => e = x)
      BY <1>4, <2>3, <3>1, <3>2, <3>3, <3>4, <3>5
    <3> QED
      BY <3>6 DEF w, e
  <2> QED
    BY <1>11, <2>2, <2>3
<1> QED
  BY <1>2, <1>9, <1>10, <1>11

(* __divdi3 hands on unsigned quads.                                        *)
LEMMA Arguments ==
  ASSUME in \in Inputs
  PROVE  uq \in 0..(Quad - 1) /\ vq \in 0..(Quad - 1) /\ uq \in Nat /\ vq \in Nat
<1>1. Quad \in Nat \ {0}
  <2>1. Long \in Nat \ {0}
    BY LongIs
  <2> QED
    BY <2>1 DEF Quad
<1>2. in.a \in 0..(Quad - 1) /\ in.b \in 0..(Quad - 1)
  BY QdivremAssumption
<1>3. \A x \in 0..(Quad - 1) : Minus(x) \in 0..(Quad - 1)
  <2> DEFINE K == Quad
  <2>1. \A x \in 0..(K - 1) : (K - x) % K \in 0..(K - 1)
    <3> HIDE DEF K
    <3>1. K \in Nat \ {0}
      BY <1>1 DEF K
    <3> QED
      BY <3>1
  <2> QED
    BY <2>1 DEF Minus
<1>4. uq \in 0..(Quad - 1) /\ vq \in 0..(Quad - 1)
  BY <1>2, <1>3 DEF uq, vq
<1> QED
  BY <1>1, <1>4

(* The start: the digits of both arguments, and which way is taken.         *)
LEMMA EnterStep == ASSUME in \in Inputs, AtEnter, Enter PROVE Knuth'
<1>1. /\ uq \in 0..(Quad - 1) /\ vq \in 0..(Quad - 1) /\ uq \in Nat /\ vq \in Nat
  BY Arguments
<1>2. /\ in' = in /\ q' = Zeros /\ uq' = uq /\ vq' = vq
      /\ u' = [i \in 0..4 |-> IF i = 0 THEN 0 ELSE Digits(uq)[i]]
      /\ v' = Trimmed(vq) /\ n' = Width(vq) /\ m' = Width(uq) - Width(vq)
  BY DEF Enter, AtEnter, uq, vq
<1>3. Width(uq) \in 0..4 /\ Width(vq) \in 0..4
  BY WidthIs
<1>4. u' \in [0..4 -> Digit] /\ N4(u'[1], u'[2], u'[3], u'[4]) = uq
      /\ \A i \in 1..4 : u'[i] = Digits(uq)[i]
  <2>1. /\ \A i \in 1..4 : Digits(uq)[i] \in Digit
        /\ N4(Digits(uq)[1], Digits(uq)[2], Digits(uq)[3], Digits(uq)[4]) = uq
    BY <1>1, DigitsAre
  <2>2. 0 \in Digit
    BY BaseIs DEF Digit
  <2>3. \A i \in 1..4 : u'[i] = Digits(uq)[i]
    BY <1>2
  <2>4. u' \in [0..4 -> Digit]
    BY <1>2, <2>1, <2>2
  <2> QED
    BY <2>1, <2>3, <2>4
<1>5. v' \in [1..Width(vq) -> Digit] /\ \A i \in 1..Width(vq) : v'[i] = Digits(vq)[4 - Width(vq) + i]
  <2>1. \A i \in 1..Width(vq) : 4 - Width(vq) + i \in 1..4
    BY <1>3
  <2>2. \A i \in 1..4 : Digits(vq)[i] \in Digit
    BY <1>1, DigitsAre
  <2> QED
    BY <1>2, <2>1, <2>2 DEF Trimmed
<1>6. CASE vq = 0 /\ pc' = "fault"
  BY <1>2, <1>6 DEF Knuth, AtEnter, AtShort, AtShift, AtDigits, AtGuess, AtCorrect, AtSubtract,
     AtAddBack, AtStore, AtUnshift, AtReturn, AtDone
<1>7. CASE vq # 0 /\ uq < vq /\ pc' = "return" /\ quo' = 0 /\ rem' = uq
  <2>1. uq \div vq = 0 /\ uq % vq = uq
    <3> DEFINE a == uq
               b == vq
    <3>1. b \in Nat \ {0} /\ a \in 0..(b - 1)
      BY <1>1, <1>7
    <3> HIDE DEF a, b
    <3>2. a \div b = 0 /\ a % b = a
      BY <3>1, DivSmall
    <3> QED
      BY <3>2 DEF a, b
  <2> QED
    BY <1>1, <1>2, <1>7, <2>1 DEF Knuth, AtEnter, AtShort, AtShift, AtDigits, AtGuess, AtCorrect,
       AtSubtract, AtAddBack, AtStore, AtUnshift, AtReturn, AtDone
<1>8. CASE uq >= vq /\ n' = 1 /\ pc' = "short"
  <2>1. Width(vq) = 1
    BY <1>2, <1>8
  <2>2. Digits(vq)[4] = vq /\ Digits(vq)[4] # 0
    <3>1. 5 - 1 = 4
      OBVIOUS
    <3>2. Digits(vq)[5 - Width(vq)] # 0
      BY <2>1, WidthIs
    <3> QED
      BY <1>1, <2>1, <3>1, <3>2, WidthBounds
  <2>3. v'[1] = vq /\ v'[1] \in Digit
    <3>1. 1 \in 1..Width(vq) /\ 4 - Width(vq) + 1 = 4
      BY <2>1
    <3>2. v'[1] = Digits(vq)[4 - Width(vq) + 1] /\ v'[1] \in Digit
      BY <1>5, <3>1
    <3> QED
      BY <2>2, <3>1, <3>2
  <2> QED
    BY <1>2, <1>4, <1>8, <2>2, <2>3 DEF Knuth, AtEnter, AtShort, AtShift, AtDigits, AtGuess,
       AtCorrect, AtSubtract, AtAddBack, AtStore, AtUnshift, AtReturn, AtDone
<1>9. CASE uq >= vq /\ n' > 1 /\ pc' = "shift"
  <2> DEFINE y == Width(vq)
             z == Width(uq)
  <2>1. y \in 2..4 /\ z \in 0..4
    BY <1>2, <1>3, <1>9
  <2>2. /\ vq < Weight(y) /\ Weight(y - 1) <= vq /\ Num(Digits(vq), 4 - y, y) = vq
        /\ Digits(vq)[5 - y] # 0
    <3>1. (y > 0 => Weight(y - 1) <= vq) /\ (y >= 2 => Num(Digits(vq), 4 - y, y) = vq)
          /\ vq < Weight(y)
      BY <1>1, WidthBounds
    <3>2. y > 0 => Digits(vq)[5 - y] # 0
      BY WidthIs
    <3> QED
      BY <2>1, <3>1, <3>2
  <2>3. uq < Weight(z) /\ (z >= 2 => Num(Digits(uq), 4 - z, z) = uq)
        /\ \A k \in 1..(4 - z) : Digits(uq)[k] = 0
    <3>1. uq < Weight(z) /\ (z >= 2 => Num(Digits(uq), 4 - z, z) = uq)
      BY <1>1, WidthBounds
    <3>2. \A k \in 1..(4 - z) : Digits(uq)[k] = 0
      BY WidthIs
    <3> QED
      BY <3>1, <3>2
  <2> HIDE DEF y, z
  <2>4. z >= y
    <3>1. CASE z < y
      <4>1. z \in 0..4 /\ y - 1 \in 0..4 /\ z <= y - 1
        BY <2>1, <3>1
      <4>2. Weight(z) <= Weight(y - 1) /\ Weight(z) \in Nat /\ Weight(y - 1) \in Nat
        BY <4>1, WeightGrows, WeightType
      <4> QED
        BY <1>1, <1>9, <2>2, <2>3, <4>2
    <3> QED
      BY <2>1, <3>1
  <2>5. n' = y /\ m' = z - y /\ m' + n' = z /\ U0' = 4 - z
    BY <1>2, <2>1 DEF y, z, U0
  <2>6. n' \in 2..4 /\ m' \in 0..(4 - n')
    BY <2>1, <2>4, <2>5
  <2>7. v' \in [1..n' -> Digit]
    BY <1>5, <2>5 DEF y
  <2>8. \A i \in 1..y : v'[i] = Digits(vq)[4 - y + i]
    BY <1>5 DEF y
  <2>9. v'[1] # 0
    <3>1. 1 \in 1..y /\ 4 - y + 1 = 5 - y
      BY <2>1
    <3>2. v'[1] = Digits(vq)[4 - y + 1]
      BY <2>8, <3>1
    <3> QED
      BY <2>2, <3>1, <3>2
  <2>10. Num(v', 0, n') = vq
    <3>1. \A i \in 1..y : v'[0 + i] = Digits(vq)[4 - y + i]
      BY <2>8
    <3>2. 4 - y \in Int /\ 0 \in Int
      BY <2>1
    <3> DEFINE o == 4 - y
               f == Digits(vq)
               g == v'
    <3>3. o \in Int /\ \A i \in 1..y : g[0 + i] = f[o + i]
      BY <3>1, <3>2
    <3> HIDE DEF o, f, g
    <3>4. Num(g, 0, y) = Num(f, o, y)
      BY <2>1, <3>3, NumAgrees
    <3> QED
      BY <2>2, <2>5, <3>4 DEF o, f, g
  <2>11. Num(u', 4 - z, z) = uq
    <3>1. \A i \in 1..z : 4 - z + i \in 1..4
      BY <2>1
    <3> DEFINE o == 4 - z
               f == Digits(uq)
               g == u'
    <3>2. o \in Int /\ \A i \in 1..z : g[o + i] = f[o + i]
      BY <1>4, <2>1, <3>1
    <3> HIDE DEF o, f, g
    <3>3. z \in 2..4
      BY <2>1, <2>4
    <3>4. Num(g, o, z) = Num(f, o, z)
      BY <3>2, <3>3, NumAgrees
    <3> QED
      BY <2>3, <3>3, <3>4 DEF o, f, g
  <2>12. \A i \in 0..(4 - z) : u'[i] = 0
    <3> SUFFICES ASSUME NEW i \in 0..(4 - z) PROVE u'[i] = 0
      OBVIOUS
    <3>1. i = 0 => u'[i] = 0
      BY <1>2
    <3>2. i # 0 => i \in 1..(4 - z) /\ i \in 1..4
      BY <2>1
    <3> QED
      BY <1>4, <2>3, <3>1, <3>2
  <2>13. vq \in Nat \ {0}
    <3>1. Weight(y - 1) \in Nat \ {0}
      <4>1. y - 1 \in 0..4
        BY <2>1
      <4> QED
        BY <4>1, WeightType
    <3> QED
      BY <1>1, <2>2, <3>1
  <2>14. AtShift'
    BY <1>1, <1>2, <1>4, <2>2, <2>3, <2>5, <2>6, <2>7, <2>9, <2>10, <2>11, <2>12, <2>13 DEF AtShift
  <2> QED
    BY <1>2, <1>9, <2>14 DEF Knuth, AtEnter, AtShort, AtDigits, AtGuess, AtCorrect, AtSubtract,
       AtAddBack, AtStore, AtUnshift, AtReturn, AtDone
<1> QED
  BY <1>6, <1>7, <1>8, <1>9 DEF Enter

(* A divisor of one digit.                                                  *)
LEMMA ShortStep == ASSUME in \in Inputs, AtShort, Short PROVE Knuth'
<1> DEFINE t == v[1]
           r == Remainders(t)
           z == Value([i \in 1..4 |-> COMBINE(r[i - 1], u[i]) \div t])
<1>1. t \in Digit \ {0} /\ vq = t /\ u \in [0..4 -> Digit] /\ N4(u[1], u[2], u[3], u[4]) = uq
  BY DEF Short, AtShort
<1>2. pc' = "return" /\ quo' = z /\ rem' = r[4] /\ in' = in
  BY DEF Short, Remainders
<1>3. uq = z * t + r[4] /\ r[4] \in 0..(t - 1) /\ z \in Int
  BY <1>1, ShortDivides
<1>4. uq' = uq /\ vq' = vq /\ uq \in Int
  BY <1>2, Arguments DEF uq, vq
<1>5. t \in Nat \ {0}
  BY <1>1, BaseIs DEF Digit
<1> DEFINE a == uq
           w == r[4]
<1>6. a \in Int /\ a = z * t + w /\ w \in 0..(t - 1) /\ z \in Int
  BY <1>3, <1>4
<1> HIDE DEF z, r, t, a, w
<1>7. a \div t = z /\ a % t = w
  BY <1>5, <1>6, DivIs
<1>8. vq' \in Nat \ {0} /\ quo' = uq' \div vq' /\ rem' = uq' % vq'
  BY <1>1, <1>2, <1>4, <1>5, <1>7 DEF a, w, t
<1> QED
  BY <1>2, <1>8 DEF Knuth, AtEnter, AtShort, AtShift, AtDigits, AtGuess, AtCorrect, AtSubtract,
     AtAddBack, AtStore, AtUnshift, AtReturn, AtDone

(* k digits of f, behind o, shifted to the left by the bits of S.           *)
IsShiftedRow(k, o, f, g, S, T) ==
  /\ k \in 2..4 /\ o \in 0..(4 - k) /\ S \in Nat \ {0} /\ T \in Nat \ {0} /\ S * T = B
  /\ \A i \in 1..k : f[o + i] \in Digit
  /\ \A i \in 1..(k - 1) : g[o + i] = LHALF(f[o + i] * S) + HHALF(f[o + i + 1] * S)
  /\ g[o + k] = LHALF(f[o + k] * S)

(* Shl multiplies by S; what falls out is less than that.                   *)
LEMMA ShiftedRow ==
  ASSUME NEW k, NEW o, NEW f, NEW g, NEW S, NEW T, IsShiftedRow(k, o, f, g, S, T)
  PROVE  /\ \A i \in 1..k : g[o + i] \in Digit
         /\ S * Num(f, o, k) = Weight(k) * HHALF(f[o + 1] * S) + Num(g, o, k)
         /\ HHALF(f[o + 1] * S) \in 0..(S - 1)
<1> /\ k \in 2..4 /\ o \in 0..(4 - k) /\ S \in Nat \ {0} /\ T \in Nat \ {0} /\ S * T = B
    /\ \A i \in 1..k : f[o + i] \in Digit
    /\ \A i \in 1..(k - 1) : g[o + i] = LHALF(f[o + i] * S) + HHALF(f[o + i + 1] * S)
    /\ g[o + k] = LHALF(f[o + k] * S)
  BY DEF IsShiftedRow
<1> DEFINE H(i) == HHALF(f[o + i] * S)
           z == [i \in 1..k |-> 0]
           y == [i \in 1..k |-> f[o + i]]
           l == [i \in 1..k |-> g[o + i]]
           w == [i \in 1..(k + 1) |-> IF i = k + 1 THEN 0 ELSE -H(i)]
<1>1. \A i \in 1..k : /\ H(i) \in 0..(S - 1)
                      /\ LHALF(f[o + i] * S) = (f[o + i] % T) * S /\ f[o + i] % T \in 0..(T - 1)
                      /\ f[o + i] * S = B * H(i) + LHALF(f[o + i] * S)
  <2> SUFFICES ASSUME NEW i \in 1..k
               PROVE  /\ H(i) \in 0..(S - 1)
                      /\ LHALF(f[o + i] * S) = (f[o + i] % T) * S /\ f[o + i] % T \in 0..(T - 1)
                      /\ f[o + i] * S = B * H(i) + LHALF(f[o + i] * S)
    OBVIOUS
  <2> DEFINE a == f[o + i]
  <2>1. a \in Digit
    OBVIOUS
  <2> HIDE DEF a
  <2>2. /\ a % T \in 0..(T - 1) /\ a \div T \in 0..(S - 1)
        /\ HHALF(a * S) = a \div T /\ LHALF(a * S) = (a % T) * S
    BY <2>1, Halves
  <2>3. a * S = B * HHALF(a * S) + LHALF(a * S)
    <3>1. a * S \in Int /\ B \in Nat \ {0}
      BY <2>1, BaseIs DEF Digit
    <3> DEFINE x == a * S
    <3> HIDE DEF x
    <3>2. x = B * (x \div B) + (x % B)
      BY <3>1, DivMod DEF x
    <3> QED
      BY <3>2 DEF HHALF, LHALF, x
  <2> QED
    BY <2>2, <2>3 DEF a
<1> HIDE DEF H
<1>2. \A i \in 1..(k - 1) : g[o + i] = LHALF(f[o + i] * S) + H(i + 1)
  <2>1. \A i \in 1..(k - 1) : o + i + 1 = o + (i + 1)
    OBVIOUS
  <2> QED
    BY <2>1 DEF H
<1>3. \A i \in 1..k : g[o + i] \in Digit
  <2> SUFFICES ASSUME NEW i \in 1..k PROVE g[o + i] \in Digit
    OBVIOUS
  <2> DEFINE e == f[o + i] % T
  <2>1. e \in 0..(T - 1) /\ LHALF(f[o + i] * S) = e * S
    BY <1>1
  <2> HIDE DEF e
  <2>2. CASE i = k
    <3>1. e * S + 0 \in Digit
      <4>1. 0 \in 0..(S - 1)
        OBVIOUS
      <4> QED
        BY <2>1, <4>1, Joined
    <3>2. e * S \in Int
      BY <2>1
    <3> QED
      BY <2>1, <2>2, <3>1, <3>2
  <2>3. CASE i # k
    <3>1. i \in 1..(k - 1) /\ i + 1 \in 1..k
      BY <2>3
    <3>2. H(i + 1) \in 0..(S - 1)
      BY <1>1, <3>1
    <3>3. e * S + H(i + 1) \in Digit
      BY <2>1, <3>2, Joined
    <3> QED
      BY <1>2, <2>1, <3>1, <3>3
  <2> QED
    BY <2>2, <2>3
<1>4. /\ \A i \in 1..k : z[i] = 0 /\ y[i] = f[o + i] /\ l[i] = g[o + i] /\ w[i] = -H(i)
      /\ w[k + 1] = 0
  OBVIOUS
<1> HIDE DEF z, y, l, w
<1>5. \A i \in 1..k : /\ z[0 + i] \in Int /\ y[i] \in Int /\ l[i] \in Int /\ w[i] \in Int
                      /\ l[i] = z[0 + i] - y[i] * (-S) - w[i + 1] + B * w[i]
  <2> SUFFICES ASSUME NEW i \in 1..k
               PROVE  /\ z[i] \in Int /\ y[i] \in Int /\ l[i] \in Int /\ w[i] \in Int
                      /\ l[i] = z[i] - y[i] * (-S) - w[i + 1] + B * w[i]
    OBVIOUS
  <2> DEFINE a == f[o + i]
             h == H(i)
             c == LHALF(a * S)
  <2>1. a \in Int /\ h \in Int /\ a * S = B * h + c
    BY <1>1 DEF Digit
  <2>2. c \in Int
    <3> DEFINE e == f[o + i] % T
    <3>1. c = e * S /\ e \in 0..(T - 1)
      BY <1>1
    <3> HIDE DEF e, c
    <3> QED
      BY <3>1
  <2>3. l[i] = c - w[i + 1] /\ w[i + 1] \in Int
    <3>1. CASE i = k
      BY <1>4, <2>2, <3>1
    <3>2. CASE i # k
      <4>1. i \in 1..(k - 1) /\ i + 1 \in 1..k
        BY <3>2
      <4>2. w[i + 1] = -H(i + 1) /\ H(i + 1) \in Int
        BY <1>1, <1>4, <4>1
      <4> QED
        BY <1>2, <1>4, <2>2, <4>1, <4>2
    <3> QED
      BY <3>1, <3>2
  <2>4. z[i] = 0 /\ y[i] = a /\ w[i] = -h
    BY <1>4
  <2> HIDE DEF a, h, c
  <2>5. a * (-S) = -(a * S) /\ a * S \in Int /\ B * (-h) = -(B * h) /\ B * h \in Int
    BY <2>1, BaseIs
  <2> QED
    BY <2>1, <2>2, <2>3, <2>4, <2>5
<1>6. IsColumns(k, 0, z, y, l, w, -S)
  <2>1. -S \in Int /\ 0 \in Int
    OBVIOUS
  <2> QED
    BY <1>4, <1>5, <2>1 DEF IsColumns
<1>7. Num(z, 0, k) - (-S) * Num(y, 0, k) = Num(l, 0, k) - Weight(k) * w[1]
  BY <1>6, Telescope
<1>8. Num(z, 0, k) = 0
  <2>1. z[0 + 1] = 0 /\ z[0 + 2] = 0 /\ (k >= 3 => z[0 + 3] = 0) /\ (k = 4 => z[0 + 4] = 0)
    BY <1>4
  <2>2. N2(0, 0) = 0
    BY NoZeros
  <2>3. N3(0, 0, 0) = 0 /\ N4(0, 0, 0, 0) = 0
    BY <2>2 DEF N2, N3, N4
  <2> QED
    BY <2>1, <2>2, <2>3 DEF Num
<1>9. Num(y, 0, k) = Num(f, o, k) /\ Num(l, 0, k) = Num(g, o, k)
  <2>1. \A i \in 1..k : y[0 + i] = f[o + i] /\ l[0 + i] = g[o + i]
    BY <1>4
  <2>2. o \in Int
    OBVIOUS
  <2> QED
    BY <2>1, <2>2, NumAgrees
<1>10. w[1] = -H(1) /\ H(1) \in 0..(S - 1)
  BY <1>1, <1>4
<1>11. Num(f, o, k) \in Int /\ Num(g, o, k) \in Int /\ Weight(k) \in Int
  <2>1. o \in Int
    OBVIOUS
  <2> QED
    BY <1>3, <2>1, NumBound, WeightType
<1>12. S * Num(f, o, k) = Weight(k) * H(1) + Num(g, o, k)
  <2> DEFINE a == Num(f, o, k)
             b == Num(g, o, k)
             W == Weight(k)
             h == H(1)
  <2>1. /\ a \in Int /\ b \in Int /\ W \in Int /\ h \in Int
        /\ 0 - (-S) * a = b - W * (-h)
    BY <1>7, <1>8, <1>9, <1>10, <1>11
  <2> HIDE DEF a, b, W, h
  <2>2. (-S) * a = -(S * a) /\ S * a \in Int /\ W * (-h) = -(W * h) /\ W * h \in Int
    BY <2>1
  <2>3. S * a = W * h + b
    BY <2>1, <2>2
  <2> QED
    BY <2>3 DEF a, b, W, h
<1> QED
  BY <1>3, <1>10, <1>12 DEF H

(* B^(a+b) = B^a * B^b.                                                     *)
LEMMA WeightOfSum ==
  ASSUME NEW a \in 2..4, NEW b \in 0..2, a + b <= 4
  PROVE  Weight(a + b) = Weight(a) * Weight(b)
<1>1. B \in Nat /\ B * B \in Nat
  BY BaseIs
<1>2. b = 0 \/ (b = 1 /\ a = 2) \/ (b = 1 /\ a = 3) \/ (b = 2 /\ a = 2)
  OBVIOUS
<1>3. CASE b = 0
  <2>1. a + b = a /\ Weight(b) = 1 /\ Weight(a) \in Nat
    BY <1>3, WeightType DEF Weight
  <2> QED
    BY <2>1
<1>4. CASE b = 1 /\ a = 2
  <2>1. Weight(a + b) = B * (B * B) /\ Weight(a) = B * B /\ Weight(b) = B
    BY <1>4 DEF Weight
  <2> QED
    BY <1>1, <2>1
<1>5. CASE b = 1 /\ a = 3
  <2>1. Weight(a + b) = B * (B * (B * B)) /\ Weight(a) = B * (B * B) /\ Weight(b) = B
    BY <1>5 DEF Weight
  <2>2. B * (B * B) \in Nat
    BY <1>1
  <2> DEFINE x == B * (B * B)
  <2>3. x \in Nat /\ Weight(a + b) = B * x /\ Weight(a) = x /\ Weight(b) = B
    BY <2>1, <2>2
  <2> HIDE DEF x
  <2> QED
    BY <1>1, <2>3
<1>6. CASE b = 2 /\ a = 2
  <2>1. Weight(a + b) = B * (B * (B * B)) /\ Weight(a) = B * B /\ Weight(b) = B * B
    BY <1>6 DEF Weight
  <2> DEFINE x == B * B
  <2>2. B * (B * x) = x * x
    <3>1. B * (B * x) = (B * B) * x
      <4> HIDE DEF x
      <4>1. x \in Nat
        BY <1>1 DEF x
      <4> QED
        BY <1>1, <4>1
    <3> QED
      BY <3>1
  <2> QED
    BY <2>1, <2>2
<1> QED
  BY <1>2, <1>3, <1>4, <1>5, <1>6

(* D1: both numbers are multiplied by 2^d, v still has n digits, and u has  *)
(* one digit more.                                                          *)
LEMMA ShiftStep == ASSUME in \in Inputs, AtShift, Shift PROVE Knuth'
<1>1. /\ n \in 2..4 /\ m \in 0..(4 - n) /\ q = Zeros
      /\ u \in [0..4 -> Digit] /\ v \in [1..n -> Digit] /\ v[1] # 0
      /\ Num(v, 0, n) = vq /\ Weight(n - 1) <= vq /\ vq \in Nat \ {0}
      /\ (\A i \in 0..U0 : u[i] = 0) /\ Num(u, U0, m + n) = uq
      /\ uq < Weight(m + n) /\ uq \in Nat
  BY DEF AtShift, Shift
<1>2. /\ pc' = "guess" /\ j' = 0 /\ UNCHANGED <<in, neg, q, n, m>>
      /\ d' = CHOOSE k \in 0..B : B <= 2 * v[1] * 2^k /\ v[1] * 2^k < B
      /\ v' = Shl(v, 1, n, d') /\ u' = Shl(u, U0, 4, d')
  BY DEF Shift
<1>3. B \in Nat /\ B > 1 /\ v[1] \in 1..(B - 1)
  <2>1. v[1] \in Digit
    BY <1>1
  <2> QED
    BY <1>1, <2>1, BaseIs DEF Digit
<1>4. d' \in 0..B /\ B <= 2 * v[1] * 2^d' /\ v[1] * 2^d' < B
  <2>1. \E k \in 0..B : IsShift(v[1], k)
    BY <1>3, ShiftExists
  <2> DEFINE P(k) == B <= 2 * v[1] * 2^k /\ v[1] * 2^k < B
  <2>2. \E k \in 0..B : P(k)
    BY <2>1 DEF IsShift
  <2>3. d' = CHOOSE k \in 0..B : P(k)
    BY <1>2
  <2> HIDE DEF P
  <2>4. d' \in 0..B /\ P(d')
    BY <2>2, <2>3, Zenon
  <2> QED
    BY <2>4 DEF P
<1> DEFINE S == 2^d'
           k == m + n
           o == U0
<1>5. S \in Nat \ {0} /\ \E t \in Nat \ {0} : S * t = B
  <2> DEFINE z == d'
  <2>1. z \in 0..B /\ IsShift(v[1], z)
    BY <1>4 DEF IsShift
  <2> HIDE DEF z
  <2>2. 2^z \in Nat \ {0} /\ \E t \in Nat \ {0} : 2^z * t = B
    BY <1>3, <2>1, ShiftDivides
  <2> QED
    BY <2>2 DEF z
<1>6. PICK T \in Nat \ {0} : S * T = B
  BY <1>5
<1>7. k \in 2..4 /\ o \in 0..(4 - n) /\ o = 4 - k /\ o + k = 4
  BY <1>1 DEF U0
<1>8. /\ v' = [i \in 1..n |-> IF i \in 1..(n - 1) THEN LHALF(v[i] * S) + HHALF(v[i + 1] * S)
                              ELSE IF i = n THEN LHALF(v[i] * S) ELSE v[i]]
      /\ u' = [i \in 0..4 |-> IF i \in o..3 THEN LHALF(u[i] * S) + HHALF(u[i + 1] * S)
                              ELSE IF i = 4 THEN LHALF(u[i] * S) ELSE u[i]]
  <2>1. DOMAIN v = 1..n /\ DOMAIN u = 0..4 /\ 4 - 1 = 3
    BY <1>1
  <2> HIDE DEF S
  <2> QED
    BY <1>2, <2>1 DEF Shl, S
<1> HIDE DEF S, k, o
  \* The divisor.
<1>9. /\ \A i \in 1..n : v'[i] \in Digit
      /\ S * Num(v, 0, n) = Weight(n) * HHALF(v[1] * S) + Num(v', 0, n)
  <2> DEFINE g == v'
  <2>1. /\ \A i \in 1..n : v[0 + i] \in Digit
        /\ \A i \in 1..(n - 1) : g[0 + i] = LHALF(v[0 + i] * S) + HHALF(v[0 + i + 1] * S)
        /\ g[0 + n] = LHALF(v[0 + n] * S)
    <3>1. \A i \in 1..(n - 1) : i \in 1..n
      BY <1>1
    <3>2. n \in 1..n /\ ~(n \in 1..(n - 1))
      BY <1>1
    <3> QED
      BY <1>1, <1>8, <3>1, <3>2
  <2>2. 0 \in 0..(4 - n)
    BY <1>1
  <2> HIDE DEF g
  <2>3. /\ \A i \in 1..n : g[0 + i] \in Digit
        /\ S * Num(v, 0, n) = Weight(n) * HHALF(v[0 + 1] * S) + Num(g, 0, n)
    <3>1. IsShiftedRow(n, 0, v, g, S, T)
      BY <1>1, <1>5, <1>6, <2>1, <2>2 DEF IsShiftedRow
    <3> QED
      BY <3>1, ShiftedRow
  <2> QED
    BY <2>3 DEF g
<1>10. HHALF(v[1] * S) = 0 /\ LHALF(v[1] * S) = v[1] * S /\ v[1] * S \in Nat
  <2>1. v[1] * S \in 0..(B - 1)
    <3>1. v[1] * S \in Nat /\ v[1] * S < B
      BY <1>3, <1>4, <1>5 DEF S
    <3> QED
      BY <1>3, <3>1
  <2> DEFINE x == v[1] * S
  <2> HIDE DEF x
  <2>2. x \div B = 0 /\ x % B = x
    <3>1. B \in Nat \ {0} /\ x \in 0..(B - 1)
      BY <1>3, <2>1 DEF x
    <3> QED
      BY <3>1, DivSmall
  <2> QED
    BY <2>1, <2>2 DEF HHALF, LHALF, x
<1>11. uq' = uq /\ vq' = vq /\ n' = n /\ m' = m /\ U0' = o /\ Pos' = o
  BY <1>1, <1>2 DEF uq, vq, Pos, U0, o
<1>12. Num(v', 0, n) = vq * S /\ Divisor' = vq * S /\ vq * S \in Nat
  <2>1. Weight(n) * HHALF(v[1] * S) = 0
    <3>1. Weight(n) \in Nat
      BY <1>1, WeightType
    <3> QED
      BY <1>10, <3>1
  <2>2. Num(v', 0, n) \in Nat
    <3> DEFINE g == v'
    <3>1. \A i \in 1..n : g[0 + i] \in Digit
      BY <1>9
    <3> HIDE DEF g
    <3>2. Num(g, 0, n) \in Nat
      BY <1>1, <3>1, NumBound
    <3> QED
      BY <3>2 DEF g
  <2>3. Num(v', 0, n) = S * vq /\ S * vq = vq * S /\ vq * S \in Nat
    BY <1>1, <1>5, <1>9, <2>1, <2>2
  <2> QED
    BY <1>11, <2>3 DEF Divisor
<1>13. v' \in [1..n -> Digit] /\ B <= 2 * v'[1]
  <2>1. v'[1] = v[1] * S + HHALF(v[2] * S)
    <3>1. 1 \in 1..n /\ 1 \in 1..(n - 1)
      BY <1>1
    <3> QED
      BY <1>8, <1>10, <3>1
  <2>2. HHALF(v[2] * S) \in Nat
    <3>1. v[2] \in Digit
      BY <1>1
    <3>2. HHALF(v[2] * S) \in 0..(T - 1) \/ HHALF(v[2] * S) \in 0..(S - 1)
      BY <1>5, <1>6, <3>1, Halves
    <3> QED
      BY <1>5, <1>6, <3>2
  <2>3. 2 * v[1] * 2^d' = 2 * (v[1] * S)
    <3>1. v[1] \in Int /\ S \in Int
      BY <1>3, <1>5
    <3> QED
      BY <3>1 DEF S
  <2>4. B <= 2 * v'[1]
    BY <1>3, <1>4, <1>10, <2>1, <2>2, <2>3
  <2>5. v' \in [1..n -> Digit]
    BY <1>8, <1>9
  <2> QED
    BY <2>4, <2>5
  \* The dividend.
<1>14. /\ \A i \in 1..k : u'[o + i] \in Digit
       /\ S * Num(u, o, k) = Weight(k) * HHALF(u[o + 1] * S) + Num(u', o, k)
       /\ HHALF(u[o + 1] * S) \in 0..(S - 1)
  <2> DEFINE g == u'
  <2>1. \A i \in 1..k : u[o + i] \in Digit
    <3>1. \A i \in 1..k : o + i \in 0..4
      BY <1>7
    <3> QED
      BY <1>1, <3>1
  <2>2. \A i \in 1..(k - 1) : g[o + i] = LHALF(u[o + i] * S) + HHALF(u[o + i + 1] * S)
    <3>1. \A i \in 1..(k - 1) : o + i \in 0..4 /\ o + i \in o..3
      BY <1>7
    <3> QED
      BY <1>8, <3>1
  <2>3. g[o + k] = LHALF(u[o + k] * S)
    <3>1. o + k \in 0..4 /\ ~(o + k \in o..3) /\ o + k = 4
      BY <1>7
    <3> QED
      BY <1>8, <3>1
  <2>4. o \in 0..(4 - k)
    BY <1>7
  <2> HIDE DEF g
  <2>5. /\ \A i \in 1..k : g[o + i] \in Digit
        /\ S * Num(u, o, k) = Weight(k) * HHALF(u[o + 1] * S) + Num(g, o, k)
        /\ HHALF(u[o + 1] * S) \in 0..(S - 1)
    <3>1. IsShiftedRow(k, o, u, g, S, T)
      BY <1>5, <1>6, <1>7, <2>1, <2>2, <2>3, <2>4 DEF IsShiftedRow
    <3> QED
      BY <3>1, ShiftedRow
  <2> QED
    BY <2>5 DEF g
<1>15. u'[o] = HHALF(u[o + 1] * S)
  <2>1. o \in 0..4 /\ o \in o..3
    BY <1>7
  <2>2. u[o] = 0 /\ 0 * S = 0 /\ LHALF(0) = 0
    <3>1. u[o] = 0
      BY <1>1, <1>7 DEF o
    <3>2. 0 % B = 0
      BY <1>3
    <3> QED
      BY <1>5, <3>1, <3>2 DEF LHALF
  <2>3. u'[o] = LHALF(u[o] * S) + HHALF(u[o + 1] * S)
    BY <1>8, <2>1
  <2>4. HHALF(u[o + 1] * S) \in Int
    BY <1>5, <1>14
  <2>5. LHALF(u[o] * S) = 0
    BY <2>2
  <2> QED
    BY <2>3, <2>4, <2>5
<1>16. u'[o] \in Digit
  <2>1. 0 * S + u'[o] \in Digit
    <3>1. 0 \in 0..(T - 1) /\ u'[o] \in 0..(S - 1)
      BY <1>6, <1>14, <1>15
    <3> DEFINE h == u'[o]
    <3> HIDE DEF h
    <3>2. 0 * S + h \in Digit
      BY <1>5, <1>6, <3>1, Joined DEF h
    <3> QED
      BY <3>2 DEF h
  <2>2. 0 * S = 0 /\ u'[o] \in Int
    BY <1>5, <1>14, <1>15
  <2> QED
    BY <2>1, <2>2
<1>17. \A i \in 0..(o - 1) : u'[i] = 0
  <2>1. \A i \in 0..(o - 1) : i \in 0..4 /\ ~(i \in o..3) /\ i # 4 /\ i \in 0..o
    BY <1>7
  <2> QED
    BY <1>1, <1>8, <2>1 DEF o
<1>18. u' \in [0..4 -> Digit]
  <2>1. \A i \in 0..4 : u'[i] \in Digit
    <3> SUFFICES ASSUME NEW i \in 0..4 PROVE u'[i] \in Digit
      OBVIOUS
    <3>1. i \in 0..(o - 1) \/ i = o \/ i - o \in 1..k
      BY <1>7
    <3>2. i - o \in 1..k => u'[o + (i - o)] \in Digit /\ o + (i - o) = i
      BY <1>7, <1>14
    <3>3. 0 \in Digit
      BY <1>3 DEF Digit
    <3> QED
      BY <1>16, <1>17, <3>1, <3>2, <3>3
  <2> QED
    BY <1>8, <2>1
<1>19. Whole(u') = uq * S /\ uq * S \in Nat
  <2> DEFINE f == u'
  <2>1. (\A i \in 0..4 : f[i] \in Digit) /\ (\A i \in 0..(o - 1) : f[i] = 0) /\ o \in 0..(4 - k)
    BY <1>7, <1>17, <1>18
  <2> HIDE DEF f
  <2>2. /\ Whole(f) = (Weight(k) * f[o] + Num(f, o, k)) * Weight(4 - o - k) + Low(f, o + k)
        /\ Whole(f) \in Nat
    BY <1>7, <2>1, Split
  <2>3. Weight(4 - o - k) = 1 /\ Low(f, o + k) = 0
    <3>1. 4 - o - k = 0 /\ o + k = 4
      BY <1>7
    <3> QED
      BY <3>1 DEF Weight, Low
  <2>4. Weight(k) * f[o] + Num(f, o, k) = S * uq
    BY <1>1, <1>14, <1>15 DEF f, o, k
  <2>5. S * uq = uq * S /\ uq * S \in Nat
    BY <1>1, <1>5
  <2>6. (S * uq) * 1 + 0 = uq * S
    BY <1>1, <1>5
  <2> QED
    BY <2>2, <2>3, <2>4, <2>5, <2>6 DEF f
<1>20. Num(u', o - 1, n) < vq * S
  <2> DEFINE f == u'
             X == Num(f, o - 1, n)
             P == Weight(n) * f[o] + Num(f, o, n)
  <2>1. (\A i \in 0..4 : f[i] \in Digit) /\ (\A i \in 0..(o - 1) : f[i] = 0)
    BY <1>17, <1>18
  <2> HIDE DEF f
  <2>2. /\ Whole(f) = P * Weight(4 - o - n) + Low(f, o + n) /\ Low(f, o + n) \in Nat
    BY <1>1, <1>7, <2>1, Split
  <2>3. P = N2(X, f[o + n])
    BY <1>1, <1>7, <2>1, Shifted
  <2>4. X \in Int
    <3> DEFINE y == o - 1
    <3>1. y + 1 \in 0..4 /\ y + 2 \in 0..4 /\ (n >= 3 => y + 3 \in 0..4) /\ (n = 4 => y + 4 \in 0..4)
          /\ y \in Int
      BY <1>1, <1>7
    <3> HIDE DEF y
    <3>2. \A i \in 1..n : i = 1 \/ i = 2 \/ (n >= 3 /\ i = 3) \/ (n = 4 /\ i = 4)
      BY <1>1
    <3>3. \A i \in 1..n : f[y + i] \in Digit
      BY <2>1, <3>1, <3>2
    <3>4. Num(f, y, n) \in Nat
      BY <1>1, <3>1, <3>3, NumBound
    <3> QED
      BY <3>4 DEF y
  <2>5. f[o + n] \in Nat /\ P \in Int /\ B * X <= P
    <3>1. o + n \in 0..4
      BY <1>1, <1>7
    <3>2. f[o + n] \in Nat
      BY <1>3, <2>1, <3>1 DEF Digit
    <3> HIDE DEF X, P
    <3> QED
      BY <1>3, <2>3, <2>4, <3>2 DEF N2
  <2>6. 4 - o - n = m /\ Weight(m) \in Nat \ {0} /\ Weight(k) = Weight(n) * Weight(m)
        /\ Weight(n) \in Nat \ {0} /\ Weight(n - 1) \in Nat \ {0} /\ Weight(n) = B * Weight(n - 1)
    <3>1. 4 - o - n = m /\ m \in 0..4 /\ n \in 0..4 /\ n - 1 \in 0..3 /\ n - 1 \in 0..4 /\ n - 1 + 1 = n
          /\ m \in 0..2 /\ n + m = k /\ n + m <= 4
      BY <1>1, <1>7 DEF k
    <3>2. Weight(n - 1 + 1) = B * Weight(n - 1)
      BY <3>1, WeightStep
    <3>3. Weight(n + m) = Weight(n) * Weight(m)
      BY <1>1, <3>1, WeightOfSum
    <3> QED
      BY <3>1, <3>2, <3>3, WeightType
  <2> HIDE DEF X, P
  <2>7. P * Weight(m) <= uq * S
    <3>1. P * Weight(m) \in Int
      BY <2>5, <2>6
    <3> QED
      BY <1>19, <2>2, <2>6, <3>1 DEF f
  <2>8. uq * S < (Weight(n) * S) * Weight(m)
    <3>1. uq * S < Weight(k) * S
      <4>1. uq < Weight(k) /\ Weight(k) \in Int
        BY <1>1, <2>6 DEF k
      <4> QED
        BY <1>1, <1>5, <4>1, GrowsStrictly
    <3>2. (Weight(n) * Weight(m)) * S = (Weight(n) * S) * Weight(m)
      BY <1>5, <2>6
    <3> QED
      BY <2>6, <3>1, <3>2
  <2>9. P < Weight(n) * S
    <3> DEFINE Y == Weight(n) * S
               W == Weight(m)
    <3>1. Y \in Int /\ W \in Nat /\ P * W < Y * W /\ P \in Int
      <4>1. P * Weight(m) \in Int /\ (Weight(n) * S) * Weight(m) \in Int /\ Weight(n) * S \in Int
        BY <1>5, <2>5, <2>6
      <4> QED
        BY <1>19, <2>5, <2>6, <2>7, <2>8, <4>1
    <3> HIDE DEF Y, W
    <3>2. Y <= P => Y * W <= P * W
      BY <3>1, Grows
    <3>3. Y * W \in Int /\ P * W \in Int
      BY <3>1
    <3>4. P < Y
      BY <3>1, <3>2, <3>3
    <3> QED
      BY <3>4 DEF Y
  <2>10. Weight(n) * S <= B * (vq * S)
    <3>1. Weight(n - 1) * S <= vq * S
      BY <1>1, <1>5, <2>6, Grows
    <3>2. Weight(n) * S = B * (Weight(n - 1) * S) /\ Weight(n - 1) * S \in Nat
      BY <1>3, <1>5, <2>6
    <3> DEFINE y == Weight(n - 1) * S
               z == vq * S
    <3>3. y \in Nat /\ z \in Nat /\ y <= z
      BY <1>12, <3>1, <3>2
    <3> HIDE DEF y, z
    <3>4. B * y <= B * z
      BY <1>3, <3>3
    <3> QED
      BY <3>2, <3>4 DEF y, z
  <2>11. B * X < B * (vq * S)
    <3>1. B * X \in Int /\ B * (vq * S) \in Int /\ Weight(n) * S \in Int
      BY <1>3, <1>5, <1>12, <2>4, <2>6
    <3> QED
      BY <2>5, <2>9, <2>10, <3>1
  <2>12. X < vq * S
    <3> DEFINE z == vq * S
    <3>1. z \in Int /\ B * X < B * z /\ B * z = z * B /\ B * X = X * B
      BY <1>3, <1>12, <2>4, <2>11
    <3> HIDE DEF z
    <3>2. z <= X => z * B <= X * B
      BY <1>3, <2>4, <3>1, Grows
    <3>3. z * B \in Int /\ X * B \in Int
      BY <1>3, <2>4, <3>1
    <3>4. X < z
      BY <2>4, <3>1, <3>2, <3>3
    <3> QED
      BY <3>4 DEF z
  <2> QED
    BY <2>12 DEF X, f
<1>21. Shape'
  <2>1. j' \in 0..(m' + 1)
    BY <1>1, <1>2
  <2>2. q' \in [1..4 -> Digit] /\ \A i \in (4 - m' + j')..4 : q'[i] = 0
    <3>1. 0 \in Digit
      BY <1>3 DEF Digit
    <3>2. \A i \in (4 - m' + j')..4 : i \in 1..4
      BY <1>1, <1>2
    <3>3. Zeros = [i \in 1..4 |-> 0]
      BY DEF Zeros
    <3> QED
      BY <1>1, <1>2, <3>1, <3>2, <3>3
  <2>3. 2^d' \in Nat \ {0} /\ (\E t \in Nat \ {0} : 2^d' * t = B) /\ Divisor' = vq * 2^d'
    BY <1>5, <1>12 DEF S
  <2> QED
    BY <1>1, <1>4, <1>11, <1>13, <1>17, <1>18, <2>1, <2>2, <2>3 DEF Shape
<1>22. Quotient' = 0
  <2>1. Zeros[1] = 0 /\ Zeros[2] = 0 /\ Zeros[3] = 0 /\ Zeros[4] = 0
    BY DEF Zeros
  <2>2. N2(0, 0) = 0
    BY NoZeros
  <2>3. N4(0, 0, 0, 0) = 0
    BY <2>2 DEF N2, N3, N4
  <2> QED
    BY <1>1, <1>2, <2>1, <2>3 DEF Quotient
<1>23. Between'
  <2>1. Dividend' = uq * S
    BY <1>11 DEF Dividend, S
  <2>2. Dividend' = Quotient' * Divisor' + Whole(u')
    BY <1>12, <1>19, <1>22, <2>1
  <2>3. Num(u', Pos' - 1, n') < Divisor'
    BY <1>11, <1>12, <1>20
  <2> QED
    BY <1>21, <2>2, <2>3 DEF Between
<1>24. j' <= m' /\ in' \in Inputs
  BY <1>1, <1>2
<1> QED
  BY <1>2, <1>23, <1>24 DEF Knuth, AtEnter, AtShort, AtShift, AtDigits, AtGuess, AtCorrect,
     AtSubtract, AtAddBack, AtStore, AtUnshift, AtReturn, AtDone

-----------------------------------------------------------------------------
(* Every step of __qdivrem keeps the invariant.                             *)
LEMMA KnuthStep == Knuth /\ [Next]_vars => Knuth'
<1> SUFFICES ASSUME Knuth, [Next]_vars PROVE Knuth'
  OBVIOUS
<1> USE DEF Knuth
<1>1. CASE Enter
  BY <1>1, EnterStep
<1>2. CASE Short
  BY <1>2, ShortStep
<1>3. CASE Shift
  BY <1>3, ShiftStep
<1>4. CASE Guess
  <2>1. AtDigits' /\ in' = in /\ pc' \in {"correct", "subtract"}
    BY <1>4, GuessStep DEF Guess
  <2> QED
    BY <2>1 DEF AtEnter, AtShort, AtShift, AtReturn, AtDone
<1>5. CASE Correct
  <2>1. AtDigits' /\ in' = in /\ pc' \in {"correct", "subtract"}
    BY <1>5, CorrectStep DEF Correct
  <2> QED
    BY <2>1 DEF AtEnter, AtShort, AtShift, AtReturn, AtDone
<1>6. CASE Subtract
  <2>1. AtDigits' /\ in' = in /\ pc' \in {"addBack", "store"}
    BY <1>6, SubtractStep DEF Subtract
  <2> QED
    BY <2>1 DEF AtEnter, AtShort, AtShift, AtReturn, AtDone
<1>7. CASE AddBack
  <2>1. AtDigits' /\ in' = in /\ pc' = "store"
    BY <1>7, AddBackStep DEF AddBack
  <2> QED
    BY <2>1 DEF AtEnter, AtShort, AtShift, AtReturn, AtDone
<1>8. CASE Store
  <2>1. AtDigits' /\ in' = in /\ pc' \in {"guess", "unshift"}
    BY <1>8, StoreStep DEF Store
  <2> QED
    BY <2>1 DEF AtEnter, AtShort, AtShift, AtReturn, AtDone
<1>9. CASE Unshift
  <2>1. pc' = "return" /\ vq \in Nat \ {0} /\ quo' = uq \div vq /\ rem' = uq % vq
    BY <1>9, UnshiftStep DEF AtDigits
  <2>2. in' = in /\ uq' = uq /\ vq' = vq
    BY <1>9 DEF Unshift, uq, vq
  <2> QED
    BY <2>1, <2>2 DEF AtEnter, AtShort, AtShift, AtDigits, AtGuess, AtCorrect, AtSubtract,
       AtAddBack, AtStore, AtUnshift, AtReturn, AtDone
<1>10. CASE Return
  <2>1. /\ vq \in Nat \ {0} /\ quo = uq \div vq /\ rem = uq % vq
        /\ pc' = "done" /\ quo' = (IF neg THEN Minus(quo) ELSE quo) /\ UNCHANGED <<in, neg, rem>>
    BY <1>10 DEF Return, AtReturn
  <2>2. in' = in /\ uq' = uq /\ vq' = vq
    BY <2>1 DEF uq, vq
  <2> QED
    BY <2>1, <2>2 DEF AtEnter, AtShort, AtShift, AtDigits, AtGuess, AtCorrect, AtSubtract,
       AtAddBack, AtStore, AtUnshift, AtReturn, AtDone
<1>11. CASE UNCHANGED vars
  <2>1. /\ UNCHANGED <<in, neg, pc, u, v, q, n, m, d, j, qhat, rhat, quo, rem>>
        /\ uq' = uq /\ vq' = vq /\ U0' = U0
    BY <1>11 DEF vars, uq, vq, U0
  <2>2. /\ (Shape => Shape') /\ (Between => Between') /\ Pos' = Pos /\ Part' = Part
        /\ Divisor' = Divisor /\ Dividend' = Dividend /\ Quotient' = Quotient
        /\ Whole(u)' = Whole(u)
    BY <2>1, Stays
  <2>3. /\ GuessIsEnough' = GuessIsEnough /\ GuessHasRest' = GuessHasRest
        /\ GuessIsNear' = GuessIsNear
    BY <2>1, <2>2 DEF GuessIsEnough, GuessHasRest, GuessIsNear
  <2>4. Taken' = Taken /\ TakenTooOften' = TakenTooOften
    BY <2>1, <2>2 DEF Taken, TakenTooOften
  <2>5. AtDigits'
    BY <2>1, <2>2, <2>3, <2>4 DEF AtDigits, AtGuess, AtCorrect, AtSubtract, AtAddBack, AtStore,
       AtUnshift
  <2>6. AtEnter' /\ AtShort' /\ AtShift' /\ AtReturn' /\ AtDone'
    BY <2>1 DEF AtEnter, AtShort, AtShift, AtReturn, AtDone
  <2> QED
    BY <2>1, <2>5, <2>6
<1> QED
  BY <1>1, <1>2, <1>3, <1>4, <1>5, <1>6, <1>7, <1>8, <1>9, <1>10, <1>11 DEF Next

LEMMA KnuthInit == Init => Knuth
  BY DEF Init, Knuth, AtEnter, AtShort, AtShift, AtDigits, AtGuess, AtCorrect, AtSubtract,
     AtAddBack, AtStore, AtUnshift, AtReturn, AtDone

(* The invariant of Algorithm D holds in every state of __qdivrem, for every *)
(* base that is a power of two, divisor and dividend.                       *)
THEOREM KnuthHolds == Spec => []Knuth
  BY KnuthInit, KnuthStep, PTL DEF Spec

(* The sign of the quotient, from the start of __qdivrem on.                *)
SignIs == pc # "enter" => neg = SignsDiffer

(* Only Enter determines it.                                                *)
LEMMA SignStep == SignIs /\ [Next]_vars => SignIs'
<1> SUFFICES ASSUME SignIs, [Next]_vars PROVE SignIs'
  OBVIOUS
<1>1. CASE Enter
  BY <1>1, Zenon DEF Enter, SignIs, SignsDiffer
<1>2. CASE UNCHANGED <<in, neg>> /\ (pc = "enter" => pc' = "enter")
  BY <1>2, Zenon DEF SignIs, SignsDiffer
<1>3. CASE Next /\ ~Enter
  <2>1. UNCHANGED <<in, neg>> /\ pc # "enter"
    BY <1>3 DEF Next, Short, Shift, Guess, Correct, Subtract, AddBack, Store, Unshift, Return
  <2> QED
    BY <1>2, <2>1
<1>4. CASE UNCHANGED vars
  BY <1>2, <1>4 DEF vars
<1> QED
  BY <1>1, <1>3, <1>4

(* Whatever the base, the arguments and their signs: what __qdivrem returns *)
(* is the quotient and the remainder, and __divdi3 gives the quotient its   *)
(* sign.                                                                    *)
THEOREM DivisionIsRight == Spec => []Divides
<1>1. Init => SignIs
  BY DEF Init, SignIs
<1>2. Knuth /\ SignIs => Divides
  BY DEF Knuth, SignIs, AtReturn, AtDone, Divides
<1> QED
  BY <1>1, <1>2, SignStep, KnuthHolds, PTL DEF Spec

(* The invariant, in the terms of the properties.                           *)
LEMMA NothingIsLost == ASSUME Between PROVE NothingLost
<1>1. Shape /\ n \in 2..4 /\ m \in 0..(4 - n) /\ j \in 0..(m + 1)
      /\ u \in [0..4 -> Digit] /\ v \in [1..n -> Digit] /\ q \in [1..4 -> Digit]
  BY DEF Between, Shape
<1>2. Value(v) = Divisor /\ Value(q) = Quotient
  <2>1. v \in [1..n -> Int] /\ q \in [1..4 -> Int]
    BY <1>1 DEF Digit
  <2>2. Value(v) = Num(v, 0, n)
    BY <1>1, <2>1, ValueOfRow
  <2>3. Value(q) = Num(q, 0, 4)
    BY <2>1, ValueOfRow
  <2> QED
    BY <2>2, <2>3 DEF Divisor, Quotient, Num
<1>3. \A i \in 0..4 : u[i] \in Digit
  BY <1>1
<1>4. Value([i \in 1..5 |-> u[i - 1]]) = Whole(u)
  BY <1>3, WholeIs
<1>5. Value([i \in 1..(4 - m + j) |-> u[i - 1]]) = Num(u, Pos - 1, n)
  <2>1. Pos \in 0..(5 - n) /\ 4 - m + j = Pos + n
    BY <1>1 DEF Pos, U0
  <2>2. \A i \in 0..(Pos - 1) : u[i] = 0
    BY <1>1 DEF Shape
  <2>3. Value([i \in 1..(Pos + n) |-> u[i - 1]]) = Num(u, Pos - 1, n)
    BY <1>1, <1>3, <2>1, <2>2, LeadingZeros
  <2> QED
    BY <2>1, <2>3
<1>6. Value(v) = vq * 2^d
  BY <1>1, <1>2 DEF Shape
<1>7. uq * 2^d = Value(q) * Value(v) + Value([i \in 1..5 |-> u[i - 1]])
  BY <1>2, <1>4 DEF Between, Dividend
<1>8. Value([i \in 1..(4 - m + j) |-> u[i - 1]]) < Value(v)
  BY <1>2, <1>5 DEF Between
<1> QED
  BY <1>6, <1>7, <1>8 DEF NothingLost

LEMMA GuessIsRight == ASSUME AtSubtract PROVE GuessIsClose
<1> SUFFICES ASSUME pc = "subtract"
             PROVE  qhat - Window \div Value(v) \in {0, 1} /\ qhat \in 0..(B - 1)
  BY DEF GuessIsClose
<1>1. Between /\ j <= m /\ GuessIsEnough /\ GuessIsNear /\ Shape /\ n \in 2..4
      /\ u \in [0..4 -> Digit] /\ v \in [1..n -> Digit]
  BY DEF AtSubtract, Between, Shape
<1>2. Value(v) = Divisor
  <2>1. v \in [1..n -> Int]
    BY <1>1 DEF Digit
  <2> QED
    BY <1>1, <2>1, ValueOfRow DEF Divisor
<1>3. Pos \in 0..(4 - n) /\ Part \in Nat /\ Divisor \in Nat \ {0}
  BY <1>1, ShapeFacts
<1>4. Window = Part
  <2>1. \A i \in 0..4 : u[i] \in Digit
    BY <1>1
  <2>2. Value([i \in 1..(n + 1) |-> u[Pos + i - 1]]) = Weight(n) * u[Pos] + Num(u, Pos, n)
    BY <1>1, <1>3, <2>1, WindowIs
  <2> QED
    BY <2>2 DEF Window, Part, Pos
<1>5. qhat \in 0..(B - 1) /\ (qhat + 1) * Divisor > Part /\ (qhat - 1) * Divisor <= Part
  BY <1>1 DEF GuessIsEnough, GuessIsNear, Digit
<1> DEFINE V == Divisor
           P == Part
           x == qhat * V
<1>6. V \in Nat \ {0} /\ P \in Nat /\ qhat \in Int /\ x \in Int /\ x + V > P /\ x - V <= P
  <2>1. (qhat + 1) * V = x + V /\ (qhat - 1) * V = x - V /\ x \in Int
    BY <1>3, <1>5, BaseIs
  <2> QED
    BY <1>3, <1>5, <2>1, BaseIs
<1> HIDE DEF V, P
<1>7. CASE x <= P
  <2>1. P = qhat * V + (P - x) /\ P - x \in 0..(V - 1)
    BY <1>6, <1>7
  <2>2. P \div V = qhat
    <3> DEFINE r == P - x
    <3>1. r \in 0..(V - 1) /\ P = qhat * V + r
      BY <2>1
    <3> HIDE DEF r
    <3> QED
      BY <1>6, <3>1, DivIs
  <2> QED
    BY <1>2, <1>4, <1>5, <1>6, <2>2 DEF V, P
<1>8. CASE ~(x <= P)
  <2> DEFINE r == P - x + V
             y == qhat - 1
  <2>1. r \in 0..(V - 1) /\ y \in Int /\ P = y * V + r
    <3>1. y * V = x - V
      BY <1>6
    <3> HIDE DEF x
    <3> QED
      BY <1>6, <1>8, <3>1
  <2> HIDE DEF r, y
  <2>2. P \div V = y
    BY <1>6, <2>1, DivIs
  <2> QED
    BY <1>2, <1>4, <1>5, <1>6, <2>2 DEF V, P, y
<1> QED
  BY <1>7, <1>8

(* Between two digits nothing of the dividend is lost, and each corrected   *)
(* guess is right or one too large, whatever the base and the arguments.    *)
THEOREM DividendStays == Spec => []DividendIsKept
<1>1. Knuth => DividendIsKept
  <2> SUFFICES ASSUME Knuth PROVE NothingLost /\ GuessIsClose
    BY DEF DividendIsKept
  <2>1. NothingLost
    <3>1. CASE pc \in {"guess", "unshift"}
      BY <3>1, NothingIsLost DEF Knuth, AtDigits, AtGuess, AtUnshift
    <3>2. CASE ~(pc \in {"guess", "unshift"})
      BY <3>2 DEF NothingLost
    <3> QED
      BY <3>1, <3>2
  <2>2. GuessIsClose
    BY GuessIsRight DEF Knuth, AtDigits
  <2> QED
    BY <2>1, <2>2
<1> QED
  BY <1>1, KnuthHolds, PTL

-----------------------------------------------------------------------------
(* The search for memory.                                                   *)
CONSTANTS Maps, Lengths, Limits     \* of FindMemory
VARIABLE at

FM == INSTANCE FindMemory WITH i <- at

Types ==
  /\ mmap \in Seq(FM!Block) /\ len \in Nat /\ limit \in Nat
  /\ highest \in BOOLEAN /\ at \in 1..(Len(mmap) + 1) /\ block \in Int

(* The loop has looked at blocks 1 to at - 1.                               *)
Looked ==
  /\ limit > len
  /\ ~found => \A k \in 1..(at - 1) : FM!Starts(mmap[k]) = {}
  /\ found => /\ highest /\ \E k \in 1..(at - 1) : block \in FM!Starts(mmap[k])
              /\ \A k \in 1..(at - 1) : \A s \in FM!Starts(mmap[k]) : s <= block

LoopInv ==
  /\ Types
  /\ step = "enter" => ~found /\ at = 1
  /\ step = "loop" => Looked
  /\ step = "done" => FM!FindsTheHighest
  /\ step \in {"enter", "loop", "done"}
-----------------------------------------------------------------------------
LEMMA Rounded == ASSUME NEW a \in Int, NEW c \in Nat \ {0} PROVE FM!RoundDown(a, c) \in Int
  BY DEF FM!RoundDown

LEMMA PagesAreNumbers ==
  ASSUME NEW b \in FM!Block
  PROVE  b.addr \in Nat /\ FM!PagesFrom(b) \in Int /\ FM!PagesEnd(b) \in Int
<1>1. b.addr \in Nat /\ b.len \in Nat /\ Page \in Nat \ {0}
  BY MbiMemoryAssumption DEF FM!Block
<1>2. FM!PagesFrom(b) \in Int
  BY <1>1, Rounded DEF FM!PagesFrom, FM!RoundUp
<1>3. FM!EndOf(b) - FM!PagesFrom(b) \in Int
  BY <1>1, <1>2 DEF FM!EndOf
<1> QED
  BY <1>1, <1>2, <1>3, Rounded DEF FM!PagesEnd

(* What the loop takes from a block is the highest place in it, and a block *)
(* it passes by has none.                                                   *)
LEMMA HighestInBlock ==
  ASSUME Types, NEW b \in FM!Block, FM!CanHold(b, len, limit)
  PROVE  /\ FM!TopIn(b, len, limit) \in FM!Starts(b) /\ FM!PagesFrom(b) <= FM!TopIn(b, len, limit)
         /\ \A s \in FM!Starts(b) : s <= FM!TopIn(b, len, limit)
<1>1. FM!PagesFrom(b) \in Int /\ FM!PagesEnd(b) \in Int /\ len \in Nat /\ limit \in Nat
  BY PagesAreNumbers DEF Types
<1> QED
  BY <1>1 DEF FM!CanHold, FM!TopIn, FM!Starts

LEMMA NoneInBlock ==
  ASSUME Types, NEW b \in FM!Block, ~FM!CanHold(b, len, limit) PROVE FM!Starts(b) = {}
<1>1. FM!PagesFrom(b) \in Int /\ FM!PagesEnd(b) \in Int /\ len \in Nat /\ limit \in Nat
  BY PagesAreNumbers DEF Types
<1> QED
  BY <1>1 DEF FM!CanHold, FM!Starts

LEMMA StartsStay == ASSUME UNCHANGED FM!args PROVE \A b : FM!Starts(b)' = FM!Starts(b)
  BY DEF FM!args, FM!Starts

LEMMA StartLoop == LoopInv /\ FM!Enter => LoopInv'
<1> SUFFICES ASSUME LoopInv, FM!Enter PROVE LoopInv'
  OBVIOUS
<1>1. Types' /\ UNCHANGED <<len, limit, mmap, highest, at, found, block>> /\ at = 1 /\ ~found
  BY DEF FM!Enter, LoopInv, Types, FM!args
<1>2. CASE limit <= len
  BY <1>1, <1>2 DEF FM!Enter, LoopInv, FM!FindsTheHighest, Types
<1>3. CASE limit > len
  BY <1>1, <1>3 DEF FM!Enter, LoopInv, Looked, Types
<1> QED
  BY <1>2, <1>3 DEF LoopInv, Types

LEMMA TakeBlockStep == LoopInv /\ FM!TakeBlock => LoopInv'
<1> SUFFICES ASSUME LoopInv, FM!TakeBlock PROVE LoopInv'
  OBVIOUS
<1> DEFINE b == mmap[at]
           s == FM!TopIn(b, len, limit)
<1>1. Types /\ Looked /\ at \in 1..Len(mmap) /\ b \in FM!Block /\ FM!CanHold(b, len, limit)
  BY DEF FM!TakeBlock, FM!InLoop, LoopInv, Types
<1>2. s \in FM!Starts(b) /\ FM!PagesFrom(b) <= s /\ \A t \in FM!Starts(b) : t <= s
  BY <1>1, HighestInBlock
<1>3. s \in Int /\ FM!PagesFrom(b) \in Int
  BY <1>1, PagesAreNumbers DEF FM!TopIn, Types
<1>4. found => block <= s
  BY <1>1, <1>2, <1>3 DEF FM!TakeBlock, Types
<1>5. \A k \in 1..at : \A t \in FM!Starts(mmap[k]) : t \in Int
  <2>1. \A k \in 1..at : FM!PagesFrom(mmap[k]) \in Int /\ FM!PagesEnd(mmap[k]) \in Int
    BY <1>1, PagesAreNumbers DEF Types
  <2> QED
    BY <2>1 DEF FM!Starts
<1> HIDE DEF b, s
<1>6. /\ \E k \in 1..at : s \in FM!Starts(mmap[k])
      /\ \A k \in 1..at : \A t \in FM!Starts(mmap[k]) : t <= s
  <2>1. s \in FM!Starts(mmap[at]) /\ \A t \in FM!Starts(mmap[at]) : t <= s
    BY <1>2 DEF b
  <2>2. ASSUME NEW k \in 1..(at - 1), NEW t \in FM!Starts(mmap[k]) PROVE t <= s
    <3>1. found /\ t <= block /\ block \in Int
      BY <1>1, <2>2 DEF Looked, Types
    <3>2. k \in 1..at /\ t \in Int
      BY <1>1, <1>5, <2>2
    <3> QED
      BY <1>3, <1>4, <3>1, <3>2
  <2>3. \A k \in 1..at : k = at \/ k \in 1..(at - 1)
    BY <1>1
  <2>4. at \in 1..at
    BY <1>1
  <2> QED
    BY <2>1, <2>2, <2>3, <2>4
<1>7. found' /\ block' = s /\ UNCHANGED <<mmap, len, limit, highest>> /\ limit > len
  BY <1>1 DEF FM!TakeBlock, FM!args, Looked, s, b
<1>8. CASE highest /\ at' = at + 1 /\ step' = "loop"
  <2>1. Types'
    BY <1>1, <1>3, <1>7, <1>8 DEF Types
  <2>2. 1..(at' - 1) = 1..at
    BY <1>1, <1>8
  <2>3. Looked'
    BY <1>6, <1>7, <1>8, <2>2, StartsStay DEF Looked, FM!args
  <2> QED
    BY <1>8, <2>1, <2>3 DEF LoopInv
<1>9. CASE ~highest /\ at' = at /\ step' = "done"
  <2>1. Types'
    BY <1>1, <1>3, <1>7, <1>9 DEF Types
  <2>2. at \in 1..Len(mmap) /\ s \in FM!Starts(mmap[at])
    BY <1>1, <1>2 DEF b
  <2>3. s \in FM!AllStarts
    BY <2>2 DEF FM!AllStarts
  <2>4. FM!AllStarts' = FM!AllStarts
    BY <1>7, StartsStay DEF FM!AllStarts, FM!args
  <2>5. FM!FindsTheHighest'
    BY <1>7, <1>9, <2>3, <2>4 DEF FM!FindsTheHighest
  <2> QED
    BY <1>9, <2>1, <2>5 DEF LoopInv
<1> QED
  <2>1. step = "loop" /\ highest \in BOOLEAN
    BY DEF FM!TakeBlock, FM!InLoop, LoopInv, Types
  <2> QED
    BY <1>8, <1>9, <2>1 DEF FM!TakeBlock

LEMMA NextBlockStep == LoopInv /\ FM!NextBlock => LoopInv'
<1> SUFFICES ASSUME LoopInv, FM!NextBlock PROVE LoopInv'
  OBVIOUS
<1>1. /\ Types /\ Looked /\ at \in 1..Len(mmap) /\ mmap[at] \in FM!Block
      /\ ~FM!CanHold(mmap[at], len, limit) /\ step = "loop"
  BY DEF FM!NextBlock, FM!InLoop, LoopInv, Types
<1>2. UNCHANGED <<mmap, len, limit, highest, found, block, step>> /\ at' = at + 1
  BY DEF FM!NextBlock, FM!args
<1>3. FM!Starts(mmap[at]) = {}
  BY <1>1, NoneInBlock
<1>4. Types' /\ at' - 1 = at
  BY <1>1, <1>2 DEF Types
<1>5. \A k : k \in 1..at <=> k = at \/ k \in 1..(at - 1)
  BY <1>1
<1>6. Looked'
  BY <1>1, <1>2, <1>3, <1>4, <1>5, StartsStay DEF Looked, FM!args
<1> QED
  BY <1>1, <1>2, <1>4, <1>6 DEF LoopInv

LEMMA EndOfMapStep == LoopInv /\ FM!EndOfMap => LoopInv'
<1> SUFFICES ASSUME LoopInv, FM!EndOfMap PROVE LoopInv'
  OBVIOUS
<1>1. Types /\ Looked /\ at = Len(mmap) + 1
  BY DEF FM!EndOfMap, LoopInv, Types
<1>2. UNCHANGED <<mmap, len, limit, highest, found, block, at>> /\ step' = "done"
  BY DEF FM!EndOfMap, FM!args
<1>3. 1..(at - 1) = 1..Len(mmap)
  BY <1>1 DEF Types
<1>5. Types' /\ FM!AllStarts' = FM!AllStarts
  BY <1>1, <1>2, StartsStay DEF Types, FM!args, FM!AllStarts
<1>6. FM!FindsTheHighest'
  <2>1. found <=> FM!AllStarts # {}
    BY <1>1, <1>3 DEF Looked, FM!AllStarts
  <2>2. found => block \in FM!AllStarts /\ \A s \in FM!AllStarts : s <= block
    BY <1>1, <1>3 DEF Looked, FM!AllStarts
  <2> QED
    BY <1>1, <1>2, <1>5, <2>1, <2>2 DEF Looked, FM!FindsTheHighest
<1> QED
  BY <1>2, <1>5, <1>6 DEF LoopInv

LEMMA LoopStays == LoopInv /\ [FM!Next]_(FM!vars) => LoopInv'
<1> SUFFICES ASSUME LoopInv, [FM!Next]_(FM!vars) PROVE LoopInv'
  OBVIOUS
<1>1. CASE UNCHANGED FM!vars
  <2>1. FM!AllStarts' = FM!AllStarts /\ UNCHANGED <<mmap, len, limit, highest, step, at, found, block>>
    BY <1>1, StartsStay DEF FM!vars, FM!args, FM!AllStarts
  <2>2. Types'
    BY <2>1 DEF LoopInv, Types
  <2>3. Looked => Looked'
    BY <2>1, StartsStay DEF FM!args, Looked
  <2>4. FM!FindsTheHighest => FM!FindsTheHighest'
    BY <2>1, Zenon DEF FM!FindsTheHighest
  <2> QED
    BY <2>1, <2>2, <2>3, <2>4 DEF LoopInv
<1>2. CASE FM!Next
  BY <1>1, <1>2, StartLoop, TakeBlockStep, NextBlockStep, EndOfMapStep
     DEF FM!Next, FM!BehindBlock, FM!LowerBlock
<1> QED
  BY <1>1, <1>2

(* The promise is stated apart from the loop.                               *)
LEMMA PromiseIsTheSame == FM!FindsTheHighest <=> FindsTheHighest
BY DEF FM!FindsTheHighest, FM!AllStarts, FM!Starts, FM!HasPageBoundary, FM!PagesFrom, FM!PagesEnd,
       FM!RoundUp, FM!RoundDown, FM!EndOf,
       FindsTheHighest, AllStarts, Starts, HasPageBoundary, PagesFrom, PagesEnd, RoundUp, RoundDown, EndOf

(* When mbi_find_memory returns, on whatever map, it found memory exactly   *)
(* if some is free below the limit, and the highest if asked for it.        *)
THEOREM HighestIsFound ==
  ASSUME Maps \subseteq Seq(Block), Lengths \subseteq Nat, Limits \subseteq Nat
  PROVE  FM!Spec => []FindsTheHighest
<1>1. FM!Init => LoopInv
  <2>1. Block = FM!Block
    BY DEF Block, FM!Block
  <2> QED
    BY <2>1 DEF FM!Init, LoopInv, Types
<1>2. LoopInv => FindsTheHighest
  BY PromiseIsTheSame DEF LoopInv, FM!FindsTheHighest
<1> QED
  BY <1>1, <1>2, LoopStays, PTL DEF FM!Spec

-----------------------------------------------------------------------------
(* The command line.                                                        *)
CONSTANTS Lines, BufSize                        \* of CommandLine
VARIABLES number, buf, last, token, argsPtr, args

CL == INSTANCE CommandLine WITH Inputs <- Lines, i <- number

(* Numbers and the default are those of CommandOptions.                     *)
LEMMA SameNumbers ==
  /\ CL!Default = Default /\ \A c : CL!DigitOf(c) = DigitOf(c)
  /\ \A s : /\ CL!Unsigned(s) = Unsigned(s) /\ CL!BaseOf(s) = BaseOf(s)
            /\ CL!DigitsOf(s) = DigitsOf(s)
BY DEF CL!Default, Default, CL!DigitOf, DigitOf, CL!DigitChars, DigitChars, CL!Unsigned, Unsigned,
       CL!BaseOf, BaseOf, CL!DigitsOf, DigitsOf, CL!Prefixed, Prefixed

-----------------------------------------------------------------------------
(* Ranks: of two elements of a set of numbers, the larger has the higher    *)
(* rank, and a number above all of them comes last in their order.          *)
LEMMA RankIs ==
  ASSUME NEW K \in SUBSET Int, IsFiniteSet(K), NEW k \in Int
  PROVE  Rank(K, k) \in Nat /\ Rank(K, k) <= Cardinality(K) /\ Cardinality(K) \in Nat
<1> DEFINE L == {l \in K : l <= k}
<1>1. IsFiniteSet(L) /\ Cardinality(L) <= Cardinality(K)
  <2>1. L \in SUBSET K
    OBVIOUS
  <2> HIDE DEF L
  <2> QED
    BY <2>1, FS_Subset
<1>2. Cardinality(L) \in Nat /\ Cardinality(K) \in Nat
  BY <1>1, FS_CardinalityType
<1> QED
  BY <1>1, <1>2 DEF Rank

LEMMA RankGrows ==
  ASSUME NEW K \in SUBSET Int, IsFiniteSet(K), NEW k \in K, NEW l \in K, k < l
  PROVE  Rank(K, k) < Rank(K, l)
<1> DEFINE X == {x \in K : x <= k}
           Y == {x \in K : x <= l}
<1>1. X \cup {l} \in SUBSET Y /\ l \notin X /\ X \in SUBSET K /\ Y \in SUBSET K
  <2>1. k \in Int /\ l \in Int /\ \A x \in K : x \in Int
    OBVIOUS
  <2>2. \A x \in X : x \in K /\ x <= l /\ x # l
    BY <2>1
  <2>3. l \in Y /\ l \notin X /\ X \in SUBSET K /\ Y \in SUBSET K
    BY <2>1
  <2> QED
    BY <2>2, <2>3
<1> HIDE DEF X, Y
<1>2. IsFiniteSet(X) /\ IsFiniteSet(Y)
  BY <1>1, FS_Subset
<1>3. IsFiniteSet(X \cup {l}) /\ Cardinality(X \cup {l}) = Cardinality(X) + 1
  BY <1>1, <1>2, FS_AddElement
<1>4. Cardinality(X \cup {l}) <= Cardinality(Y)
  BY <1>1, <1>2, FS_Subset
<1>5. Cardinality(X) \in Nat /\ Cardinality(Y) \in Nat
  BY <1>2, FS_CardinalityType
<1> QED
  BY <1>3, <1>4, <1>5 DEF Rank, X, Y

LEMMA InOrderIs ==
  ASSUME NEW K \in SUBSET Int, IsFiniteSet(K), NEW k \in K
  PROVE  InOrder(K)[Rank(K, k)] = k
<1> DEFINE x == Rank(K, k)
<1>1. x \in 1..Cardinality(K)
  <2>2. {k} \subseteq {l \in K : l <= k} /\ IsFiniteSet({k}) /\ Cardinality({k}) = 1
    <3>1. k \in Int /\ k <= k
      OBVIOUS
    <3> QED
      BY <3>1, FS_Singleton
  <2>3. IsFiniteSet({l \in K : l <= k})
    <3>1. {l \in K : l <= k} \in SUBSET K
      OBVIOUS
    <3> QED
      BY <3>1, FS_Subset
  <2>4. 1 <= x
    BY <2>2, <2>3, FS_Subset DEF Rank
  <2>5. k \in Int
    OBVIOUS
  <2>6. x \in Nat /\ x <= Cardinality(K) /\ Cardinality(K) \in Nat
    BY <2>5, RankIs
  <2> QED
    BY <2>4, <2>6
<1>2. \A l \in K : Rank(K, l) = x => l = k
  <2>1. ASSUME NEW l \in K, Rank(K, l) = x, l # k PROVE FALSE
    <3>0. l \in Int /\ k \in Int
      OBVIOUS
    <3>1. l < k \/ k < l
      BY <2>1, <3>0
    <3>2. Rank(K, l) # Rank(K, k)
      <4>1. Rank(K, l) \in Nat /\ Rank(K, k) \in Nat
        BY <3>0, RankIs
      <4> QED
        BY <3>1, <4>1, RankGrows
    <3> QED
      BY <2>1, <3>2
  <2> QED
    BY <2>1
<1>3. (CHOOSE l \in K : Rank(K, l) = x) = k
  <2> HIDE DEF x
  <2>1. Rank(K, k) = x
    BY DEF x
  <2> QED
    BY <1>2, <2>1
<1> QED
  BY <1>1, <1>3 DEF InOrder

LEMMA InOrderAppends ==
  ASSUME NEW K \in SUBSET Int, IsFiniteSet(K), NEW k \in Int, \A l \in K : l < k
  PROVE  /\ IsFiniteSet(K \cup {k}) /\ Cardinality(K \cup {k}) = Cardinality(K) + 1
         /\ InOrder(K \cup {k}) = [x \in 1..(Cardinality(K) + 1) |->
                                     IF x <= Cardinality(K) THEN InOrder(K)[x] ELSE k]
<1> DEFINE L == K \cup {k}
           c == Cardinality(K)
<1>1. IsFiniteSet(L) /\ Cardinality(L) = c + 1 /\ c \in Nat /\ L \in SUBSET Int /\ k \in L
  <2>1. k \notin K
    OBVIOUS
  <2> QED
    BY <2>1, FS_AddElement, FS_CardinalityType
<1>2. \A l \in K : Rank(L, l) = Rank(K, l)
  <2>1. \A l \in K : {x \in L : x <= l} = {x \in K : x <= l}
    OBVIOUS
  <2> QED
    BY <2>1 DEF Rank
<1>3. Rank(L, k) = c + 1
  <2>1. {x \in L : x <= k} = L
    <3>1. \A x \in L : x \in Int /\ x <= k
      OBVIOUS
    <3> QED
      BY <3>1
  <2> QED
    BY <1>1, <2>1 DEF Rank
<1>4. ASSUME NEW x \in 1..(c + 1)
      PROVE  (CHOOSE l \in L : Rank(L, l) = x) = IF x <= c THEN InOrder(K)[x] ELSE k
  <2>1. CASE x <= c
    <3>1. {l \in L : Rank(L, l) = x} = {l \in K : Rank(K, l) = x}
      <4>1. Rank(L, k) # x
        BY <1>1, <1>3, <2>1
      <4> QED
        BY <1>2, <4>1
    <3>2. (CHOOSE l \in {y \in L : Rank(L, y) = x} : TRUE)
            = CHOOSE l \in {y \in K : Rank(K, y) = x} : TRUE
      BY <3>1
    <3>3. (CHOOSE l \in L : Rank(L, l) = x) = CHOOSE l \in K : Rank(K, l) = x
      <4>1. \A l : (l \in L /\ Rank(L, l) = x) <=> (l \in K /\ Rank(K, l) = x)
        BY <3>1
      <4> HIDE DEF L
      <4> QED
        BY <4>1
    <3> QED
      BY <1>1, <2>1, <3>3 DEF InOrder
  <2>2. CASE ~(x <= c)
    <3>1. x = c + 1
      BY <1>1, <2>2
    <3>2. InOrder(L)[Rank(L, k)] = k
      BY <1>1, InOrderIs
    <3> QED
      BY <1>1, <1>3, <2>2, <3>1, <3>2 DEF InOrder
  <2> QED
    BY <2>1, <2>2
<1>5. InOrder(L) = [x \in 1..(c + 1) |-> IF x <= c THEN InOrder(K)[x] ELSE k]
  <2>1. InOrder(L) = [x \in 1..(c + 1) |-> CHOOSE l \in L : Rank(L, l) = x]
    BY <1>1 DEF InOrder
  <2> HIDE DEF L, c
  <2> QED
    BY <1>4, <2>1
<1> QED
  BY <1>1, <1>5

-----------------------------------------------------------------------------
(* Numbers.  strtoull stops at the first character that is no digit of the  *)
(* base, and its cutoff notices every overflow: `any' is negative exactly   *)
(* if the digits read so far are worth more than ULLMax.                    *)
LEMMA DigitIs == ASSUME NEW c PROVE DigitOf(c) \in Nat
<1>1. DigitOf(c) \in 0..99
  BY DEF DigitOf
<1> QED
  BY <1>1

LEMMA BaseIs10 == ASSUME NEW s PROVE BaseOf(s) \in {8, 10, 16}
  BY DEF BaseOf

(* How many characters are digits.                                          *)
LEMMA CountIs ==
  ASSUME NEW s, Len(s) \in Nat, NEW base \in {8, 10, 16}
  PROVE  LET c == DigitCount(s, base) IN
         /\ c \in 0..Len(s) /\ \A k \in 1..c : DigitOf(s[k]) < base
         /\ c = Len(s) \/ DigitOf(s[c + 1]) >= base
<1> DEFINE Z == {k \in Nat : k <= Len(s) /\ (k = Len(s) \/ DigitOf(s[k + 1]) >= base)}
           Is(k) == /\ \A l \in 1..k : DigitOf(s[l]) < base
                    /\ k = Len(s) \/ DigitOf(s[k + 1]) >= base
<1>1. PICK c \in Z : \A k \in Z : c <= k
  <2>1. Z \subseteq Nat /\ Len(s) \in Z
    OBVIOUS
  <2> HIDE DEF Z
  <2> QED
    BY <2>1, Least
<1>2. c \in 0..Len(s) /\ Is(c)
  <2>1. ASSUME NEW l \in 1..c PROVE DigitOf(s[l]) < base
    <3>1. l - 1 \in Nat /\ l - 1 < c /\ c <= Len(s) /\ (l - 1) + 1 = l
      OBVIOUS
    <3>2. l - 1 \notin Z
      <4> HIDE DEF Z
      <4>1. l - 1 \in Z => c <= l - 1
        BY <1>1
      <4>2. c \in Nat
        BY <1>1 DEF Z
      <4> QED
        BY <3>1, <4>1, <4>2
    <3>3. DigitOf(s[l]) \in Nat
      BY DigitIs
    <3>4. ~(DigitOf(s[(l - 1) + 1]) >= base)
      <4>1. l - 1 <= Len(s)
        BY <3>1
      <4> QED
        BY <3>1, <3>2, <4>1
    <3>5. ~(DigitOf(s[l]) >= base)
      BY <3>1, <3>4
    <3> QED
      BY <3>3, <3>5
  <2> QED
    BY <2>1
<1> DEFINE e == CHOOSE k \in 0..Len(s) : Is(k)
<1>3. e \in 0..Len(s) /\ Is(e)
  <2> HIDE DEF Is
  <2> QED
    BY <1>2
<1>4. DigitCount(s, base) = e
  BY DEF DigitCount
<1> QED
  BY <1>3, <1>4

(* f follows the values of the digits, g the rounds of the loop.            *)
IsValue(s, base, f, h) == f[0] = 0 /\ \A k \in 1..h : f[k] = base * f[k - 1] + DigitOf(s[k])
IsRead(s, base, g, h) ==
  /\ g[0] = [any |-> 0, val |-> 0, more |-> TRUE]
  /\ \A k \in 1..h : g[k] = CL!AddDigit(g[k - 1], DigitOf(s[k]), base)

LEMMA ValueExists ==
  ASSUME NEW s, Len(s) \in Nat, NEW base \in {8, 10, 16}
  PROVE  \E f : IsValue(s, base, f, Len(s)) /\ f = [k \in 0..Len(s) |-> f[k]]
<1> DEFINE S == {h \in Nat : \E f : IsValue(s, base, f, h) /\ f = [k \in 0..h |-> f[k]]}
<1>1. 0 \in S
  <2>1. LET f == [k \in 0..0 |-> 0] IN IsValue(s, base, f, 0) /\ f = [k \in 0..0 |-> f[k]]
    BY DEF IsValue
  <2> QED
    BY <2>1
<1>2. ASSUME NEW h \in S PROVE h + 1 \in S
  <2>1. PICK f : IsValue(s, base, f, h) /\ f = [k \in 0..h |-> f[k]]
    OBVIOUS
  <2> DEFINE g == [k \in 0..(h + 1) |-> IF k <= h THEN f[k] ELSE base * f[h] + DigitOf(s[h + 1])]
  <2>2. h \in Nat /\ g[0] = 0
    BY <2>1 DEF IsValue
  <2>3. ASSUME NEW k \in 1..(h + 1) PROVE g[k] = base * g[k - 1] + DigitOf(s[k])
    <3>1. CASE k = h + 1
      BY <2>2, <3>1
    <3>2. CASE k <= h
      <4>1. k \in 1..h /\ k - 1 \in 0..(h + 1) /\ k - 1 <= h /\ k \in 0..(h + 1)
        BY <2>2, <3>2
      <4> QED
        BY <2>1, <3>2, <4>1 DEF IsValue
    <3> QED
      BY <2>2, <3>1, <3>2
  <2>4. IsValue(s, base, g, h + 1) /\ g = [k \in 0..(h + 1) |-> g[k]]
    BY <2>2, <2>3 DEF IsValue
  <2> QED
    BY <2>2, <2>4
<1>3. \A h \in Nat : h \in S
  <2>1. S \subseteq Nat
    OBVIOUS
  <2> HIDE DEF S
  <2> QED
    BY <1>1, <1>2, <2>1, Induction
<1> QED
  BY <1>3

LEMMA ValueOfIs ==
  ASSUME NEW s, Len(s) \in Nat, NEW base \in {8, 10, 16}
  PROVE  IsValue(s, base, ValueOf(s, base), Len(s))
<1> DEFINE Is(f) == f = [k \in 0..Len(s) |-> IF k = 0 THEN 0 ELSE base * f[k - 1] + DigitOf(s[k])]
           val == CHOOSE f : Is(f)
<1>1. PICK f : IsValue(s, base, f, Len(s)) /\ f = [k \in 0..Len(s) |-> f[k]]
  BY ValueExists
<1>2. Is(f)
  <2>1. \A k \in 0..Len(s) : f[k] = IF k = 0 THEN 0 ELSE base * f[k - 1] + DigitOf(s[k])
    BY <1>1 DEF IsValue
  <2> QED
    BY <1>1, <2>1
<1>3. Is(val)
  <2> HIDE DEF Is
  <2> QED
    BY <1>2, Zenon
<1>4. ValueOf(s, base) = val
  BY DEF ValueOf
<1> HIDE DEF val
<1>5. \A k \in 0..Len(s) : val[k] = IF k = 0 THEN 0 ELSE base * val[k - 1] + DigitOf(s[k])
  BY <1>3
<1> QED
  BY <1>4, <1>5 DEF IsValue

LEMMA ReadExists ==
  ASSUME NEW s, Len(s) \in Nat, NEW base
  PROVE  \E g : IsRead(s, base, g, Len(s)) /\ g = [k \in 0..Len(s) |-> g[k]]
<1> DEFINE S == {h \in Nat : \E g : IsRead(s, base, g, h) /\ g = [k \in 0..h |-> g[k]]}
<1>1. 0 \in S
  <2>1. LET g == [k \in 0..0 |-> [any |-> 0, val |-> 0, more |-> TRUE]]
        IN  IsRead(s, base, g, 0) /\ g = [k \in 0..0 |-> g[k]]
    BY DEF IsRead
  <2> QED
    BY <2>1
<1>2. ASSUME NEW h \in S PROVE h + 1 \in S
  <2>1. PICK f : IsRead(s, base, f, h) /\ f = [k \in 0..h |-> f[k]]
    OBVIOUS
  <2> DEFINE g == [k \in 0..(h + 1) |-> IF k <= h THEN f[k] ELSE CL!AddDigit(f[h], DigitOf(s[h + 1]), base)]
  <2>2. h \in Nat /\ g[0] = f[0]
    BY <2>1
  <2>3. ASSUME NEW k \in 1..(h + 1) PROVE g[k] = CL!AddDigit(g[k - 1], DigitOf(s[k]), base)
    <3>1. CASE k = h + 1
      BY <2>2, <3>1
    <3>2. CASE k <= h
      <4>1. k \in 1..h /\ k - 1 \in 0..(h + 1) /\ k - 1 <= h /\ k \in 0..(h + 1)
        BY <2>2, <3>2
      <4> QED
        BY <2>1, <3>2, <4>1 DEF IsRead
    <3> QED
      BY <2>2, <3>1, <3>2
  <2>4. IsRead(s, base, g, h + 1) /\ g = [k \in 0..(h + 1) |-> g[k]]
    BY <2>1, <2>2, <2>3 DEF IsRead
  <2> QED
    BY <2>2, <2>4
<1>3. \A h \in Nat : h \in S
  <2>1. S \subseteq Nat
    OBVIOUS
  <2> HIDE DEF S
  <2> QED
    BY <1>1, <1>2, <2>1, Induction
<1> QED
  BY <1>3

LEMMA AccumulatedIs ==
  ASSUME NEW s, Len(s) \in Nat, NEW base
  PROVE  \E g : IsRead(s, base, g, Len(s)) /\ CL!Accumulated(s, base) = g[Len(s)]
<1> DEFINE Is(g) == g = [k \in 0..Len(s) |->
                           IF k = 0 THEN [any |-> 0, val |-> 0, more |-> TRUE]
                                    ELSE CL!AddDigit(g[k - 1], DigitOf(s[k]), base)]
           acc == CHOOSE g : Is(g)
<1>1. PICK g : IsRead(s, base, g, Len(s)) /\ g = [k \in 0..Len(s) |-> g[k]]
  BY ReadExists
<1>2. Is(g)
  <2>1. \A k \in 0..Len(s) : g[k] = IF k = 0 THEN [any |-> 0, val |-> 0, more |-> TRUE]
                                     ELSE CL!AddDigit(g[k - 1], DigitOf(s[k]), base)
    <3>1. g[0] = [any |-> 0, val |-> 0, more |-> TRUE]
      BY <1>1 DEF IsRead
    <3>2. \A k \in 1..Len(s) : g[k] = CL!AddDigit(g[k - 1], DigitOf(s[k]), base)
      BY <1>1 DEF IsRead
    <3>3. \A k \in 0..Len(s) : k = 0 \/ k \in 1..Len(s)
      OBVIOUS
    <3> QED
      BY <3>1, <3>2, <3>3, Zenon
  <2> QED
    BY <1>1, <2>1
<1>3. Is(acc)
  <2> HIDE DEF Is
  <2> QED
    BY <1>2, Zenon
<1>4. CL!Accumulated(s, base) = acc[Len(s)]
  BY DEF CL!Accumulated, CL!DigitOf, DigitOf, CL!DigitChars, DigitChars
<1> HIDE DEF acc
<1>5. \A k \in 0..Len(s) : acc[k] = IF k = 0 THEN [any |-> 0, val |-> 0, more |-> TRUE]
                                     ELSE CL!AddDigit(acc[k - 1], DigitOf(s[k]), base)
  BY <1>3
<1>6. IsRead(s, base, acc, Len(s))
  BY <1>5 DEF IsRead
<1> QED
  BY <1>4, <1>6


(* A digit of the base makes a number larger.                               *)
LEMMA MoreDigits ==
  ASSUME NEW base \in {8, 10, 16}, NEW a \in Nat, NEW c \in Nat
  PROVE  base * a + c \in Nat /\ a <= base * a + c
  OBVIOUS

(* The cutoff: another digit fits exactly if the cutoff does not forbid it. *)
LEMMA CutoffIsRight ==
  ASSUME ULLMax \in Nat, NEW base \in {8, 10, 16}, NEW a \in Nat, NEW c \in Nat, c < base
  PROVE  (a > ULLMax \div base \/ (a = ULLMax \div base /\ c > ULLMax % base))
           <=> base * a + c > ULLMax
<1> DEFINE Q == ULLMax \div base
           R == ULLMax % base
<1>1. ULLMax = base * Q + R /\ R \in 0..(base - 1) /\ Q \in Nat
  <2>1. ULLMax \in Int /\ base \in Nat \ {0} /\ ULLMax >= 0
    OBVIOUS
  <2> QED
    BY <2>1, DivMod
<1> HIDE DEF Q, R
<1>2. CASE a = Q
  BY <1>1, <1>2
<1>3. CASE a > Q
  <2>1. a >= Q + 1
    BY <1>1, <1>3
  <2>2. base * a >= base * Q + base
    BY <1>1, <2>1
  <2> QED
    BY <1>1, <1>3, <2>2
<1>4. CASE a < Q
  <2>1. a + 1 <= Q
    BY <1>1, <1>4
  <2>2. base * a + base <= base * Q
    BY <1>1, <2>1
  <2> QED
    BY <1>1, <1>4, <2>2
<1>5. a = Q \/ a > Q \/ a < Q
  BY <1>1
<1> QED
  BY <1>2, <1>3, <1>4, <1>5 DEF Q, R

(* What the loop knows after the first k characters.                        *)
Reads(r, x) ==
  /\ r.any \in Int /\ r.val \in Nat /\ r.more \in BOOLEAN
  /\ r = [any |-> r.any, val |-> r.val, more |-> r.more]
  /\ IF r.any < 0 THEN x > ULLMax ELSE r.val = x /\ x <= ULLMax

LEMMA RoundReads ==
  ASSUME ULLMax \in Nat, NEW base \in {8, 10, 16}, NEW r, NEW x \in Nat, Reads(r, x),
         NEW c \in Nat
  PROVE  /\ r.more /\ c < base =>
              Reads(CL!AddDigit(r, c, base), base * x + c) /\ CL!AddDigit(r, c, base).more
         /\ ~(r.more /\ c < base) => Reads(CL!AddDigit(r, c, base), x) /\ ~CL!AddDigit(r, c, base).more
<1>1. /\ r.any \in Int /\ r.val \in Nat /\ r.more \in BOOLEAN
      /\ r = [any |-> r.any, val |-> r.val, more |-> r.more]
  BY DEF Reads
<1>2. base * x + c \in Nat /\ x <= base * x + c
  BY MoreDigits
<1>3. CASE ~(r.more /\ c < base)
  <2>1. CL!AddDigit(r, c, base) = [r EXCEPT !.more = FALSE]
    BY <1>3 DEF CL!AddDigit
  <2>2. CL!AddDigit(r, c, base) = [any |-> r.any, val |-> r.val, more |-> FALSE]
    BY <1>1, <2>1
  <2> HIDE DEF CL!AddDigit
  <2> QED
    BY <1>1, <1>3, <2>2 DEF Reads
<1>4. CASE r.more /\ c < base /\ (r.any < 0 \/ base * r.val + c > ULLMax)
  <2>1. r.any < 0 \/ r.val > ULLMax \div base \/ (r.val = ULLMax \div base /\ c > ULLMax % base)
    BY <1>1, <1>4, CutoffIsRight
  <2>2. CL!AddDigit(r, c, base) = [r EXCEPT !.any = -1]
    BY <1>4, <2>1 DEF CL!AddDigit
  <2>3. CL!AddDigit(r, c, base) = [any |-> -1, val |-> r.val, more |-> TRUE]
    BY <1>1, <1>4, <2>2
  <2>4. base * x + c > ULLMax
    BY <1>2, <1>4 DEF Reads
  <2> QED
    BY <1>1, <1>2, <1>4, <2>3, <2>4 DEF Reads
<1>5. CASE r.more /\ c < base /\ ~(r.any < 0) /\ ~(base * r.val + c > ULLMax)
  <2>1. ~(r.any < 0 \/ r.val > ULLMax \div base \/ (r.val = ULLMax \div base /\ c > ULLMax % base))
    BY <1>1, <1>5, CutoffIsRight
  <2>2. CL!AddDigit(r, c, base) = [r EXCEPT !.any = 1, !.val = r.val * base + c]
    BY <1>5, <2>1 DEF CL!AddDigit
  <2>3. CL!AddDigit(r, c, base) = [any |-> 1, val |-> r.val * base + c, more |-> TRUE]
    BY <1>1, <1>5, <2>2
  <2>4. r.val = x /\ r.val * base + c = base * x + c
    BY <1>1, <1>5 DEF Reads
  <2> QED
    BY <1>1, <1>2, <1>5, <2>3, <2>4 DEF Reads
<1> QED
  BY <1>3, <1>4, <1>5

LEMMA AccumulatedReads ==
  ASSUME ULLMax \in Nat, NEW s, Len(s) \in Nat, NEW base \in {8, 10, 16}
  PROVE  LET x == ValueOf(s, base)[DigitCount(s, base)] IN
         x \in Nat /\ Reads(CL!Accumulated(s, base), x)
<1> DEFINE f == ValueOf(s, base)
           c == DigitCount(s, base)
<1>1. IsValue(s, base, f, Len(s))
  BY ValueOfIs
<1>2. PICK g : IsRead(s, base, g, Len(s)) /\ CL!Accumulated(s, base) = g[Len(s)]
  BY AccumulatedIs
<1>3. /\ c \in 0..Len(s) /\ \A k \in 1..c : DigitOf(s[k]) < base
      /\ c = Len(s) \/ DigitOf(s[c + 1]) >= base
  BY CountIs
<1> DEFINE Good(k) == IF k <= c THEN f[k] \in Nat /\ Reads(g[k], f[k]) /\ g[k].more
                                ELSE f[c] \in Nat /\ Reads(g[k], f[c]) /\ ~g[k].more
           S == {k \in Nat : k <= Len(s) => Good(k)}
<1> HIDE DEF f, c
<1>4. 0 \in S
  <2>1. f[0] = 0 /\ g[0] = [any |-> 0, val |-> 0, more |-> TRUE]
    BY <1>1, <1>2 DEF IsValue, IsRead
  <2>2. Reads([any |-> 0, val |-> 0, more |-> TRUE], 0)
    BY DEF Reads
  <2>3. Good(0)
    BY <1>3, <2>1, <2>2
  <2> QED
    BY <2>3
<1>5. ASSUME NEW k \in S PROVE k + 1 \in S
  <2> SUFFICES ASSUME k + 1 <= Len(s) PROVE Good(k + 1)
    OBVIOUS
  <2>1. k \in Nat /\ k + 1 \in 1..Len(s) /\ (k + 1) - 1 = k
    OBVIOUS
  <2>2. Good(k)
    OBVIOUS
  <2>3. g[k + 1] = CL!AddDigit(g[k], DigitOf(s[k + 1]), base)
    BY <1>2, <2>1 DEF IsRead
  <2>4. f[k + 1] = base * f[k] + DigitOf(s[k + 1])
    BY <1>1, <2>1 DEF IsValue
  <2> DEFINE e == DigitOf(s[k + 1])
             a == g[k]
             b == CL!AddDigit(a, e, base)
  <2>5. e \in Nat /\ g[k + 1] = b
    BY <2>3, DigitIs, Zenon
  <2> HIDE DEF e, a, b
  <2>6. CASE k + 1 <= c
    <3>1. k + 1 \in 1..c /\ k <= c
      BY <1>3, <2>1, <2>6
    <3>2. e < base
      BY <1>3, <3>1 DEF e
    <3>3. f[k] \in Nat /\ Reads(g[k], f[k]) /\ g[k].more
      BY <2>2, <3>1
    <3>4. Reads(g[k + 1], base * f[k] + e) /\ g[k + 1].more
      <4>1. Reads(a, f[k]) /\ a.more
        BY <3>3 DEF a
      <4>2. Reads(b, base * f[k] + e) /\ b.more
        BY <2>5, <3>2, <3>3, <4>1, RoundReads DEF b
      <4> QED
        BY <2>5, <4>2
    <3>5. base * f[k] + e \in Nat
      BY <2>5, <3>3, MoreDigits DEF e
    <3> QED
      BY <2>4, <2>6, <3>4, <3>5 DEF e
  <2>7. CASE k = c
    <3>1. e >= base /\ k <= c
      BY <1>3, <2>1, <2>7 DEF e
    <3>2. f[c] \in Nat /\ Reads(g[k], f[c])
      BY <2>2, <2>7, <3>1
    <3>3. Reads(g[k + 1], f[c]) /\ ~g[k + 1].more
      <4>1. ~(e < base)
        BY <2>5, <3>1
      <4>2. Reads(a, f[c])
        BY <3>2 DEF a
      <4>3. Reads(b, f[c]) /\ ~b.more
        BY <2>5, <3>2, <4>1, <4>2, RoundReads DEF b
      <4> QED
        BY <2>5, <4>3
    <3>4. ~(k + 1 <= c)
      BY <2>1, <2>7
    <3> QED
      BY <3>2, <3>3, <3>4
  <2>8. CASE k > c
    <3>1. ~(k <= c) /\ ~(k + 1 <= c)
      BY <1>3, <2>1, <2>8
    <3>2. f[c] \in Nat /\ Reads(g[k], f[c]) /\ ~g[k].more
      BY <2>2, <3>1
    <3>3. Reads(g[k + 1], f[c]) /\ ~g[k + 1].more
      <4>1. Reads(a, f[c]) /\ ~a.more
        BY <3>2 DEF a
      <4>2. Reads(b, f[c]) /\ ~b.more
        BY <2>5, <3>2, <4>1, RoundReads DEF b
      <4> QED
        BY <2>5, <4>2
    <3> QED
      BY <3>1, <3>2, <3>3
  <2>9. k + 1 <= c \/ k = c \/ k > c
    BY <1>3, <2>1
  <2> QED
    BY <2>6, <2>7, <2>8, <2>9
<1>6. \A k \in Nat : k \in S
  <2>1. S \subseteq Nat
    OBVIOUS
  <2> HIDE DEF S
  <2> QED
    BY <1>4, <1>5, <2>1, Induction
<1>7. Good(Len(s))
  BY <1>6
<1>8. f[c] \in Nat /\ Reads(g[Len(s)], f[c])
  BY <1>3, <1>7
<1> QED
  BY <1>2, <1>8 DEF f, c

(* strtoull: every number is read, and one that is too large as the largest.*)
LEMMA StrtoullIs ==
  ASSUME ULLMax \in Nat, NEW s \in Seq(STRING) PROVE CL!Strtoull(s) = Number(s)
<1> DEFINE w == Unsigned(s)
           t == DigitsOf(w)
           base == BaseOf(w)
           r == CL!Accumulated(t, base)
           x == ValueOf(t, base)[DigitCount(t, base)]
<1>1. w \in Seq(STRING)
  BY HeadTailProperties DEF Unsigned
<1>2. Len(t) \in Nat
  <2> HIDE DEF w
  <2>1. Len(w) \in Nat /\ \A k \in 1..Len(w) : w[k] \in STRING
    BY <1>1
  <2>2. Len(w) >= 3 => Len(SubSeq(w, 3, Len(w))) \in Nat
    BY <1>1, <2>1, SubSeqProperties
  <2> QED
    BY <2>1, <2>2 DEF DigitsOf, Prefixed
<1>3. base \in {8, 10, 16}
  BY BaseIs10
<1>4. x \in Nat /\ Reads(r, x)
  <2> HIDE DEF t, base, w
  <2> QED
    BY <1>2, <1>3, AccumulatedReads
<1>5. CL!Strtoull(s) = IF r.any < 0 THEN ULLMax
                    ELSE IF s # <<>> /\ Head(s) = "-" THEN (ULLMax + 1 - r.val) % (ULLMax + 1)
                    ELSE r.val
  BY SameNumbers DEF CL!Strtoull
<1>6. Number(s) = IF x > ULLMax THEN ULLMax
                  ELSE IF s # <<>> /\ Head(s) = "-" /\ x # 0 THEN ULLMax + 1 - x ELSE x
  BY DEF Number
<1> HIDE DEF r, x, t, base, w
<1>7. CASE r.any < 0
  BY <1>4, <1>5, <1>6, <1>7 DEF Reads
<1>8. CASE ~(r.any < 0)
  <2>1. r.val = x /\ x <= ULLMax /\ ~(x > ULLMax)
    BY <1>4, <1>8 DEF Reads
  <2>2. x # 0 => (ULLMax + 1 - x) % (ULLMax + 1) = ULLMax + 1 - x
    BY <1>4, <2>1
  <2>3. x = 0 => (ULLMax + 1 - x) % (ULLMax + 1) = 0
    BY <1>4
  <2> QED
    BY <1>4, <1>5, <1>6, <1>8, <2>1, <2>2, <2>3
<1> QED
  BY <1>7, <1>8


-----------------------------------------------------------------------------
(* Strings in the buffer.                                                   *)
LEMMA EndOfRunIs ==
  ASSUME Len(Line) \in Nat, NEW S, NEW k \in 1..Len(Line), NEW e \in k..Len(Line),
         \A x \in k..e : Line[x] \notin S, e = Len(Line) \/ Line[e + 1] \in S
  PROVE  EndOfRun(k, S) = e
<1> DEFINE Is(y) == /\ \A x \in k..y : Line[x] \notin S
                    /\ y = Len(Line) \/ Line[y + 1] \in S
<1>1. ASSUME NEW y \in k..Len(Line), Is(y), y # e PROVE FALSE
  <2>1. CASE y < e
    <3>1. y + 1 \in k..e /\ y # Len(Line)
      BY <2>1
    <3> QED
      BY <1>1, <3>1
  <2>2. CASE y > e
    <3>1. e + 1 \in k..y /\ e # Len(Line)
      BY <2>2
    <3> QED
      BY <1>1, <3>1
  <2> QED
    BY <1>1, <2>1, <2>2
<1>2. Is(e)
  OBVIOUS
<1>3. EndOfRun(k, S) = CHOOSE y \in k..Len(Line) : Is(y)
  BY DEF EndOfRun
<1> HIDE DEF Is
<1> QED
  BY <1>1, <1>2, <1>3

LEMMA FirstFromIs ==
  ASSUME NEW f, Len(f) \in Nat, NEW S, NEW k \in Int, NEW e \in k..Len(f),
         f[e] \in S, \A x \in k..(e - 1) : f[x] \notin S
  PROVE  CL!FirstFrom(f, k, S) = e
<1> DEFINE Is(y) == f[y] \in S /\ \A x \in k..(y - 1) : f[x] \notin S
<1>1. ASSUME NEW y \in k..Len(f), Is(y), y # e PROVE FALSE
  <2>1. y \in k..(e - 1) \/ e \in k..(y - 1)
    BY <1>1
  <2> QED
    BY <1>1, <2>1
<1>2. CL!FirstFrom(f, k, S) = CHOOSE y \in k..Len(f) : Is(y)
  BY DEF CL!FirstFrom
<1>3. Is(e)
  OBVIOUS
<1> HIDE DEF Is
<1> QED
  BY <1>1, <1>2, <1>3

LEMMA FirstNotInIs ==
  ASSUME NEW f, Len(f) \in Nat, NEW c, NEW k \in Int, NEW e \in k..Len(f),
         f[e] # c, \A x \in k..(e - 1) : f[x] = c
  PROVE  CL!FirstNotIn(f, k, c) = e
<1> DEFINE Is(y) == f[y] # c /\ \A x \in k..(y - 1) : f[x] = c
<1>1. ASSUME NEW y \in k..Len(f), Is(y), y # e PROVE FALSE
  <2>1. y \in k..(e - 1) \/ e \in k..(y - 1)
    BY <1>1
  <2> QED
    BY <1>1, <2>1
<1>2. CL!FirstNotIn(f, k, c) = CHOOSE y \in k..Len(f) : Is(y)
  BY DEF CL!FirstNotIn
<1>3. Is(e)
  OBVIOUS
<1> HIDE DEF Is
<1> QED
  BY <1>1, <1>2, <1>3

(* The first place from k on that is in a set.                              *)
IsFirst(y, k, z, X) == y \in k..z /\ y \in X /\ \A x \in k..(y - 1) : x \notin X
LEMMA FirstPlace ==
  ASSUME NEW k \in Nat, NEW z \in Nat, NEW X \in SUBSET Nat, z \in X, k <= z
  PROVE  \E y : IsFirst(y, k, z, X)
<1> DEFINE T == {y \in Nat : k <= y /\ y \in X}
<1>1. T \subseteq Nat /\ T # {} /\ z \in T
  OBVIOUS
<1>2. PICK y \in T : \A x \in T : y <= x
  <2> HIDE DEF T
  <2> QED
    BY <1>1, Least
<1>3. y \in k..z
  <2>1. y <= z /\ y \in Nat /\ k <= y
    BY <1>1, <1>2
  <2> QED
    BY <2>1
<1>4. ASSUME NEW x \in k..(y - 1) PROVE x \notin X
  <2>1. x \in Nat /\ ~(y <= x) /\ k <= x
    BY <1>3
  <2> QED
    BY <1>2, <2>1
<1> QED
  BY <1>2, <1>3, <1>4 DEF IsFirst

(* strtok_r on a part of the buffer from `from' to the NUL at z: there is   *)
(* no token, or the first one is at k to e.                                 *)
Nothing(t, f, delim, from, z) ==
  t = [tok |-> 0, buf |-> f, save |-> 0] /\ \A x \in from..(z - 1) : f[x] = delim

IsToken(t, f, delim, from, z, k, e) ==
  /\ \A x \in from..(k - 1) : f[x] = delim
  /\ \A x \in k..e : f[x] # delim
  /\ \/ e = z - 1 /\ t = [tok |-> k, buf |-> f, save |-> 0]
     \/ e < z - 1 /\ f[e + 1] = delim
        /\ t = [tok |-> k, buf |-> [f EXCEPT ![e + 1] = CL!NUL], save |-> e + 2]

LEMMA StrtokIs ==
  ASSUME NEW f, Len(f) \in Nat, NEW delim, delim # CL!NUL, NEW s, NEW save, NEW from \in Nat \ {0},
         from = IF s = 0 THEN save ELSE s,
         NEW z \in from..Len(f), f[z] = CL!NUL, \A x \in from..(z - 1) : f[x] # CL!NUL
  PROVE  LET t == CL!Strtok(f, s, save, delim) IN
         \/ Nothing(t, f, delim, from, z)
         \/ \E k \in from..(z - 1) : \E e \in k..(z - 1) : IsToken(t, f, delim, from, z, k, e)
<1> DEFINE X == {x \in Nat : f[x] # delim}
           t == CL!Strtok(f, s, save, delim)
<1>0. from \in Nat /\ z \in Nat /\ z <= Len(f) /\ from <= z /\ z \in X
  OBVIOUS
<1>1. PICK k \in from..z : k \in X /\ \A x \in from..(k - 1) : x \notin X
  <2>1. X \in SUBSET Nat
    OBVIOUS
  <2> HIDE DEF X
  <2>2. \E y : IsFirst(y, from, z, X)
    BY <1>0, <2>1, FirstPlace
  <2> QED
    BY <2>2, Zenon DEF IsFirst
<1>2. k \in Nat /\ from <= k /\ k <= z /\ f[k] # delim /\ \A x \in from..(k - 1) : f[x] = delim
  BY <1>1
<1>3. CL!FirstNotIn(f, from, delim) = k
  <2>1. k \in from..Len(f) /\ from \in Int
    BY <1>0, <1>2
  <2> QED
    BY <1>2, <2>1, FirstNotInIs
<1>4. CASE k = z
  <2>1. t = [tok |-> 0, buf |-> f, save |-> 0]
    BY <1>3, <1>4 DEF CL!Strtok
  <2>2. Nothing(t, f, delim, from, z)
    BY <1>2, <1>4, <2>1 DEF Nothing
  <2> QED
    BY <2>2
<1>5. CASE k # z
  <2> DEFINE Y == {x \in Nat : f[x] \in {delim, CL!NUL}}
  <2>1. PICK y \in k..z : y \in Y /\ \A x \in k..(y - 1) : x \notin Y
    <3>1. z \in Y /\ Y \in SUBSET Nat
      BY <1>0
    <3> HIDE DEF Y
    <3>2. \E x : IsFirst(x, k, z, Y)
      BY <1>0, <1>2, <3>1, FirstPlace
    <3> QED
      BY <3>2, Zenon DEF IsFirst
  <2>2. /\ y \in Nat /\ k <= y /\ y <= z /\ f[y] \in {delim, CL!NUL}
        /\ \A x \in k..(y - 1) : f[x] \notin {delim, CL!NUL}
    BY <1>2, <2>1
  <2>3. k < y
    <3>1. k \in from..(z - 1)
      BY <1>0, <1>2, <1>5
    <3>2. f[k] # CL!NUL /\ f[k] # delim
      BY <1>2, <3>1
    <3> QED
      BY <1>2, <2>2, <3>2
  <2>4. CL!FirstFrom(f, k, {delim, CL!NUL}) = y
    <3>1. y \in k..Len(f) /\ k \in Int
      BY <1>0, <1>2, <2>2
    <3> QED
      BY <2>2, <3>1, FirstFromIs
  <2>5. f[k] # CL!NUL /\ k \in from..(z - 1)
    BY <1>0, <1>2, <1>5
  <2>6. t = IF f[y] = CL!NUL THEN [tok |-> k, buf |-> f, save |-> 0]
            ELSE [tok |-> k, buf |-> [f EXCEPT ![y] = CL!NUL], save |-> y + 1]
    BY <1>3, <2>4, <2>5 DEF CL!Strtok
  <2> HIDE DEF t
  <2>7. f[y] = CL!NUL <=> y = z
    <3>1. y # z => y \in from..(z - 1)
      BY <1>0, <1>2, <2>2
    <3> QED
      BY <3>1
  <2> DEFINE e == y - 1
  <2>8. e \in k..(z - 1) /\ e + 1 = y /\ e + 2 = y + 1 /\ e \in Int
    BY <1>2, <2>2, <2>3
  <2>9. \A x \in k..e : f[x] # delim
    BY <2>2
  <2> HIDE DEF e
  <2>10. IsToken(t, f, delim, from, z, k, e)
    <3>1. CASE y = z
      <4>1. e = z - 1
        BY <1>0, <2>8, <3>1
      <4> QED
        BY <1>2, <2>6, <2>7, <2>9, <3>1, <4>1 DEF IsToken
    <3>2. CASE y # z
      <4>1. e < z - 1 /\ f[y] = delim
        BY <1>0, <2>2, <2>7, <2>8, <3>2
      <4> QED
        BY <1>2, <2>6, <2>7, <2>8, <2>9, <3>2, <4>1 DEF IsToken
    <3> QED
      BY <3>1, <3>2
  <2>11. \E x \in from..(z - 1) : \E w \in x..(z - 1) : IsToken(t, f, delim, from, z, x, w)
    BY <2>5, <2>8, <2>10
  <2> QED
    BY <2>11 DEF t
<1> QED
  BY <1>4, <1>5

(* The string at k, which the line has there too.                           *)
LEMMA StrIs ==
  ASSUME NEW f, Len(f) \in Nat, Line \in Seq(STRING), NEW k \in 1..Len(Line),
         NEW e \in k..Len(Line), e < Len(f), f[e + 1] = CL!NUL,
         \A x \in k..e : f[x] = Line[x] /\ Line[x] # CL!NUL
  PROVE  CL!Str(f, k) = SubSeq(Line, k, e)
<1>1. CL!FirstFrom(f, k, {CL!NUL}) = e + 1
  <2>1. k \in Int /\ e + 1 \in k..Len(f) /\ (e + 1) - 1 = e
    OBVIOUS
  <2>2. f[e + 1] \in {CL!NUL} /\ \A x \in k..((e + 1) - 1) : f[x] \notin {CL!NUL}
    BY <2>1
  <2> HIDE DEF CL!NUL
  <2> QED
    BY <2>1, <2>2, FirstFromIs
<1>2. CL!Str(f, k) = SubSeq(f, k, e)
  <2>1. (e + 1) - 1 = e
    OBVIOUS
  <2> QED
    BY <1>1, <2>1 DEF CL!Str
<1>3. /\ SubSeq(Line, k, e) \in Seq(STRING) /\ Len(SubSeq(Line, k, e)) = e - k + 1
      /\ \A x \in 1..(e - k + 1) : SubSeq(Line, k, e)[x] = Line[k + x - 1]
  <2>1. \A x \in k..e : Line[x] \in STRING
    OBVIOUS
  <2> QED
    BY <2>1, SubSeqProperties
<1>4. /\ SubSeq(f, k, e) \in Seq(STRING) /\ Len(SubSeq(f, k, e)) = e - k + 1
      /\ \A x \in 1..(e - k + 1) : SubSeq(f, k, e)[x] = f[k + x - 1]
  <2>1. \A x \in k..e : f[x] \in STRING
    OBVIOUS
  <2> QED
    BY <2>1, SubSeqProperties
<1>5. \A x \in 1..(e - k + 1) : SubSeq(f, k, e)[x] = SubSeq(Line, k, e)[x]
  <2>1. \A x \in 1..(e - k + 1) : k + x - 1 \in k..e
    OBVIOUS
  <2> QED
    BY <1>3, <1>4, <2>1
<1> QED
  BY <1>2, <1>3, <1>4, <1>5, SeqEqual


-----------------------------------------------------------------------------
(* What a line says with one more option behind those at K.                 *)
LEMMA OrderMore ==
  ASSUME NEW K \in SUBSET (1..Len(Line)), Len(Line) \in Nat, NEW k \in 1..Len(Line), NEW c,
         \A l \in K : l < k
  PROVE  LET f == WithPrefix(K, c)
             g == WithPrefix(K \cup {k}, c)
         IN  /\ f = [x \in 1..Len(f) |-> f[x]] /\ Len(f) \in Nat
             /\ Line[k] # c => g = f
             /\ Line[k] = c => g = [x \in 1..(Len(f) + 1) |-> IF x <= Len(f) THEN f[x] ELSE k]
                               /\ Len(g) = Len(f) + 1
<1> DEFINE F == {l \in K : Line[l] = c}
           G == {l \in K \cup {k} : Line[l] = c}
           h == Cardinality(F)
<1>1. IsFiniteSet(F) /\ h \in Nat /\ F \in SUBSET Int
  <2>1. IsFiniteSet(1..Len(Line))
    BY FS_Interval
  <2>2. F \in SUBSET (1..Len(Line)) /\ F \in SUBSET Int
    <3>1. \A l \in F : l \in 1..Len(Line)
      OBVIOUS
    <3>2. \A l \in 1..Len(Line) : l \in Int
      OBVIOUS
    <3> QED
      BY <3>1, <3>2, Zenon
  <2> HIDE DEF F
  <2> QED
    BY <2>1, <2>2, FS_Subset, FS_CardinalityType
<1>2. \A l \in F : l < k
  OBVIOUS
<1>3. Line[k] # c => G = F
  OBVIOUS
<1>4. Line[k] = c => G = F \cup {k}
  OBVIOUS
<1>5. WithPrefix(K, c) = InOrder(F) /\ WithPrefix(K \cup {k}, c) = InOrder(G)
  BY DEF WithPrefix
<1> HIDE DEF F, G, h
<1>6. InOrder(F) = [x \in 1..h |-> CHOOSE l \in F : Rank(F, l) = x]
  BY DEF InOrder, h
<1>7. Len(InOrder(F)) = h /\ InOrder(F) = [x \in 1..h |-> InOrder(F)[x]]
  BY <1>1, <1>6
<1>8. Line[k] = c => InOrder(G) = [x \in 1..(h + 1) |-> IF x <= h THEN InOrder(F)[x] ELSE k]
  <2>1. k \in Int
    OBVIOUS
  <2> QED
    BY <1>1, <1>2, <1>4, <2>1, InOrderAppends DEF h
<1>9. Line[k] = c => Len(InOrder(G)) = h + 1
  BY <1>1, <1>8
<1> QED
  BY <1>1, <1>3, <1>5, <1>7, <1>8, <1>9

(* A sequence that goes on with one more element.                           *)
LEMMA AppendIs ==
  ASSUME NEW h \in Nat, NEW r, NEW t, NEW y, r = [x \in 1..h |-> r[x]],
         t = [x \in 1..(h + 1) |-> IF x <= h THEN r[x] ELSE y]
  PROVE  t = Append(r, y) /\ Len(r) = h /\ Len(t) = h + 1
<1> DEFINE T == {r[x] : x \in 1..h} \cup {y}
<1>1. r \in Seq(T) /\ Len(r) = h /\ y \in T
  <2>1. r \in [1..h -> T]
    OBVIOUS
  <2> HIDE DEF T
  <2>2. Len(r) = h
    OBVIOUS
  <2> QED
    BY <2>1, <2>2 DEF T
<1>2. t \in [1..(h + 1) -> T]
  OBVIOUS
<1> HIDE DEF T
<1>3. t \in Seq(T) /\ Len(t) = h + 1
  BY <1>2
<1>4. Append(r, y) \in Seq(T) /\ Len(Append(r, y)) = h + 1
  BY <1>1
<1>5. ASSUME NEW x \in 1..(h + 1) PROVE t[x] = Append(r, y)[x]
  <2>1. CASE x <= h
    <3>1. x \in 1..h
      BY <2>1
    <3> QED
      BY <1>1, <2>1, <3>1
  <2>2. CASE ~(x <= h)
    <3>1. x = h + 1
      BY <2>2
    <3> QED
      BY <1>1, <3>1
  <2> QED
    BY <2>1, <2>2
<1>6. t = Append(r, y)
  BY <1>3, <1>4, <1>5, SeqEqual
<1> QED
  BY <1>1, <1>3, <1>6

LEMMA RegionsMore ==
  ASSUME NEW K \in SUBSET (1..Len(Line)), Len(Line) \in Nat, NEW k \in 1..Len(Line), NEW c,
         \A l \in K : l < k
  PROVE  Regions(K \cup {k}, c) = IF Line[k] = c THEN Append(Regions(K, c), Region(k))
                                                 ELSE Regions(K, c)
<1> DEFINE f == WithPrefix(K, c)
           g == WithPrefix(K \cup {k}, c)
           h == Len(f)
           r == Regions(K, c)
           t == Regions(K \cup {k}, c)
<1>1. /\ h \in Nat
      /\ Line[k] # c => g = f
      /\ Line[k] = c => g = [x \in 1..(h + 1) |-> IF x <= h THEN f[x] ELSE k] /\ Len(g) = h + 1
  BY OrderMore
<1>2. r = [x \in 1..h |-> Region(f[x])] /\ t = [x \in 1..Len(g) |-> Region(g[x])]
  BY DEF Regions
<1> HIDE DEF f, g, h, r, t
<1>3. CASE Line[k] = c
  <2>1. \A x \in 1..(h + 1) : g[x] = IF x <= h THEN f[x] ELSE k
    BY <1>1, <1>3
  <2>2. \A x \in 1..h : r[x] = Region(f[x])
    BY <1>2
  <2>3. \A x \in 1..(h + 1) : x <= h => x \in 1..h
    BY <1>1
  <2>4. t = [x \in 1..(h + 1) |-> IF x <= h THEN r[x] ELSE Region(k)]
    BY <1>1, <1>2, <1>3, <2>1, <2>2, <2>3
  <2>5. r = [x \in 1..h |-> r[x]]
    BY <1>2
  <2>6. t = Append(r, Region(k))
    BY <1>1, <2>4, <2>5, AppendIs
  <2> QED
    BY <1>3, <2>6 DEF t, r
<1>4. CASE Line[k] # c
  BY <1>1, <1>2, <1>4 DEF t, r, h
<1> QED
  BY <1>3, <1>4

LEMMA DisabledMore ==
  ASSUME NEW K \in SUBSET (1..Len(Line)), Len(Line) \in Nat, NEW k \in 1..Len(Line),
         \A l \in K : l < k
  PROVE  Disabled(K \cup {k}) = IF Line[k] = "disabledmar=" THEN Append(Disabled(K), Argument(k, 1))
                                                            ELSE Disabled(K)
<1> DEFINE c == "disabledmar="
           f == WithPrefix(K, c)
           g == WithPrefix(K \cup {k}, c)
           h == Len(f)
           r == Disabled(K)
           t == Disabled(K \cup {k})
<1>1. /\ h \in Nat
      /\ Line[k] # c => g = f
      /\ Line[k] = c => g = [x \in 1..(h + 1) |-> IF x <= h THEN f[x] ELSE k] /\ Len(g) = h + 1
  BY OrderMore
<1>2. r = [x \in 1..h |-> Argument(f[x], 1)] /\ t = [x \in 1..Len(g) |-> Argument(g[x], 1)]
  BY DEF Disabled
<1> HIDE DEF f, g, h, r, t
<1>3. CASE Line[k] = c
  <2>1. \A x \in 1..(h + 1) : g[x] = IF x <= h THEN f[x] ELSE k
    BY <1>1, <1>3
  <2>2. \A x \in 1..h : r[x] = Argument(f[x], 1)
    BY <1>2
  <2>3. \A x \in 1..(h + 1) : x <= h => x \in 1..h
    BY <1>1
  <2>4. t = [x \in 1..(h + 1) |-> IF x <= h THEN r[x] ELSE Argument(k, 1)]
    BY <1>1, <1>2, <1>3, <2>1, <2>2, <2>3
  <2>5. r = [x \in 1..h |-> r[x]]
    BY <1>2
  <2>6. t = Append(r, Argument(k, 1))
    BY <1>1, <2>4, <2>5, AppendIs
  <2> QED
    BY <1>3, <2>6 DEF t, r
<1>4. CASE Line[k] # c
  BY <1>1, <1>2, <1>4 DEF t, r, h
<1> QED
  BY <1>3, <1>4


(* A whole token that is an option (strcmp).                                *)
Option(s) == IF Len(s) = 1 THEN Head(s) ELSE CL!NUL

LEMMA GivenMore ==
  ASSUME NEW K, NEW k, Word(k) \in Seq(STRING), NEW o, o # CL!NUL
  PROVE  /\ Word(k) = <<o>> <=> Option(Word(k)) = o
         /\ Given(K \cup {k}, o) <=> Given(K, o) \/ Option(Word(k)) = o
<1> DEFINE w == Word(k)
<1>1. w = <<o>> <=> Option(w) = o
  <2>0. w \in Seq(STRING)
    OBVIOUS
  <2> HIDE DEF w
  <2>1. w = <<o>> => Option(w) = o
    BY DEF Option
  <2>2. Option(w) = o => w = <<o>>
    <3>1. Len(w) = 1 => w = <<Head(w)>>
      <4>1. Len(w) = 1 => Head(w) = w[1] /\ Head(w) \in STRING
        BY <2>0
      <4>2. Len(w) = 1 => Len(<<Head(w)>>) = 1 /\ <<Head(w)>>[1] = w[1] /\ <<Head(w)>> \in Seq(STRING)
        BY <4>1
      <4> QED
        BY <2>0, <4>2, SeqEqual
    <3> QED
      BY <3>1 DEF Option
  <2> QED
    BY <2>1, <2>2
<1> QED
  BY <1>1 DEF Given

LEMMA SpeedMore ==
  ASSUME NEW K \in SUBSET Int, NEW k \in Int, \A l \in K : l < k, Word(k) \in Seq(STRING)
  PROVE  LET o == Option(Word(k)) IN
         LastSpeed(K \cup {k}) = IF o \in {"s100", "s200", "s400"} THEN o ELSE LastSpeed(K)
<1> DEFINE o == Option(Word(k))
           S == Speeds(K)
           T == Speeds(K \cup {k})
<1> SUFFICES LastSpeed(K \cup {k}) = IF o \in {"s100", "s200", "s400"} THEN o ELSE LastSpeed(K)
  OBVIOUS
<1>1. Word(k) \in {<<"s100">>, <<"s200">>, <<"s400">>} <=> o \in {"s100", "s200", "s400"}
  <2>1. \A x \in {"s100", "s200", "s400"} : x # CL!NUL
    BY DEF CL!NUL
  <2>2. \A x \in {"s100", "s200", "s400"} : Word(k) = <<x>> <=> o = x
    BY <2>1, GivenMore
  <2> HIDE DEF o
  <2> QED
    BY <2>2
<1>2. CASE o \in {"s100", "s200", "s400"}
  <2>1. k \in T /\ \A l \in T : l <= k /\ l \in Int
    BY <1>1, <1>2 DEF Speeds
  <2>2. T # {}
    BY <2>1
  <2> DEFINE Is(x) == \A l \in T : l <= x
  <2>3. \A x \in T : Is(x) => x = k
    <3> HIDE DEF T
    <3>1. ASSUME NEW x \in T, Is(x) PROVE x = k
      <4>1. k <= x /\ x <= k /\ x \in Int
        BY <2>1, <3>1
      <4> QED
        BY <4>1
    <3> HIDE DEF Is
    <3> QED
      BY <3>1
  <2>4. (CHOOSE x \in T : Is(x)) = k
    <3> HIDE DEF T
    <3>1. Is(k)
      BY <2>1
    <3> HIDE DEF Is
    <3> QED
      BY <2>1, <2>3, <3>1
  <2>5. LastSpeed(K \cup {k}) = Word(k)[1]
    BY <2>2, <2>4 DEF LastSpeed, Latest
  <2>6. Word(k) = <<o>>
    <3>1. o # CL!NUL
      BY <1>2 DEF CL!NUL
    <3> QED
      BY <3>1, GivenMore
  <2>7. Word(k)[1] = o
    <3> HIDE DEF o
    <3> QED
      BY <2>6
  <2>8. LastSpeed(K \cup {k}) = o
    BY <2>5, <2>7, Zenon
  <2> HIDE DEF o
  <2> QED
    BY <1>2, <2>8
<1>3. CASE ~(o \in {"s100", "s200", "s400"})
  <2>1. T = S
    BY <1>1, <1>3 DEF Speeds
  <2> DEFINE LastOf(X) == IF X = {} THEN "max" ELSE Word(Latest(X))[1]
  <2>2. LastSpeed(K) = LastOf(S) /\ LastSpeed(K \cup {k}) = LastOf(T)
    BY DEF LastSpeed
  <2> HIDE DEF LastOf
  <2>3. LastSpeed(K \cup {k}) = LastSpeed(K)
    BY <2>1, <2>2
  <2> QED
    BY <1>3, <2>3
<1> QED
  BY <1>2, <1>3

(* A configuration, field by field, and the change of one field.            *)
Configured(a, b, c, e, f, s, g, h, x, y, z) ==
  [apic |-> a, verbose |-> b, keepGoing |-> c, posted |-> e, wait |-> f,
   speed |-> s, promisc |-> g, physMax |-> h,
   fixups |-> x, additions |-> y, disabled |-> z]

Put(r, p, o) == [r EXCEPT ![p] = o]

LEMMA Reconfigured ==
  ASSUME NEW a, NEW b, NEW c, NEW e, NEW f, NEW s, NEW g, NEW h, NEW x, NEW y, NEW z, NEW o
  PROVE  LET r == Configured(a, b, c, e, f, s, g, h, x, y, z) IN
         /\ Put(r, "apic", o) = Configured(o, b, c, e, f, s, g, h, x, y, z)
         /\ Put(r, "verbose", o) = Configured(a, o, c, e, f, s, g, h, x, y, z)
         /\ Put(r, "keepGoing", o) = Configured(a, b, o, e, f, s, g, h, x, y, z)
         /\ Put(r, "posted", o) = Configured(a, b, c, o, f, s, g, h, x, y, z)
         /\ Put(r, "wait", o) = Configured(a, b, c, e, o, s, g, h, x, y, z)
         /\ Put(r, "speed", o) = Configured(a, b, c, e, f, o, g, h, x, y, z)
         /\ Put(r, "promisc", o) = Configured(a, b, c, e, f, s, o, h, x, y, z)
         /\ Put(r, "physMax", o) = Configured(a, b, c, e, f, s, g, o, x, y, z)
         /\ Put(r, "fixups", o) = Configured(a, b, c, e, f, s, g, h, o, y, z)
         /\ Put(r, "additions", o) = Configured(a, b, c, e, f, s, g, h, x, o, z)
         /\ Put(r, "disabled", o) = Configured(a, b, c, e, f, s, g, h, x, y, o)
<1> DEFINE r == Configured(a, b, c, e, f, s, g, h, x, y, z)
<1>1. r = [apic |-> a, verbose |-> b, keepGoing |-> c, posted |-> e, wait |-> f,
            speed |-> s, promisc |-> g, physMax |-> h,
            fixups |-> x, additions |-> y, disabled |-> z]
  BY DEF Configured
<1> HIDE DEF r
<1>2. ASSUME NEW t, t = Configured(o, b, c, e, f, s, g, h, x, y, z) PROVE Put(r, "apic", o) = t
  BY <1>1, <1>2 DEF Configured, Put
<1>3. ASSUME NEW t, t = Configured(a, o, c, e, f, s, g, h, x, y, z) PROVE Put(r, "verbose", o) = t
  BY <1>1, <1>3 DEF Configured, Put
<1>4. ASSUME NEW t, t = Configured(a, b, o, e, f, s, g, h, x, y, z) PROVE Put(r, "keepGoing", o) = t
  BY <1>1, <1>4 DEF Configured, Put
<1>5. ASSUME NEW t, t = Configured(a, b, c, o, f, s, g, h, x, y, z) PROVE Put(r, "posted", o) = t
  BY <1>1, <1>5 DEF Configured, Put
<1>6. ASSUME NEW t, t = Configured(a, b, c, e, o, s, g, h, x, y, z) PROVE Put(r, "wait", o) = t
  BY <1>1, <1>6 DEF Configured, Put
<1>7. ASSUME NEW t, t = Configured(a, b, c, e, f, o, g, h, x, y, z) PROVE Put(r, "speed", o) = t
  BY <1>1, <1>7 DEF Configured, Put
<1>8. ASSUME NEW t, t = Configured(a, b, c, e, f, s, o, h, x, y, z) PROVE Put(r, "promisc", o) = t
  BY <1>1, <1>8 DEF Configured, Put
<1>9. ASSUME NEW t, t = Configured(a, b, c, e, f, s, g, o, x, y, z) PROVE Put(r, "physMax", o) = t
  BY <1>1, <1>9 DEF Configured, Put
<1>10. ASSUME NEW t, t = Configured(a, b, c, e, f, s, g, h, o, y, z) PROVE Put(r, "fixups", o) = t
  BY <1>1, <1>10 DEF Configured, Put
<1>11. ASSUME NEW t, t = Configured(a, b, c, e, f, s, g, h, x, o, z) PROVE Put(r, "additions", o) = t
  BY <1>1, <1>11 DEF Configured, Put
<1>12. ASSUME NEW t, t = Configured(a, b, c, e, f, s, g, h, x, y, o) PROVE Put(r, "disabled", o) = t
  BY <1>1, <1>12 DEF Configured, Put
<1> QED
  BY <1>2, <1>3, <1>4, <1>5, <1>6, <1>7, <1>8, <1>9, <1>10, <1>11, <1>12 DEF r


OfMorbo(a, b, c, e, f, s) == Configured(a, b, c, e, f, s, FALSE, "2G", <<>>, <<>>, <<>>)
OfBender(g, h) == Configured(TRUE, TRUE, FALSE, FALSE, FALSE, "max", g, h, <<>>, <<>>, <<>>)
OfZapp(x, y, z) == Configured(TRUE, TRUE, FALSE, FALSE, FALSE, "max", FALSE, "2G", x, y, z)

LEMMA OfMorboMore ==
  ASSUME NEW a, NEW b, NEW c, NEW e, NEW f, NEW s, NEW o
  PROVE  /\ Put(OfMorbo(a, b, c, e, f, s), "apic", o) = OfMorbo(o, b, c, e, f, s)
         /\ Put(OfMorbo(a, b, c, e, f, s), "verbose", o) = OfMorbo(a, o, c, e, f, s)
         /\ Put(OfMorbo(a, b, c, e, f, s), "keepGoing", o) = OfMorbo(a, b, o, e, f, s)
         /\ Put(OfMorbo(a, b, c, e, f, s), "posted", o) = OfMorbo(a, b, c, o, f, s)
         /\ Put(OfMorbo(a, b, c, e, f, s), "wait", o) = OfMorbo(a, b, c, e, o, s)
         /\ Put(OfMorbo(a, b, c, e, f, s), "speed", o) = OfMorbo(a, b, c, e, f, o)
<1> DEFINE no == FALSE
           max == "2G"
           none == <<>>
           As(k1, k2, k3, k4, k5, k6) ==
             Configured(k1, k2, k3, k4, k5, k6, no, max, none, none, none)
<1>1. \A k1, k2, k3, k4, k5, k6 : OfMorbo(k1, k2, k3, k4, k5, k6) = As(k1, k2, k3, k4, k5, k6)
  BY DEF OfMorbo
<1> HIDE DEF no, max, none
<1>2. /\ Put(As(a, b, c, e, f, s), "apic", o) = As(o, b, c, e, f, s)
      /\ Put(As(a, b, c, e, f, s), "verbose", o) = As(a, o, c, e, f, s)
      /\ Put(As(a, b, c, e, f, s), "keepGoing", o) = As(a, b, o, e, f, s)
      /\ Put(As(a, b, c, e, f, s), "posted", o) = As(a, b, c, o, f, s)
      /\ Put(As(a, b, c, e, f, s), "wait", o) = As(a, b, c, e, o, s)
      /\ Put(As(a, b, c, e, f, s), "speed", o) = As(a, b, c, e, f, o)
  BY Reconfigured
<1> HIDE DEF As
<1> QED
  BY <1>1, <1>2

LEMMA OfBenderMore ==
  ASSUME NEW g, NEW h, NEW o
  PROVE  /\ Put(OfBender(g, h), "promisc", o) = OfBender(o, h)
         /\ Put(OfBender(g, h), "physMax", o) = OfBender(g, o)
<1> DEFINE no == FALSE
           yes == TRUE
           max == "max"
           none == <<>>
           As(k1, k2) == Configured(yes, yes, no, no, no, max, k1, k2, none, none, none)
<1>1. \A k1, k2 : OfBender(k1, k2) = As(k1, k2)
  BY DEF OfBender
<1> HIDE DEF no, yes, max, none
<1>2. Put(As(g, h), "promisc", o) = As(o, h) /\ Put(As(g, h), "physMax", o) = As(g, o)
  BY Reconfigured
<1> HIDE DEF As
<1> QED
  BY <1>1, <1>2

LEMMA OfZappMore ==
  ASSUME NEW x, NEW y, NEW z, NEW o
  PROVE  /\ Put(OfZapp(x, y, z), "fixups", o) = OfZapp(o, y, z)
         /\ Put(OfZapp(x, y, z), "additions", o) = OfZapp(x, o, z)
         /\ Put(OfZapp(x, y, z), "disabled", o) = OfZapp(x, y, o)
<1> DEFINE no == FALSE
           yes == TRUE
           fast == "max"
           max == "2G"
           As(k1, k2, k3) == Configured(yes, yes, no, no, no, fast, no, max, k1, k2, k3)
<1>1. \A k1, k2, k3 : OfZapp(k1, k2, k3) = As(k1, k2, k3)
  BY DEF OfZapp
<1> HIDE DEF no, yes, fast, max
<1>2. /\ Put(As(x, y, z), "fixups", o) = As(o, y, z)
      /\ Put(As(x, y, z), "additions", o) = As(x, o, z)
      /\ Put(As(x, y, z), "disabled", o) = As(x, y, o)
  BY Reconfigured
<1> HIDE DEF As
<1> QED
  BY <1>1, <1>2

(* Its tables.                                                              *)
LEMMA OfZappHas ==
  ASSUME NEW x, NEW y, NEW z, NEW r, r = OfZapp(x, y, z)
  PROVE  r.fixups = x /\ r.additions = y /\ r.disabled = z
<1>1. r = [apic |-> TRUE, verbose |-> TRUE, keepGoing |-> FALSE, posted |-> FALSE, wait |-> FALSE,
           speed |-> "max", promisc |-> FALSE, physMax |-> "2G",
           fixups |-> x, additions |-> y, disabled |-> z]
  BY DEF OfZapp, Configured
<1> QED
  BY <1>1

LEMMA MorboMore ==
  ASSUME NEW K \in SUBSET Int, NEW k \in Int, \A l \in K : l < k, Word(k) \in Seq(STRING),
         input.prog = "morbo", config = Says(K)
  PROVE  CL!ParseMorbo(Option(Word(k))) = Says(K \cup {k})
<1> DEFINE o == Option(Word(k))
           L == K \cup {k}
           Is(X, x) == Given(X, x)
           a == ~Is(K, "noapic")
           b == ~Is(K, "quiet")
           c == Is(K, "keepgoing")
           e == Is(K, "postedwrites")
           f == Is(K, "wait")
           s == LastSpeed(K)
<1> SUFFICES CL!ParseMorbo(o) = Says(L)
  OBVIOUS
<1>1. config = OfMorbo(a, b, c, e, f, s)
  BY DEF Says, Default, OfMorbo, Configured
<1>2. Says(L) = OfMorbo(~Is(L, "noapic"), ~Is(L, "quiet"), Is(L, "keepgoing"),
                        Is(L, "postedwrites"), Is(L, "wait"), LastSpeed(L))
  BY DEF Says, Default, OfMorbo, Configured
<1>3. \A x \in {"noapic", "quiet", "keepgoing", "postedwrites", "wait"} :
        Given(L, x) <=> Given(K, x) \/ o = x
  <2>1. \A x \in {"noapic", "quiet", "keepgoing", "postedwrites", "wait"} : x # CL!NUL
    BY DEF CL!NUL
  <2> QED
    BY <2>1, GivenMore
<1>4. LastSpeed(L) = IF o \in {"s100", "s200", "s400"} THEN o ELSE s
  BY SpeedMore
<1> HIDE DEF o, L, s
<1>5. /\ (~Is(L, "noapic")) = IF o = "noapic" THEN FALSE ELSE a
      /\ (~Is(L, "quiet")) = IF o = "quiet" THEN FALSE ELSE b
      /\ Is(L, "keepgoing") = IF o = "keepgoing" THEN TRUE ELSE c
      /\ Is(L, "postedwrites") = IF o = "postedwrites" THEN TRUE ELSE e
      /\ Is(L, "wait") = IF o = "wait" THEN TRUE ELSE f
  BY <1>3 DEF Given
<1> DEFINE a2 == ~Is(L, "noapic")
           b2 == ~Is(L, "quiet")
           c2 == Is(L, "keepgoing")
           e2 == Is(L, "postedwrites")
           f2 == Is(L, "wait")
<1>6. /\ a2 = IF o = "noapic" THEN FALSE ELSE a
      /\ b2 = IF o = "quiet" THEN FALSE ELSE b
      /\ c2 = IF o = "keepgoing" THEN TRUE ELSE c
      /\ e2 = IF o = "postedwrites" THEN TRUE ELSE e
      /\ f2 = IF o = "wait" THEN TRUE ELSE f
      /\ Says(L) = OfMorbo(a2, b2, c2, e2, f2, LastSpeed(L))
  BY <1>2, <1>5
<1> HIDE DEF a, b, c, e, f, a2, b2, c2, e2, f2
<1>7. CASE o = "noapic"
  <2>1. CL!ParseMorbo(o) = Put(config, "apic", a2)
    BY <1>6, <1>7 DEF CL!ParseMorbo, Put
  <2>2. Says(L) = OfMorbo(a2, b, c, e, f, s)
    BY <1>4, <1>6, <1>7
  <2> QED
    BY <1>1, <2>1, <2>2, OfMorboMore
<1>8. CASE o = "quiet"
  <2>1. CL!ParseMorbo(o) = Put(config, "verbose", b2)
    BY <1>6, <1>8 DEF CL!ParseMorbo, Put
  <2>2. Says(L) = OfMorbo(a, b2, c, e, f, s)
    BY <1>4, <1>6, <1>8
  <2> QED
    BY <1>1, <2>1, <2>2, OfMorboMore
<1>9. CASE o = "keepgoing"
  <2>1. CL!ParseMorbo(o) = Put(config, "keepGoing", c2)
    BY <1>6, <1>9 DEF CL!ParseMorbo, Put
  <2>2. Says(L) = OfMorbo(a, b, c2, e, f, s)
    BY <1>4, <1>6, <1>9
  <2> QED
    BY <1>1, <2>1, <2>2, OfMorboMore
<1>10. CASE o = "postedwrites"
  <2>1. CL!ParseMorbo(o) = Put(config, "posted", e2)
    BY <1>6, <1>10 DEF CL!ParseMorbo, Put
  <2>2. Says(L) = OfMorbo(a, b, c, e2, f, s)
    BY <1>4, <1>6, <1>10
  <2> QED
    BY <1>1, <2>1, <2>2, OfMorboMore
<1>11. CASE o = "wait"
  <2>1. CL!ParseMorbo(o) = Put(config, "wait", f2)
    BY <1>6, <1>11 DEF CL!ParseMorbo, Put
  <2>2. Says(L) = OfMorbo(a, b, c, e, f2, s)
    BY <1>4, <1>6, <1>11
  <2> QED
    BY <1>1, <2>1, <2>2, OfMorboMore
<1>12. CASE o \in {"s100", "s200", "s400"}
  <2>1. CL!ParseMorbo(o) = Put(config, "speed", o)
    BY <1>12 DEF CL!ParseMorbo, Put
  <2>2. Says(L) = OfMorbo(a, b, c, e, f, o)
    BY <1>4, <1>6, <1>12
  <2> QED
    BY <1>1, <2>1, <2>2, OfMorboMore
<1>13. CASE o \notin {"noapic", "quiet", "keepgoing", "postedwrites", "wait", "s100", "s200", "s400"}
  <2>1. CL!ParseMorbo(o) = config
    BY <1>13 DEF CL!ParseMorbo, Put
  <2>2. Says(L) = OfMorbo(a, b, c, e, f, s)
    BY <1>4, <1>6, <1>13
  <2> QED
    BY <1>1, <2>1, <2>2
<1> QED
  BY <1>7, <1>8, <1>9, <1>10, <1>11, <1>12, <1>13

LEMMA BenderMore ==
  ASSUME NEW K \in SUBSET Int, NEW k \in Int, \A l \in K : l < k, Word(k) \in Seq(STRING),
         input.prog = "bender", config = Says(K)
  PROVE  CL!ParseBender(Option(Word(k))) = Says(K \cup {k})
<1> DEFINE o == Option(Word(k))
           L == K \cup {k}
           Limit(X) == IF Given(X, "phys_max=256M") THEN "256M" ELSE "2G"
           p == Given(K, "promisc")
           p2 == Given(L, "promisc")
<1> SUFFICES CL!ParseBender(o) = Says(L)
  OBVIOUS
<1>1. config = OfBender(p, Limit(K)) /\ Says(L) = OfBender(p2, Limit(L))
  BY DEF Says, Default, OfBender, Configured
<1>2. \A x \in {"promisc", "phys_max=256M"} : Given(L, x) <=> Given(K, x) \/ o = x
  <2>1. \A x \in {"promisc", "phys_max=256M"} : x # CL!NUL
    BY DEF CL!NUL
  <2> QED
    BY <2>1, GivenMore
<1> HIDE DEF o, L
<1>3. Limit(L) = IF o = "phys_max=256M" THEN "256M" ELSE Limit(K)
  BY <1>2
<1>4. p2 = IF o = "promisc" THEN TRUE ELSE p
  BY <1>2 DEF Given
<1> HIDE DEF p, p2, Limit
<1>5. CASE o = "promisc"
  <2>1. CL!ParseBender(o) = Put(config, "promisc", p2)
    BY <1>4, <1>5 DEF CL!ParseBender, Put
  <2>2. Says(L) = OfBender(p2, Limit(K))
    BY <1>1, <1>3, <1>4, <1>5
  <2> QED
    BY <1>1, <2>1, <2>2, OfBenderMore
<1>6. CASE o = "phys_max=256M"
  <2>1. CL!ParseBender(o) = Put(config, "physMax", "256M")
    BY <1>6 DEF CL!ParseBender, Put
  <2>2. Says(L) = OfBender(p, "256M")
    BY <1>1, <1>3, <1>4, <1>6
  <2> QED
    BY <1>1, <2>1, <2>2, OfBenderMore
<1>7. CASE o \notin {"promisc", "phys_max=256M"}
  <2>1. CL!ParseBender(o) = config
    BY <1>7 DEF CL!ParseBender, Put
  <2> QED
    BY <1>1, <1>3, <1>4, <1>7, <2>1
<1> QED
  BY <1>5, <1>6, <1>7

LEMMA ZappIs ==
  ASSUME NEW K, input.prog = "zapp"
  PROVE  Says(K) = OfZapp(Regions(K, "fixrmrr="), Regions(K, "addrmrr="), Disabled(K))
  BY DEF Says, Default, OfZapp, Configured

LEMMA ZappMore ==
  ASSUME NEW K \in SUBSET (1..Len(Line)), Len(Line) \in Nat, NEW k \in 1..Len(Line),
         \A l \in K : l < k, input.prog = "zapp", config = Says(K)
  PROVE  Says(K \cup {k}) =
           CASE Line[k] = "fixrmrr=" -> [config EXCEPT !.fixups = Append(@, Region(k))]
             [] Line[k] = "addrmrr=" -> [config EXCEPT !.additions = Append(@, Region(k))]
             [] Line[k] = "disabledmar=" -> [config EXCEPT !.disabled = Append(@, Argument(k, 1))]
             [] OTHER -> config
<1> DEFINE L == K \cup {k}
           f == Regions(K, "fixrmrr=")
           a == Regions(K, "addrmrr=")
           b == Disabled(K)
           r == Region(k)
           x == Argument(k, 1)
           f2 == Regions(L, "fixrmrr=")
           a2 == Regions(L, "addrmrr=")
           b2 == Disabled(L)
           c == Line[k]
<1>1. config = OfZapp(f, a, b) /\ Says(L) = OfZapp(f2, a2, b2)
  BY ZappIs
<1>2. \A y : Regions(L, y) = IF c = y THEN Append(Regions(K, y), r) ELSE Regions(K, y)
  BY RegionsMore
<1>3. b2 = IF c = "disabledmar=" THEN Append(b, x) ELSE b
  BY DisabledMore
<1>4. f2 = IF c = "fixrmrr=" THEN Append(f, r) ELSE f
  BY <1>2, Zenon
<1>5. a2 = IF c = "addrmrr=" THEN Append(a, r) ELSE a
  BY <1>2, Zenon
<1> SUFFICES Says(L) = CASE c = "fixrmrr=" -> [config EXCEPT !.fixups = Append(@, r)]
                         [] c = "addrmrr=" -> [config EXCEPT !.additions = Append(@, r)]
                         [] c = "disabledmar=" -> [config EXCEPT !.disabled = Append(@, x)]
                         [] OTHER -> config
  OBVIOUS
<1> HIDE DEF L, f, a, b, r, x, f2, a2, b2, c
<1>6. CASE c = "fixrmrr="
  <2>1. Says(L) = OfZapp(Append(f, r), a, b)
    BY <1>1, <1>3, <1>4, <1>5, <1>6
  <2>2. config.fixups = f
    BY <1>1, OfZappHas
  <2>3. Put(config, "fixups", Append(f, r)) = OfZapp(Append(f, r), a, b)
    BY <1>1, OfZappMore
  <2>4. [config EXCEPT !.fixups = Append(@, r)] = Put(config, "fixups", Append(f, r))
    BY <2>2 DEF Put
  <2> QED
    BY <1>6, <2>1, <2>3, <2>4
<1>7. CASE c = "addrmrr="
  <2>1. Says(L) = OfZapp(f, Append(a, r), b)
    BY <1>1, <1>3, <1>4, <1>5, <1>7
  <2>2. config.additions = a
    BY <1>1, OfZappHas
  <2>3. Put(config, "additions", Append(a, r)) = OfZapp(f, Append(a, r), b)
    BY <1>1, OfZappMore
  <2>4. [config EXCEPT !.additions = Append(@, r)] = Put(config, "additions", Append(a, r))
    BY <2>2 DEF Put
  <2> QED
    BY <1>7, <2>1, <2>3, <2>4
<1>8. CASE c = "disabledmar="
  <2>1. Says(L) = OfZapp(f, a, Append(b, x))
    BY <1>1, <1>3, <1>4, <1>5, <1>8
  <2>2. config.disabled = b
    BY <1>1, OfZappHas
  <2>3. Put(config, "disabled", Append(b, x)) = OfZapp(f, a, Append(b, x))
    BY <1>1, OfZappMore
  <2>4. [config EXCEPT !.disabled = Append(@, x)] = Put(config, "disabled", Append(b, x))
    BY <2>2 DEF Put
  <2> QED
    BY <1>8, <2>1, <2>3, <2>4
<1>9. CASE c \notin {"fixrmrr=", "addrmrr=", "disabledmar="}
  BY <1>1, <1>3, <1>4, <1>5, <1>9
<1> QED
  BY <1>6, <1>7, <1>8, <1>9

(* Before the first option everything is at its default.                    *)
LEMMA SaysNothing == Says({}) = Default
<1>1. \A c : {k \in {} : Line[k] = c} = {} /\ Cardinality({}) = 0
  BY FS_EmptySet
<1>2. \A c : WithPrefix({}, c) = <<>>
  BY <1>1 DEF WithPrefix, InOrder
<1>3. \A c : Regions({}, c) = <<>>
  BY <1>2 DEF Regions
<1>4. Disabled({}) = <<>>
  BY <1>2 DEF Disabled
<1>5. \A o : Given({}, o) = FALSE
  BY DEF Given
<1>6. LastSpeed({}) = "max"
  BY DEF LastSpeed, Speeds
<1> QED
  BY <1>3, <1>4, <1>5, <1>6 DEF Says, Default


-----------------------------------------------------------------------------
(* The line stays what it is, and so does what it says.                     *)
LEMMA LineKept ==
  ASSUME input' = input
  PROVE  /\ Line' = Line /\ Words' = Words /\ Options' = Options
         /\ \A k : EndOfWord(k)' = EndOfWord(k) /\ Word(k)' = Word(k)
         /\ \A k : ArgumentsOf(k)' = ArgumentsOf(k)
         /\ \A k, x : Argument(k, x)' = Argument(k, x)
<1>1. Line' = Line
  BY DEF Line
<1>2. Words' = Words /\ Options' = Options
  BY <1>1 DEF Words, Options
<1>3. ASSUME NEW k, NEW S PROVE EndOfRun(k, S)' = EndOfRun(k, S)
  <2> DEFINE E(L) == CHOOSE e \in k..Len(L) : /\ \A x \in k..e : L[x] \notin S
                                              /\ e = Len(L) \/ L[e + 1] \in S
  <2>1. EndOfRun(k, S) = E(Line)
    BY Zenon DEF EndOfRun
  <2>2. EndOfRun(k, S)' = E(Line')
    BY Zenon DEF EndOfRun
  <2> HIDE DEF E
  <2> QED
    BY <1>1, <2>1, <2>2
<1>4. ASSUME NEW k, NEW S PROVE Run(k, S)' = Run(k, S)
  BY <1>1, <1>3 DEF Run
<1>5. ASSUME NEW k PROVE EndOfWord(k)' = EndOfWord(k) /\ Word(k)' = Word(k)
  BY <1>3, <1>4 DEF EndOfWord, Word
<1>6. ASSUME NEW k PROVE ArgumentsOf(k)' = ArgumentsOf(k)
  <2> DEFINE A(L, e) == {a \in (k + 1)..e : L[a] # "," /\ (a = k + 1 \/ L[a - 1] = ",")}
  <2>1. ArgumentsOf(k) = A(Line, EndOfWord(k))
    BY DEF ArgumentsOf
  <2>2. ArgumentsOf(k)' = A(Line', EndOfWord(k)')
    BY DEF ArgumentsOf
  <2>3. EndOfWord(k)' = EndOfWord(k)
    BY <1>5
  <2> HIDE DEF A
  <2> QED
    BY <1>1, <2>1, <2>2, <2>3
<1>7. ASSUME NEW k, NEW x PROVE Argument(k, x)' = Argument(k, x)
  <2> SUFFICES ASSUME NEW a, a = InOrder(ArgumentsOf(k))[x] PROVE Argument(k, x)' = Argument(k, x)
    OBVIOUS
  <2>5. PICK most : most = Cardinality(ArgumentsOf(k)) /\ most = Cardinality(ArgumentsOf(k)')
    <3>1. ArgumentsOf(k)' = ArgumentsOf(k)
      BY <1>6
    <3> QED
      BY <3>1
  <2>1. a = InOrder(ArgumentsOf(k)')[x]
    <3> DEFINE F(X) == InOrder(X)[x]
    <3>1. ArgumentsOf(k)' = ArgumentsOf(k)
      BY <1>6
    <3>2. a = F(ArgumentsOf(k))
      OBVIOUS
    <3> HIDE DEF F
    <3>3. a = F(ArgumentsOf(k)')
      BY <3>1, <3>2
    <3> QED
      BY <3>3 DEF F
  <2>2. Argument(k, x) = IF x <= most THEN Number(Run(a, {",", " "})) ELSE AtNull
    BY <2>5, Zenon DEF Argument
  <2>3. Argument(k, x)' = IF x <= most THEN Number(Run(a, {",", " "})') ELSE AtNull
    BY <2>1, <2>5, Zenon DEF Argument
  <2>4. Run(a, {",", " "})' = Run(a, {",", " "})
    BY <1>4
  <2> QED
    BY <2>2, <2>3, <2>4
<1> QED
  BY <1>1, <1>2, <1>5, <1>6, <1>7


LEMMA SaysKept ==
  ASSUME input' = input
  PROVE  \A K : Says(K)' = Says(K) /\ \A p : Regions(K, p)' = Regions(K, p)
<1>1. Line' = Line
  BY LineKept
<1>2. ASSUME NEW K, NEW o PROVE Given(K, o)' <=> Given(K, o)
  BY LineKept DEF Given
<1>3. ASSUME NEW K PROVE Speeds(K)' = Speeds(K)
  BY LineKept DEF Speeds
<1>4. ASSUME NEW K PROVE LastSpeed(K)' = LastSpeed(K)
  <2> SUFFICES ASSUME NEW y, y = Latest(Speeds(K)) PROVE LastSpeed(K)' = LastSpeed(K)
    OBVIOUS
  <2>1. LastSpeed(K) = IF Speeds(K) = {} THEN "max" ELSE Word(y)[1]
    BY DEF LastSpeed
  <2>2. y = Latest(Speeds(K)')
    BY <1>3
  <2>3. LastSpeed(K)' = IF Speeds(K)' = {} THEN "max" ELSE Word(y)'[1]
    BY <2>2 DEF LastSpeed
  <2>4. Speeds(K)' = Speeds(K) /\ Word(y)' = Word(y)
    BY <1>3, LineKept
  <2> QED
    BY <2>1, <2>3, <2>4
<1>5. ASSUME NEW K, NEW p PROVE WithPrefix(K, p)' = WithPrefix(K, p)
  <2> DEFINE F(L) == InOrder({k \in K : L[k] = p})
  <2>1. WithPrefix(K, p) = F(Line) /\ WithPrefix(K, p)' = F(Line')
    BY DEF WithPrefix
  <2> HIDE DEF F
  <2> QED
    BY <1>1, <2>1
<1>6. ASSUME NEW k PROVE Region(k)' = Region(k)
  BY LineKept DEF Region
<1>7. ASSUME NEW K, NEW p PROVE Regions(K, p)' = Regions(K, p)
  <2> SUFFICES ASSUME NEW f, f = WithPrefix(K, p) PROVE Regions(K, p)' = Regions(K, p)
    OBVIOUS
  <2>1. f = WithPrefix(K, p)'
    BY <1>5
  <2>2. Regions(K, p) = [x \in 1..Len(f) |-> Region(f[x])]
    BY DEF Regions
  <2>3. Regions(K, p)' = [x \in 1..Len(f) |-> Region(f[x])']
    BY <2>1 DEF Regions
  <2> QED
    BY <1>6, <2>2, <2>3
<1>8. ASSUME NEW K PROVE Disabled(K)' = Disabled(K)
  <2> SUFFICES ASSUME NEW f, f = WithPrefix(K, "disabledmar=") PROVE Disabled(K)' = Disabled(K)
    OBVIOUS
  <2>1. f = WithPrefix(K, "disabledmar=")'
    BY <1>5
  <2>2. Disabled(K) = [x \in 1..Len(f) |-> Argument(f[x], 1)]
    BY DEF Disabled
  <2>3. Disabled(K)' = [x \in 1..Len(f) |-> Argument(f[x], 1)']
    BY <2>1 DEF Disabled
  <2> QED
    BY LineKept, <2>2, <2>3
<1>9. ASSUME NEW K PROVE Says(K)' = Says(K)
  BY <1>2, <1>4, <1>7, <1>8 DEF Says
<1> QED
  BY <1>7, <1>9


-----------------------------------------------------------------------------
(* The separators.                                                          *)
Space == " "
Comma == ","

(* The invariant.  Where the loop goes on reading, and what it has read.    *)
Cursor  == IF number = 0 THEN 1 ELSE IF last = 0 THEN Len(Line) + 1 ELSE last
Said(c) == {k \in Options : k < c}

(* Behind the cursor the buffer still holds the line.                       *)
Unread ==
  /\ buf = [x \in 1..BufSize |-> buf[x]] /\ number \in Nat /\ last \in Nat
  /\ Cursor \in 1..(Len(Line) + 1)
  /\ \A x \in Cursor..Len(Line) : buf[x] = Line[x]
  /\ buf[Len(Line) + 1] = CL!NUL
  /\ number > 0 => \E w \in Words : w < Cursor
  /\ last # 0 => number > 0 /\ last > 1 /\ Line[last - 1] = Space

(* A token is an option, its end the end of the word, and the options       *)
(* before it are in force.                                                  *)
EndOfToken == EndOfWord(token)
OptionFound ==
  /\ number > 0 /\ token \in Options
  /\ EndOfToken \in token..Len(Line) /\ buf[EndOfToken + 1] = CL!NUL
  /\ Cursor = IF EndOfToken = Len(Line) THEN Len(Line) + 1 ELSE EndOfToken + 2
  /\ \A x \in token..EndOfToken : Line[x] # Space
  /\ EndOfToken = Len(Line) \/ Line[EndOfToken + 1] = Space
  /\ \A w \in Options : w < Cursor => w <= token
  /\ config = Says(Said(token))

(* Where zapp goes on reading arguments, and those it has read: all before  *)
(* that place; none is left when strtok_r has nothing to go on from.        *)
ArgumentCursor == IF argsPtr = 0 THEN EndOfToken + 1 ELSE argsPtr
ArgumentsBefore(k, c) == Cardinality({a \in ArgumentsOf(k) : a < c})
ArgumentsRead ==
  /\ input.prog = "zapp" /\ buf[token] = Line[token] /\ Line[token] \in CL!WithArguments
  /\ argsPtr \in Nat /\ ArgumentCursor \in (token + 1)..(EndOfToken + 1)
  /\ \A x \in ArgumentCursor..EndOfToken : buf[x] = Line[x]
  /\ argsPtr # 0 => Line[argsPtr - 1] = Comma
  /\ argsPtr # 0 => Len(args) = ArgumentsBefore(token, argsPtr)
  /\ argsPtr = 0 => Len(args) >= Cardinality(ArgumentsOf(token))
  /\ Len(args) \in Nat /\ args = [x \in 1..Len(args) |-> Argument(token, x)]

IInv ==
  /\ input \in Lines /\ place \in {"copy", "loop", "option", "args", "done", "failed"}
  /\ place = "copy" => number = 0 /\ last = 0 /\ config = Default
  /\ place \in {"loop", "option", "args"} => Unread
  /\ place = "loop" => config = Says(Said(Cursor))
  /\ place \in {"option", "args"} => OptionFound
  /\ place \in {"copy", "loop", "option"} => argsPtr = 0 /\ args = <<>>
  /\ place = "option" => \A x \in token..EndOfToken : buf[x] = Line[x]
  /\ place = "args" => ArgumentsRead
  /\ OptionsInForce


-----------------------------------------------------------------------------
(* What the lines are made of.                                              *)
LEMMA LineIs ==
  ASSUME CL!Readable, input \in Lines
  PROVE  /\ Line \in Seq(STRING) /\ Len(Line) \in Nat /\ Len(Line) < BufSize /\ BufSize \in Nat
         /\ \A k \in 1..Len(Line) : Line[k] \in STRING /\ Line[k] # CL!NUL
         /\ ULLMax \in Nat /\ MaxFixups \in Nat
         /\ input.prog \in {"morbo", "bender", "zapp"}
<1>1. /\ input.prog \in {"morbo", "bender", "zapp"}
      /\ input.text \in Seq(STRING) /\ Len(input.text) < BufSize
      /\ \A k \in 1..Len(input.text) : input.text[k] # CL!NUL
  BY Zenon DEF CL!Readable
<1>2. ULLMax \in Nat /\ MaxFixups \in Nat /\ BufSize \in Nat
  BY Zenon DEF CL!Readable
<1>3. Line = input.text
  BY DEF Line
<1>4. Len(Line) \in Nat /\ \A k \in 1..Len(Line) : Line[k] \in STRING
  BY <1>1, <1>3
<1> QED
  BY <1>1, <1>2, <1>3, <1>4

(* Options are words, and words are places in the line.                     *)
LEMMA WordsAre ==
  /\ Words = {k \in 1..Len(Line) : Line[k] # Space /\ (k = 1 \/ Line[k - 1] = Space)}
  /\ \A k : ArgumentsOf(k) = {a \in (k + 1)..EndOfWord(k) :
                              Line[a] # Comma /\ (a = k + 1 \/ Line[a - 1] = Comma)}
  BY Zenon DEF Words, ArgumentsOf, Space, Comma

LEMMA PlacesOfLine ==
  ASSUME Len(Line) \in Nat
  PROVE  /\ \A w \in Words : w \in 1..Len(Line) /\ w \in Int
         /\ \A w \in Options : w \in Words
         /\ Options \in SUBSET (1..Len(Line)) /\ Options \in SUBSET Int
         /\ \A c : Said(c) \in SUBSET (1..Len(Line)) /\ Said(c) \in SUBSET Int
<1>1. \A w \in Words : w \in 1..Len(Line) /\ w \in Int
  BY WordsAre
<1>2. \A w \in Options : w \in Words
  BY DEF Options
<1>3. \A c : \A w \in Said(c) : w \in Options
  BY DEF Said
<1> QED
  BY <1>1, <1>2, <1>3, Zenon

(* A run of other characters between spaces is a word.                      *)
LEMMA WordIs ==
  ASSUME Line \in Seq(STRING), Len(Line) \in Nat, NEW k \in 1..Len(Line), NEW e \in k..Len(Line),
         \A x \in k..e : Line[x] # Space, e = Len(Line) \/ Line[e + 1] = Space
  PROVE  EndOfWord(k) = e /\ Word(k) = SubSeq(Line, k, e) /\ Word(k) \in Seq(STRING)
<1>1. EndOfRun(k, {Space}) = e
  <2>1. (\A x \in k..e : Line[x] \notin {Space}) /\ (e = Len(Line) \/ Line[e + 1] \in {Space})
    OBVIOUS
  <2> QED
    BY <2>1, EndOfRunIs
<1>2. EndOfWord(k) = e /\ Word(k) = SubSeq(Line, k, e)
  BY <1>1 DEF EndOfWord, Word, Run, Space
<1>3. SubSeq(Line, k, e) \in Seq(STRING)
  <2>1. \A x \in k..e : Line[x] \in STRING
    OBVIOUS
  <2> QED
    BY <2>1, SubSeqProperties
<1> QED
  BY <1>2, <1>3

(* Behind the cursor at c only spaces come before the word at k.            *)
LEMMA WordsMore ==
  ASSUME Len(Line) \in Nat, NEW c \in 1..(Len(Line) + 1), c = 1 \/ c = Len(Line) + 1 \/ Line[c - 1] = Space,
         NEW k \in c..Len(Line), NEW e \in k..Len(Line), \A x \in c..(k - 1) : Line[x] = Space,
         \A x \in k..e : Line[x] # Space, e = Len(Line) \/ Line[e + 1] = Space
  PROVE  /\ k \in Words
         /\ \A w \in Words : w < k <=> w < c
         /\ \A w \in Words : w < (IF e = Len(Line) THEN Len(Line) + 1 ELSE e + 2) => w <= k
<1>0. \A w \in Words : w \in 1..Len(Line) /\ Line[w] # Space /\ (w = 1 \/ Line[w - 1] = Space)
  BY WordsAre
<1>1. k \in Words
  <2>1. k \in 1..Len(Line) /\ Line[k] # Space
    OBVIOUS
  <2>2. k = 1 \/ Line[k - 1] = Space
    <3>1. CASE k = c
      BY <3>1
    <3>2. CASE k # c
      <4>1. k - 1 \in c..(k - 1)
        BY <3>2
      <4> QED
        BY <4>1
    <3> QED
      BY <3>1, <3>2
  <2> QED
    BY <2>1, <2>2, WordsAre
<1>2. ASSUME NEW w \in Words PROVE w < k <=> w < c
  <2>1. w \in 1..Len(Line) /\ Line[w] # Space
    BY <1>0
  <2>2. w \notin c..(k - 1)
    BY <2>1
  <2> QED
    BY <2>1, <2>2
<1>3. ASSUME NEW w \in Words, w < (IF e = Len(Line) THEN Len(Line) + 1 ELSE e + 2), ~(w <= k)
      PROVE  FALSE
  <2>1. w \in 1..Len(Line) /\ Line[w] # Space /\ Line[w - 1] = Space
    BY <1>0, <1>3
  <2>2. w - 1 \notin k..e
    BY <2>1
  <2>3. w = e + 2 \/ w = e + 1
    BY <1>3, <2>1, <2>2
  <2>4. w = e + 1 /\ e # Len(Line)
    BY <1>3, <2>1, <2>3
  <2> QED
    BY <2>1, <2>4
<1> QED
  BY <1>1, <1>2, <1>3


LEMMA SaidKept ==
  ASSUME input' = input
  PROVE  Words' = Words /\ Options' = Options /\ Len(Line)' = Len(Line) /\ \A c : Said(c)' = Said(c)
<1>1. Words' = Words /\ Options' = Options /\ Line' = Line
  BY LineKept
<1> QED
  BY <1>1 DEF Said

LEMMA CopyKeeps == ASSUME CL!Readable, IInv, CL!Copy PROVE IInv'
<1>1. /\ place = "copy" /\ place' = "loop" /\ buf' = CL!Strncpy(Line, BufSize) /\ input' = input
      /\ number' = 0 /\ last' = 0 /\ config' = Default /\ argsPtr' = 0 /\ args' = <<>>
      /\ input \in Lines
  BY DEF CL!Copy, CL!Goto, IInv, Line
<1>2. Line' = Line /\ Len(Line)' = Len(Line)
  BY <1>1, LineKept
<1>3. Cursor' = 1
  BY <1>1 DEF Cursor
<1>4. Unread'
  <2>1. /\ Line \in Seq(STRING) /\ Len(Line) \in Nat /\ Len(Line) < BufSize /\ BufSize \in Nat
        /\ \A k \in 1..Len(Line) : Line[k] \in STRING
    BY <1>1, LineIs
  <2>2. buf' = [k \in 1..BufSize |-> IF k <= Len(Line) THEN Line[k] ELSE CL!NUL]
    BY <1>1 DEF CL!Strncpy
  <2>4. buf' = [x \in 1..BufSize |-> buf'[x]]
    BY <2>2
  <2>5. \A x \in 1..Len(Line) : buf'[x] = Line[x]
    BY <2>1, <2>2
  <2>6. buf'[Len(Line) + 1] = CL!NUL
    BY <2>1, <2>2
  <2> QED
    BY <1>1, <1>2, <1>3, <2>1, <2>4, <2>5, <2>6 DEF Unread
<1>5. config' = Says(Said(1))'
  <2>1. Said(1) = {}
    <3>1. Len(Line) \in Nat
      BY <1>1, LineIs
    <3>2. \A w \in Options : w \in Words
      BY <3>1, PlacesOfLine
    <3>3. \A w \in Words : w \in 1..Len(Line)
      BY <3>1, PlacesOfLine
    <3>4. \A w \in Options : ~(w < 1)
      BY <3>1, <3>2, <3>3
    <3> QED
      BY <3>4 DEF Said
  <2>2. Said(1)' = {}
    BY <1>1, <2>1, SaidKept
  <2>3. Says({})' = Default
    BY <1>1, SaysKept, SaysNothing
  <2> QED
    BY <1>1, <2>2, <2>3
<1> QED
  BY <1>1, <1>3, <1>4, <1>5 DEF IInv, OptionsInForce


(* The buffer after one step of strtok_r that found the token from k to e:  *)
(* the rest of it is as it was.                                             *)
LEMMA RestOfBuffer ==
  ASSUME NEW f, NEW t, NEW delim, NEW from \in Nat \ {0}, NEW z \in from..BufSize, BufSize \in Nat,
         NEW k \in from..(z - 1), NEW e \in k..(z - 1), f = [x \in 1..BufSize |-> f[x]], f[z] = CL!NUL,
         IsToken(t, f, delim, from, z, k, e)
  PROVE  LET g == t.buf IN
         /\ t.tok = k /\ g = [x \in 1..BufSize |-> g[x]]
         /\ \A x \in 1..BufSize : x # e + 1 => g[x] = f[x]
         /\ g[e + 1] = CL!NUL
         /\ t.save = IF e = z - 1 THEN 0 ELSE e + 2
<1> DEFINE g == t.buf
<1>1. t.tok = k /\ t.save = IF e = z - 1 THEN 0 ELSE e + 2
  <2>1. e \in Int /\ z \in Int
    OBVIOUS
  <2> QED
    BY <2>1 DEF IsToken
<1>2. CASE e = z - 1 /\ g = f
  <2>1. e + 1 = z
    BY <1>2
  <2> QED
    BY <1>1, <1>2, <2>1
<1>3. CASE e < z - 1 /\ g = [f EXCEPT ![e + 1] = CL!NUL]
  <2>1. e + 1 \in 1..BufSize
    BY <1>3
  <2>2. g = [x \in 1..BufSize |-> IF x = e + 1 THEN CL!NUL ELSE f[x]]
    BY <1>3
  <2> HIDE DEF g
  <2>3. g = [x \in 1..BufSize |-> g[x]]
    BY <2>2
  <2>4. \A x \in 1..BufSize : x # e + 1 => g[x] = f[x]
    BY <2>2
  <2>5. g[e + 1] = CL!NUL
    BY <2>1, <2>2
  <2> QED
    BY <1>1, <2>3, <2>4, <2>5 DEF g
<1>4. (e = z - 1 /\ g = f) \/ (e < z - 1 /\ g = [f EXCEPT ![e + 1] = CL!NUL])
  <2>1. CASE e = z - 1 /\ t = [tok |-> k, buf |-> f, save |-> 0]
    BY <2>1
  <2>2. CASE e < z - 1 /\ t = [tok |-> k, buf |-> [f EXCEPT ![e + 1] = CL!NUL], save |-> e + 2]
    BY <2>2
  <2> QED
    BY <2>1, <2>2 DEF IsToken
<1> QED
  BY <1>2, <1>3, <1>4


(* The word that strtok_r finds behind the cursor.                          *)
LEMMA WordFound ==
  ASSUME CL!Readable, input \in Lines, Unread, ~(number # 0 /\ last = 0)
  PROVE  LET t == CL!Strtok(buf, IF number = 0 THEN 1 ELSE 0, last, Space) IN
         \/ Nothing(t, buf, Space, Cursor, Len(Line) + 1)
         \/ \E k \in Cursor..Len(Line) : \E e \in k..Len(Line) :
              IsToken(t, buf, Space, Cursor, Len(Line) + 1, k, e)
<1> DEFINE s == IF number = 0 THEN 1 ELSE 0
           c == Cursor
           z == Len(Line) + 1
           t == CL!Strtok(buf, s, last, Space)
<1>1. /\ Len(Line) \in Nat /\ Len(Line) < BufSize /\ BufSize \in Nat
      /\ \A k \in 1..Len(Line) : Line[k] # CL!NUL
  BY LineIs
<1>2. /\ Len(buf) = BufSize /\ c \in 1..z /\ buf[z] = CL!NUL
      /\ \A x \in c..Len(Line) : buf[x] = Line[x]
  <2>1. buf = [x \in 1..BufSize |-> buf[x]]
    BY DEF Unread
  <2>2. Len(buf) = BufSize
    BY <1>1, <2>1
  <2> QED
    BY <2>2 DEF Unread
<1>3. c = IF s = 0 THEN last ELSE s
  BY DEF Cursor
<1>4. Len(buf) \in Nat /\ c \in Nat \ {0} /\ z \in c..Len(buf) /\ z - 1 = Len(Line)
  BY <1>1, <1>2
<1>5. \A x \in c..(z - 1) : buf[x] # CL!NUL
  BY <1>1, <1>2, <1>4
<1>6. Space # CL!NUL
  BY DEF Space, CL!NUL
<1> HIDE DEF c, s, z
<1>7. \/ Nothing(t, buf, Space, c, z)
      \/ \E k \in c..(z - 1) : \E e \in k..(z - 1) : IsToken(t, buf, Space, c, z, k, e)
  BY <1>2, <1>3, <1>4, <1>5, <1>6, StrtokIs
<1> QED
  BY <1>4, <1>7 DEF c, s, z

(* It is the next word of the line.                                         *)
LEMMA WordRead ==
  ASSUME CL!Readable, input \in Lines, Unread, ~(number # 0 /\ last = 0),
         NEW k \in Cursor..Len(Line), NEW e \in k..Len(Line),
         NEW t, IsToken(t, buf, Space, Cursor, Len(Line) + 1, k, e)
  PROVE  /\ k \in Words /\ k \in 1..Len(Line) /\ EndOfWord(k) = e
         /\ \A x \in k..e : Line[x] # Space
         /\ e = Len(Line) \/ Line[e + 1] = Space
         /\ \A w \in Words : w < k <=> w < Cursor
         /\ \A w \in Words : w < (IF e = Len(Line) THEN Len(Line) + 1 ELSE e + 2) => w <= k
<1> DEFINE c == Cursor
<1>1. /\ Line \in Seq(STRING) /\ Len(Line) \in Nat
  BY LineIs
<1>2. c \in 1..(Len(Line) + 1) /\ \A x \in c..Len(Line) : buf[x] = Line[x]
  BY DEF Unread
<1>3. c = 1 \/ Line[c - 1] = Space
  BY DEF Unread, Cursor
<1>4. /\ \A x \in c..(k - 1) : buf[x] = Space
      /\ \A x \in k..e : buf[x] # Space
      /\ e = Len(Line) \/ (e < Len(Line) /\ buf[e + 1] = Space)
  <2>1. (Len(Line) + 1) - 1 = Len(Line)
    BY <1>1
  <2> QED
    BY <2>1 DEF IsToken
<1> HIDE DEF c
<1>5. k \in c..Len(Line) /\ k \in 1..Len(Line) /\ e \in k..Len(Line)
  <2>1. k \in c..Len(Line)
    BY DEF c
  <2> QED
    BY <1>1, <1>2, <2>1
<1>6. \A x \in c..(k - 1) : Line[x] = Space
  <2>1. \A x \in c..(k - 1) : x \in c..Len(Line)
    BY <1>1, <1>2, <1>5
  <2> QED
    BY <1>2, <1>4, <2>1
<1>7. \A x \in k..e : Line[x] # Space
  <2>1. \A x \in k..e : x \in c..Len(Line)
    BY <1>1, <1>2, <1>5
  <2> QED
    BY <1>2, <1>4, <2>1
<1>8. e = Len(Line) \/ Line[e + 1] = Space
  <2>1. e < Len(Line) => e + 1 \in c..Len(Line)
    BY <1>1, <1>2, <1>5
  <2> QED
    BY <1>2, <1>4, <2>1
<1>9. EndOfWord(k) = e
  BY <1>1, <1>5, <1>7, <1>8, WordIs
<1>10. /\ k \in Words /\ \A w \in Words : w < k <=> w < c
       /\ \A w \in Words : w < (IF e = Len(Line) THEN Len(Line) + 1 ELSE e + 2) => w <= k
  BY <1>1, <1>2, <1>3, <1>5, <1>6, <1>7, <1>8, WordsMore
<1> QED
  BY <1>5, <1>7, <1>8, <1>9, <1>10 DEF c


(* Nothing is behind the cursor but spaces.                                 *)
LEMMA AllSaid ==
  ASSUME Len(Line) \in Nat, NEW c \in 1..(Len(Line) + 1), \A x \in c..Len(Line) : Line[x] = Space
  PROVE  Said(c) = Options
<1>1. ASSUME NEW w \in Options PROVE w < c
  <2>1. w \in 1..Len(Line) /\ Line[w] # Space
    BY PlacesOfLine, WordsAre
  <2>2. w \notin c..Len(Line)
    BY <2>1
  <2> QED
    BY <2>1, <2>2
<1> QED
  BY <1>1 DEF Said

LEMMA NextTokenKeeps == ASSUME CL!Readable, IInv, CL!NextToken PROVE IInv'
<1> DEFINE t == CL!Strtok(buf, IF number = 0 THEN 1 ELSE 0, last, Space)
<1>1. /\ place = "loop" /\ buf' = t.buf /\ last' = t.save /\ token' = t.tok /\ number' = number + 1
      /\ place' = IF t.tok = 0 THEN "done" ELSE IF number = 0 THEN "loop" ELSE "option"
      /\ input' = input /\ argsPtr' = argsPtr /\ args' = args /\ config' = config
  BY DEF CL!NextToken, Space
<1>2. /\ input \in Lines /\ Unread /\ config = Says(Said(Cursor)) /\ argsPtr = 0 /\ args = <<>>
  BY <1>1 DEF IInv
<1>3. /\ Len(Line) \in Nat /\ Len(Line) < BufSize /\ BufSize \in Nat
  BY <1>2, LineIs
<1>4. /\ Line' = Line /\ Words' = Words /\ Options' = Options
      /\ \A c : Said(c)' = Said(c) /\ Says(Said(c))' = Says(Said(c))
  BY <1>1, LineKept, SaidKept, SaysKept
<1>5. number \in Nat /\ last \in Nat /\ Cursor \in 1..(Len(Line) + 1)
  BY <1>2 DEF Unread
<1> HIDE DEF t
<1>6. ASSUME t.tok = 0, Said(Cursor) = Options PROVE IInv'
  <2>1. place' = "done" /\ config' = Says(Options)
    BY <1>1, <1>2, <1>6
  <2>2. Says(Options)' = Says(Options)
    BY <1>1, <1>4, SaysKept
  <2> QED
    BY <1>1, <1>2, <2>1, <2>2 DEF IInv, OptionsInForce
<1>7. CASE number # 0 /\ last = 0
  <2>1. t.tok = 0
    BY <1>7 DEF t, CL!Strtok
  <2>2. Cursor = Len(Line) + 1
    BY <1>7 DEF Cursor
  <2>3. Said(Cursor) = Options
    <3>1. \A x \in (Len(Line) + 1)..Len(Line) : Line[x] = Space
      BY <1>3
    <3> QED
      BY <1>3, <1>5, <2>2, <3>1, AllSaid
  <2> QED
    BY <1>6, <2>1, <2>3
<1>8. CASE ~(number # 0 /\ last = 0) /\ Nothing(t, buf, Space, Cursor, Len(Line) + 1)
  <2>1. t.tok = 0 /\ \A x \in Cursor..Len(Line) : buf[x] = Space
    <3>1. (Len(Line) + 1) - 1 = Len(Line)
      BY <1>3
    <3> QED
      BY <1>8, <3>1 DEF Nothing
  <2>2. \A x \in Cursor..Len(Line) : Line[x] = Space
    BY <1>2, <2>1 DEF Unread
  <2> QED
    BY <1>3, <1>5, <1>6, <2>1, <2>2, AllSaid
<1>9. ASSUME ~(number # 0 /\ last = 0), NEW k \in Cursor..Len(Line), NEW e \in k..Len(Line),
             IsToken(t, buf, Space, Cursor, Len(Line) + 1, k, e)
      PROVE  IInv'
  <2> DEFINE z == Len(Line) + 1
             c == Cursor
             g == t.buf
             after == IF e = Len(Line) THEN z ELSE e + 2
  <2>1. /\ k \in Words /\ k \in 1..Len(Line) /\ EndOfWord(k) = e
        /\ \A x \in k..e : Line[x] # Space
        /\ e = Len(Line) \/ Line[e + 1] = Space
        /\ \A w \in Words : w < k <=> w < c
        /\ \A w \in Words : w < after => w <= k
    BY <1>2, <1>9, WordRead
  <2>2. /\ t.tok = k /\ g = [x \in 1..BufSize |-> g[x]]
        /\ \A x \in 1..BufSize : x # e + 1 => g[x] = buf[x]
        /\ g[e + 1] = CL!NUL
        /\ t.save = IF e = z - 1 THEN 0 ELSE e + 2
    <3>1. c \in Nat \ {0} /\ z \in c..BufSize /\ z - 1 = Len(Line)
      BY <1>3, <1>5
    <3>2. k \in c..(z - 1) /\ e \in k..(z - 1)
      BY <1>9, <3>1
    <3>3. buf = [x \in 1..BufSize |-> buf[x]] /\ buf[z] = CL!NUL
      BY <1>2 DEF Unread
    <3>4. IsToken(t, buf, Space, c, z, k, e)
      BY <1>9
    <3> HIDE DEF c, z
    <3>5. c \in Nat \ {0} /\ z \in c..BufSize /\ k \in c..(z - 1) /\ e \in k..(z - 1)
      BY <3>1, <3>2
    <3> QED
      BY <1>3, <3>3, <3>4, <3>5, RestOfBuffer
  <2>3. k # 0 /\ place' = IF number = 0 THEN "loop" ELSE "option"
    BY <1>1, <2>1, <2>2
  <2>4. /\ \A x \in c..Len(Line) : buf[x] = Line[x]
        /\ buf[z] = CL!NUL
    BY <1>2 DEF Unread
  <2>5. number' > 0 /\ number' # 0 /\ number' \in Nat /\ last' = IF e = Len(Line) THEN 0 ELSE e + 2
    BY <1>1, <1>3, <1>5, <2>2
  <2>6. e \in 1..Len(Line) /\ k <= e /\ k >= c /\ after \in 1..z /\ after > e /\ k < after
    BY <1>3, <1>5, <1>9, <2>1
  <2>7. Cursor' = after
    BY <1>4, <2>5, <2>6 DEF Cursor
  <2>8. Unread'
    <3>1. \A x \in after..Len(Line) : x \in c..Len(Line) /\ x \in 1..BufSize /\ x # e + 1
      BY <1>3, <1>5, <2>6
    <3>2. \A x \in after..Len(Line) : g[x] = Line[x]
      BY <2>2, <2>4, <3>1
    <3>3. g[z] = CL!NUL
      <4>1. CASE e = Len(Line)
        BY <2>2, <4>1
      <4>2. CASE e # Len(Line)
        <5>1. z \in 1..BufSize /\ z # e + 1
          BY <1>3, <2>6, <4>2
        <5> QED
          BY <2>2, <2>4, <5>1
      <4> QED
        BY <4>1, <4>2
    <3>4. last' # 0 => last' > 1 /\ Line[last' - 1] = Space
      <4>1. last' # 0 => last' = e + 2 /\ e # Len(Line) /\ last' - 1 = e + 1
        BY <2>5, <2>6
      <4> QED
        BY <2>1, <2>6, <4>1
    <3>5. last' \in Nat
      BY <2>5, <2>6
    <3>6. buf' = [x \in 1..BufSize |-> buf'[x]] /\ buf' = g
      BY <1>1, <2>2
    <3>7. \E w \in Words : w < after
      BY <2>1, <2>6
    <3> HIDE DEF g, z, after
    <3>8. \A x \in after..Len(Line) : buf'[x] = Line[x]
      BY <3>2, <3>6
    <3>9. buf'[z] = CL!NUL /\ after \in 1..z
      BY <2>6, <3>3, <3>6
    <3> QED
      BY <1>4, <2>5, <2>7, <3>4, <3>5, <3>6, <3>7, <3>8, <3>9 DEF Unread, z
  <2>9. CASE number = 0
    <3>1. Said(after) = {} /\ Said(c) = {}
      <4>1. c = 1
        BY <2>9 DEF Cursor
      <4>2. \A w \in Words : w >= k
        BY <1>3, <2>1, <4>1, PlacesOfLine
      <4>3. \A w \in Options : w \in Words /\ \E l \in Words : l < w
        BY DEF Options
      <4>4. ASSUME NEW w \in Options, w < after PROVE FALSE
        <5>1. w \in Words /\ w <= k /\ w \in Int /\ k \in Int
          BY <1>3, <2>1, <4>3, <4>4, PlacesOfLine
        <5>2. PICK l \in Words : l < w
          BY <4>3
        <5>3. l >= k /\ l \in Int
          BY <1>3, <4>2, PlacesOfLine
        <5> QED
          BY <5>1, <5>2, <5>3
      <4>5. ASSUME NEW w \in Options, w < c PROVE FALSE
        <5>1. w \in 1..Len(Line)
          BY <1>3, <4>3, PlacesOfLine
        <5> QED
          BY <4>1, <4>5, <5>1
      <4> QED
        BY <4>4, <4>5 DEF Said
    <3>2. PICK y : y = after
      OBVIOUS
    <3>3. config' = Says(Said(Cursor))'
      <4> HIDE DEF c, after
      <4>1. config = Says(Said(c))
        BY <1>2 DEF c
      <4>2. Says(Said(y))' = Says(Said(y))
        BY <1>4
      <4>3. Cursor' = y /\ Said(y) = Said(c)
        BY <2>7, <3>1, <3>2
      <4> QED
        BY <1>1, <4>1, <4>2, <4>3
    <3>4. place' = "loop"
      BY <2>3, <2>9
    <3> QED
      BY <1>1, <1>2, <2>8, <3>3, <3>4 DEF IInv, OptionsInForce
  <2>10. CASE number # 0
    <3>1. place' = "option" /\ token' = k
      BY <1>1, <2>2, <2>3, <2>10
    <3>2. k \in Options
      <4>1. \E w \in Words : w < c
        BY <1>2, <1>5, <2>10 DEF Unread
      <4>2. \E w \in Words : w < k
        BY <2>1, <4>1
      <4> QED
        BY <2>1, <4>2 DEF Options
    <3>3. Said(k) = Said(c)
      <4>1. \A w \in Options : w < k <=> w < c
        BY <1>3, <2>1, PlacesOfLine
      <4> HIDE DEF c
      <4> QED
        BY <4>1 DEF Said
    <3>4. EndOfToken' = e
      <4>1. EndOfWord(k)' = e
        BY <1>1, <2>1, LineKept
      <4> QED
        BY <3>1, <4>1 DEF EndOfToken
    <3>5. config' = Says(Said(token))'
      <4>1. config' = Says(Said(k))
        <5> HIDE DEF c
        <5>1. config = Says(Said(c))
          BY <1>2 DEF c
        <5> QED
          BY <1>1, <3>3, <5>1
      <4>2. Says(Said(k))' = Says(Said(k))
        BY <1>4
      <4> QED
        BY <3>1, <4>1, <4>2
    <3>6. \A w \in Options : w < after => w <= k
      BY <1>3, <2>1, PlacesOfLine
    <3>7. buf'[e + 1] = CL!NUL /\ e \in k..Len(Line)
      BY <1>1, <1>9, <2>2
    <3>8. OptionFound'
      <4> HIDE DEF g, after, z
      <4>1. after = IF e = Len(Line) THEN Len(Line) + 1 ELSE e + 2
        BY DEF after, z
      <4> QED
        BY <1>4, <2>1, <2>5, <2>7, <3>1, <3>2, <3>4, <3>5, <3>6, <3>7, <4>1 DEF OptionFound
    <3>9. \A x \in k..e : buf'[x] = Line[x]
      <4>1. \A x \in k..e : x \in c..Len(Line) /\ x \in 1..BufSize /\ x # e + 1
        BY <1>3, <1>5, <2>6
      <4> HIDE DEF c
      <4> QED
        BY <1>1, <2>2, <2>4, <4>1
    <3>10. (\A x \in token..EndOfToken : buf[x] = Line[x])'
      BY <1>4, <3>1, <3>4, <3>9
    <3> QED
      BY <1>1, <1>2, <2>8, <3>1, <3>8, <3>10 DEF IInv, OptionsInForce
  <2> QED
    BY <2>9, <2>10
<1>10. \/ number # 0 /\ last = 0
       \/ ~(number # 0 /\ last = 0) /\ Nothing(t, buf, Space, Cursor, Len(Line) + 1)
       \/ ~(number # 0 /\ last = 0)
          /\ \E k \in Cursor..Len(Line) : \E e \in k..Len(Line) :
               IsToken(t, buf, Space, Cursor, Len(Line) + 1, k, e)
  BY <1>2, WordFound DEF t
<1> QED
  BY <1>7, <1>8, <1>9, <1>10


(* An option has been found.                                                *)
LEMMA OptionIs ==
  ASSUME CL!Readable, IInv, place \in {"option", "args"}
  PROVE  /\ token \in Options /\ token \in 1..Len(Line)
         /\ EndOfToken \in token..Len(Line) /\ buf[EndOfToken + 1] = CL!NUL
         /\ Word(token) = SubSeq(Line, token, EndOfToken) /\ Word(token) \in Seq(STRING)
         /\ \A l \in Said(token) : l < token
         /\ Said(Cursor) = Said(token) \cup {token}
         /\ config = Says(Said(token)) /\ buf[token] = Line[token]
<1>1. OptionFound /\ input \in Lines /\ Unread
  BY DEF IInv
<1>2. Line \in Seq(STRING) /\ Len(Line) \in Nat
  BY <1>1, LineIs
<1>3. token \in Options /\ token \in 1..Len(Line)
  BY <1>1, <1>2, PlacesOfLine DEF OptionFound
<1>4. EndOfToken \in token..Len(Line) /\ buf[EndOfToken + 1] = CL!NUL /\ config = Says(Said(token))
  BY <1>1 DEF OptionFound
<1>5. Word(token) = SubSeq(Line, token, EndOfToken) /\ Word(token) \in Seq(STRING)
  <2>1. \A x \in token..EndOfToken : Line[x] # Space
    BY <1>1 DEF OptionFound
  <2>2. EndOfToken = Len(Line) \/ Line[EndOfToken + 1] = Space
    BY <1>1 DEF OptionFound
  <2> QED
    BY <1>2, <1>3, <1>4, <2>1, <2>2, WordIs
<1>6. \A l \in Said(token) : l < token
  BY DEF Said
<1>7. Said(Cursor) = Said(token) \cup {token}
  <2>1. \A w \in Options : w < Cursor => w <= token
    BY <1>1 DEF OptionFound
  <2>2. token < Cursor /\ Cursor \in Int
    BY <1>1, <1>2, <1>3, <1>4 DEF OptionFound
  <2>3. \A w \in Options : w \in Int
    BY <1>2, PlacesOfLine
  <2>4. \A w \in Options : w < Cursor <=> w < token \/ w = token
    BY <1>3, <2>1, <2>2, <2>3
  <2> QED
    BY <1>3, <2>4 DEF Said
<1>8. buf[token] = Line[token]
  <2>1. CASE place = "option"
    <3>1. \A x \in token..EndOfToken : buf[x] = Line[x]
      BY <2>1 DEF IInv
    <3> QED
      BY <1>3, <1>4, <3>1
  <2>2. CASE place = "args"
    BY <2>2 DEF IInv, ArgumentsRead
  <2> QED
    BY <2>1, <2>2
<1> QED
  BY <1>3, <1>4, <1>5, <1>6, <1>7, <1>8

(* Back to the head of the loop with the option in force.                   *)
LEMMA LoopAgain ==
  ASSUME CL!Readable, IInv, place \in {"option", "args"}, place' = "loop", input' = input,
         buf' = buf, last' = last, number' = number, argsPtr' = 0, args' = <<>>,
         config' = Says(Said(token) \cup {token})
  PROVE  IInv'
<1>1. input \in Lines /\ Unread
  BY DEF IInv
<1>2. Line' = Line /\ Words' = Words /\ Len(Line)' = Len(Line)
  BY LineKept, SaidKept
<1>3. Cursor' = Cursor
  BY <1>2 DEF Cursor
<1>4. Unread'
  BY <1>1, <1>2, <1>3 DEF Unread
<1>5. config' = Says(Said(Cursor))'
  <2>1. config' = Says(Said(Cursor))
    BY OptionIs
  <2>2. PICK y : y = Cursor
    OBVIOUS
  <2>3. Says(Said(y))' = Says(Said(y))
    BY SaidKept, SaysKept
  <2> QED
    BY <1>3, <2>1, <2>2, <2>3
<1> QED
  BY <1>1, <1>4, <1>5 DEF IInv, OptionsInForce

LEMMA FlagKeeps == ASSUME CL!Readable, IInv, CL!Flag PROVE IInv'
<1> DEFINE o == Option(CL!Str(buf, token))
<1>1. /\ place = "option" /\ place' = "loop" /\ input' = input /\ buf' = buf /\ last' = last /\ number' = number
      /\ argsPtr' = argsPtr /\ args' = args /\ input.prog # "zapp"
      /\ config' = IF input.prog = "morbo" THEN CL!ParseMorbo(o) ELSE CL!ParseBender(o)
  BY DEF CL!Flag, CL!Goto, Option
<1>2. argsPtr = 0 /\ args = <<>> /\ input \in Lines
  BY <1>1 DEF IInv
<1>3. /\ Line \in Seq(STRING) /\ Len(Line) \in Nat /\ Len(Line) < BufSize /\ BufSize \in Nat
      /\ \A k \in 1..Len(Line) : Line[k] # CL!NUL
      /\ input.prog \in {"morbo", "bender", "zapp"}
  BY <1>2, LineIs
<1>4. CL!Str(buf, token) = Word(token)
  <2>1. token \in 1..Len(Line) /\ EndOfToken \in token..Len(Line) /\ buf[EndOfToken + 1] = CL!NUL
    BY <1>1, OptionIs
  <2>2. buf = [x \in 1..BufSize |-> buf[x]]
    BY <1>1 DEF IInv, Unread
  <2>3. Len(buf) = BufSize
    BY <1>3, <2>2
  <2>4. \A x \in token..EndOfToken : x \in 1..Len(Line) /\ buf[x] = Line[x] /\ Line[x] # CL!NUL
    <3>1. \A x \in token..EndOfToken : buf[x] = Line[x]
      BY <1>1 DEF IInv
    <3>2. \A x \in token..EndOfToken : x \in 1..Len(Line)
      BY <1>3, <2>1
    <3> QED
      BY <1>3, <3>1, <3>2
  <2>5. EndOfToken < Len(buf) /\ Len(buf) \in Nat
    BY <1>3, <2>1, <2>3
  <2>6. CL!Str(buf, token) = SubSeq(Line, token, EndOfToken)
    BY <1>3, <2>1, <2>4, <2>5, StrIs
  <2> QED
    BY <1>1, <2>6, OptionIs
<1>5. /\ Said(token) \in SUBSET Int /\ token \in Int /\ \A l \in Said(token) : l < token
      /\ Word(token) \in Seq(STRING) /\ config = Says(Said(token))
  BY <1>1, <1>3, OptionIs, PlacesOfLine
<1>6. config' = Says(Said(token) \cup {token})
  <2>1. CASE input.prog = "morbo"
    <3>1. config' = CL!ParseMorbo(Option(Word(token)))
      BY <1>1, <1>4, <2>1
    <3> QED
      BY <1>5, <2>1, <3>1, MorboMore
  <2>2. CASE input.prog = "bender"
    <3>1. config' = CL!ParseBender(Option(Word(token)))
      BY <1>1, <1>4, <2>2
    <3> QED
      BY <1>5, <2>2, <3>1, BenderMore
  <2> QED
    BY <1>1, <1>3, <2>1, <2>2
<1> QED
  BY <1>1, <1>2, <1>6, LoopAgain

LEMMA NoPrefixKeeps == ASSUME CL!Readable, IInv, CL!NoPrefix PROVE IInv'
<1>1. /\ place = "option" /\ place' = "loop" /\ input' = input /\ buf' = buf /\ last' = last /\ number' = number
      /\ argsPtr' = argsPtr /\ args' = args /\ config' = config /\ input.prog = "zapp"
      /\ buf[token] \notin CL!WithArguments
  BY DEF CL!NoPrefix, CL!Goto
<1>2. argsPtr = 0 /\ args = <<>> /\ input \in Lines
  BY <1>1 DEF IInv
<1>3. Len(Line) \in Nat
  BY <1>2, LineIs
<1>4. /\ Said(token) \in SUBSET (1..Len(Line)) /\ token \in 1..Len(Line)
      /\ \A l \in Said(token) : l < token
      /\ config = Says(Said(token)) /\ Line[token] = buf[token]
  BY <1>1, <1>3, OptionIs, PlacesOfLine
<1>5. Says(Said(token) \cup {token}) = config
  <2>1. Line[token] \notin {"fixrmrr=", "addrmrr=", "disabledmar="}
    BY <1>1, <1>4 DEF CL!WithArguments
  <2> QED
    BY <1>1, <1>3, <1>4, <2>1, ZappMore
<1> QED
  BY <1>1, <1>2, <1>5, LoopAgain


(* A table has an entry for each of its options.                            *)
LEMMA RegionsLength ==
  ASSUME NEW K \in SUBSET (1..Len(Line)), Len(Line) \in Nat, NEW p
  PROVE  /\ IsFiniteSet({k \in K : Line[k] = p})
         /\ Len(Regions(K, p)) = Cardinality({k \in K : Line[k] = p})
         /\ Cardinality({k \in K : Line[k] = p}) \in Nat
<1> DEFINE F == {k \in K : Line[k] = p}
           h == Cardinality(F)
<1>1. IsFiniteSet(F) /\ h \in Nat
  <2>1. IsFiniteSet(1..Len(Line))
    BY FS_Interval
  <2>2. F \in SUBSET (1..Len(Line))
    OBVIOUS
  <2> HIDE DEF F
  <2> QED
    BY <2>1, <2>2, FS_Subset, FS_CardinalityType
<1>2. WithPrefix(K, p) = [x \in 1..h |-> CHOOSE k \in F : Rank(F, k) = x]
  BY DEF WithPrefix, InOrder
<1> HIDE DEF F, h
<1>3. Len(WithPrefix(K, p)) = h
  BY <1>1, <1>2
<1>4. Regions(K, p) = [x \in 1..h |-> Region(WithPrefix(K, p)[x])]
  BY <1>3 DEF Regions
<1>5. Len(Regions(K, p)) = h
  BY <1>1, <1>4
<1> QED
  BY <1>1, <1>5 DEF F, h

(* All options have at least as many as those before the token.             *)
LEMMA MoreRegions ==
  ASSUME Len(Line) \in Nat, token \in Options, NEW p
  PROVE  /\ Len(Regions(Options, p)) \in Nat /\ Len(Regions(Said(token), p)) \in Nat
         /\ Len(Regions(Options, p)) >= Len(Regions(Said(token), p))
         /\ Line[token] = p => Len(Regions(Options, p)) > Len(Regions(Said(token), p))
<1> DEFINE F == {k \in Said(token) : Line[k] = p}
           G == {k \in Options : Line[k] = p}
<1>1. Said(token) \in SUBSET (1..Len(Line)) /\ Options \in SUBSET (1..Len(Line))
  BY PlacesOfLine
<1>2. /\ IsFiniteSet(F) /\ IsFiniteSet(G) /\ Cardinality(F) \in Nat /\ Cardinality(G) \in Nat
      /\ Len(Regions(Options, p)) = Cardinality(G)
      /\ Len(Regions(Said(token), p)) = Cardinality(F)
  BY <1>1, RegionsLength
<1>3. F \in SUBSET G
  BY DEF Said
<1>4. token \notin F /\ (Line[token] = p => token \in G)
  <2>1. \A w \in Said(token) : w < token /\ w \in 1..Len(Line)
    BY <1>1 DEF Said
  <2>2. token \in 1..Len(Line)
    BY <1>1
  <2> QED
    BY <2>1, <2>2
<1> HIDE DEF F, G
<1>5. Cardinality(F) <= Cardinality(G)
  BY <1>2, <1>3, FS_Subset
<1>6. ASSUME Line[token] = p PROVE Cardinality(F) + 1 <= Cardinality(G)
  <2>1. F \cup {token} \in SUBSET G
    BY <1>3, <1>4, <1>6
  <2>2. Cardinality(F \cup {token}) = Cardinality(F) + 1
    BY <1>2, <1>4, FS_AddElement
  <2> QED
    BY <1>2, <2>1, <2>2, FS_Subset
<1> QED
  BY <1>2, <1>5, <1>6

LEMMA TableFullKeeps == ASSUME CL!Readable, IInv, CL!TableFull PROVE IInv'
<1>1. /\ place = "option" /\ place' = "failed" /\ input' = input /\ input.prog = "zapp" /\ CL!TooMany
  BY DEF CL!TableFull, CL!Goto
<1>2. input \in Lines
  BY DEF IInv
<1>3. Len(Line) \in Nat /\ MaxFixups \in Nat
  BY <1>2, LineIs
<1>4. token \in Options /\ buf[token] = Line[token] /\ config = Says(Said(token))
  BY <1>1, OptionIs
<1>5. /\ config.fixups = Regions(Said(token), "fixrmrr=")
      /\ config.additions = Regions(Said(token), "addrmrr=")
  BY <1>1, <1>4, ZappIs, OfZappHas
<1>6. \/ Len(Regions(Options, "fixrmrr=")) > MaxFixups
      \/ Len(Regions(Options, "addrmrr=")) >= MaxFixups
  <2> DEFINE f == "fixrmrr="
             a == "addrmrr="
             lf == Len(Regions(Said(token), f))
             la == Len(Regions(Said(token), a))
             mf == Len(Regions(Options, f))
             ma == Len(Regions(Options, a))
  <2>1. (Line[token] = f /\ lf = MaxFixups) \/ la = MaxFixups
    BY <1>1, <1>4, <1>5 DEF CL!TooMany
  <2> HIDE DEF f, a
  <2>2. mf \in Nat /\ lf \in Nat /\ (Line[token] = f => mf > lf)
    BY <1>3, <1>4, MoreRegions
  <2>3. ma \in Nat /\ la \in Nat /\ ma >= la
    BY <1>3, <1>4, MoreRegions
  <2> HIDE DEF lf, la, mf, ma
  <2>4. mf > MaxFixups \/ ma >= MaxFixups
    BY <1>3, <2>1, <2>2, <2>3
  <2> QED
    BY <2>4 DEF f, a, mf, ma
<1>7. OptionsInForce'
  <2>1. Options' = Options
    BY <1>1, LineKept
  <2>2. ASSUME NEW O, NEW p PROVE Regions(O, p)' = Regions(O, p)
    BY <1>1, SaysKept
  <2>3. PICK O : O = Options
    OBVIOUS
  <2>4. Regions(Options, "fixrmrr=")' = Regions(O, "fixrmrr=")
    BY <2>1, <2>2, <2>3
  <2>5. Regions(Options, "addrmrr=")' = Regions(O, "addrmrr=")
    BY <2>1, <2>2, <2>3
  <2> QED
    BY <1>1, <1>6, <2>3, <2>4, <2>5 DEF OptionsInForce
<1> QED
  BY <1>1, <1>2, <1>7 DEF IInv


(* Behind the inner cursor at c only commas come before the argument at k.  *)
LEMMA ArgumentsMore ==
  ASSUME Len(Line) \in Nat, NEW y \in 1..Len(Line), NEW E \in y..Len(Line), E = EndOfWord(y),
         NEW c \in (y + 1)..(E + 1), c = y + 1 \/ Line[c - 1] = Comma,
         NEW k \in c..E, NEW e \in k..E, \A x \in c..(k - 1) : Line[x] = Comma,
         \A x \in k..e : Line[x] # Comma, e = E \/ Line[e + 1] = Comma,
         NEW stop, stop = IF e = E THEN E + 1 ELSE e + 2, NEW h, h = ArgumentsBefore(y, c)
  PROVE  /\ h \in Nat /\ InOrder(ArgumentsOf(y))[h + 1] = k
         /\ ArgumentsBefore(y, stop) = h + 1
<1> DEFINE A == ArgumentsOf(y)
           X == {a \in A : a < c}
           Y == {a \in A : a < stop}
<1>11. h = Cardinality(X) /\ ArgumentsBefore(y, stop) = Cardinality(Y)
  BY DEF ArgumentsBefore
<1>0. A = {a \in (y + 1)..E : Line[a] # Comma /\ (a = y + 1 \/ Line[a - 1] = Comma)}
  BY WordsAre
<1>1. A \in SUBSET ((y + 1)..E) /\ A \in SUBSET Int /\ IsFiniteSet(A)
  <2>1. \A a \in A : a \in (y + 1)..E /\ a \in Int
    BY <1>0
  <2>2. A \in SUBSET ((y + 1)..E) /\ A \in SUBSET Int
    BY <2>1
  <2>3. IsFiniteSet((y + 1)..E)
    <3>1. y + 1 \in Int /\ E \in Int
      OBVIOUS
    <3> QED
      BY <3>1, FS_Interval
  <2> HIDE DEF A
  <2> QED
    BY <2>2, <2>3, FS_Subset
<1>2. k \in A
  <2>1. k \in (y + 1)..E /\ Line[k] # Comma
    OBVIOUS
  <2>2. k = y + 1 \/ Line[k - 1] = Comma
    <3>1. CASE k = c
      BY <3>1
    <3>2. CASE k # c
      <4>1. k - 1 \in c..(k - 1)
        BY <3>2
      <4> QED
        BY <4>1
    <3> QED
      BY <3>1, <3>2
  <2> QED
    BY <1>0, <2>1, <2>2
<1>3. ASSUME NEW a \in A PROVE /\ a < c => a < k
                               /\ a < k => a < c
  <2>1. a \in (y + 1)..E /\ Line[a] # Comma
    BY <1>0
  <2>2. a \notin c..(k - 1)
    BY <2>1
  <2> QED
    BY <2>1, <2>2
<1>4. ASSUME NEW a \in A, a < stop, ~(a <= k) PROVE FALSE
  <2>1. a \in (y + 1)..E /\ Line[a] # Comma /\ Line[a - 1] = Comma
    BY <1>0, <1>4
  <2>2. a - 1 \notin k..e
    BY <2>1
  <2>3. a = e + 2 \/ a = e + 1
    BY <1>4, <2>1, <2>2
  <2>4. a = e + 1 /\ e # E
    BY <1>4, <2>1, <2>3
  <2> QED
    BY <2>1, <2>4
<1>5. k < stop /\ k \in Int /\ k \notin X /\ c \in Int /\ stop \in Int
  OBVIOUS
<1> HIDE DEF A
<1>6. \A a \in A : a \in Int
  BY <1>1
<1>7. Y = X \cup {k} /\ {a \in A : a <= k} = Y
  <2>1. \A a \in A : a < stop <=> a <= k
    BY <1>4, <1>5, <1>6
  <2>2. \A a \in A : a < stop <=> a < c \/ a = k
    BY <1>3, <1>5, <1>6, <2>1
  <2>3. k \in Y
    BY <1>2, <1>5
  <2> QED
    BY <1>2, <2>1, <2>2, <2>3
<1>8. IsFiniteSet(X) /\ h \in Nat /\ Cardinality(X \cup {k}) = h + 1
  <2>1. X \in SUBSET A
    OBVIOUS
  <2>3. h = Cardinality(X) /\ k \notin X
    BY <1>5, <1>11
  <2> HIDE DEF X
  <2>2. IsFiniteSet(X)
    BY <1>1, <2>1, FS_Subset
  <2>4. Cardinality(X) \in Nat
    BY <2>2, FS_CardinalityType
  <2>5. Cardinality(X \cup {k}) = Cardinality(X) + 1
    BY <2>2, <2>3, FS_AddElement
  <2> QED
    BY <2>2, <2>3, <2>4, <2>5
<1>9. Rank(A, k) = h + 1
  <2> HIDE DEF X, Y
  <2> QED
    BY <1>7, <1>8 DEF Rank
<1>10. InOrder(A)[Rank(A, k)] = k
  BY <1>1, <1>2, InOrderIs
<1>12. Cardinality(Y) = h + 1
  <2> HIDE DEF X, Y
  <2> QED
    BY <1>7, <1>8
<1> QED
  BY <1>8, <1>9, <1>10, <1>11, <1>12 DEF A


(* All arguments are before a place with nothing but commas behind it, and  *)
(* no more of them before any other.                                        *)
LEMMA ArgumentsAre ==
  ASSUME Len(Line) \in Nat, NEW y \in 1..Len(Line), EndOfWord(y) \in y..Len(Line)
  PROVE  /\ Cardinality(ArgumentsOf(y)) \in Nat
         /\ \A c : ArgumentsBefore(y, c) <= Cardinality(ArgumentsOf(y))
         /\ \A c \in Int : (\A x \in c..EndOfWord(y) : Line[x] = Comma)
                           => ArgumentsBefore(y, c) = Cardinality(ArgumentsOf(y))
<1> DEFINE A == ArgumentsOf(y)
           E == EndOfWord(y)
<1>1. \A a \in A : a \in (y + 1)..E /\ Line[a] # Comma /\ a \in Int
  BY WordsAre
<1>2. IsFiniteSet(A)
  <2>1. A \in SUBSET ((y + 1)..E)
    BY <1>1
  <2>2. y + 1 \in Int /\ E \in Int
    OBVIOUS
  <2>3. IsFiniteSet((y + 1)..E)
    BY <2>2, FS_Interval
  <2> HIDE DEF A, E
  <2> QED
    BY <2>1, <2>3, FS_Subset
<1>3. ASSUME NEW c PROVE ArgumentsBefore(y, c) <= Cardinality(A)
  <2>1. {a \in A : a < c} \in SUBSET A /\ ArgumentsBefore(y, c) = Cardinality({a \in A : a < c})
    BY DEF ArgumentsBefore
  <2> HIDE DEF A
  <2> QED
    BY <1>2, <2>1, FS_Subset
<1>4. ASSUME NEW c \in Int, \A x \in c..E : Line[x] = Comma
      PROVE  ArgumentsBefore(y, c) = Cardinality(A)
  <2>1. {a \in A : a < c} = A
    <3>1. \A a \in A : a < c
      BY <1>1, <1>4
    <3> HIDE DEF A
    <3> QED
      BY <3>1
  <2> QED
    BY <2>1 DEF ArgumentsBefore
<1>5. Cardinality(A) \in Nat
  BY <1>2, FS_CardinalityType
<1> QED
  BY <1>3, <1>4, <1>5

(* What the invariant says of the line and the option, as long as neither   *)
(* the buffer nor the outer cursors change.                                 *)
LEMMA OptionKept ==
  ASSUME input' = input, buf' = buf, last' = last, token' = token, number' = number, config' = config
  PROVE  /\ Unread => Unread'
         /\ OptionFound => OptionFound'
         /\ Cursor' = Cursor /\ EndOfToken' = EndOfToken
         /\ ArgumentsOf(token)' = ArgumentsOf(token)
         /\ \A x : Argument(token, x)' = Argument(token, x)
         /\ \A x : ArgumentsBefore(token, x)' = ArgumentsBefore(token, x)
<1>1. Line' = Line /\ Words' = Words /\ Options' = Options
  BY LineKept
<1>2. Cursor' = Cursor
  BY <1>1 DEF Cursor
<1>3. PICK w : w = token
  OBVIOUS
<1>4. /\ EndOfWord(w)' = EndOfWord(w) /\ ArgumentsOf(w)' = ArgumentsOf(w) /\ token' = w
      /\ \A x : Argument(w, x)' = Argument(w, x)
  BY <1>3, LineKept
<1>5. /\ EndOfToken' = EndOfToken
      /\ \A x : ArgumentsBefore(w, x)' = ArgumentsBefore(w, x)
  BY <1>3, <1>4 DEF EndOfToken, ArgumentsBefore
<1>6. Unread => Unread'
  BY <1>1, <1>2 DEF Unread
<1>7. OptionFound => OptionFound'
  <2>1. Says(Said(w))' = Says(Said(w))
    BY SaidKept, SaysKept
  <2>2. OptionFound => config' = Says(Said(token))'
    BY <1>3, <2>1 DEF OptionFound
  <2> QED
    BY <1>1, <1>2, <1>5, <2>2 DEF OptionFound
<1>8. ArgumentsOf(token)' = ArgumentsOf(token)
  BY <1>3, <1>4
<1>9. \A x : Argument(token, x)' = Argument(token, x)
  <2> SUFFICES ASSUME NEW x PROVE Argument(token, x)' = Argument(token, x)
    OBVIOUS
  <2>1. Argument(w, x)' = Argument(w, x)
    BY <1>4
  <2> QED
    BY <1>3, <1>4, <2>1
<1>10. \A x : ArgumentsBefore(token, x)' = ArgumentsBefore(token, x)
  <2> SUFFICES ASSUME NEW x PROVE ArgumentsBefore(token, x)' = ArgumentsBefore(token, x)
    OBVIOUS
  <2>1. ArgumentsBefore(w, x)' = ArgumentsBefore(w, x)
    BY <1>5
  <2> QED
    BY <1>3, <1>4, <2>1
<1> QED
  BY <1>2, <1>5, <1>6, <1>7, <1>8, <1>9, <1>10

(* No argument is left: strtok_r returns NULL, and strtoull reads there.    *)
LEMMA NoArgumentKeeps ==
  ASSUME CL!Readable, IInv, place \in {"option", "args"}, input.prog = "zapp",
         Line[token] \in CL!WithArguments,
         Len(args) \in Nat, Len(args) >= Cardinality(ArgumentsOf(token)),
         args = [x \in 1..Len(args) |-> Argument(token, x)],
         place' = "args", buf' = buf, argsPtr' = 0, args' = Append(args, AtNull),
         UNCHANGED <<input, last, token, number, config>>
  PROVE  IInv'
<1> DEFINE h == Len(args)
<1>1. input \in Lines /\ Unread /\ OptionFound
  BY DEF IInv
<1>2. /\ input' = input /\ buf' = buf /\ last' = last /\ token' = token
      /\ number' = number /\ config' = config
  OBVIOUS
<1>3. Len(Line) \in Nat
  BY <1>1, LineIs
<1>4. /\ token \in 1..Len(Line) /\ EndOfToken \in token..Len(Line) /\ buf[token] = Line[token]
  BY OptionIs
<1>5. Unread' /\ OptionFound' /\ EndOfToken' = EndOfToken
  BY <1>1, <1>2, OptionKept
<1>6. Cardinality(ArgumentsOf(token)) \in Nat
  BY <1>3, <1>4, ArgumentsAre DEF EndOfToken
<1>7. args' = [x \in 1..(h + 1) |-> Argument(token, x)] /\ Len(args') = h + 1
  <2> DEFINE T == [x \in 1..(h + 1) |-> Argument(token, x)]
  <2>1. Argument(token, h + 1) = AtNull
    <3>1. ~(h + 1 <= Cardinality(ArgumentsOf(token)))
      BY <1>6
    <3> HIDE DEF h
    <3> QED
      BY <3>1 DEF Argument
  <2>2. T = [x \in 1..(h + 1) |-> IF x <= h THEN args[x] ELSE AtNull]
    <3>1. \A x \in 1..(h + 1) : x <= h => x \in 1..h
      OBVIOUS
    <3>2. \A x \in 1..h : args[x] = Argument(token, x)
      OBVIOUS
    <3>3. \A x \in 1..(h + 1) : ~(x <= h) => x = h + 1
      OBVIOUS
    <3> HIDE DEF h
    <3> QED
      BY <2>1, <3>1, <3>2, <3>3
  <2>3. args = [x \in 1..h |-> args[x]] /\ h \in Nat
    OBVIOUS
  <2> HIDE DEF T, h
  <2>4. T = Append(args, AtNull) /\ Len(T) = h + 1
    BY <2>2, <2>3, AppendIs
  <2> QED
    BY <2>4 DEF T
<1>8. ArgumentsRead'
  <2>1. Line' = Line
    BY <1>2, LineKept
  <2>2. ArgumentCursor' = EndOfToken + 1
    BY <1>5 DEF ArgumentCursor
  <2>3. EndOfToken + 1 \in (token + 1)..(EndOfToken + 1)
    BY <1>3, <1>4
  <2>4. \A x \in (EndOfToken + 1)..EndOfToken : buf[x] = Line[x]
    BY <1>3, <1>4
  <2>5. Cardinality(ArgumentsOf(token))' = Cardinality(ArgumentsOf(token))
    BY <1>2, OptionKept
  <2>6. Len(args') \in Nat /\ Len(args') >= Cardinality(ArgumentsOf(token))
    BY <1>6, <1>7
  <2>7. args' = [x \in 1..Len(args') |-> Argument(token, x)']
    BY <1>2, <1>7, OptionKept
  <2> QED
    BY <1>2, <1>4, <1>5, <2>1, <2>2, <2>3, <2>4, <2>5, <2>6, <2>7 DEF ArgumentsRead
<1> QED
  BY <1>1, <1>2, <1>5, <1>8 DEF IInv, OptionsInForce


(* strtok_r and strtoull take the next argument out of the token.           *)
Reading(s, c) ==
  /\ place \in {"option", "args"} /\ input.prog = "zapp" /\ Line[token] \in CL!WithArguments
  /\ c \in (token + 1)..(EndOfToken + 1) /\ c = IF s = 0 THEN argsPtr ELSE s
  /\ c = token + 1 \/ Line[c - 1] = Comma
  /\ \A x \in c..EndOfToken : buf[x] = Line[x]
  /\ Len(args) = ArgumentsBefore(token, c)
  /\ args = [x \in 1..Len(args) |-> Argument(token, x)]
Read(s) ==
  /\ CL!ReadArgument(s) /\ place' = "args"
  /\ UNCHANGED <<input, last, token, number, config>>

LEMMA ReadKeeps ==
  ASSUME CL!Readable, IInv, NEW s, NEW c, Reading(s, c), Read(s)
  PROVE  IInv'
<1> DEFINE t == CL!Strtok(buf, s, argsPtr, Comma)
           g == t.buf
           E == EndOfToken
           z == E + 1
           h == Len(args)
<1>41. /\ buf' = g /\ argsPtr' = t.save
       /\ args' = Append(args, IF t.tok = 0 THEN AtNull ELSE CL!Strtoull(CL!Str(g, t.tok)))
  BY DEF Read, CL!ReadArgument, Comma
<1>2. /\ input \in Lines /\ OptionFound /\ Unread
      /\ input' = input /\ last' = last /\ token' = token /\ number' = number /\ config' = config
      /\ place' = "args"
  BY DEF IInv, Read, Reading
<1>3. Len(Line) \in Nat /\ Len(Line) < BufSize /\ BufSize \in Nat /\ ULLMax \in Nat
  BY <1>2, LineIs
<1>24. Line \in Seq(STRING) /\ \A k \in 1..Len(Line) : Line[k] # CL!NUL
  BY <1>2, LineIs
<1>23. \A k \in 1..Len(Line) : Line[k] \in STRING
  BY <1>2, LineIs
<1>4. token \in 1..Len(Line) /\ E \in token..Len(Line)
  BY OptionIs DEF Reading
<1>26. buf[z] = CL!NUL
  BY OptionIs DEF Reading
<1>25. c \in (token + 1)..(E + 1)
  BY DEF Reading
<1>27. c = IF s = 0 THEN argsPtr ELSE s
  BY DEF Reading
<1>21. /\ c = token + 1 \/ Line[c - 1] = Comma
       /\ \A x \in c..E : buf[x] = Line[x]
  BY DEF Reading
<1>22. h = ArgumentsBefore(token, c) /\ args = [x \in 1..h |-> Argument(token, x)]
  BY DEF Reading
<1> HIDE DEF E
<1>5. c \in 2..z /\ c \in Nat \ {0} /\ z \in c..BufSize /\ z - 1 = E /\ E \in Int
  BY <1>3, <1>4, <1>25
<1>6. buf = [x \in 1..BufSize |-> buf[x]] /\ Len(buf) = BufSize
  <2>1. buf = [x \in 1..BufSize |-> buf[x]]
    BY <1>2 DEF Unread
  <2> QED
    BY <1>3, <2>1
<1>7. \A x \in c..(z - 1) : x \in 1..Len(Line) /\ buf[x] = Line[x] /\ buf[x] # CL!NUL
  <2>1. \A x \in c..E : x \in 1..Len(Line)
    BY <1>3, <1>4, <1>5
  <2> QED
    BY <1>5, <1>21, <1>24, <2>1
<1>35. \/ Nothing(t, buf, Comma, c, z)
       \/ \E k \in c..(z - 1) : \E e \in k..(z - 1) : IsToken(t, buf, Comma, c, z, k, e)
  <2>1. Comma # CL!NUL
    BY DEF Comma, CL!NUL
  <2> HIDE DEF z
  <2>2. Len(buf) \in Nat /\ z \in c..Len(buf)
    BY <1>3, <1>5, <1>6
  <2> HIDE DEF t
  <2> QED
    BY <1>5, <1>7, <1>26, <1>27, <2>1, <2>2, StrtokIs DEF t
<1>36. E = EndOfWord(token) /\ E \in Int
  BY <1>5 DEF E, EndOfToken
<1>37. /\ Cardinality(ArgumentsOf(token)) \in Nat
       /\ \A x : ArgumentsBefore(token, x) <= Cardinality(ArgumentsOf(token))
  BY <1>3, <1>4, <1>36, ArgumentsAre
<1>38. CASE Nothing(t, buf, Comma, c, z)
  <2>1. buf' = buf /\ argsPtr' = 0 /\ args' = Append(args, AtNull)
    <3> HIDE DEF t
    <3> QED
      BY <1>38, <1>41 DEF Nothing
  <2>2. \A x \in c..E : Line[x] = Comma
    BY <1>5, <1>7, <1>38 DEF Nothing
  <2>3. h = Cardinality(ArgumentsOf(token))
    <3> HIDE DEF h
    <3> QED
      BY <1>3, <1>4, <1>5, <1>22, <1>36, <2>2, ArgumentsAre
  <2>4. args = [x \in 1..Len(args) |-> Argument(token, x)]
    BY <1>22
  <2>5. Len(args) \in Nat /\ Len(args) >= Cardinality(ArgumentsOf(token))
    BY <1>37, <2>3
  <2>6. /\ place \in {"option", "args"} /\ input.prog = "zapp"
        /\ Line[token] \in CL!WithArguments
    BY DEF Reading
  <2> HIDE DEF t, g, z, h
  <2> QED
    BY <1>2, <2>1, <2>4, <2>5, <2>6, NoArgumentKeeps
<1> SUFFICES ASSUME ~Nothing(t, buf, Comma, c, z) PROVE IInv'
  BY <1>38
<1>18. PICK k \in c..(z - 1) : \E e \in k..(z - 1) : IsToken(t, buf, Comma, c, z, k, e)
  BY <1>35
<1>8. PICK e \in k..(z - 1) : IsToken(t, buf, Comma, c, z, k, e)
  BY <1>18
<1> HIDE DEF t
<1>9. /\ t.tok = k /\ g = [x \in 1..BufSize |-> g[x]]
      /\ \A x \in 1..BufSize : x # e + 1 => g[x] = buf[x]
      /\ g[e + 1] = CL!NUL
      /\ t.save = IF e = z - 1 THEN 0 ELSE e + 2
  <2> HIDE DEF z
  <2>1. c \in Nat \ {0} /\ z \in c..BufSize /\ k \in c..(z - 1) /\ e \in k..(z - 1)
    BY <1>5, <1>8, <1>18
  <2>2. IsToken(t, buf, Comma, c, z, k, e) /\ buf[z] = CL!NUL
    BY <1>8, <1>26
  <2>3. buf = [x \in 1..BufSize |-> buf[x]] /\ BufSize \in Nat
    BY <1>3, <1>6
  <2> QED
    BY <2>1, <2>2, <2>3, RestOfBuffer
<1>1. /\ buf' = g /\ argsPtr' = t.save
      /\ args' = Append(args, CL!Strtoull(CL!Str(g, t.tok)))
  <2>1. t.tok # 0
    BY <1>5, <1>9, <1>18
  <2> HIDE DEF g
  <2> QED
    BY <1>41, <2>1
<1>10. k \in c..E /\ e \in k..E /\ k \in 1..Len(Line) /\ e \in k..Len(Line) /\ k > token
  <2>1. k \in c..E /\ e \in k..E
    <3> HIDE DEF z
    <3> QED
      BY <1>5, <1>8, <1>18
  <2> QED
    BY <1>3, <1>4, <1>25, <2>1
<1>11. /\ \A x \in c..(k - 1) : Line[x] = Comma
       /\ \A x \in k..e : Line[x] # Comma
       /\ e = E \/ (e < E /\ Line[e + 1] = Comma)
  <2>1. /\ \A x \in c..(k - 1) : buf[x] = Comma
        /\ \A x \in k..e : buf[x] # Comma
        /\ e = E \/ (e < E /\ buf[e + 1] = Comma)
    <3> HIDE DEF z
    <3> QED
      BY <1>5, <1>8 DEF IsToken
  <2>2. /\ \A x \in c..(k - 1) : x \in c..(z - 1)
        /\ \A x \in k..e : x \in c..(z - 1)
        /\ e < E => e + 1 \in c..(z - 1)
    BY <1>5, <1>10
  <2> QED
    BY <1>7, <2>1, <2>2
<1>12. SubSeq(Line, k, e) \in Seq(STRING) /\ CL!Str(g, k) = SubSeq(Line, k, e)
  <2>1. \A x \in k..e : Line[x] \in STRING
    <3>1. \A x \in k..e : x \in 1..Len(Line)
      BY <1>3, <1>10
    <3> QED
      BY <1>23, <3>1
  <2>2. SubSeq(Line, k, e) \in Seq(STRING)
    BY <1>10, <1>24, <2>1, SubSeqProperties
  <2>3. \A x \in k..e : g[x] = Line[x] /\ Line[x] # CL!NUL
    <3>1. \A x \in k..e : x \in c..(z - 1) /\ x \in 1..BufSize /\ x # e + 1 /\ x \in 1..Len(Line)
      BY <1>3, <1>5, <1>10
    <3> QED
      BY <1>7, <1>9, <1>24, <3>1
  <2>4. Len(g) = BufSize /\ e < Len(g) /\ Len(g) \in Nat
    <3>1. Len(g) = BufSize
      <4> HIDE DEF g
      <4> QED
        BY <1>3, <1>9
    <3> QED
      BY <1>3, <1>10, <3>1
  <2>5. CL!Str(g, k) = SubSeq(Line, k, e)
    <3>1. g[e + 1] = CL!NUL
      BY <1>9
    <3>2. k \in 1..Len(Line) /\ e \in k..Len(Line)
      BY <1>10
    <3> HIDE DEF g
    <3> QED
      BY <1>24, <2>3, <2>4, <3>1, <3>2, StrIs
  <2> QED
    BY <2>2, <2>5
<1>13. Run(k, {",", " "}) = SubSeq(Line, k, e)
  <2> DEFINE S == {Comma, Space}
  <2>1. \A x \in token..E : Line[x] # Space
    BY <1>2 DEF OptionFound, E
  <2>2. \A x \in k..e : Line[x] \notin S
    <3>1. \A x \in k..e : x \in token..E
      BY <1>3, <1>4, <1>10
    <3> QED
      BY <1>11, <2>1, <3>1
  <2>3. e = Len(Line) \/ Line[e + 1] \in S
    <3>1. E = Len(Line) \/ Line[E + 1] = Space
      BY <1>2 DEF OptionFound, E
    <3> QED
      BY <1>11, <3>1
  <2> HIDE DEF S
  <2>4. EndOfRun(k, S) = e
    BY <1>3, <1>10, <2>2, <2>3, EndOfRunIs
  <2>5. Run(k, S) = SubSeq(Line, k, e)
    BY <2>4 DEF Run
  <2> QED
    BY <2>5 DEF S, Comma, Space
<1>28. PICK y : y = IF e = E THEN E + 1 ELSE e + 2
  OBVIOUS
<1>14. h \in Nat /\ InOrder(ArgumentsOf(token))[h + 1] = k /\ ArgumentsBefore(token, y) = h + 1
  <2>1. E = EndOfWord(token)
    BY DEF E, EndOfToken
  <2>2. e = E \/ Line[e + 1] = Comma
    BY <1>11
  <2>3. k \in c..E /\ e \in k..E
    BY <1>10
  <2>4. (\A x \in c..(k - 1) : Line[x] = Comma) /\ \A x \in k..e : Line[x] # Comma
    BY <1>11
  <2>5. c = token + 1 \/ Line[c - 1] = Comma
    BY <1>21
  <2>6. h = ArgumentsBefore(token, c)
    BY <1>22
  <2> HIDE DEF h
  <2>7. token \in 1..Len(Line) /\ E \in token..Len(Line) /\ Len(Line) \in Nat
    BY <1>3, <1>4
  <2> QED
    BY <1>25, <1>28, <2>1, <2>2, <2>3, <2>4, <2>5, <2>6, <2>7, ArgumentsMore, SMTT(60)
<1>15. CL!Strtoull(CL!Str(g, t.tok)) = Argument(token, h + 1)
  <2>1. CL!Strtoull(CL!Str(g, k)) = Number(Run(k, {",", " "}))
    BY <1>3, <1>12, <1>13, StrtoullIs
  <2> HIDE DEF g, h
  <2>2. h + 1 <= Cardinality(ArgumentsOf(token))
    BY <1>14, <1>37
  <2> QED
    BY <1>9, <1>14, <2>1, <2>2 DEF Argument
<1>16. args' = [x \in 1..(h + 1) |-> Argument(token, x)] /\ Len(args') = h + 1
  <2> DEFINE T == [x \in 1..(h + 1) |-> Argument(token, x)]
  <2>1. T = [x \in 1..(h + 1) |-> IF x <= h THEN args[x] ELSE Argument(token, h + 1)]
    <3>1. \A x \in 1..(h + 1) : x <= h => x \in 1..h
      BY <1>14
    <3>2. \A x \in 1..h : args[x] = Argument(token, x)
      BY <1>22
    <3>3. \A x \in 1..(h + 1) : ~(x <= h) => x = h + 1
      BY <1>14
    <3> HIDE DEF h
    <3> QED
      BY <3>1, <3>2, <3>3
  <2>2. args = [x \in 1..h |-> args[x]]
    <3> HIDE DEF h
    <3> QED
      BY <1>22
  <2> HIDE DEF T, h
  <2>3. T = Append(args, Argument(token, h + 1)) /\ Len(T) = h + 1
    BY <1>14, <2>1, <2>2, AppendIs
  <2> QED
    BY <1>1, <1>15, <2>3 DEF T
<1>17. Line' = Line /\ Words' = Words /\ Options' = Options /\ Len(Line)' = Len(Line)
  BY <1>2, LineKept
<1>19. EndOfToken' = E /\ ArgumentsOf(token)' = ArgumentsOf(token)
  <2>1. PICK w : w = token
    OBVIOUS
  <2>2. EndOfWord(w)' = EndOfWord(w) /\ ArgumentsOf(w)' = ArgumentsOf(w)
    BY <1>2, LineKept
  <2>3. token' = w
    BY <1>2, <2>1
  <2> QED
    BY <2>1, <2>2, <2>3 DEF EndOfToken, E
<1>20. ArgumentCursor' = y
  <2>1. argsPtr' = IF e = E THEN 0 ELSE e + 2
    BY <1>1, <1>5, <1>9
  <2>2. e + 2 # 0
    BY <1>3, <1>10
  <2> QED
    BY <1>19, <1>28, <2>1, <2>2 DEF ArgumentCursor
<1>29. /\ Cursor' = Cursor /\ Cursor \in (E + 1)..(Len(Line) + 1)
       /\ Cursor = IF E = Len(Line) THEN Len(Line) + 1 ELSE E + 2
  <2>1. Cursor' = Cursor
    BY <1>2, <1>17 DEF Cursor
  <2>2. Cursor = IF E = Len(Line) THEN Len(Line) + 1 ELSE E + 2
    BY <1>2 DEF OptionFound, E
  <2>3. Cursor \in (E + 1)..(Len(Line) + 1)
    BY <1>3, <1>4, <2>2
  <2> QED
    BY <2>1, <2>2, <2>3
<1>30. \A x \in 1..BufSize : x # e + 1 => buf'[x] = buf[x]
  BY <1>1, <1>9
<1>31. buf'[e + 1] = CL!NUL /\ buf' = [x \in 1..BufSize |-> buf'[x]]
  BY <1>1, <1>9
<1>32. Unread'
  <2>1. \A x \in Cursor..Len(Line) : buf'[x] = Line[x]
    <3>1. \A x \in Cursor..Len(Line) : x \in 1..BufSize /\ x # e + 1
      BY <1>3, <1>4, <1>10, <1>29
    <3>2. \A x \in Cursor..Len(Line) : buf[x] = Line[x]
      BY <1>2 DEF Unread
    <3> QED
      BY <1>30, <3>1, <3>2
  <2>2. buf'[Len(Line) + 1] = CL!NUL
    <3>1. buf[Len(Line) + 1] = CL!NUL
      BY <1>2 DEF Unread
    <3>2. Len(Line) + 1 \in 1..BufSize
      BY <1>3
    <3> QED
      BY <1>30, <1>31, <3>1, <3>2
  <2>3. /\ number \in Nat /\ last \in Nat /\ Cursor \in 1..(Len(Line) + 1)
        /\ number > 0 => \E w \in Words : w < Cursor
        /\ last # 0 => number > 0 /\ last > 1 /\ Line[last - 1] = Space
    BY <1>2 DEF Unread
  <2> QED
    BY <1>2, <1>17, <1>29, <1>31, <2>1, <2>2, <2>3 DEF Unread
<1>33. OptionFound'
  <2>1. buf'[E + 1] = CL!NUL
    <3>1. E + 1 \in 1..BufSize
      BY <1>3, <1>4
    <3> QED
      BY <1>26, <1>30, <1>31, <3>1
  <2>2. config' = Says(Said(token))'
    <3>1. PICK w : w = token
      OBVIOUS
    <3>2. Says(Said(w))' = Says(Said(w))
      BY <1>2, SaidKept, SaysKept
    <3>3. config' = Says(Said(w)) /\ token' = w
      BY <1>2, <3>1 DEF OptionFound
    <3> QED
      BY <3>2, <3>3
  <2>3. /\ number > 0 /\ token \in Options
        /\ \A x \in token..E : Line[x] # Space
        /\ E = Len(Line) \/ Line[E + 1] = Space
        /\ \A w \in Options : w < Cursor => w <= token
    BY <1>2 DEF OptionFound, E
  <2> QED
    BY <1>2, <1>4, <1>17, <1>19, <1>29, <2>1, <2>2, <2>3 DEF OptionFound
<1>34. ArgumentsRead'
  <2>1. input.prog = "zapp" /\ Line[token] \in CL!WithArguments
    BY DEF Reading
  <2>2. buf'[token] = Line[token]
    <3>1. token \in 1..BufSize /\ token # e + 1
      BY <1>3, <1>4, <1>10
    <3>2. buf[token] = Line[token]
      BY OptionIs DEF Reading
    <3> QED
      BY <1>30, <3>1, <3>2
  <2>3. argsPtr' \in Nat /\ (argsPtr' # 0 => Line[argsPtr' - 1] = Comma)
    <3>1. argsPtr' = IF e = E THEN 0 ELSE e + 2
      BY <1>1, <1>5, <1>9
    <3>2. e \in Nat /\ (e + 2) - 1 = e + 1
      BY <1>3, <1>10
    <3> QED
      BY <1>11, <3>1, <3>2
  <2>4. y \in (token + 1)..(E + 1) /\ y > e /\ (e = E \/ y > e + 1) /\ y >= c
    BY <1>3, <1>4, <1>10, <1>11, <1>25, <1>28
  <2>5. \A x \in y..E : buf'[x] = Line[x]
    <3>1. \A x \in y..E : x \in c..E /\ x \in 1..BufSize /\ x # e + 1
      BY <1>3, <1>4, <1>10, <1>25, <2>4
    <3> QED
      BY <1>21, <1>30, <3>1
  <2>6. Len(args') = ArgumentsBefore(token, y)' /\ args' = [x \in 1..Len(args') |-> Argument(token, x)']
    <3>1. PICK w : w = token
      OBVIOUS
    <3>2. ArgumentsBefore(w, y)' = ArgumentsBefore(w, y) /\ \A x : Argument(w, x)' = Argument(w, x)
      BY <1>2, LineKept DEF ArgumentsBefore
    <3>3. Len(args') = ArgumentsBefore(w, y) /\ args' = [x \in 1..Len(args') |-> Argument(w, x)]
      BY <1>14, <1>16, <3>1
    <3>4. token' = w
      BY <1>2, <3>1
    <3> QED
      BY <3>2, <3>3, <3>4
  <2>7. argsPtr' # 0 => argsPtr' = y
    BY <1>20 DEF ArgumentCursor
  <2>8. argsPtr' # 0 => Len(args') = ArgumentsBefore(token, argsPtr)'
    <3>1. ASSUME argsPtr' # 0 PROVE ArgumentsBefore(token, argsPtr)' = ArgumentsBefore(token, y)'
      BY <2>7, <3>1 DEF ArgumentsBefore
    <3> QED
      BY <2>6, <3>1
  <2>9. argsPtr' = 0 => Len(args') >= Cardinality(ArgumentsOf(token)')
    <3>1. ASSUME argsPtr' = 0 PROVE h + 1 = Cardinality(ArgumentsOf(token))
      <4>1. y = E + 1
        BY <1>19, <1>20, <3>1 DEF ArgumentCursor
      <4>2. y \in Int /\ \A x \in y..E : Line[x] = Comma
        BY <1>5, <4>1
      <4>3. ArgumentsBefore(token, y) = Cardinality(ArgumentsOf(token))
        BY <1>3, <1>4, <1>36, <4>2, ArgumentsAre
      <4> QED
        BY <1>14, <4>3
    <3> QED
      BY <1>16, <1>19, <1>37, <3>1
  <2>10. Len(args') \in Nat
    BY <1>14, <1>16
  <2> QED
    BY <1>2, <1>17, <1>19, <1>20, <2>1, <2>2, <2>3, <2>4, <2>5, <2>6, <2>8, <2>9, <2>10 DEF ArgumentsRead
<1> QED
  BY <1>2, <1>32, <1>33, <1>34 DEF IInv, OptionsInForce


LEMMA FirstArgumentKeeps == ASSUME CL!Readable, IInv, CL!FirstArgument PROVE IInv'
<1> DEFINE c == token + 1
<1>1. /\ place = "option" /\ input.prog = "zapp" /\ buf[token] \in CL!WithArguments
      /\ Read(c) /\ argsPtr = 0 /\ args = <<>>
  BY DEF CL!FirstArgument, CL!Goto, Read, IInv
<1>2. input \in Lines /\ Len(Line) \in Nat
  <2>1. input \in Lines
    BY DEF IInv
  <2> QED
    BY <2>1, LineIs
<1>3. /\ token \in 1..Len(Line) /\ EndOfToken \in token..Len(Line) /\ buf[token] = Line[token]
  BY <1>1, OptionIs
<1>4. ArgumentsBefore(token, c) = 0 /\ Len(args) = 0
  <2>1. \A a \in ArgumentsOf(token) : a \in (token + 1)..EndOfWord(token)
    BY WordsAre
  <2>2. {a \in ArgumentsOf(token) : a < c} = {}
    BY <1>3, <2>1
  <2>3. Cardinality({}) = 0
    BY FS_EmptySet
  <2> QED
    BY <1>1, <2>2, <2>3 DEF ArgumentsBefore
<1>5. c \in (token + 1)..(EndOfToken + 1) /\ c # 0
  BY <1>2, <1>3
<1>6. \A x \in c..EndOfToken : buf[x] = Line[x]
  <2>1. \A x \in token..EndOfToken : buf[x] = Line[x]
    BY <1>1 DEF IInv
  <2>2. \A x \in c..EndOfToken : x \in token..EndOfToken
    BY <1>2, <1>3
  <2> QED
    BY <2>1, <2>2
<1>7. args = [x \in 1..Len(args) |-> Argument(token, x)]
  <2> HIDE DEF c
  <2>1. args = [x \in 1..0 |-> Argument(token, x)]
    BY <1>1
  <2> QED
    BY <1>4, <2>1
<1>8. Reading(c, c)
  BY <1>1, <1>3, <1>4, <1>5, <1>6, <1>7 DEF Reading
<1> QED
  BY <1>1, <1>8, ReadKeeps

LEMMA NextArgumentKeeps == ASSUME CL!Readable, IInv, CL!NextArgument PROVE IInv'
<1>1. place = "args" /\ Read(0) /\ ArgumentsRead
  BY DEF CL!NextArgument, Read, IInv
<1>2. CASE argsPtr = 0
  <2>1. CL!Strtok(buf, 0, argsPtr, Comma) = [tok |-> 0, buf |-> buf, save |-> 0]
    BY <1>2 DEF CL!Strtok
  <2>2. buf' = buf /\ argsPtr' = 0 /\ args' = Append(args, AtNull)
    <3> DEFINE t == CL!Strtok(buf, 0, argsPtr, Comma)
    <3>1. /\ buf' = t.buf /\ argsPtr' = t.save
          /\ args' = Append(args, IF t.tok = 0 THEN AtNull ELSE CL!Strtoull(CL!Str(t.buf, t.tok)))
      BY <1>1 DEF Read, CL!ReadArgument, Comma
    <3>2. t.tok = 0 /\ t.buf = buf /\ t.save = 0
      BY <2>1
    <3> HIDE DEF t
    <3> QED
      BY <3>1, <3>2
  <2>3. /\ input.prog = "zapp" /\ Line[token] \in CL!WithArguments
        /\ Len(args) \in Nat /\ Len(args) >= Cardinality(ArgumentsOf(token))
        /\ args = [x \in 1..Len(args) |-> Argument(token, x)]
    BY <1>1, <1>2 DEF ArgumentsRead
  <2>4. place' = "args" /\ UNCHANGED <<input, last, token, number, config>>
    BY <1>1 DEF Read
  <2> QED
    BY <1>1, <2>2, <2>3, <2>4, NoArgumentKeeps
<1>3. CASE argsPtr # 0
  <2>1. ArgumentCursor = argsPtr
    BY <1>3 DEF ArgumentCursor
  <2>2. Reading(0, argsPtr)
    BY <1>1, <1>3, <2>1 DEF Reading, ArgumentsRead
  <2> QED
    BY <1>1, <2>2, ReadKeeps
<1> QED
  BY <1>2, <1>3

LEMMA StoreKeeps == ASSUME CL!Readable, IInv, CL!Store PROVE IInv'
<1>1. /\ place = "args" /\ place' = "loop" /\ input' = input /\ buf' = buf /\ last' = last /\ number' = number
      /\ argsPtr' = 0 /\ args' = <<>> /\ Len(args) = CL!Arguments(buf[token])
      /\ config' = CASE buf[token] = "fixrmrr=" -> [config EXCEPT !.fixups = Append(@, CL!Entry)]
                     [] buf[token] = "addrmrr=" -> [config EXCEPT !.additions = Append(@, CL!Entry)]
                     [] OTHER -> [config EXCEPT !.disabled = Append(@, args[1])]
  BY DEF CL!Store, CL!Goto
<1>2. input \in Lines /\ ArgumentsRead
  BY <1>1 DEF IInv
<1>3. Len(Line) \in Nat
  BY <1>2, LineIs
<1>4. /\ Said(token) \in SUBSET (1..Len(Line)) /\ token \in 1..Len(Line)
      /\ \A l \in Said(token) : l < token
      /\ config = Says(Said(token))
  BY <1>1, <1>3, OptionIs, PlacesOfLine
<1>5. /\ input.prog = "zapp" /\ buf[token] = Line[token] /\ Line[token] \in CL!WithArguments
      /\ args = [x \in 1..Len(args) |-> Argument(token, x)]
  BY <1>2 DEF ArgumentsRead
<1>6. Line[token] = "disabledmar=" => args[1] = Argument(token, 1)
  <2>1. Line[token] = "disabledmar=" => Len(args) = 1
    BY <1>1, <1>5 DEF CL!Arguments
  <2>2. Len(args) = 1 => args[1] = Argument(token, 1)
    <3>1. args = [x \in 1..Len(args) |-> Argument(token, x)]
      BY <1>5
    <3> QED
      BY <3>1
  <2> QED
    BY <2>1, <2>2
<1>7. Line[token] # "disabledmar=" => CL!Entry = Region(token)
  <2>1. Line[token] # "disabledmar=" => Len(args) = 3
    BY <1>1, <1>5 DEF CL!Arguments
  <2>2. Len(args) = 3 =>
          args[1] = Argument(token, 1) /\ args[2] = Argument(token, 2) /\ args[3] = Argument(token, 3)
    BY <1>5
  <2> QED
    BY <2>1, <2>2 DEF CL!Entry, Region
<1>8. Says(Said(token) \cup {token}) =
        CASE Line[token] = "fixrmrr=" -> [config EXCEPT !.fixups = Append(@, Region(token))]
          [] Line[token] = "addrmrr=" -> [config EXCEPT !.additions = Append(@, Region(token))]
          [] Line[token] = "disabledmar=" -> [config EXCEPT !.disabled = Append(@, Argument(token, 1))]
          [] OTHER -> config
  BY <1>3, <1>4, <1>5, ZappMore
<1>9. config' = Says(Said(token) \cup {token})
  <2>1. CASE Line[token] = "fixrmrr="
    <3>1. config' = [config EXCEPT !.fixups = Append(@, Region(token))]
      BY <1>1, <1>5, <1>7, <2>1
    <3> QED
      BY <1>8, <2>1, <3>1
  <2>2. CASE Line[token] = "addrmrr="
    <3>1. config' = [config EXCEPT !.additions = Append(@, Region(token))]
      BY <1>1, <1>5, <1>7, <2>2
    <3> QED
      BY <1>8, <2>2, <3>1
  <2>3. CASE Line[token] = "disabledmar="
    <3>1. config' = [config EXCEPT !.disabled = Append(@, Argument(token, 1))]
      BY <1>1, <1>5, <1>6, <2>3
    <3> QED
      BY <1>8, <2>3, <3>1
  <2> QED
    BY <1>5, <2>1, <2>2, <2>3 DEF CL!WithArguments
<1> QED
  BY <1>1, <1>9, LoopAgain

LEMMA StutterKeeps == ASSUME IInv, UNCHANGED CL!vars PROVE IInv'
<1>1. /\ input' = input /\ place' = place /\ buf' = buf /\ last' = last /\ token' = token /\ number' = number
      /\ argsPtr' = argsPtr /\ args' = args /\ config' = config
  BY DEF CL!vars
<1>2. Line' = Line /\ Words' = Words /\ Options' = Options
  BY <1>1, LineKept
<1>3. /\ Unread => Unread'
      /\ OptionFound => OptionFound'
      /\ Cursor' = Cursor /\ EndOfToken' = EndOfToken
      /\ ArgumentsOf(token)' = ArgumentsOf(token)
  BY <1>1, OptionKept
<1>4. PICK c, O : c = Cursor /\ O = Options
  OBVIOUS
<1>5. /\ Says(Said(c))' = Says(Said(c)) /\ Says(O)' = Says(O)
      /\ \A p : Regions(O, p)' = Regions(O, p)
  BY <1>1, SaidKept, SaysKept
<1>6. ArgumentsRead => ArgumentsRead'
  <2>1. ArgumentCursor' = ArgumentCursor
    BY <1>1, <1>3 DEF ArgumentCursor
  <2>2. ArgumentsRead => (argsPtr' # 0 => Len(args') = ArgumentsBefore(token, argsPtr)')
    <3>1. PICK a : a = argsPtr
      OBVIOUS
    <3>2. ArgumentsBefore(token, a)' = ArgumentsBefore(token, a)
      BY <1>1, OptionKept
    <3>3. ArgumentsBefore(token, argsPtr)' = ArgumentsBefore(token, a)'
      BY <1>1, <3>1 DEF ArgumentsBefore
    <3> QED
      BY <1>1, <3>1, <3>2, <3>3 DEF ArgumentsRead
  <2>3. ArgumentsRead => args' = [x \in 1..Len(args') |-> Argument(token, x)']
    <3>1. \A x : Argument(token, x)' = Argument(token, x)
      BY <1>1, OptionKept
    <3> QED
      BY <1>1, <3>1 DEF ArgumentsRead
  <2> QED
    BY <1>1, <1>2, <1>3, <2>1, <2>2, <2>3 DEF ArgumentsRead
<1>7. config = Says(Said(Cursor)) => config' = Says(Said(Cursor))'
  BY <1>1, <1>3, <1>4, <1>5
<1>8. OptionsInForce => OptionsInForce'
  BY <1>1, <1>2, <1>4, <1>5 DEF OptionsInForce
<1>9. (\A x \in token..EndOfToken : buf[x] = Line[x])
         => \A x \in token'..EndOfToken' : buf'[x] = Line'[x]
  BY <1>1, <1>2, <1>3
<1> QED
  BY <1>1, <1>2, <1>3, <1>6, <1>7, <1>8, <1>9 DEF IInv

(* The options of the command line are in force when the program goes on    *)
(* (parse_cmdline of morbo.c, bender.c and zapp.c), whatever the line that  *)
(* fits into the buffer says, arguments that are missing and what strtoull  *)
(* finds at NULL for them included, whatever the width of the numbers and   *)
(* the size of the tables; as long as disabledmar= does not overrun its     *)
(* table, which the code does not check.                                    *)
THEOREM OptionsAreRead == CL!Readable => (CL!Spec => []OptionsInForce)
<1> SUFFICES ASSUME CL!Readable PROVE CL!Spec => []OptionsInForce
  OBVIOUS
<1>1. CL!Init => IInv
  BY SameNumbers DEF CL!Init, IInv, OptionsInForce
<1>2. IInv /\ [CL!Next]_(CL!vars) => IInv'
  <2> SUFFICES ASSUME IInv, [CL!Next]_(CL!vars) PROVE IInv'
    OBVIOUS
  <2>1. CASE CL!Copy
    BY <2>1, CopyKeeps
  <2>2. CASE CL!NextToken
    BY <2>2, NextTokenKeeps
  <2>3. CASE CL!Flag
    BY <2>3, FlagKeeps
  <2>4. CASE CL!TableFull
    BY <2>4, TableFullKeeps
  <2>5. CASE CL!NoPrefix
    BY <2>5, NoPrefixKeeps
  <2>6. CASE CL!FirstArgument
    BY <2>6, FirstArgumentKeeps
  <2>7. CASE CL!NextArgument
    BY <2>7, NextArgumentKeeps
  <2>8. CASE CL!Store
    BY <2>8, StoreKeeps
  <2>9. CASE UNCHANGED CL!vars
    BY <2>9, StutterKeeps
  <2> QED
    BY <2>1, <2>2, <2>3, <2>4, <2>5, <2>6, <2>7, <2>8, <2>9 DEF CL!Next
<1>3. IInv => OptionsInForce
  BY DEF IInv
<1> QED
  BY <1>1, <1>2, <1>3, PTL DEF CL!Spec
=============================================================================
