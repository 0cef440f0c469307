------------------------------ MODULE Qdivrem -------------------------------
(***************************************************************************)
(* 64-bit division on a 32-bit machine (standalone/qdivrem.c): the program *)
(* __qdivrem, Knuth's Algorithm D over four digits, and the signed         *)
(* division built on it.  The digit base is a parameter (2^16 in the code);*)
(* `long' arithmetic is done modulo its square, as in the code.            *)
(***************************************************************************)
EXTENDS Integers, Sequences

CONSTANTS B,       \* digit base                    (qdivrem.c: 1 << HALF_BITS)
          Inputs   \* [a, b, signed]: arguments, of __divdi3 if signed

Long == B * B
Quad == Long * Long

ASSUME QdivremAssumption ==
  /\ B \in Nat \ {0, 1} /\ \E k \in 0..B : 2^k = B
  /\ Inputs \subseteq [a : 0..(Quad - 1), b : 0..(Quad - 1), signed : BOOLEAN]

VARIABLES
  in, neg,          \* the arguments, is the quotient to be negated
  pc,
  u, v, q,          \* uspace[0..4], v[1..n], qspace[1..4]
  n, m, d, j,       \* digits of v, of the quotient less one; shift; digit at hand
  qhat, rhat,       \* the guess for a digit, and its remainder
  quo, rem          \* what is returned

vars == <<in, neg, pc, u, v, q, n, m, d, j, qhat, rhat, quo, rem>>

HHALF(x) == x \div B
LHALF(x) == x % B
COMBINE(hi, lo) == B * hi + lo

(* An unsigned quad and its four digits, the first is the highest.          *)
Digits(x) == <<x \div (B * Long), (x \div Long) % B, (x \div B) % B, x % B>>
Value(s)  == LET val[i \in 0..Len(s)] == IF i = 0 THEN 0 ELSE B * val[i - 1] + s[i]
             IN val[Len(s)]

(* __divdi3: the two's complement numbers.                                  *)
Negative(x) == 2 * x >= Quad
Minus(x)    == (Quad - x) % Quad
uq == IF in.signed /\ Negative(in.a) THEN Minus(in.a) ELSE in.a
vq == IF in.signed /\ Negative(in.b) THEN Minus(in.b) ELSE in.b

Zeros == <<0, 0, 0, 0>>
Init ==
  /\ in \in Inputs /\ neg = FALSE /\ pc = "enter"
  /\ u = [i \in 0..4 |-> 0] /\ v = <<>> /\ q = Zeros
  /\ n = 0 /\ m = 0 /\ d = 0 /\ j = 0 /\ qhat = 0 /\ rhat = 0 /\ quo = 0 /\ rem = 0

-----------------------------------------------------------------------------
(* How many digits x has without leading zeros, and these.                  *)
Width(x) ==
  CHOOSE w \in 0..4 : /\ \A k \in 1..(4 - w) : Digits(x)[k] = 0
                      /\ w > 0 => Digits(x)[5 - w] # 0
Trimmed(x) == [i \in 1..Width(x) |-> Digits(x)[4 - Width(x) + i]]

(* The special cases, and the choice of the algorithm.                      *)
Enter ==
  /\ pc = "enter"
  /\ neg' = (in.signed /\ (Negative(in.a) # Negative(in.b)))
  /\ u' = [i \in 0..4 |-> IF i = 0 THEN 0 ELSE Digits(uq)[i]]
  /\ v' = Trimmed(vq) /\ n' = Width(vq) /\ m' = Width(uq) - Width(vq)
  /\ \/ vq = 0 /\ pc' = "fault" /\ UNCHANGED <<quo, rem>>
     \/ vq # 0 /\ uq < vq /\ pc' = "return" /\ quo' = 0 /\ rem' = uq
     \/ uq >= vq /\ n' = 1 /\ pc' = "short" /\ UNCHANGED <<quo, rem>>
     \/ uq >= vq /\ n' > 1 /\ pc' = "shift" /\ UNCHANGED <<quo, rem>>
  /\ UNCHANGED <<in, q, d, j, qhat, rhat>>

(* One-digit divisor: r*B + u[j] by v for every digit.                      *)
Short ==
  LET t == v[1]
      r[i \in 0..4] == IF i = 0 THEN 0 ELSE COMBINE(r[i - 1], u[i]) % t
  IN /\ pc = "short" /\ pc' = "return"
     /\ quo' = Value([i \in 1..4 |-> COMBINE(r[i - 1], u[i]) \div t])
     /\ rem' = r[4]
     /\ UNCHANGED <<in, neg, u, v, q, n, m, d, j, qhat, rhat>>

(* u[0] of the code, after u was moved to the first digit that is not zero. *)
U0 == 4 - (m + n)

(* __shl: digits first..last of p to the left by sh bits, what falls out of *)
(* the first one is lost.                                                   *)
Shl(p, first, last, sh) ==
  [i \in DOMAIN p |->
     IF i \in first..(last - 1) THEN LHALF(p[i] * 2^sh) + HHALF(p[i + 1] * 2^sh)
     ELSE IF i = last THEN LHALF(p[i] * 2^sh) ELSE p[i]]

(* D1: the shift that gives v[1] its highest bit; D2.                       *)
Shift ==
  /\ pc = "shift" /\ pc' = "guess" /\ j' = 0
  /\ d' = CHOOSE k \in 0..B : B <= 2 * v[1] * 2^k /\ v[1] * 2^k < B
  /\ v' = Shl(v, 1, n, d') /\ u' = Shl(u, U0, 4, d')
  /\ UNCHANGED <<in, neg, q, n, m, qhat, rhat, quo, rem>>

(* D3: qhat from the first two digits; "qhat_too_big" if it is B.           *)
Guess ==
  /\ pc = "guess"
  /\ LET uj0 == u[U0 + j] uj1 == u[U0 + j + 1]
     IN IF uj0 = v[1]
          THEN /\ qhat' = B - 1 /\ rhat' = uj1 + v[1]
               /\ pc' = IF uj1 + v[1] >= B THEN "subtract" ELSE "correct"
          ELSE /\ qhat' = COMBINE(uj0, uj1) \div v[1]
               /\ rhat' = COMBINE(uj0, uj1) % v[1]
               /\ pc' = "correct"
  /\ UNCHANGED <<in, neg, u, v, q, n, m, d, j, quo, rem>>

(* One test of the loop of D3.                                              *)
Correct ==
  /\ pc = "correct"
  /\ IF v[2] * qhat > COMBINE(rhat, u[U0 + j + 2])
       THEN /\ qhat' = qhat - 1 /\ rhat' = rhat + v[1]
            /\ pc' = IF rhat + v[1] >= B THEN "subtract" ELSE "correct"
       ELSE pc' = "subtract" /\ UNCHANGED <<qhat, rhat>>
  /\ UNCHANGED <<in, neg, u, v, q, n, m, d, j, quo, rem>>

(* D4: u[j..j+n] - qhat * v, from the right: the digit and the borrow.      *)
Difference ==
  LET r[i \in 1..(n + 1)] ==
        IF i = n + 1 THEN <<0, 0>>
        ELSE LET t == (u[U0 + j + i] - v[i] * qhat - r[i + 1][2]) % Long
             IN <<LHALF(t), (B - HHALF(t)) % B>>
  IN r

Subtract ==
  /\ pc = "subtract"
  /\ LET r == Difference
         t == (u[U0 + j] - r[1][2]) % Long
     IN /\ u' = [k \in 0..4 |-> IF k = U0 + j THEN LHALF(t)
                                ELSE IF k \in (U0 + j + 1)..(U0 + j + n)
                                  THEN r[k - U0 - j][1] ELSE u[k]]
        /\ pc' = IF HHALF(t) # 0 THEN "addBack" ELSE "store"
  /\ UNCHANGED <<in, neg, v, q, n, m, d, j, qhat, rhat, quo, rem>>

(* The digit and the carry of u[j..j+n] + v.                                *)
Sum ==
  LET r[i \in 1..(n + 1)] ==
        IF i = n + 1 THEN <<0, 0>>
        ELSE LET t == r[i + 1][2] + u[U0 + j + i] + v[i] IN <<LHALF(t), HHALF(t)>>
  IN r

(* Mutant: the last carry is not added to u[j].                             *)
AddBackNoCarry ==
  /\ pc = "addBack" /\ pc' = "store"
  /\ qhat' = qhat - 1
  /\ u' = [k \in 0..4 |-> IF k \in (U0 + j + 1)..(U0 + j + n)
                            THEN Sum[k - U0 - j][1] ELSE u[k]]
  /\ UNCHANGED <<in, neg, v, q, n, m, d, j, rhat, quo, rem>>

(* D5, D6: "in that (rare) case, qhat was too large (by exactly 1)".        *)
AddBack ==
  /\ pc = "addBack" /\ pc' = "store"
  /\ qhat' = qhat - 1
  /\ u' = [k \in 0..4 |-> IF k = U0 + j THEN LHALF(u[k] + Sum[1][2])
                          ELSE IF k \in (U0 + j + 1)..(U0 + j + n)
                            THEN Sum[k - U0 - j][1] ELSE u[k]]
  /\ UNCHANGED <<in, neg, v, q, n, m, d, j, rhat, quo, rem>>

(* The digit is stored; D7.                                                 *)
Store ==
  /\ pc = "store"
  /\ q' = [q EXCEPT ![4 - m + j] = qhat] /\ j' = j + 1
  /\ pc' = IF j + 1 <= m THEN "guess" ELSE "unshift"
  /\ UNCHANGED <<in, neg, u, v, n, m, d, qhat, rhat, quo, rem>>

(* Mutant: the remainder is taken as it is, shifted to the left.            *)
UnshiftForgotten ==
  /\ pc = "unshift" /\ pc' = "return"
  /\ rem' = Value(<<u[1], u[2], u[3], u[4]>>) /\ quo' = Value(q)
  /\ UNCHANGED <<in, neg, u, v, q, n, m, d, j, qhat, rhat>>

(* The remainder: u[m+1..m+n] back to the right, u[m] becomes zero.         *)
Unshift ==
  /\ pc = "unshift" /\ pc' = "return"
  /\ u' = IF d = 0 THEN u
          ELSE [k \in 0..4 |->
                  IF k = U0 + m THEN 0
                  ELSE IF k > U0 + m
                    THEN u[k] \div 2^d + LHALF(u[k - 1] * (B \div 2^d)) ELSE u[k]]
  /\ rem' = Value(<<u'[1], u'[2], u'[3], u'[4]>>) /\ quo' = Value(q)
  /\ UNCHANGED <<in, neg, v, q, n, m, d, j, qhat, rhat>>

(* __divdi3 gives the quotient its sign.                                    *)
Return ==
  /\ pc = "return" /\ pc' = "done"
  /\ quo' = IF neg THEN Minus(quo) ELSE quo
  /\ UNCHANGED <<in, neg, u, v, q, n, m, d, j, qhat, rhat, rem>>

Next == \/ Enter \/ Short \/ Shift \/ Guess \/ Correct \/ Subtract \/ AddBack
        \/ Store \/ Unshift \/ Return

Spec == Init /\ [][Next]_vars

-----------------------------------------------------------------------------
(* The digits of u the step for q[j] works on.                              *)
Window == Value([i \in 1..(n + 1) |-> u[U0 + j + i - 1]])

(* "u/v and, optionally, *rem ... u%v", for unsigned arguments; the         *)
(* quotient rounded to zero, with its sign, for signed ones.                *)
SignsDiffer == in.signed /\ (Negative(in.a) # Negative(in.b))
Divides ==
  /\ pc \in {"return", "done"} => vq # 0 /\ rem = uq % vq
  /\ pc = "done" => quo = IF SignsDiffer THEN Minus(uq \div vq) ELSE uq \div vq

(* "We can guarantee ...": when a digit is guessed and corrected, the guess *)
(* is right or one too large, so that one addition repairs it (D5).         *)
GuessIsClose ==
  pc = "subtract" => qhat - Window \div Value(v) \in {0, 1} /\ qhat \in 0..(B - 1)

(* Between two digits nothing of the dividend is lost: the digits found so  *)
(* far times v, and what is left of u, are the shifted dividend, and what   *)
(* is left in the digits that were divided is less than v (no digit falls   *)
(* out on the left).                                                        *)
NothingLost ==
  pc \in {"guess", "unshift"} =>
    /\ Value(v) = vq * 2^d
    /\ uq * 2^d = Value(q) * Value(v) + Value([i \in 1..5 |-> u[i - 1]])
    /\ Value([i \in 1..(4 - m + j) |-> u[i - 1]]) < Value(v)

DividendIsKept == NothingLost /\ GuessIsClose
=============================================================================
