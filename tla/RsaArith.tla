------------------------------ MODULE RsaArith ------------------------------
(***************************************************************************)
(* The big-endian arithmetic of lib/rsa.c (drivers/netstack.c has a copy   *)
(* of part of it), and the signature and key operations built from it.     *)
(* Byte strings are sequences of digits of Base instead of 256, so that    *)
(* every carry, borrow and overflow happens with numbers TLC can compare   *)
(* with plain arithmetic; 65537 is Exponent.                               *)
(***************************************************************************)
EXTENDS Integers, Sequences, SequencesExt

CONSTANTS Base, Exponent

ASSUME RsaAssumption == Base \in {2, 4, 16} /\ Exponent \in Nat \ {0}

Bits == CHOOSE n \in 1 .. 4 : 2 ^ n = Base

\* Byte strings and the numbers they stand for.
Value(a) == FoldLeft(LAMBDA v, d : v * Base + d, 0, a)
\* A string written out (TLC would otherwise work out each digit again at
\* every use).
Written(s) == s \o <<>>

Digits(n, len) == Written([i \in 1 .. len |-> (n \div Base ^ (len - i)) % Base])
BitOf(d, k) == (d \div 2 ^ k) % 2
Up(n) == Written([i \in 1 .. n |-> i])
Down(n) == Written([i \in 1 .. n |-> n + 1 - i])

\* rsa_ge_bytes: the first digit that differs decides.
GeBytes(a, b) ==
  \A i \in DOMAIN a : a[i] < b[i] => \E j \in 1 .. i - 1 : a[j] > b[j]

\* rsa_sub_inplace: the borrow runs from the right and is dropped at the end.
SubInplace(a, b) ==
  LET len == Len(a)
      borrow[i \in 1 .. len + 1] ==
        IF i = len + 1 THEN 0 ELSE IF a[i] < b[i] + borrow[i + 1] THEN 1 ELSE 0
  IN  Written([i \in 1 .. len |-> (a[i] + Base - b[i] - borrow[i + 1]) % Base])

\* Mutant: the carry out of the first digit is forgotten.
AddModNoCarry(a, b, mod) ==
  LET below(sum) == IF GeBytes(sum, mod) THEN SubInplace(sum, mod) ELSE sum
  IN  below(Digits((Value(a) + Value(b)) % Base ^ Len(mod), Len(mod)))

\* rsa_add_mod: one digit more for the carry, then the modulus off once.
AddMod(a, b, mod) ==
  LET len == Len(mod)
      carry[i \in 1 .. len + 1] ==
        IF i = len + 1 THEN 0 ELSE (a[i] + b[i] + carry[i + 1]) \div Base
      below(sum, over) == IF over # 0 \/ GeBytes(sum, mod) THEN SubInplace(sum, mod) ELSE sum
  IN  below(Written([i \in 1 .. len |-> (a[i] + b[i] + carry[i + 1]) % Base]), carry[1])

\* rsa_mul_mod: double and add, after one subtraction to bring a below mod.
MulMod(a, b, mod) ==
  LET len == Len(mod)
      start == [sum |-> Digits(0, len), temp |-> IF GeBytes(a, mod) THEN SubInplace(a, mod) ELSE a]
      step(acc, k) ==
        IF Value(acc.temp) = 0 THEN acc ELSE
          [sum |-> IF BitOf(b[len - (k - 1) \div Bits], (k - 1) % Bits) = 1
                   THEN AddMod(acc.sum, acc.temp, mod) ELSE acc.sum,
           temp |-> AddMod(acc.temp, acc.temp, mod)]
  IN  IF Value(a) * Value(b) = 0 THEN Digits(0, len) ELSE FoldLeft(step, start, Up(len * Bits)).sum

\* Bit k of a string, counted from the left.
BitAt(in, k) == BitOf(in[(k - 1) \div Bits + 1], Bits - 1 - ((k - 1) % Bits))

\* rsa_reduce: bit by bit from the left.
Reduce(in, mod) ==
  LET len == Len(mod)
      append(twice, bit) == IF bit = 1 THEN AddMod(twice, Digits(1, len), mod) ELSE twice
      step(acc, k) == append(IF Value(acc) = 0 THEN acc ELSE AddMod(acc, acc, mod), BitAt(in, k))
  IN  IF Value(in) = 0 THEN Digits(0, len) ELSE FoldLeft(step, Digits(0, len), Up(Len(in) * Bits))

\* rsa_modexp: square and multiply from the left.
ModExp(base, exp, mod) ==
  LET times(sq, b, bit) == IF bit = 1 THEN MulMod(sq, b, mod) ELSE sq
      power(b) ==
        FoldLeft(LAMBDA acc, k : IF Value(acc) = 0 THEN acc
                                 ELSE times(MulMod(acc, acc, mod), b, BitAt(exp, k)),
                 Digits(1, Len(mod)), Up(Len(exp) * Bits))
      unlessZero(b) == IF Value(b) = 0 /\ Value(exp) # 0 THEN b ELSE power(b)
  IN  unlessZero(Reduce(base, mod))

ExponentDigits == Digits(Exponent, 3)
ModExpPublic(base, mod) == ModExp(base, ExponentDigits, mod)

\* rsa_mod_sub: the difference, or the modulus less the other difference.
ModSub(a, b, mod) ==
  IF GeBytes(a, b) THEN SubInplace(a, b) ELSE SubInplace(mod, SubInplace(b, a))

\* rsa_plain_mul: row by row, the carry of a row running on to the left.
PlainMul(a, b, len) ==
  LET row(out, i) ==
        LET put(out1, k, v) == [out |-> [out1 EXCEPT ![k] = v % Base], carry |-> v \div Base]
            cell(acc, j) == put(acc.out, i + j, acc.out[i + j] + a[i] * b[j] + acc.carry)
            inner == FoldLeft(cell, [out |-> out, carry |-> 0], Down(Len(b)))
            run(acc, k) ==
              IF acc.carry = 0 THEN acc
              ELSE [out |-> [acc.out EXCEPT ![k] = (@ + acc.carry) % Base],
                    carry |-> (acc.out[k] + acc.carry) \div Base]
        IN  FoldLeft(run, inner, Down(i)).out
  IN  IF Value(a) * Value(b) = 0 THEN Digits(0, len) ELSE FoldLeft(row, Digits(0, len), Down(Len(a)))

\* rsa_add_right_aligned.
AddRightAligned(out, in) ==
  LET n == Len(out)
      at(i) == IF i > n - Len(in) THEN in[i - (n - Len(in))] ELSE 0
      carry[i \in 1 .. n + 1] ==
        IF i = n + 1 THEN 0 ELSE (out[i] + at(i) + carry[i + 1]) \div Base
  IN  Written([i \in 1 .. n |-> (out[i] + at(i) + carry[i + 1]) % Base])
-----------------------------------------------------------------------------
(* Keys.                                                                   *)

\* rsa_inv_mod_u32: the extended algorithm, 0 if there is no inverse.
InvMod(a, m) ==
  LET steps == Up(2 * Bits * 8)
      step(s, k) ==
        IF s.newR = 0 THEN s
        ELSE [t |-> s.newT, newT |-> s.t - (s.r \div s.newR) * s.newT,
              r |-> s.newR, newR |-> s.r % s.newR]
      inverse(end) == IF end.r # 1 THEN 0 ELSE IF end.t < 0 THEN end.t + m ELSE end.t
  IN  inverse(FoldLeft(step, [t |-> 0, newT |-> 1, r |-> m, newR |-> a % m], steps))

Complement(inv) == Exponent - inv

\* rsa_inverse_of_65537: (mod * k + 1) / e for the k that makes it whole,
\* with two more digits for the product; <<>> when it fails.
InverseOfE(mod) ==
  LET len == Len(mod)
      quotient(wide) ==
        IF wide % Exponent # 0 \/ wide \div Exponent >= Base ^ len THEN <<>>
        ELSE Digits(wide \div Exponent, len)
      for(inv) ==
        IF inv = 0 THEN <<>>
        ELSE quotient((Value(mod) * Complement(inv) + 1) % Base ^ (len + 2))
  IN  IF Value(mod) % Exponent = 0 THEN <<>> ELSE for(InvMod(Value(mod) % Exponent, Exponent))

\* One base: it starts at one or at minus one, or squaring meets minus one.
MillerRabin(x, s, minus, one) == x[0] = one \/ \E r \in 0 .. s - 1 : x[r] = minus

\* rsa_probable_prime_512 on the candidates: trial division, then the bases.
ProbablePrime(n, smallPrimes, bases) ==
  LET minus == SubInplace(n, Digits(1, Len(n)))
      passes(b, s, d) ==
        LET x[r \in 0 .. s] == IF r = 0 THEN ModExp(Digits(b, Len(n)), d, n)
                               ELSE MulMod(x[r - 1], x[r - 1], n)
        IN  MillerRabin(x, s, minus, Digits(1, Len(n)))
      allPass(v, s) == \A b \in bases : passes(b, s, Digits((v - 1) \div 2 ^ s, Len(n)))
      candidate(v) ==
        /\ v % 2 = 1 /\ v # 1
        /\ \A q \in smallPrimes : v % q # 0
        /\ allPass(v, CHOOSE k \in 0 .. Len(n) * Bits :
                        (v - 1) % 2 ^ k = 0 /\ (v - 1) % 2 ^ (k + 1) # 0)
  IN  candidate(Value(n))

\* rsa_generate_private_key_1024 from two primes; <<>> where it fails.
PrivateKey(p, q) ==
  LET less(r) == SubInplace(r, Digits(1, Len(p)))
      whole(key) ==
        IF p = q \/ key.n[1] < Base \div 2 \/ <<>> \in {key.d, key.dp, key.dq} THEN <<>>
        ELSE <<key>>
  IN  whole([p |-> p, q |-> q, n |-> PlainMul(p, q, 2 * Len(p)),
             d |-> InverseOfE(PlainMul(less(p), less(q), 2 * Len(p))),
             dp |-> InverseOfE(less(p)), dq |-> InverseOfE(less(q))])

\* rsa_pkcs1v15_sha256_sign_crt without d: through p and q, then verified.
CrtNumber(em, key, iqmp) ==
  LET below(s) == IF GeBytes(s, key.n) THEN SubInplace(s, key.n) ELSE s
      joined(m1, m2) ==
        AddRightAligned(PlainMul(key.q, MulMod(ModSub(m1, m2, key.p), iqmp, key.p), Len(key.n)), m2)
  IN  below(joined(ModExp(em, key.dp, key.p), ModExp(em, key.dq, key.q)))

\* A signature leaves only if it verifies.
IfItVerifies(s, em, n) == IF ModExpPublic(s, n) = em THEN s ELSE <<>>

SignCrt(em, key, iqmp) == IfItVerifies(CrtNumber(em, key, iqmp), em, key.n)

\* And with d.
SignD(em, key) == IfItVerifies(ModExp(em, key.d, key.n), em, key.n)

\* rsa_pkcs1v15_sha256_verify.
Verify(sig, em, n) == Len(sig) = Len(n) /\ ModExpPublic(sig, n) = em
=============================================================================
