----------------------------- MODULE FieldArith -----------------------------
(***************************************************************************)
(* The field of lib/x25519.c (and its copy in drivers/netstack.c): five    *)
(* limbs, carried with a fold of the overflow into the lowest one, and the *)
(* Montgomery ladder.  Limbs have LimbBits bits instead of 51 and the      *)
(* prime is 2^(5 LimbBits) - Fold instead of 2^255 - 19.                   *)
(***************************************************************************)
EXTENDS Integers, Sequences, SequencesExt

CONSTANTS LimbBits, Fold, A24

ASSUME FieldAssumption == LimbBits \in 1 .. 5 /\ Fold \in Nat \ {0} /\ A24 \in Nat

Limb == 2 ^ LimbBits
P == 2 ^ (5 * LimbBits) - Fold
Zero == <<0, 0, 0, 0, 0>>
One == <<1, 0, 0, 0, 0>>

\* fe51_frombytes: the low 5 LimbBits bits.
FromNumber(n) == [i \in 1 .. 5 |-> (n \div Limb ^ (i - 1)) % Limb] \o <<>>
Number(h) == h[1] + Limb * (h[2] + Limb * (h[3] + Limb * (h[4] + Limb * h[5])))

\* One round of carries; the last one returns to the first limb.
CarryRound(h) ==
  LET c[i \in 0 .. 5] == IF i = 0 THEN 0 ELSE (h[i] + c[i - 1]) \div Limb
  IN  [i \in 1 .. 5 |->
         IF i = 1 THEN (h[1] % Limb) + c[5] * Fold ELSE (h[i] + c[i - 1]) % Limb] \o <<>>

\* fe51_reduce.
ReduceTwice(h) == CarryRound(CarryRound(h))

\* fe51_tobytes: the prime off once.  The limbs are put together by shifts
\* and ORs, which is a sum as long as no limb is too long.
ToNumber(in) ==
  LET below(n) == IF n >= P THEN n - P ELSE n IN below(Number(ReduceTwice(in)))

FieldAdd(a, b) == ReduceTwice([i \in 1 .. 5 |-> a[i] + b[i]] \o <<>>)

\* fe51_sub: four times the prime keeps every limb positive.
FieldSub(a, b) ==
  ReduceTwice([i \in 1 .. 5 |-> a[i] + 4 * (IF i = 1 THEN Limb - Fold ELSE Limb - 1) - b[i]] \o <<>>)

\* fe51_mul: the columns, those beyond the fifth folded, then the carries.
FieldMul(f, g) ==
  LET term(i, k) == IF i <= k THEN f[i] * g[k + 1 - i] ELSE Fold * f[i] * g[k + 6 - i]
      h[k \in 1 .. 5] ==
        FoldLeft(LAMBDA s, i : s + term(i, k), IF k = 1 THEN 0 ELSE h[k - 1] \div Limb,
                 <<1, 2, 3, 4, 5>>)
      folded(c) == [k \in 1 .. 5 |->
        IF k = 1 THEN (c[1] % Limb) + (c[5] \div Limb) * Fold ELSE c[k] % Limb]
  IN  ReduceTwice(folded(h) \o <<>>)

\* fe51_inv: to the power of P - 2, bit by bit.
FieldInv(z) ==
  LET times(sq, bit) == IF bit = 1 THEN FieldMul(sq, z) ELSE sq
  IN  FoldLeft(LAMBDA r, k : IF r = Zero THEN Zero
                 ELSE times(FieldMul(r, r), ((P - 2) \div 2 ^ (5 * LimbBits - k)) % 2),
               One, [k \in 1 .. 5 * LimbBits |-> k])

\* x25519_shared_secret: the ladder over the bits of the scalar.
LadderStep(x1, x2, z2, x3, z3, bit) ==
  LET out(aa, bb, e, plus, minus) ==
        [swap |-> bit, x3 |-> FieldMul(plus, plus), z3 |-> FieldMul(FieldMul(minus, minus), x1),
         x2 |-> FieldMul(aa, bb),
         z2 |-> FieldMul(e, FieldAdd(aa, FieldMul(e, FromNumber(A24))))]
      products(aa, bb, da, cb) == out(aa, bb, FieldSub(aa, bb), FieldAdd(da, cb), FieldSub(da, cb))
      sums(a, b) == products(FieldMul(a, a), FieldMul(b, b),
                             FieldMul(FieldSub(x3, z3), a), FieldMul(FieldAdd(x3, z3), b))
  IN  sums(FieldAdd(x2, z2), FieldSub(x2, z2))

\* The exchange before a step.
LadderSwap(x1, s, bit) ==
  LET step(keep) == IF keep THEN <<s.x2, s.z2, s.x3, s.z3>> ELSE <<s.x3, s.z3, s.x2, s.z2>>
      run(v) == LadderStep(x1, v[1], v[2], v[3], v[4], bit)
  IN  run(step(s.swap = bit))

LadderEnd(s) == IF s.swap = 1 THEN <<s.x3, s.z3>> ELSE <<s.x2, s.z2>>

ScalarMult(scalar, point, bits) ==
  LET ladder(x1) ==
        FoldLeft(LAMBDA s, k : LadderSwap(x1, s, (scalar \div 2 ^ (bits - k)) % 2),
                 [swap |-> 0, x2 |-> One, z2 |-> Zero, x3 |-> x1, z3 |-> One],
                 [k \in 1 .. bits |-> k])
      affine(end) == ToNumber(FieldMul(end[1], FieldInv(end[2])))
  IN  affine(LadderEnd(ladder(FromNumber(point))))
=============================================================================
