----------------------------- MODULE MC_Crypto -----------------------------
(***************************************************************************)
(* The arithmetic of lib/rsa.c and lib/x25519.c against plain arithmetic:  *)
(* one input at a time.                                                    *)
(***************************************************************************)
EXTENDS RsaArith, FieldArith

CONSTANTS
  Primes,      \* primes of half the key's length, their two top bits set
  SmallPrimes, \* for trial division
  Bases,       \* for the probabilistic test
  Elements,    \* field elements to calculate with
  Scalars      \* clamped scalars

VARIABLES calc, x, y

cryptoVars == <<calc, x, y>>

HalfLen == 3
FullLen == 2 * HalfLen
PrimeLen == 4
ScalarBits == 7

CryptoInit == calc = "none" /\ x = 0 /\ y = 0

Pick(kind, xs, ys) == calc' = kind /\ x' \in xs /\ y' \in ys

CryptoNext ==
  /\ calc = "none"
  /\ \/ Pick("modular", 2 .. Base ^ HalfLen - 1, {1, 2, 31, 62})
     \/ Pick("prime", {n \in 9 .. Base ^ PrimeLen - 1 : n % 2 = 1}, {0})
     \/ Pick("key", Primes, Primes)
     \/ Pick("field", Elements, Elements)
     \/ Pick("ladder", Scalars, Scalars)

CryptoSpec == CryptoInit /\ [][CryptoNext]_cryptoVars

IsPrime(n) == n > 1 /\ \A d \in 2 .. n - 1 : n % d # 0
Power(b, e, m) == FoldLeft(LAMBDA r, k : (r * b) % m, 1 % m, Up(e))
TimesModP(a, b) ==
  (((((a * (b \div 1024)) % P) * 512) % P) * 2 + ((a * (b % 1024)) % P)) % P
-----------------------------------------------------------------------------
\* The carries, borrows and conditional subtractions of the byte arithmetic
\* give the sums, products, remainders and powers of the numbers.
ModularOpsAgree ==
  calc = "modular" =>
    LET with(a, b, mod, da, db) ==
          /\ Value(AddMod(da, db, mod)) = (a + b) % x
          /\ Value(MulMod(da, db, mod)) = (a * b) % x
          /\ Value(ModSub(da, db, mod)) = (a - b) % x
          /\ Value(Reduce(Digits(x * 37 + y, FullLen), mod)) = (x * 37 + y) % x
          /\ Value(PlainMul(da, db, FullLen)) = a * b
    IN  \A a \in {0, 1, x - 1, x \div 2, y % x} :
          with(a, y % x, Digits(x, HalfLen), Digits(a, HalfLen), Digits(y % x, HalfLen))

\* Trial division and the bases together decide primality of the candidates.
PrimeTestAgrees ==
  calc = "prime" =>
    (ProbablePrime(Digits(x, PrimeLen), SmallPrimes, Bases)
       <=> IsPrime(x) /\ x \notin SmallPrimes)

\* A key is generated from every two suitable primes, and it inverts the
\* public exponent, through d and through p and q.
KeyInverts ==
  calc = "key" =>
    LET inverts(key) ==
          /\ Value(key.n) = x * y
          /\ (Value(key.d) * Exponent) % ((x - 1) * (y - 1)) = 1
          /\ (Value(key.dp) * Exponent) % (x - 1) = 1
          /\ (Value(key.dq) * Exponent) % (y - 1) = 1
        keys(ks) ==
          /\ ks # <<>> <=> x # y /\ \A p \in {x, y} : (p - 1) % Exponent # 0
          /\ \A i \in DOMAIN ks : inverts(ks[i])
    IN  keys(PrivateKey(Digits(x, HalfLen), Digits(y, HalfLen)))

\* Signing through p and q gives a signature that verifies or none: none only
\* if the second prime is the larger one, where the difference of the two
\* halves is not brought into range.
CrtSignsOrRefuses ==
  calc = "key" =>
    LET iqmp == Digits(CHOOSE i \in 1 .. x - 1 : (i * y) % x = 1, HalfLen)
        crt(s, m, key) == (s # <<>> => Verify(s, m, key.n)) /\ (x > y => s # <<>>)
        signs(m, key) == /\ crt(SignCrt(m, key, iqmp), m, key)
                         /\ Verify(SignD(m, key), m, key.n)
        keys(ks) == \A i \in DOMAIN ks : \A em \in {2, x - 1, y - 1, y * 2, x * y - 3} :
                      signs(Digits(em, FullLen), ks[i])
    IN  keys(PrivateKey(Digits(x, HalfLen), Digits(y, HalfLen)))

\* The limbs calculate in the field: sums, differences and products of
\* representatives that need not be the smallest ones.
FieldAgrees ==
  calc = "field" =>
    LET agree(a, b) ==
          /\ ToNumber(FieldAdd(a, b)) = (x + y) % P
          /\ ToNumber(FieldSub(a, b)) = (x - y) % P
          /\ ToNumber(FieldMul(a, b)) = TimesModP(x % P, y % P)
          /\ x % P # 0 => ToNumber(FieldMul(FieldInv(a), a)) = 1
    IN  agree(FromNumber(x), FromNumber(y))

\* No limb is ever left longer than its place, so the bytes of a result are
\* those of its number.
LimbsInRange ==
  calc = "field" =>
    LET results(a, b) == {FieldAdd(a, b), FieldSub(a, b), FieldMul(a, b)}
    IN  \A h \in results(FromNumber(x), FromNumber(y)) : \A i \in 1 .. 5 : h[i] < Limb

\* Two sides that exchange what they calculated arrive at the same secret,
\* the one that belongs to the product of their scalars.
SecretsAgree ==
  calc = "ladder" =>
    LET secret == ScalarMult(x, ScalarMult(y, 9, ScalarBits), ScalarBits)
    IN  {secret, ScalarMult(x * y, 9, 2 * ScalarBits)}
          = {ScalarMult(y, ScalarMult(x, 9, ScalarBits), ScalarBits)}

\* Keys, signatures and primality as calculated on byte arrays (rsa.c), and
\* field elements as limbs with the ladder on them (x25519.c), agree with the
\* numbers they stand for.
ArithmeticAgrees ==
  /\ ModularOpsAgree /\ PrimeTestAgrees /\ KeyInverts /\ CrtSignsOrRefuses
  /\ FieldAgrees /\ LimbsInRange /\ SecretsAgree
=============================================================================
