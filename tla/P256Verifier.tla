---------------------------- MODULE P256Verifier ----------------------------
(***************************************************************************)
(* P256Verifier: ECDSA verification in XYZZ coordinates, with the          *)
(* Strauss-Shamir loop over the bits of two scalars.  The curve is a       *)
(* parameter.  A point is <<x, y>>, with <<0, 0>> for infinity, or         *)
(* <<X, Y, zz, zzz>>, which stands for <<X / zz, Y / zzz>>.                *)
(***************************************************************************)
EXTENDS Integers, FiniteSets, Sequences

CONSTANTS
    p,          \* the field's modulus
    b,          \* y^2 = x^3 - 3 x + b
    GX, GY,     \* the base point
    n,          \* the number of points
    WordBits,   \* bits of a machine word
    Malformed,  \* calldata that has not 160 bytes
    Inputs      \* calls: [hash, r, s, pubKey], or Malformed

a == p - 3
Prime(k) == k > 1 /\ \A d \in 2..(k - 1) : k % d # 0

mulmod(x, y, m) == (x * y) % m
addmod(x, y, m) == (x + y) % m

-----------------------------------------------------------------------------
(* The reference: the group of the curve, by chords and tangents.          *)

Field == 0..(p - 1)
Infinity == <<0, 0>>
OnCurve(q) == (q[2] * q[2] - q[1] * q[1] * q[1] + 3 * q[1] - b) % p = 0
Points == {q \in Field \X Field : OnCurve(q)}
Group == Points \union {Infinity}

Inverse(x, m) == CHOOSE y \in 1..(m - 1) : (x * y) % m = 1

Sum(q, r) ==
    LET slope == IF q = r THEN ((3 * q[1] * q[1] - 3) * Inverse((2 * q[2]) % p, p)) % p
                          ELSE ((r[2] - q[2]) * Inverse((r[1] - q[1]) % p, p)) % p
        x == (slope * slope - q[1] - r[1]) % p
    IN  CASE q = Infinity -> r
          [] r = Infinity -> q
          [] q[1] = r[1] /\ (q[2] + r[2]) % p = 0 -> Infinity
          [] OTHER -> <<x, (slope * (q[1] - x) - q[2]) % p>>

Multiple[q \in Group, k \in 0..(2^WordBits - 1)] ==
    IF k = 0 THEN Infinity ELSE Sum(q, Multiple[q, k - 1])

ASSUME CurveAssumption ==
    /\ p > 3 /\ Prime(p) /\ b \in Field \ {0}
    /\ <<GX, GY>> \in Points
    /\ Prime(n) /\ n = Cardinality(Group)
    /\ p <= 2^WordBits /\ n <= 2^WordBits

-----------------------------------------------------------------------------
(* The contract's arithmetic.                                              *)

minus_2modp == p - 2

\* The modexp precompile.
modexp(x, e, m) ==
    LET power[k \in 0..e] == IF k = 0 THEN 1 ELSE (power[k - 1] * x) % m
    IN  power[e]

modInv(x, m) == modexp(x, m - 2, m)

ecAff_isValidPubkey(q) ==
    /\ q[1] < p /\ q[2] < p /\ q # <<0, 0>>
    /\ mulmod(q[2], q[2], p)
         = addmod(addmod(mulmod(mulmod(q[1], q[1], p), q[1], p), mulmod(a, q[1], p), p), b, p)

ecZZ_IsInf(z) == z[3] = 0 /\ z[4] = 0
ecZZ_PointAtInf == <<0, 0, 0, 0>>

\* The formulas that both doublings share, with M for the slope.
tangent(q, M) ==
    LET U == mulmod(2, q[2], p)
        V == mulmod(U, U, p)
        W == mulmod(U, V, p)
        S == mulmod(q[1], V, p)
        x == addmod(mulmod(M, M, p), mulmod(minus_2modp, S, p), p)
        y == addmod(mulmod(M, addmod(S, p - x, p), p), mulmod(p - W, q[2], p), p)
    IN  <<x, y, V, W>>

ecZZ_double_affine(q) ==
    IF q = <<0, 0>> THEN ecZZ_PointAtInf
    ELSE tangent(q, addmod(mulmod(3, mulmod(q[1], q[1], p), p), a, p))

\* zz where zzz belongs.
DoubledWrongScale(z) ==
    LET M == addmod(mulmod(3, mulmod(z[1], z[1], p), p), mulmod(a, mulmod(z[3], z[3], p), p), p)
        t == tangent(z, M)
    IN  IF ecZZ_IsInf(z) THEN ecZZ_PointAtInf
        ELSE <<t[1], t[2], mulmod(t[3], z[3], p), mulmod(t[4], z[3], p)>>

ecZZ_double_zz(z) ==
    LET M == addmod(mulmod(3, mulmod(z[1], z[1], p), p), mulmod(a, mulmod(z[3], z[3], p), p), p)
        t == tangent(z, M)
    IN  IF ecZZ_IsInf(z) THEN ecZZ_PointAtInf
        ELSE <<t[1], t[2], mulmod(t[3], z[3], p), mulmod(t[4], z[4], p)>>

\* The formulas for two points with different x.
chord(z, P, R) ==
    LET PP == mulmod(P, P, p)
        PPP == mulmod(PP, P, p)
        Q == mulmod(z[1], PP, p)
        x == addmod(addmod(mulmod(R, R, p), p - PPP, p), mulmod(minus_2modp, Q, p), p)
        y == addmod(mulmod(addmod(Q, p - x, p), R, p), mulmod(p - z[2], PPP, p), p)
    IN  <<x, y, mulmod(z[3], PP, p), mulmod(z[4], PPP, p)>>

\* Points with the same x are taken for opposite ones.
AddedWithoutDoubling(z, q) ==
    LET R == addmod(mulmod(q[2], z[4], p), p - z[2], p)
        P == addmod(mulmod(q[1], z[3], p), p - z[1], p)
    IN  CASE q = <<0, 0>> -> IF ecZZ_IsInf(z) THEN ecZZ_PointAtInf ELSE z
          [] q # <<0, 0>> /\ ecZZ_IsInf(z) -> <<q[1], q[2], 1, 1>>
          [] OTHER -> IF P # 0 THEN chord(z, P, R) ELSE ecZZ_PointAtInf

ecZZ_dadd_affine(z, q) ==
    LET R == addmod(mulmod(q[2], z[4], p), p - z[2], p)
        P == addmod(mulmod(q[1], z[3], p), p - z[1], p)
    IN  CASE q = <<0, 0>> -> IF ecZZ_IsInf(z) THEN ecZZ_PointAtInf ELSE z
          [] q # <<0, 0>> /\ ecZZ_IsInf(z) -> <<q[1], q[2], 1, 1>>
          [] OTHER -> IF P # 0 THEN chord(z, P, R)
                      ELSE IF R = 0 THEN ecZZ_double_affine(q)
                      ELSE ecZZ_PointAtInf

ecZZ_SetAff(z) ==
    LET zzzInv == modInv(z[4], p)
        zInv == mulmod(z[3], zzzInv, p)
    IN  IF ecZZ_IsInf(z) THEN <<0, 0>>
        ELSE <<mulmod(z[1], mulmod(zInv, zInv, p), p), mulmod(z[2], zzzInv, p)>>

ecAff_add(q, r) ==
    CASE q = <<0, 0>> -> r
      [] q # <<0, 0>> /\ r = <<0, 0>> -> q
      [] OTHER -> ecZZ_SetAff(ecZZ_dadd_affine(<<q[1], q[2], 1, 1>>, r))

compute_bitpair(i, u, v) == 2 * ((v \div 2^i) % 2) + ((u \div 2^i) % 2)

-----------------------------------------------------------------------------
(* A call.                                                                 *)

VARIABLES
    input,
    pc,        \* "call", "scan" for the first bits, "loop", "done"
    index,     \* the next pair of bits
    scalars,   \* <<u, v>>
    H,         \* G + Q
    acc,       \* X, Y, zz, zzz
    answer

vars == <<input, pc, index, scalars, H, acc, answer>>

Init ==
    /\ input \in Inputs
    /\ pc = "call"
    /\ index = WordBits - 1
    /\ scalars = <<0, 0>>
    /\ H = <<0, 0>>
    /\ acc = <<0, 0, 1, 1>>
    /\ answer = FALSE

\* The range checks of ecdsa_verify.
Acceptable ==
    /\ input # Malformed
    /\ input.r # 0 /\ input.r < n /\ input.s # 0 /\ input.s < n
    /\ ecAff_isValidPubkey(input.pubKey)

refuse ==
    /\ pc = "call"
    /\ ~Acceptable
    /\ pc' = "done"
    /\ UNCHANGED <<input, index, scalars, H, acc, answer>>

ecdsa_verify ==
    /\ pc = "call"
    /\ Acceptable
    /\ LET sInv == modInv(input.s, n)
       IN  scalars' = <<mulmod(input.hash, sInv, n), mulmod(input.r, sInv, n)>>
    /\ H' = ecAff_add(<<GX, GY>>, input.pubKey)
    /\ pc' = IF scalars' = <<0, 0>> THEN "loop" ELSE "scan"
    /\ index' = IF scalars' = <<0, 0>> THEN -1 ELSE index
    /\ UNCHANGED <<input, acc, answer>>

bitpair == compute_bitpair(index, scalars[1], scalars[2])
Summand == CASE bitpair = 1 -> <<GX, GY>> [] bitpair = 2 -> input.pubKey [] bitpair = 3 -> H

\* Up to the first bits that are not both 0.
findFirstBits ==
    /\ pc = "scan"
    /\ index >= 0
    /\ index' = index - 1
    /\ IF bitpair = 0 THEN UNCHANGED <<pc, acc>>
       ELSE pc' = "loop" /\ acc' = <<Summand[1], Summand[2], 1, 1>>
    /\ UNCHANGED <<input, scalars, H, answer>>

ecZZ_mulmuladd ==
    /\ pc = "loop"
    /\ index >= 0
    /\ LET doubled == ecZZ_double_zz(acc)
       IN  acc' = IF bitpair = 0 THEN doubled ELSE ecZZ_dadd_affine(doubled, Summand)
    /\ index' = index - 1
    /\ UNCHANGED <<input, pc, scalars, H, answer>>

\* The comparison of elements of different fields.
MatchesUnreduced(x, r) == x = r

Matches(x, r) == x % n = r

compare ==
    /\ pc = "loop"
    /\ index < 0
    /\ answer' = Matches(mulmod(acc[1], modInv(acc[3], p), p), input.r)
    /\ pc' = "done"
    /\ UNCHANGED <<input, index, scalars, H, acc>>

Next == refuse \/ ecdsa_verify \/ findFirstBits \/ ecZZ_mulmuladd \/ compare

Spec == Init /\ [][Next]_vars

-----------------------------------------------------------------------------
(* Properties.                                                             *)

\* Every coordinate is reduced, the sums with p - y included, the index of the
\* bits ends at -1, and "zz == z^2 and zzz == z^3", which ecZZ_SetAff assumes,
\* for all intermediate results: in particular zz and zzz are 0 together only.
TypeOK ==
    /\ input \in Inputs
    /\ pc \in {"call", "scan", "loop", "done"}
    /\ index \in -1..(WordBits - 1)
    /\ scalars \in (0..(n - 1)) \X (0..(n - 1))
    /\ H \in Group
    /\ acc \in Field \X Field \X Field \X Field
    /\ (acc[3] * acc[3] * acc[3] - acc[4] * acc[4]) % p = 0
    /\ answer \in BOOLEAN

\* What an accumulator stands for.  <<0, 0, 1, 1>> is infinity too: it is what
\* the loop starts from when Q = -G, and ecZZ_IsInf does not recognise it.
Denoted(z) ==
    IF z[3] = 0 \/ (z[1] = 0 /\ z[2] = 0) THEN Infinity
    ELSE <<(z[1] * Inverse(z[3], p)) % p, (z[2] * Inverse(z[4], p)) % p>>

\* The loop invariant of Strauss and Shamir: when the bits above index have
\* been used, the accumulator is that many multiples of G and of the key, also
\* when a sum on the way is infinity, a doubling, or H is infinity.
Accumulates ==
    pc = "loop" =>
        Denoted(acc) = Sum(Multiple[<<GX, GY>>, scalars[1] \div 2^(index + 1)],
                           Multiple[input.pubKey, scalars[2] \div 2^(index + 1)])

\* ECDSA, by its definition.
ECDSA(in) ==
    /\ in # Malformed
    /\ in.r \in 1..(n - 1) /\ in.s \in 1..(n - 1) /\ in.pubKey \in Points
    /\ LET w == Inverse(in.s, n)
           R == Sum(Multiple[<<GX, GY>>, (in.hash * w) % n], Multiple[in.pubKey, (in.r * w) % n])
       IN  R # Infinity /\ R[1] % n = in.r

\* The contract's answer is that of ECDSA for every hash, signature and key,
\* on the curve or not, with x between n and p as well.
AnswerCorrect == pc = "done" => answer = ECDSA(input)

=============================================================================
