------------------------------- MODULE Shamir -------------------------------
(* Threshold sharing of one byte, as in src/src/backup/shamir.c: arithmetic *)
(* of GF(256) with the polynomial 0x11B, the split into points of a random  *)
(* polynomial, and the interpolation at 0.  The code does the same to each  *)
(* byte of the secret on its own.  The checksum of a share line is in       *)
(* Backup's restore, which refuses a damaged line.                          *)
EXTENDS Integers, SequencesExt, Bitwise

Byte == 0..255

\* A table of f over pairs of bytes, as a tuple: TLC computes it once.
Table(f(_, _)) == <<>> \o [a \in 1..256 |-> <<>> \o [b \in 1..256 |-> f(a - 1, b - 1)]]

Xors == Table(^^)

xor(a, b) == Xors[a + 1][b + 1]

\* Russian peasant multiplication: eight rounds, whatever the operands are.
Round(s, i) ==
  [r |-> IF s.y % 2 = 1 THEN xor(s.r, s.x) ELSE s.r,
   x |-> LET d == (2 * s.x) % 256 IN IF s.x >= 128 THEN xor(d, 27) ELSE d,
   y |-> s.y \div 2]

Product(a, b) == FoldLeft(Round, [r |-> 0, x |-> a, y |-> b], <<1, 2, 3, 4, 5, 6, 7, 8>>).r

Products == Table(Product)

gf_mul(a, b) == Products[a + 1][b + 1]

gf_sqr(a) == gf_mul(a, a)

\* a^254 by a fixed addition chain; 0 for 0, which no caller passes.
gf_inv(a) ==
  LET x3   == gf_mul(gf_sqr(a), a)
      x7   == gf_mul(gf_sqr(x3), a)
      x15  == gf_mul(gf_sqr(x7), a)
      x31  == gf_mul(gf_sqr(x15), a)
      x63  == gf_mul(gf_sqr(x31), a)
      x127 == gf_mul(gf_sqr(x63), a)
  IN  gf_sqr(x127)

\* The value at x of the polynomial with coefficients c, by Horner's rule.
share_at(c, x) == FoldRight(LAMBDA d, acc : xor(gf_mul(acc, x), d), Front(c), Last(c))

\* Share i of n is the value at i; the value at 0 is the secret itself.
shamir_split(secret, coefs, n) ==
  {[x |-> i, y |-> share_at(<<secret>> \o coefs, i)] : i \in 1..n}

\* The Lagrange basis of share a at 0.
lagrange(S, a) ==
  LET others == S \ {a}
      num == FoldSet(LAMBDA t, p : gf_mul(p, t.x), 1, others)
      den == FoldSet(LAMBDA t, p : gf_mul(p, xor(a.x, t.x)), 1, others)
  IN  gf_mul(num, gf_inv(den))

\* Interpolates whatever it is given: it cannot know the threshold.
shamir_combine(S) ==
  FoldSet(LAMBDA a, acc : xor(acc, gf_mul(a.y, lagrange(S, a))), 0, S)
=============================================================================
