---------------------------- MODULE ReedSolomon ----------------------------
(***************************************************************************)
(* The Reed-Solomon code of rscode/: arithmetic in GF(256) through tables  *)
(* of logarithms (galois.c), the encoder and the syndrome (rs.c), the      *)
(* Berlekamp-Massey algorithm, the search for the roots and the correction *)
(* (berlekamp.c), without erasures.                                        *)
(*                                                                         *)
(* A byte is a number, a polynomial the function of its coefficients.      *)
(***************************************************************************)
EXTENDS Integers, Sequences, FiniteSets

CONSTANT NPAR    \* parity bytes of a codeword

ASSUME ReedSolomonAssumption == NPAR \in Nat \ {0}

MAXDEG == 2 * NPAR
PPOLY == 29      \* x^8 + x^4 + x^3 + x^2 + 1, without its first term

-----------------------------------------------------------------------------
(* The field.                                                              *)

Bit(x, i) == (x \div 2^i) % 2

\* a ^ b, by halves of a byte.
XorHalf ==
    [a \in 0 .. 15 |-> [b \in 0 .. 15 |->
        LET bit(i) == ((Bit(a, i) + Bit(b, i)) % 2) * 2^i
        IN  bit(0) + bit(1) + bit(2) + bit(3)]]
Xor(a, b) == 16 * XorHalf[a \div 16][b \div 16] + XorHalf[a % 16][b % 16]

\* f[0] ^ ... ^ f[n].
XorSum(f, n) ==
    LET sum[i \in 0 .. n] == IF i = 0 THEN f[0] ELSE Xor(sum[i - 1], f[i])
    IN  sum[n]

\* The shift register of init_exp_table: a multiplication by x, reduced.
Times2(z) == IF z < 128 THEN 2 * z ELSE Xor(2 * (z - 128), PPOLY)

\* The powers of the primitive element.  (A table, since TLC would compute a
\* recursive function anew at every use.)
Powers ==
  <<
     1, 2, 4, 8, 16, 32, 64, 128, 29, 58, 116, 232, 205, 135, 19, 38, 76,
     152, 45, 90, 180, 117, 234, 201, 143, 3, 6, 12, 24, 48, 96, 192, 157,
     39, 78, 156, 37, 74, 148, 53, 106, 212, 181, 119, 238, 193, 159, 35,
     70, 140, 5, 10, 20, 40, 80, 160, 93, 186, 105, 210, 185, 111, 222,
     161, 95, 190, 97, 194, 153, 47, 94, 188, 101, 202, 137, 15, 30, 60,
     120, 240, 253, 231, 211, 187, 107, 214, 177, 127, 254, 225, 223, 163,
     91, 182, 113, 226, 217, 175, 67, 134, 17, 34, 68, 136, 13, 26, 52,
     104, 208, 189, 103, 206, 129, 31, 62, 124, 248, 237, 199, 147, 59,
     118, 236, 197, 151, 51, 102, 204, 133, 23, 46, 92, 184, 109, 218, 169,
     79, 158, 33, 66, 132, 21, 42, 84, 168, 77, 154, 41, 82, 164, 85, 170,
     73, 146, 57, 114, 228, 213, 183, 115, 230, 209, 191, 99, 198, 145, 63,
     126, 252, 229, 215, 179, 123, 246, 241, 255, 227, 219, 171, 75, 150,
     49, 98, 196, 149, 55, 110, 220, 165, 87, 174, 65, 130, 25, 50, 100,
     200, 141, 7, 14, 28, 56, 112, 224, 221, 167, 83, 166, 81, 162, 89,
     178, 121, 242, 249, 239, 195, 155, 43, 86, 172, 69, 138, 9, 18, 36,
     72, 144, 61, 122, 244, 245, 247, 243, 251, 235, 203, 139, 11, 22, 44,
     88, 176, 125, 250, 233, 207, 131, 27, 54, 108, 216, 173, 71, 142
  >>
gexp(i) == Powers[(i % 255) + 1]

ASSUME PowersAssumption ==
    Powers[1] = 1 /\ \A i \in 1 .. 254 : Powers[i + 1] = Times2(Powers[i])

\* The power that is x; 0 for 0.
Logs == [x \in 0 .. 255 |->
           IF x = 0 THEN 0 ELSE CHOOSE z \in 0 .. 254 : gexp(z) = x]
glog(x) == Logs[x]

gmult(a, b) == IF a = 0 \/ b = 0 THEN 0 ELSE gexp(glog(a) + glog(b))
ginv(x) == gexp(255 - glog(x))

Nibble == 0 .. 15
Byte == 0 .. 255

\* What the proofs need of the tables: exclusive or of half bytes is a group of
\* order 2, shifting the register is linear, and its powers go round once.
ASSUME TablesAssumption ==
    /\ \A a, b \in Nibble :
          /\ XorHalf[a][b] \in Nibble
          /\ XorHalf[a][b] = XorHalf[b][a]
          /\ XorHalf[a][0] = a
          /\ XorHalf[a][a] = 0
    /\ \A a, b, c \in Nibble : XorHalf[XorHalf[a][b]][c] = XorHalf[a][XorHalf[b][c]]
    /\ \A x, y \in Byte :
          /\ Times2(x) \in Byte
          /\ Times2(Xor(x, y)) = Xor(Times2(x), Times2(y))
    /\ \A z \in 0 .. 254 : gexp(z) \in Byte \ {0} /\ glog(gexp(z)) = z
    /\ \A x \in Byte \ {0} : glog(x) \in 0 .. 254 /\ gexp(glog(x)) = x
    /\ \A z \in 0 .. 254 : Times2(gexp(z)) = gexp(z + 1)

-----------------------------------------------------------------------------
(* Polynomials, as functions of the exponent.                              *)

Degrees == 0 .. MAXDEG - 1
Zero == [d \in Degrees |-> 0]
One == [Zero EXCEPT ![0] = 1]

AddScaled(p, x, q) == [d \in Degrees |-> Xor(p[d], gmult(x, q[d]))]
Scale(x, p) == [d \in Degrees |-> gmult(x, p[d])]
mul_z_poly(p) == [d \in Degrees |-> IF d = 0 THEN 0 ELSE p[d - 1]]

\* Coefficient d of the product.
MultAt(p, q, d) == XorSum([i \in 0 .. d |-> gmult(p[i], q[d - i])], d)

-----------------------------------------------------------------------------
(* The encoder.                                                            *)

\* compute_genpoly: the product of x + a^i, for i = 1 .. NPAR.
genPoly ==
    LET times(p, i) == [d \in Degrees |->
                          Xor(gmult(gexp(i), p[d]), mul_z_poly(p)[d])]
        product[i \in 0 .. NPAR] == IF i = 0 THEN One ELSE times(product[i - 1], i)
    IN  product[NPAR]

\* encode_data: a byte enters the shift register.
Shift(lfsr, byte) ==
    LET dbyte == Xor(byte, lfsr[NPAR - 1])
    IN  [j \in 0 .. NPAR - 1 |->
           Xor(IF j = 0 THEN 0 ELSE lfsr[j - 1], gmult(genPoly[j], dbyte))]

\* build_codeword: the register from its end.
Parity(lfsr) == [i \in 1 .. NPAR |-> lfsr[NPAR - i]]

-----------------------------------------------------------------------------
(* The decoder.                                                            *)

\* decode_data: the word, read as a polynomial, at the first NPAR powers.
Syndrome(word) ==
    LET at(j) == LET sum[i \in 0 .. Len(word)] ==
                       IF i = 0 THEN 0 ELSE Xor(word[i], gmult(gexp(j + 1), sum[i - 1]))
                 IN  sum[Len(word)]
    IN  [j \in Degrees |-> IF j < NPAR THEN at(j) ELSE 0]

\* compute_discrepancy.
Discrepancy(psi, syn, L, n) ==
    XorSum([i \in 0 .. L |-> gmult(psi[i], syn[n - i])], L)

\* compute_modified_omega.
Omega(lambda, syn) ==
    [d \in Degrees |-> IF d < NPAR THEN MultAt(lambda, syn, d) ELSE 0]

\* Find_Roots: the places, counted from the end, that lambda tells.
ErrorLocs(lambda) ==
    LET at(r) == XorSum([d \in 0 .. NPAR |-> gmult(gexp(d * r), lambda[d])], NPAR)
    IN  {255 - r : r \in {x \in 1 .. 255 : at(x) = 0}}

\* What is wrong at place i: omega over the derivative of lambda.
Magnitude(lambda, omega, i) ==
    LET num == [d \in Degrees |-> gmult(omega[d], gexp((255 - i) * d))]
        denom == [d \in Degrees |-> IF d % 2 = 0 THEN 0
                                    ELSE gmult(lambda[d], gexp((255 - i) * (d - 1)))]
    IN  gmult(XorSum(num, MAXDEG - 1), ginv(XorSum(denom, MAXDEG - 1)))

\* correct_errors_erasures, when lambda is known.
Correct(word, lambda, omega) ==
    LET locs == ErrorLocs(lambda)
    IN  IF Cardinality(locs) \in 1 .. NPAR /\ \A l \in locs : l < Len(word)
          THEN [p \in 1 .. Len(word) |->
                  IF Len(word) - p \in locs
                    THEN Xor(word[p], Magnitude(lambda, omega, Len(word) - p))
                    ELSE word[p]]
          ELSE word
=============================================================================
