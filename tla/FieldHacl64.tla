----------------------------- MODULE FieldHacl64 -----------------------------
(***************************************************************************)
(* The field arithmetic of curve25519-hacl64.h.  An element has Limbs      *)
(* unsigned limbs of Width bits in longer words, and stands for a number   *)
(* modulo P = 2^(Limbs * Width) - K; the code has five limbs of 51 bits in *)
(* 64-bit words and 2^255 - 19.  Each behaviour applies one operation to   *)
(* one choice of elements.  The conversions from and to bytes are run on   *)
(* named bits, with the code's own widths.                                 *)
(***************************************************************************)
EXTENDS Integers, Sequences, SequencesExt, Bitwise

CONSTANTS
  Limbs, Width, K,
  Scalar,         (* fscalar's factor                                      *)
  Elements        (* the elements an operation is applied to               *)

P == 2^(Limbs * Width) - K
VARIABLES op, f, g, result

vars == <<op, f, g, result>>

B == 2^Width
Indices == 0 .. Limbs - 1
UpTo(n) == [k \in 1 .. n |-> k - 1]
None == [k \in Indices |-> -1]

(* A word has 13 bits more than a limb.                                    *)
WordBits == Width + 13
Word(n) == n % 2^WordBits

RECURSIVE NumberFrom(_, _)
NumberFrom(x, k) == IF k = Limbs THEN 0 ELSE x[k] + B * NumberFrom(x, k + 1)
Number(x) == NumberFrom(x, 0)

-----------------------------------------------------------------------------
(* Words whose bits are named instead of being 0 or 1: a word is a set of pairs
   <<position, name>>, a bit that is absent is zero.  Shifts, masks and
   disjunctions of a fixed program are so run at full size, for all inputs. *)

(* The little-endian word of n bits that starts at byte b.                 *)
LoadLE(b, n) == {<<i, 8 * b + i>> : i \in 0 .. n - 1}

ShrBits(w, n) == {<<e[1] - n, e[2]>> : e \in {x \in w : x[1] >= n}}
LowBits(w, n) == {e \in w : e[1] < n}
ShlBits(w, n, width) == LowBits({<<e[1] + n, e[2]>> : e \in w}, width)

(* The n bits of the number from position p on, as a limb.                 *)
LimbBits(p, n) == {<<i, p + i>> : i \in 0 .. n - 1}

-----------------------------------------------------------------------------
(* All ones when a = b, otherwise zero.                                    *)
u64_eq_mask(a, b) ==
  LET x == a ^^ b
      x_or_minus_x == x | Word(-x)
  IN  Word(x_or_minus_x \div 2^(WordBits - 1) - 1)

(* All ones when a >= b, otherwise zero.                                   *)
u64_gte_mask(a, b) ==
  LET q == (a ^^ b) | (Word(a - b) ^^ b)
  IN  Word((a ^^ q) \div 2^(WordBits - 1) - 1)

(* fproduct_carry_wide_ and the carry passes: each limb but the last keeps Width
   bits and passes the rest on.                                            *)
fproduct_carry_wide_(t) ==
  FoldLeft(LAMBDA s, k : [s EXCEPT ![k + 1] = @ + s[k] \div B, ![k] = @ % B], t, UpTo(Limbs - 1))

(* modulo_carry_top: what exceeds the last limb comes back K times.        *)
modulo_carry_top(t) ==
  [t EXCEPT ![0] = @ + K * Word(t[Limbs - 1] \div B), ![Limbs - 1] = @ % B]

fproduct_copy_from_wide_(t) == [k \in Indices |-> Word(t[k])]

CarryLow(t) == [t EXCEPT ![1] = @ + t[0] \div B, ![0] = @ % B]

(* What follows the products in fmul_fmul and fsquare_fsquare_.            *)
Reduce(t) == CarryLow(fproduct_copy_from_wide_(modulo_carry_top(fproduct_carry_wide_(t))))

(* fmul_shift_reduce i times: limbs move up, those that leave come in K times. *)
fmul_shift_reduce(x, i) == [k \in Indices |-> IF k >= i THEN x[k - i] ELSE Word(K * x[k - i + Limbs])]

fmul_mul_shift_reduce_(x, y) ==
  [k \in Indices |-> FoldLeft(LAMBDA s, i : s + fmul_shift_reduce(x, i)[k] * y[i], 0, UpTo(Limbs))]

fmul(x, y) == Reduce(fmul_mul_shift_reduce_(x, y))

(* fsquare_fsquare__: each product of two limbs once, doubled when they differ. *)
fsquare__(x) ==
  [k \in Indices |->
     FoldLeft(LAMBDA s, i :
                LET j == (k - i) % Limbs
                    fold == IF i + j >= Limbs THEN K ELSE 1
                IN  IF i > j THEN s ELSE s + Word((IF i = j THEN 1 ELSE 2) * fold * x[i]) * x[j],
              0, UpTo(Limbs))]

fsquare(x) == Reduce(fsquare__(x))

fsum(x, y) == [k \in Indices |-> Word(x[k] + y[k])]

(* Mutant: one prime is added instead of eight.                            *)
fdifferenceOne(x, y) == [k \in Indices |-> Word(Word(y[k] + (IF k = 0 THEN B - K ELSE B - 1)) - x[k])]

(* fdifference leaves y - x in x, with eight times the prime added.        *)
fdifference(x, y) ==
  [k \in Indices |-> Word(Word(y[k] + 8 * (IF k = 0 THEN B - K ELSE B - 1)) - x[k])]

fscalar(x, s) ==
  fproduct_copy_from_wide_(modulo_carry_top(fproduct_carry_wide_([k \in Indices |-> x[k] * s])))

(* format_fcontract_trim: the prime is subtracted under a mask from what is not
   below it.                                                               *)
format_fcontract_trim(t) ==
  LET prime == [k \in Indices |-> IF k = 0 THEN B - K ELSE B - 1]
      mask == FoldLeft(LAMBDA m, k : m & u64_eq_mask(t[k], prime[k]),
                       u64_gte_mask(t[0], prime[0]), Tail(UpTo(Limbs)))
  IN  [k \in Indices |-> Word(t[k] - (prime[k] & mask))]

format_fcontract_first_carry_full(t) == modulo_carry_top(fproduct_carry_wide_(t))
format_fcontract_second_carry_full(t) == CarryLow(modulo_carry_top(fproduct_carry_wide_(t)))

(* Mutant: the second pass of carries is left out.                         *)
format_fcontract_once(t) == format_fcontract_trim(format_fcontract_first_carry_full(t))

format_fcontract(t) ==
  format_fcontract_trim(format_fcontract_second_carry_full(format_fcontract_first_carry_full(t)))

-----------------------------------------------------------------------------
(* The loads of format_fexpand: the first byte and the shift of each limb.  *)
FirstByte == <<0, 6, 12, 19, 24>>
Shift == <<0, 3, 6, 1, 12>>

format_fexpand(k) == LowBits(ShrBits(LoadLE(FirstByte[k], 64), Shift[k]), 51)

(* The four words that format_fcontract_store writes, from limbs whose bits carry
   their places in the number.                                             *)
format_fcontract_store(n) ==
  LET t == [k \in 0 .. 4 |-> LimbBits(51 * k, 51)]
  IN  CASE n = 0 -> ShlBits(t[1], 51, 64) \cup t[0]
        [] n = 1 -> ShlBits(t[2], 38, 64) \cup ShrBits(t[1], 13)
        [] n = 2 -> ShlBits(t[3], 25, 64) \cup ShrBits(t[2], 26)
        [] n = 3 -> ShlBits(t[4], 12, 64) \cup ShrBits(t[3], 39)

-----------------------------------------------------------------------------
Init ==
  /\ result = None
  /\ f \in Elements
  /\ \/ op \in {"sum", "difference", "mul"} /\ g \in Elements
     \/ op \in {"square", "scalar", "contract"} /\ g = None

Sum == op = "sum" /\ result' = fsum(f, g)
Difference == op = "difference" /\ result' = fdifference(f, g)
Multiply == op = "mul" /\ result' = fmul(f, g)
Square == op = "square" /\ result' = fsquare(f)
Scale == op = "scalar" /\ result' = fscalar(f, Scalar)
Contract == op = "contract" /\ result' = format_fcontract(f)

Next ==
  \/ result = None /\ (Sum \/ Difference \/ Multiply \/ Square \/ Scale \/ Contract) /\ UNCHANGED <<op, f, g>>
  \/ result # None /\ UNCHANGED vars

Spec == Init /\ [][Next]_vars

-----------------------------------------------------------------------------
(* The number each operation is meant to have, modulo the prime.           *)
Meant ==
  LET x == Number(f) % P
      y == Number(g) % P
  IN  CASE op = "sum" -> x + y
        [] op = "difference" -> y - x
        [] op = "mul" -> x * y
        [] op = "square" -> x * x
        [] op = "scalar" -> x * Scalar
        [] op = "contract" -> x

(* Whatever is carried, folded, biased or cut off to a word, each operation's
   result is congruent to what it is meant to be.                          *)
Congruent == result # None => Number(result) % P = Meant % P

(* format_fcontract gives the one form below the prime, from limbs up to twice
   their width.                                                            *)
ContractCanonical ==
  op = "contract" /\ result # None =>
    Number(result) < P /\ \A k \in Indices : result[k] < B

(* The limbs that format_fexpand cuts out of 32 bytes are those of the number
   without its highest bit, and format_fcontract_store puts them back.     *)
BytesRoundTrip ==
  op = "contract" =>
    /\ \A k \in 0 .. 4 : format_fexpand(k + 1) = LimbBits(51 * k, 51)
    /\ \A n \in 0 .. 3 : format_fcontract_store(n) = LowBits(LimbBits(64 * n, 64), IF n = 3 THEN 63 ELSE 64)
=============================================================================
