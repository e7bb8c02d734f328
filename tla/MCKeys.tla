------------------------------- MODULE MCKeys -------------------------------
(***************************************************************************)
(* The arithmetic and the text of keys, side by side: base64 and           *)
(* hexadecimal (encoding.c), the public key of the embeddable library, the *)
(* two field implementations of wg, and the two ladders on top of them.    *)
(* `part' is the program that runs; the variables of the others are NULL.  *)
(***************************************************************************)
EXTENDS Integers, Sequences

CONSTANT NULL

(* Keys of five bytes, one whole group and the last one.  The bytes take every
   value in some position; the texts take every character code in a whole and
   in the last group, and many in the position of the unused bits.         *)
CharCodes == -128 .. 255

EncodedKeys ==
  {<<a, b, c, d, e>> : a \in {0, 1}, b \in {0, 63, 128, 255}, c \in {0, 192}, d \in {0, 3, 252}, e \in {0, 15, 16, 255}}
  \cup {<<0, n, 255 - n, n, n>> : n \in 0 .. 255}

Base64Texts ==
  {<<65, c, 98, 57, 65, 65, 65, 61>> : c \in CharCodes}
  \cup {<<65, 65, 65, 65, 65, c, 69, 61>> : c \in CharCodes}
  \cup {<<122, 90, 48, 43, c, 47, d, e>> : c \in {65, 61, -61}, d \in CharCodes, e \in {61, 65}}
  \cup {<<65, 65, 65, 61>>, <<65, 65, 65, 65, 65, 65, 65>>}

HexTexts ==
  {<<48, 48, c, 57, 102, 70, 48, d, 97, 65>> : c \in CharCodes, d \in {48, 103, 64, 71}}
  \cup {<<48, 48>>, <<48, 48, 48, 48, 48, 48, 48, 48, 48, 48, 48>>}

(* Keys with every pattern in the bits next to those that clamping changes,
   and with a spread of patterns between them.                             *)
PrivateKeys == {977 * k : k \in 0 .. 66} \cup {65535, 65528, 16384, 32767, 49151} \cup 0 .. 16

(* Three limbs of four bits, modulo 4093, at and next to every boundary, up to
   almost twice their width: what products and sums leave.                 *)
HaclElements == [0 .. 2 -> {0, 12, 13, 15, 31}]

(* Four limbs of three and two bits, modulo 1021, at and next to every boundary
   up to the bounds of the two types.                                      *)
TightLimb(k) == IF k % 2 = 0 THEN {0, 5, 8, 9} ELSE {0, 3, 4}
LooseLimb(k) == IF k % 2 = 0 THEN {0, 8, 27} ELSE {0, 4, 13}
Vectors(S(_)) == {[k \in 0 .. 3 |-> <<a, b, c, d>>[k + 1]] : a \in S(0), b \in S(1), c \in S(2), d \in S(3)}
FiatTight == Vectors(TightLimb)
FiatLoose == Vectors(LooseLimb)

VARIABLES
  part,
  enc_form, enc_pc, enc_original, enc_text, enc_key, enc_ok, enc_zero,
  cwg_pc, cwg_private_key, cwg_z, cwg_i, cwg_a, cwg_b, cwg_c, cwg_d, cwg_e, cwg_public_key,
  hacl_op, hacl_f, hacl_g, hacl_result,
  fiat_op, fiat_f, fiat_g, fiat_result,
  crv_impl, crv_pc, crv_secret, crv_e, crv_pos, crv_swap, crv_p2, crv_p3, crv_exponent, crv_public

(* The embeddable library's curve is run in two sizes: many short limbs, and two
   long ones with the factor 19 of the code.                               *)
Encoding == INSTANCE KeyEncoding WITH
  KeyLen <- 5, Keys <- EncodedKeys, Base64s <- Base64Texts, Hexes <- HexTexts, form <- enc_form,
  pc <- enc_pc, original <- enc_original, text <- enc_text, key <- enc_key, ok <- enc_ok,
  zero <- enc_zero

Wg == INSTANCE CurveWg WITH
  P <- 16381, A24 <- 225, BaseX <- 9, BaseY <- 3201, Limbs <- 3, Width <- 5, K <- 3,
  SkipBits <- {2}, PrivateKeys <- PrivateKeys, pc <- cwg_pc, private_key <- cwg_private_key,
  z <- cwg_z, i <- cwg_i, a <- cwg_a, b <- cwg_b, c <- cwg_c, d <- cwg_d, e <- cwg_e,
  public_key <- cwg_public_key

WideWg == INSTANCE CurveWg WITH
  P <- 32749, A24 <- 407, BaseX <- 9, BaseY <- 10097, Limbs <- 2, Width <- 8, K <- 19,
  SkipBits <- {2, 4}, PrivateKeys <- PrivateKeys, pc <- cwg_pc, private_key <- cwg_private_key,
  z <- cwg_z, i <- cwg_i, a <- cwg_a, b <- cwg_b, c <- cwg_c, d <- cwg_d, e <- cwg_e,
  public_key <- cwg_public_key

Hacl == INSTANCE FieldHacl64 WITH
  Limbs <- 3, Width <- 4, K <- 3, Scalar <- 250, Elements <- HaclElements, op <- hacl_op,
  f <- hacl_f, g <- hacl_g, result <- hacl_result

Fiat == INSTANCE FieldFiat32 WITH
  Limbs <- 4, Width <- 2, K <- 3, Factor <- 7, Tight <- FiatTight, Loose <- FiatLoose,
  op <- fiat_op, f <- fiat_f, g <- fiat_g, result <- fiat_result

Curve == INSTANCE Curve25519 WITH
  P <- 32749, A24 <- 407, BaseX <- 9, BaseY <- 10097, Secrets <- PrivateKeys, impl <- crv_impl,
  pc <- crv_pc, secret <- crv_secret, e <- crv_e, pos <- crv_pos, swap <- crv_swap, p2 <- crv_p2,
  p3 <- crv_p3, exponent <- crv_exponent, public <- crv_public

enc_vars == <<
  enc_form, enc_pc, enc_original, enc_text, enc_key, enc_ok, enc_zero>>

EncodingOff ==
  /\ enc_form = NULL /\ enc_pc = NULL /\ enc_original = NULL /\ enc_text = NULL /\ enc_key = NULL
  /\ enc_ok = NULL /\ enc_zero = NULL

cwg_vars == <<
  cwg_pc, cwg_private_key, cwg_z, cwg_i, cwg_a, cwg_b, cwg_c, cwg_d, cwg_e, cwg_public_key>>

WgOff ==
  /\ cwg_pc = NULL /\ cwg_private_key = NULL /\ cwg_z = NULL /\ cwg_i = NULL /\ cwg_a = NULL
  /\ cwg_b = NULL /\ cwg_c = NULL /\ cwg_d = NULL /\ cwg_e = NULL /\ cwg_public_key = NULL

hacl_vars == <<
  hacl_op, hacl_f, hacl_g, hacl_result>>

HaclOff ==
  /\ hacl_op = NULL /\ hacl_f = NULL /\ hacl_g = NULL /\ hacl_result = NULL

fiat_vars == <<
  fiat_op, fiat_f, fiat_g, fiat_result>>

FiatOff ==
  /\ fiat_op = NULL /\ fiat_f = NULL /\ fiat_g = NULL /\ fiat_result = NULL

crv_vars == <<
  crv_impl, crv_pc, crv_secret, crv_e, crv_pos, crv_swap, crv_p2, crv_p3, crv_exponent, crv_public>>

CurveOff ==
  /\ crv_impl = NULL /\ crv_pc = NULL /\ crv_secret = NULL /\ crv_e = NULL /\ crv_pos = NULL
  /\ crv_swap = NULL /\ crv_p2 = NULL /\ crv_p3 = NULL /\ crv_exponent = NULL /\ crv_public = NULL

-----------------------------------------------------------------------------
Parts == {"encoding", "embeddable", "embeddable, wide", "hacl64", "fiat32", "curve25519"}

KeysInit ==
  /\ part \in Parts
  /\ IF part = "encoding" THEN Encoding!Init ELSE EncodingOff
  /\ IF part = "embeddable" THEN Wg!Init ELSE IF part = "embeddable, wide" THEN WideWg!Init ELSE WgOff
  /\ IF part = "hacl64" THEN Hacl!Init ELSE HaclOff
  /\ IF part = "fiat32" THEN Fiat!Init ELSE FiatOff
  /\ IF part = "curve25519" THEN Curve!Init ELSE CurveOff

Others(p) ==
  /\ UNCHANGED part
  /\ IF p # "encoding" THEN UNCHANGED enc_vars ELSE TRUE
  /\ IF p \notin {"embeddable", "embeddable, wide"} THEN UNCHANGED cwg_vars ELSE TRUE
  /\ IF p # "hacl64" THEN UNCHANGED hacl_vars ELSE TRUE
  /\ IF p # "fiat32" THEN UNCHANGED fiat_vars ELSE TRUE
  /\ IF p # "curve25519" THEN UNCHANGED crv_vars ELSE TRUE

KeysNext ==
  \/ part = "encoding" /\ Encoding!Next /\ Others("encoding")
  \/ part = "embeddable" /\ Wg!Next /\ Others("embeddable")
  \/ part = "embeddable, wide" /\ WideWg!Next /\ Others("embeddable, wide")
  \/ part = "hacl64" /\ Hacl!Next /\ Others("hacl64")
  \/ part = "fiat32" /\ Fiat!Next /\ Others("fiat32")
  \/ part = "curve25519" /\ Curve!Next /\ Others("curve25519")

keysVars == <<part, enc_vars, cwg_vars, hacl_vars, fiat_vars, crv_vars>>

KeysSpec == KeysInit /\ [][KeysNext]_keysVars

-----------------------------------------------------------------------------
(* A text is taken for a key exactly when it is the text of one: key_from_base64
   wants the alphabet, the final '=' and unused bits of zero, so that one key has
   one text, key_from_hex the right length and digits of either case; whatever
   was written is read back, and key_is_zero holds of the zero key only.  The
   sign and carry tricks neither let a character through nor refuse one, whether
   char is signed or not (encoding.c, ctype.h).                            *)
AcceptsOnlyKeys ==
  part = "encoding" =>
    /\ Encoding!RoundTrip
    /\ Encoding!AcceptsCanonicalBase64 /\ Encoding!AcceptsHex
    /\ Encoding!CharClasses /\ Encoding!ZeroIsZero

(* Whatever is carried, folded, doubled, biased or cut off to a word, each field
   operation of curve25519-hacl64.h and of curve25519-fiat32.h gives a number
   congruent to the one it is meant to give, and no limb goes where the next
   operation does not take it: sums and differences of tight elements are loose
   ones (fe_add, fe_sub), and the signed limbs of the library's ladder leave the
   range of their width by a few multiples of the folding factor at most, however
   long the ladder is (multmod, add, subtract).                            *)
FieldCongruent ==
  /\ part = "hacl64" => Hacl!Congruent
  /\ part = "fiat32" => Fiat!Congruent /\ Fiat!SumsAreLoose
  /\ part = "embeddable" => Wg!LimbsSmall
  /\ part = "embeddable, wide" => WideWg!LimbsSmall

(* format_fcontract gives the one form below the prime from limbs up to twice
   their width, and fe_freeze from every tight element; the limbs cut out of the
   bytes are those of the number without its highest bit, and writing them puts
   each bit back where it was (format_fexpand and format_fcontract_store,
   fe_frombytes and fe_tobytes).                                           *)
FieldCanonical ==
  /\ part = "hacl64" => Hacl!ContractCanonical /\ Hacl!BytesRoundTrip
  /\ part = "fiat32" => Fiat!FreezeCanonical /\ Fiat!BytesRoundTrip

(* The public key is the x coordinate of the clamped key's multiple of the base
   point, in its one reduced form, whichever implementation computes it.  On the
   way, before every round of each of the three ladders, the two points, in the
   order a pending swap says, are the multiples r and r + 1 of the base point,
   where r is the part of the key that has been used; and the addition chains of
   crecip and fe_loose_invert raise to 2^255 - 21, the inverse by Fermat's
   theorem (wg_generate_public_key, curve25519_generate_public).           *)
PublicKeyCorrect ==
  /\ part = "embeddable" => Wg!LadderInvariant /\ Wg!PublicKeyCorrect
  /\ part = "embeddable, wide" => WideWg!LadderInvariant /\ WideWg!PublicKeyCorrect
  /\ part = "curve25519" => Curve!LadderInvariant /\ Curve!ChainIsInverse /\ Curve!PublicKeyCorrect
=============================================================================
