---------------------------- MODULE KeyEncoding ----------------------------
(***************************************************************************)
(* The constant-time conversions between keys and text of encoding.c (wg)  *)
(* and wireguard.c (the embeddable library): base64, hexadecimal and the   *)
(* test for a key of zeros.                                                *)
(*                                                                         *)
(* A text is a sequence of character codes; a char may be signed, so codes *)
(* go from -128 to 255.  Keys have KeyLen bytes, which is like 32 two more *)
(* than a multiple of three: the last group of four characters holds two   *)
(* bytes.  Words are kept to 16 bits, of which the code uses the low byte  *)
(* after a shift by eight.                                                 *)
(***************************************************************************)
EXTENDS Integers, Sequences, Bitwise

CONSTANTS
  KeyLen,     (* WG_KEY_LEN                                                *)
  Keys,       (* the keys to be converted                                  *)
  Base64s,    (* the texts to be read as base64                            *)
  Hexes       (* the texts to be read as hexadecimal                       *)

VARIABLES
  form,       (* "base64", "hex" or "wg" for wireguard.c's base64          *)
  pc,
  original,   (* the key that was converted, <<>> when a text was given    *)
  text,
  key,
  ok,         (* the result of reading text                                *)
  zero        (* key_is_zero of the key                                    *)

vars == <<form, pc, original, text, key, ok, zero>>

Codes == -128 .. 255

(* & of two words in two's complement, and the arithmetic shift.           *)
AndW(x, y) == LET r == (x % 65536) & (y % 65536) IN IF r >= 32768 THEN r - 65536 ELSE r
Shr8(x) == x \div 256

-----------------------------------------------------------------------------

(* The character of six bits.                                              *)
EncodeChar(x) ==
  x + 65 + AndW(Shr8(25 - x), 6) - AndW(Shr8(51 - x), 75) - AndW(Shr8(61 - x), 15)
    + AndW(Shr8(62 - x), 3)

EncodeTable == [x \in 0 .. 63 |-> EncodeChar(x)]

(* encode_base64: the four characters of three bytes.                      *)
encode_base64(a, b, c) ==
  << EncodeTable[(a \div 4) % 64], EncodeTable[(a * 16 + b \div 16) % 64],
     EncodeTable[(b * 4 + c \div 64) % 64], EncodeTable[c % 64] >>

Groups == KeyLen \div 3

(* key_to_base64: whole groups, then the last two bytes with a zero, whose
   fourth character becomes '='.                                           *)
key_to_base64(k) ==
  LET group(i) == encode_base64(k[3 * i + 1], k[3 * i + 2], k[3 * i + 3])
      last == encode_base64(k[3 * Groups + 1], k[3 * Groups + 2], 0)
  IN  [n \in 1 .. 4 * Groups + 4 |->
         IF n = 4 * Groups + 4 THEN 61
         ELSE IF n > 4 * Groups THEN last[n - 4 * Groups]
         ELSE group((n - 1) \div 4)[((n - 1) % 4) + 1]]

(* One range of decode_base64: v where lo =< c =< hi, otherwise nothing.   *)
InRange(c, lo, hi, v) == AndW(Shr8(AndW((lo - 1) - c, c - (hi + 1))), v)

(* The six bits of a character, -1 for a character of no range.            *)
DecodeChar(c) ==
  -1 + InRange(c, 65, 90, c - 64) + InRange(c, 97, 122, c - 70) + InRange(c, 48, 57, c + 5)
     + InRange(c, 43, 43, 63) + InRange(c, 47, 47, 64)

DecodeTable == [c \in Codes |-> DecodeChar(c)]

(* decode_base64: the 24 bits of four characters; the sign bit is set by each
   character of no range.                                                  *)
decode_base64(s) ==
  IF \E i \in 1 .. 4 : DecodeTable[s[i]] < 0 THEN -1
  ELSE DecodeTable[s[1]] * 262144 + DecodeTable[s[2]] * 4096 + DecodeTable[s[3]] * 64 + DecodeTable[s[4]]

(* The values of the groups of a text, the last one with 'A' for its '='.  *)
Value(s, i) ==
  decode_base64(<<s[4 * i + 1], s[4 * i + 2], s[4 * i + 3], IF i = Groups THEN 65 ELSE s[4 * i + 4]>>)

WellFormed(s) == Len(s) = 4 * Groups + 4 /\ s[4 * Groups + 4] = 61

KeyOf(s) ==
  [n \in 1 .. KeyLen |->
     LET v == Value(s, (n - 1) \div 3)
     IN  CASE n % 3 = 1 -> (v \div 65536) % 256
           [] n % 3 = 2 -> (v \div 256) % 256
           [] OTHER -> v % 256]

(* Mutant: the bits of the last group that no byte takes are not looked at. *)
Base64OkLoose(s) == WellFormed(s) /\ \A i \in 0 .. Groups : Value(s, i) >= 0

(* key_from_base64: no group has its sign bit set, and the last one no bits
   below its two bytes.                                                    *)
Base64Ok(s) ==
  WellFormed(s) /\ (\A i \in 0 .. Groups : Value(s, i) >= 0) /\ Value(s, Groups) % 256 = 0

(* wg_key_from_base64: EINVAL is masked out unless ret is zero.            *)
WgErrno(s) ==
  IF ~WellFormed(s) THEN 22
  ELSE LET ret == IF Base64Ok(s) THEN 0 ELSE 255
       IN  AndW(22, -1 - Shr8(ret - 1))

-----------------------------------------------------------------------------
(* The digit of four bits: 87 + x, less 39 below ten.                      *)
HexChar(x) == (87 + x + AndW(((x - 10) % 65536) \div 256, -39)) % 256

key_to_hex(k) ==
  [n \in 1 .. 2 * KeyLen |->
     IF n % 2 = 1 THEN HexChar(k[(n + 1) \div 2] \div 16) ELSE HexChar(k[(n + 1) \div 2] % 16)]

(* One digit of key_from_hex in 8-bit arithmetic: whether it counts as bad, and
   its value.                                                              *)
HexDigit(code) ==
  LET c == code % 256
      num == c ^^ 48
      num0 == (((num - 10) % 65536) \div 256) % 256
      alpha == ((c & 223) - 55) % 256
      alpha0 == ((((alpha - 10) % 65536) ^^ ((alpha - 16) % 65536)) \div 256) % 256
  IN  [bad |-> (num0 | alpha0) = 0, val |-> (num0 & num) | (alpha0 & alpha)]

HexTable == [c \in Codes |-> HexDigit(c)]

HexOk(s) == Len(s) = 2 * KeyLen /\ \A i \in 1 .. Len(s) : ~HexTable[s[i]].bad

HexKey(s) == [n \in 1 .. KeyLen |-> HexTable[s[2 * n - 1]].val * 16 + HexTable[s[2 * n]].val]

(* key_is_zero: the bytes are or-ed together; one less shows zero.         *)
RECURSIVE OrBytes(_, _)
OrBytes(k, n) == IF n = 0 THEN 0 ELSE OrBytes(k, n - 1) | k[n]

key_is_zero(k) == Shr8(OrBytes(k, KeyLen) - 1) = -1

-----------------------------------------------------------------------------
(* The ones of 0x80001F.                                                   *)
SpaceBits == 0 .. 4 \cup {23}

(* ctype.h: a table of 32 bits from tab on, shifted out for anything further. *)
char_is_space(c) ==
  LET d == (c - 9) % 256 IN d % 32 \in SpaceBits /\ d \div 32 = 0

(* The sign of the word.                                                   *)
char_is_digit(c) == AndW(47 - c, c - 58) < 0

char_is_alpha(c) ==
  LET l == ((c % 65536) | 32) - (IF c < 0 THEN 65536 ELSE 0) IN AndW(96 - l, l - 123) < 0

-----------------------------------------------------------------------------
Init ==
  /\ ok = FALSE /\ zero = FALSE
  /\ \/ /\ form \in {"base64", "hex", "wg"}
        /\ pc = "key" /\ original \in Keys /\ key = original /\ text = <<>>
     \/ /\ form \in {"base64", "wg"} /\ pc = "text" /\ text \in Base64s
        /\ original = <<>> /\ key = <<>>
     \/ /\ form = "hex" /\ pc = "text" /\ text \in Hexes
        /\ original = <<>> /\ key = <<>>

ToText ==
  /\ pc = "key"
  /\ text' = IF form = "hex" THEN key_to_hex(key) ELSE key_to_base64(key)
  /\ zero' = key_is_zero(key)
  /\ pc' = "text"
  /\ UNCHANGED <<form, original, key, ok>>

FromBase64 ==
  /\ pc = "text" /\ form = "base64"
  /\ ok' = Base64Ok(text)
  /\ key' = IF ok' THEN KeyOf(text) ELSE <<>>
  /\ pc' = "done"
  /\ UNCHANGED <<form, original, text, zero>>

FromWgBase64 ==
  /\ pc = "text" /\ form = "wg"
  /\ ok' = (WgErrno(text) = 0)
  /\ key' = IF ok' THEN KeyOf(text) ELSE <<>>
  /\ pc' = "done"
  /\ UNCHANGED <<form, original, text, zero>>

FromHex ==
  /\ pc = "text" /\ form = "hex"
  /\ ok' = HexOk(text)
  /\ key' = IF ok' THEN HexKey(text) ELSE <<>>
  /\ pc' = "done"
  /\ UNCHANGED <<form, original, text, zero>>

Done == pc = "done" /\ UNCHANGED vars

Next == ToText \/ FromBase64 \/ FromWgBase64 \/ FromHex \/ Done

Spec == Init /\ [][Next]_vars

-----------------------------------------------------------------------------
(* A key written as text and read again is the same key.                   *)
RoundTrip == pc = "done" /\ original # <<>> => ok /\ key = original

(* The alphabet of RFC 4648, by which a reader without tricks would go.    *)
Alphabet ==
  [n \in 1 .. 64 |-> IF n =< 26 THEN 64 + n ELSE IF n =< 52 THEN 70 + n
                     ELSE IF n =< 62 THEN n - 5 ELSE IF n = 63 THEN 43 ELSE 47]
Index(c) == CHOOSE n \in 1 .. 64 : Alphabet[n] = c
InAlphabet(c) == \E n \in 1 .. 64 : Alphabet[n] = c

(* Base64 is accepted exactly when every character but the final '=' is of the
   alphabet and the unused bits are zero, so that one key has one text: the
   sign and carry tricks neither let a character through nor refuse one,
   whether char is signed or not.                                          *)
AcceptsCanonicalBase64 ==
  pc = "done" /\ form # "hex" =>
    ok = ( /\ Len(text) = 4 * Groups + 4
           /\ text[Len(text)] = 61
           /\ \A i \in 1 .. Len(text) - 1 : InAlphabet(text[i])
           /\ (Index(text[Len(text) - 1]) - 1) % 4 = 0 )

DigitValue(c) ==
  IF c \in 48 .. 57 THEN c - 48 ELSE IF c \in 97 .. 102 THEN c - 87 ELSE IF c \in 65 .. 70 THEN c - 55 ELSE -1

(* Hexadecimal is accepted exactly when it has the right length and only
   digits, of either case, and then has the digits' value.                 *)
AcceptsHex ==
  pc = "done" /\ form = "hex" =>
    /\ ok = (Len(text) = 2 * KeyLen /\ \A i \in 1 .. Len(text) : DigitValue(text[i]) >= 0)
    /\ ok => \A n \in 1 .. KeyLen : key[n] = 16 * DigitValue(text[2 * n - 1]) + DigitValue(text[2 * n])

(* The branch-free character classes hold of the characters of their names,
   and of no other code that a signed or an unsigned char, or EOF, can be. *)
CharClasses ==
  \A n \in 1 .. Len(text) :
    LET c == text[n]
    IN  /\ char_is_space(c) <=> c \in 9 .. 13 \cup {32}
        /\ char_is_digit(c) <=> c \in 48 .. 57
        /\ char_is_alpha(c) <=> c \in 65 .. 90 \cup 97 .. 122

(* key_is_zero holds of the zero key only.                                 *)
ZeroIsZero == pc # "key" /\ original # <<>> => zero = (\A n \in 1 .. KeyLen : original[n] = 0)
=============================================================================
