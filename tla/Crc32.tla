---- MODULE Crc32 ----
(***************************************************************************)
(* mz_crc32 of miniz.h: four bits at a time, with a table of 16 entries.   *)
(* A 32-bit number is a sequence of eight hexadecimal digits, the lowest   *)
(* one first (TLC's integers have no 32 bits without a sign).              *)
(***************************************************************************)
EXTENDS DeflateFormat, Bitwise

Xor8(a, b) == Tab([k \in 1..8 |-> a[k] ^^ b[k]])

\* s_crc32
CrcTable == <<
  <<0,0,0,0,0,0,0,0>>, <<4,6,0,1,7,11,13,1>>, <<8,12,0,2,14,6,11,3>>,
  <<12,10,0,3,9,13,6,2>>, <<0,9,1,4,12,13,6,7>>, <<4,15,1,5,11,6,11,6>>,
  <<8,5,1,6,2,11,13,4>>, <<12,3,1,7,5,0,0,5>>, <<0,2,3,8,8,11,13,14>>,
  <<4,4,3,9,15,0,0,15>>, <<8,14,3,10,6,13,6,13>>, <<12,8,3,11,1,6,11,12>>,
  <<0,11,2,12,4,6,11,9>>, <<4,13,2,13,3,13,6,8>>, <<8,7,2,14,10,0,0,10>>,
  <<12,1,2,15,13,11,13,11>> >>

CRC32_INIT == <<0, 0, 0, 0, 0, 0, 0, 0>>

Not8(a) == Tab([k \in 1..8 |-> 15 - a[k]])

\* One half of a byte.
CrcNibble(crc, n) ==
  Xor8(Append(Tail(crc), 0), CrcTable[1 + (crc[1] ^^ n)])

\* The crc of what was summed up so far, followed by the bytes of s.
mz_crc32(crc, s) ==
  Not8(Iterate(LAMBDA c, b : CrcNibble(CrcNibble(c, b % 16), b \div 16), Not8(crc), s))

----------------------------------------------------------------------------
(* The definition: the remainder of the message, its bits taken lowest     *)
(* first, by the polynomial; the register starts as, and ends xored with,  *)
(* all ones.                                                               *)
Poly == {0, 1, 2, 4, 5, 7, 8, 10, 11, 12, 16, 22, 23, 26}

\* The coefficients of the remainder after one more bit: x^31 is shifted out.
Divide(rem, bit) ==
  LET out == ((IF 31 \in rem THEN 1 ELSE 0) + bit) % 2
      up  == {k + 1 : k \in rem \ {31}}
  IN IF out = 0 THEN up ELSE (up \ Poly) \cup (Poly \ up)

CrcOf(s) ==
  LET bits == Concat([i \in DOMAIN s |-> BitsOf(s[i], 8)])
      rem == 0..31 \ Iterate(Divide, 0..31, bits)
      bit(k) == IF k \in rem THEN 1 ELSE 0
  IN [d \in 1..8 |-> bit(35 - 4 * d) + 2 * bit(34 - 4 * d)
                     + 4 * bit(33 - 4 * d) + 8 * bit(32 - 4 * d)]
====
