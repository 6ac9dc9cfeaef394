-------------------------------- MODULE Siv --------------------------------
(***************************************************************************)
(* Serpent-SIV (src/serpent_siv.rs): the synthetic IV, the counter and     *)
(* both directions of the encryption, over ideal primitives.               *)
(*                                                                         *)
(* A byte is a formal sum over GF(2) of the unknowns it depends on: a set  *)
(* of atoms, {} being 0, and xor the symmetric difference.  A block that   *)
(* S2V computes is a formal sum of doubled CMACs: <<n, k, s>> is the CMAC  *)
(* of the bytes s under key k, doubled n times.  CMACs of different        *)
(* inputs, and keystream bytes of different keys, tags, counters or        *)
(* places, are different atoms: that is what an ideal cipher gives.        *)
(*                                                                         *)
(* The counter is counted all the same: Block digits below Radix, the      *)
(* least first.  What number a tag is cannot be told from the atoms; iv    *)
(* is that number.                                                         *)
(***************************************************************************)
EXTENDS Integers, FiniteSets, SequencesExt

CONSTANTS
  Block,    \* bytes in a block (16)
  Radix,    \* values of a byte (256)
  Masked    \* the bytes whose top bit ctr_mask clears (3 and 7, from 0)

ASSUME BlockAssumption == Block \in Nat \ {0}
ASSUME RadixAssumption == Radix \in Nat /\ Radix > 0 /\ Radix % 2 = 0
ASSUME MaskedAssumption == Masked \subseteq 1 .. Block

Xor(a, b) == SymDiff(a, b)

\* The bytes of s, xored with those of t of the same length.
XorEach(s, t) == [i \in DOMAIN s |-> Xor(s[i], t[i])]

-----------------------------------------------------------------------------
(* S2V.                                                                    *)

\* The byte of value v, the byte 0x80 that begins the padding, and all of them.
Byte(v) == IF v = 0 THEN {} ELSE {<<"data", v>>}
Stop == Byte(128)
Octets == 0 .. 255
Bytes == {Byte(v) : v \in Octets}

Zero == [i \in 1 .. Block |-> {}]

\* cmac_serpent.
Cmac(key, s) == {<<0, key, s>>}

\* dbl is linear, and loses nothing.
Dbl(d) == {<<m[1] + 1, m[2], m[3]>> : m \in d}

\* The i-th byte of a block that S2V computed; of the zero block it is 0.
ByteOf(d, i) == IF d = {} THEN {} ELSE {<<"mac", d, i>>}
BytesOf(d) == [i \in 1 .. Block |-> ByteOf(d, i)]

\* pad16, of less than a block.
Pad(s) == [i \in 1 .. Block |-> IF i <= Len(s) THEN s[i]
                                ELSE IF i = Len(s) + 1 THEN Stop ELSE {}]

\* Mutant of XorEnd: what comes before the last block is left out.
XorEndOnly(s, d) ==
  [i \in 1 .. Block |-> Xor(s[Len(s) - Block + i], ByteOf(d, i))]

\* The bytes of d, xored onto the last block of s.
XorEnd(s, d) ==
  LET end == Len(s) - Block
  IN  [i \in DOMAIN s |-> IF i <= end THEN s[i] ELSE Xor(s[i], ByteOf(d, i - end))]

\* The headers; each is added before the doubling.
Headers(key, ads) ==
  FoldLeft(LAMBDA d, ad : Dbl(Xor(d, Cmac(key, ad))), Cmac(key, Zero), ads)

\* Mutant of Short: the sum is not doubled first.
ShortSame(s, d) == XorEach(Pad(s), BytesOf(d))

\* A last element of less than a block.
Short(s, d) == XorEach(Pad(s), BytesOf(Dbl(d)))

S2V(key, ads, s) ==
  LET d == Headers(key, ads)
  IN  BytesOf(Cmac(key, IF Len(s) >= Block THEN XorEnd(s, d) ELSE Short(s, d)))

-----------------------------------------------------------------------------
(* The counter.                                                            *)

Counters == [1 .. Block -> 0 .. Radix - 1]

\* Mutant of Inc: the carry goes no further than one byte.
IncOnce(c) ==
  [i \in 1 .. Block |->
     IF i = 1 THEN (c[1] + 1) % Radix
     ELSE IF i = 2 /\ c[1] = Radix - 1 THEN (c[2] + 1) % Radix ELSE c[i]]

\* inc128: a byte is incremented if all below it overflowed.
Inc(c) ==
  [i \in 1 .. Block |->
     IF \A j \in 1 .. i - 1 : c[j] = Radix - 1 THEN (c[i] + 1) % Radix ELSE c[i]]

\* ctr_mask: the top bit of some bytes is cleared, in the number and in the
\* atoms.  Top is that bit of a byte, flipped.
Top == {<<"top", 0>>}
CtrMask(v) ==
  [i \in 1 .. Block |-> IF i \in Masked THEN v[i] % (Radix \div 2) ELSE v[i]]
CtrMasked(tag) ==
  [i \in 1 .. Block |-> IF i \in Masked THEN tag[i] \ Top ELSE tag[i]]

\* The counter of the block that byte p of the text is in.
CounterAt(iv, p) == FoldLeft(LAMBDA c, n : Inc(c), CtrMask(iv),
                             [n \in 1 .. (p - 1) \div Block |-> n])

\* Both directions of the encryption.
Stream(key, tag, iv, s) ==
  XorEach(s, [p \in DOMAIN s |->
    {<<"key", key, CtrMasked(tag), CounterAt(iv, p), (p - 1) % Block>>}])

-----------------------------------------------------------------------------
(* siv_encrypt and siv_decrypt.                                            *)

SivEncrypt(key, ad, iv, s) ==
  LET tag == S2V(key, <<ad>>, s) IN tag \o Stream(key, tag, iv, s)

Refused == [ok |-> FALSE, text |-> <<>>]

SivDecrypt(key, ad, iv, blob) ==
  IF Len(blob) < Block THEN Refused
  ELSE LET tag == SubSeq(blob, 1, Block)
           s   == Stream(key, tag, iv, SubSeq(blob, Block + 1, Len(blob)))
       IN  IF S2V(key, <<ad>>, s) = tag THEN [ok |-> TRUE, text |-> s] ELSE Refused
=============================================================================
