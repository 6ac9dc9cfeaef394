---------------------------- MODULE LayersProofs ----------------------------
(***************************************************************************)
(* Modules Siv, Filter and Layers, proved for every seal and every damage. *)
(***************************************************************************)
EXTENDS Layers, SequenceTheorems, FiniteSetTheorems, TLAPS

-----------------------------------------------------------------------------
(* Sequences, and the bytes of which they are made.                        *)

\* A function of places is a sequence of its values.
LEMMA SeqOfValues ==
  ASSUME NEW n \in Nat, NEW f, f = [i \in 1 .. n |-> f[i]]
  PROVE  /\ f \in Seq({f[i] : i \in 1 .. n})
         /\ Len(f) = n /\ DOMAIN f = 1 .. n
<1> DEFINE S == {f[i] : i \in 1 .. n}
<1>1. f \in [1 .. n -> S]
  BY Zenon
<1> HIDE DEF S
<1>2. f \in Seq(S)
  BY <1>1, SeqDef
<1>3. Len(f) = n
  BY <1>1, <1>2, LenProperties
<1> QED
  BY <1>1, <1>2, <1>3 DEF S

LEMMA SameEnd == ASSUME NEW m \in Nat, NEW n \in Nat, 1 .. m = 1 .. n PROVE m = n
<1>1. \A i \in Int : i \in 1 .. m <=> i \in 1 .. n
  OBVIOUS
<1>2. (m \in 1 .. m <=> m \in 1 .. n) /\ (n \in 1 .. m <=> n \in 1 .. n)
  BY <1>1
<1> QED
  BY <1>2

LEMMA Single == ASSUME NEW a, NEW b, {a} = {b} PROVE a = b
<1>1. a \in {b}
  BY Zenon
<1> QED
  BY <1>1

\* Two sequences put together come apart again.
LEMMA SplitConcat ==
  ASSUME NEW S, NEW a \in Seq(S), NEW b \in Seq(S), a # <<>>
  PROVE  /\ a \o b \in Seq(S)
         /\ Len(a \o b) = Len(a) + Len(b)
         /\ SubSeq(a \o b, 1, Len(a)) = a
         /\ SubSeq(a \o b, Len(a) + 1, Len(a \o b)) = b
<1>1. a \o b \in Seq(S) /\ Len(a \o b) = Len(a) + Len(b)
  BY ConcatProperties
<1>2. Len(a) \in Nat \ {0} /\ Len(b) \in Nat
  BY EmptySeq, LenProperties
<1>3. SubSeq(a \o b, 1, Len(a)) = a
  <2>1. 1 \in 1 .. Len(a) /\ Len(a) \in 1 .. Len(a)
    BY <1>2
  <2>2. SubSeq(a \o b, 1, Len(a)) = SubSeq(a, 1, Len(a))
    BY <2>1, SubSeqOfConcat1
  <2> QED
    BY <2>2, SubSeqFull
<1>4. SubSeq(a \o b, Len(a) + 1, Len(a) + Len(b)) = b
  <2>1. CASE Len(b) = 0
    <3>1. b = <<>>
      BY <2>1, EmptySeq
    <3>2. Len(a) + Len(b) < Len(a) + 1 /\ Len(a) + 1 \in Int /\ Len(a) + Len(b) \in Int
      BY <1>2, <2>1
    <3> QED
      BY <3>1, <3>2, SubSeqEmpty
  <2>2. CASE Len(b) # 0
    <3> DEFINE m == Len(a) + 1
               n == Len(a) + Len(b)
    <3>1. m \in Len(a) + 1 .. Len(a) + Len(b) /\ n \in Len(a) + 1 .. Len(a) + Len(b)
          /\ m - Len(a) = 1 /\ n - Len(a) = Len(b)
      BY <1>2, <2>2
    <3>2. SubSeq(a \o b, m, n) = SubSeq(b, m - Len(a), n - Len(a))
      <4> HIDE DEF m, n
      <4> QED
        BY <3>1, SubSeqOfConcat2
    <3> QED
      BY <3>1, <3>2, SubSeqFull
  <2> QED
    BY <2>1, <2>2
<1> QED
  BY <1>1, <1>3, <1>4

\* What is xored twice is gone.
LEMMA XorTwice == ASSUME NEW a, NEW b PROVE Xor(Xor(a, b), b) = a
BY DEF Xor, SymDiff

LEMMA XorSame == ASSUME NEW a, NEW b, NEW c, Xor(a, c) = Xor(b, c) PROVE a = b
BY XorTwice

-----------------------------------------------------------------------------
(* Serpent-SIV.                                                            *)

\* A block that S2V made is a sequence of Block bytes.
LEMMA BytesOfSeq ==
  ASSUME NEW d
  PROVE  /\ BytesOf(d) \in Seq({BytesOf(d)[i] : i \in 1 .. Block})
         /\ Len(BytesOf(d)) = Block /\ DOMAIN BytesOf(d) = 1 .. Block
<1>1. BytesOf(d) = [i \in 1 .. Block |-> BytesOf(d)[i]]
  BY DEF BytesOf
<1> QED
  BY <1>1, SeqOfValues, BlockAssumption

LEMMA TagLength ==
  ASSUME NEW key, NEW ads, NEW s PROVE Len(S2V(key, ads, s)) = Block
<1> DEFINE d == Headers(key, ads)
           m == Cmac(key, IF Len(s) >= Block THEN XorEnd(s, d) ELSE Short(s, d))
<1>1. S2V(key, ads, s) = BytesOf(m)
  BY DEF S2V
<1> HIDE DEF m
<1> QED
  BY <1>1, BytesOfSeq

\* The keystream, which depends on the text's length alone.
KeyStream(key, tag, n, p) ==
  {<<"key", key, CtrMasked(tag), CounterAt(n, p), (p - 1) % Block>>}

LEMMA StreamIs ==
  ASSUME NEW key, NEW tag, NEW n, NEW s
  PROVE  /\ Stream(key, tag, n, s)
              = [p \in DOMAIN s |-> Xor(s[p], KeyStream(key, tag, n, p))]
         /\ DOMAIN Stream(key, tag, n, s) = DOMAIN s
<1> HIDE DEF KeyStream
<1>1. Stream(key, tag, n, s) = XorEach(s, [p \in DOMAIN s |-> KeyStream(key, tag, n, p)])
  BY DEF Stream, KeyStream
<1>2. Stream(key, tag, n, s)
              = [p \in DOMAIN s |-> Xor(s[p], KeyStream(key, tag, n, p))]
  BY <1>1 DEF XorEach
<1> QED
  BY <1>2

LEMMA StreamAt ==
  ASSUME NEW key, NEW tag, NEW n, NEW s
  PROVE  /\ DOMAIN Stream(key, tag, n, s) = DOMAIN s
         /\ \A p \in DOMAIN s :
              Stream(key, tag, n, s)[p] = Xor(s[p], KeyStream(key, tag, n, p))
BY StreamIs

\* Both directions of the encryption are the same.
LEMMA StreamTwice ==
  ASSUME NEW key, NEW tag, NEW n, NEW S, NEW s \in Seq(S)
  PROVE  Stream(key, tag, n, Stream(key, tag, n, s)) = s
<1> DEFINE c == Stream(key, tag, n, s)
           ks(p) == KeyStream(key, tag, n, p)
<1>1. c = [p \in DOMAIN s |-> Xor(s[p], ks(p))] /\ DOMAIN c = DOMAIN s
  BY StreamIs
<1>2. Stream(key, tag, n, c) = [p \in DOMAIN c |-> Xor(c[p], ks(p))]
  BY StreamIs
<1>3. \A p \in DOMAIN s : Xor(Xor(s[p], ks(p)), ks(p)) = s[p]
  BY XorTwice
<1> HIDE DEF c, ks
<1>4. Stream(key, tag, n, c) = [p \in DOMAIN s |-> s[p]]
  BY <1>1, <1>2, <1>3
<1>5. s = [p \in DOMAIN s |-> s[p]]
  BY LenProperties
<1> QED
  BY <1>4, <1>5 DEF c

\* A stream is as long as its text.
LEMMA StreamSeq ==
  ASSUME NEW key, NEW tag, NEW n, NEW S, NEW s \in Seq(S)
  PROVE  /\ Stream(key, tag, n, s) \in Seq({Stream(key, tag, n, s)[i] : i \in 1 .. Len(s)})
         /\ Len(Stream(key, tag, n, s)) = Len(s)
<1> DEFINE c == Stream(key, tag, n, s)
<1>1. Len(s) \in Nat /\ DOMAIN s = 1 .. Len(s)
  BY LenProperties
<1>2. c = [p \in DOMAIN s |-> Xor(s[p], KeyStream(key, tag, n, p))]
  BY StreamIs
<1> HIDE DEF c
<1>3. c = [p \in 1 .. Len(s) |-> c[p]]
  BY <1>1, <1>2
<1>4. c \in Seq({c[i] : i \in 1 .. Len(s)}) /\ Len(c) = Len(s)
  BY <1>1, <1>3, SeqOfValues
<1> QED
  BY <1>4 DEF c

\* Two sequences put together, element by element.
LEMMA Joins ==
  ASSUME NEW S, NEW s, NEW t, s \in Seq(S), t \in Seq(S)
  PROVE  /\ s \o t \in Seq(S) /\ Len(s \o t) = Len(s) + Len(t)
         /\ Len(s) \in Nat /\ Len(t) \in Nat
         /\ \A i \in 1 .. Len(s) : (s \o t)[i] = s[i]
         /\ \A i \in 1 .. Len(t) : (s \o t)[Len(s) + i] = t[i]
<1>1. /\ s \o t \in Seq(S)
      /\ Len(s \o t) = Len(s) + Len(t)
      /\ \A i \in 1 .. Len(s) + Len(t) :
           (s \o t)[i] = IF i <= Len(s) THEN s[i] ELSE t[i - Len(s)]
  BY ConcatProperties
<1>2. Len(s) \in Nat /\ Len(t) \in Nat
  BY LenProperties
<1>3. \A i \in 1 .. Len(s) : (s \o t)[i] = s[i]
  BY <1>1, <1>2
<1>4. \A i \in 1 .. Len(t) : (s \o t)[Len(s) + i] = t[i]
  BY <1>1, <1>2
<1> QED
  BY <1>1, <1>2, <1>3, <1>4

\* A tag put before a text, and told from it again.
LEMMA TagThenText ==
  ASSUME NEW T, NEW tag \in Seq(T), NEW c \in Seq(T), Len(tag) = Block
  PROVE  /\ tag \o c \in Seq(T) /\ Len(tag \o c) = Block + Len(c)
         /\ SubSeq(tag \o c, 1, Block) = tag
         /\ SubSeq(tag \o c, Block + 1, Len(tag \o c)) = c
         /\ \A i \in 1 .. Block : (tag \o c)[i] = tag[i]
         /\ \A i \in 1 .. Len(c) : (tag \o c)[Block + i] = c[i]
<1>1. tag # <<>>
  BY EmptySeq, BlockAssumption
<1>2. /\ tag \o c \in Seq(T) /\ Len(tag \o c) = Block + Len(c)
      /\ SubSeq(tag \o c, 1, Block) = tag
      /\ SubSeq(tag \o c, Block + 1, Len(tag \o c)) = c
  BY <1>1, SplitConcat
<1>3. Len(c) \in Nat /\ Block \in Nat
  BY LenProperties, BlockAssumption
<1>4. \A i \in 1 .. Block : (tag \o c)[i] = tag[i]
  BY <1>3, ConcatProperties
<1>5. \A i \in 1 .. Len(c) : (tag \o c)[Block + i] = c[i]
  BY <1>3, ConcatProperties
<1> QED
  BY <1>2, <1>4, <1>5

\* The two parts of what siv_encrypt makes are sequences.
LEMMA SivSeq ==
  ASSUME NEW key, NEW ad, NEW n, NEW S, NEW s \in Seq(S)
  PROVE  /\ Len(S2V(key, <<ad>>, s)) = Block
         /\ Len(Stream(key, S2V(key, <<ad>>, s), n, s)) = Len(s)
         /\ \E T : /\ S2V(key, <<ad>>, s) \in Seq(T)
                  /\ Stream(key, S2V(key, <<ad>>, s), n, s) \in Seq(T)
<1> DEFINE tag == S2V(key, <<ad>>, s)
           c == Stream(key, tag, n, s)
           A == {tag[i] : i \in 1 .. Block}
           C == {c[i] : i \in 1 .. Len(s)}
<1>1. tag \in Seq(A) /\ Len(tag) = Block
  <2>1. PICK d : tag = BytesOf(d)
    BY Zenon DEF S2V
  <2> HIDE DEF tag
  <2> QED
    BY <2>1, BytesOfSeq, Zenon DEF A
<1>2. c \in Seq(C) /\ Len(c) = Len(s)
  <2> HIDE DEF tag
  <2> QED
    BY StreamSeq
<1> HIDE DEF tag, c, A, C
<1>3. tag \in Seq(A \cup C) /\ c \in Seq(A \cup C)
  BY <1>1, <1>2, SeqMonotonic
<1> QED
  BY <1>1, <1>2, <1>3, Zenon DEF tag, c

\* siv_decrypt gives back what siv_encrypt was given.
LEMMA SivRoundTrip ==
  ASSUME NEW key, NEW ad, NEW n, NEW S, NEW s \in Seq(S)
  PROVE  SivDecrypt(key, ad, n, SivEncrypt(key, ad, n, s)) = [ok |-> TRUE, text |-> s]
<1> DEFINE tag == S2V(key, <<ad>>, s)
           c == Stream(key, tag, n, s)
           blob == SivEncrypt(key, ad, n, s)
<1>1. /\ Len(tag) = Block /\ Len(c) = Len(s)
      /\ \E T : tag \in Seq(T) /\ c \in Seq(T)
  <2>1. Len(tag) = Block
    BY TagLength
  <2>2. Len(c) = Len(s)
    BY SivSeq
  <2>3. \E T : tag \in Seq(T) /\ c \in Seq(T)
    BY SivSeq
  <2> QED
    BY <2>1, <2>2, <2>3, Zenon
<1>2. Stream(key, tag, n, c) = s
  <2> HIDE DEF tag
  <2> QED
    BY StreamTwice
<1>3. blob = tag \o c
  BY DEF SivEncrypt
<1> HIDE DEF c, blob, tag
<1>4. PICK T : tag \in Seq(T) /\ c \in Seq(T)
  BY <1>1
<1>5. /\ Len(blob) = Block + Len(s)
      /\ SubSeq(blob, 1, Block) = tag
      /\ SubSeq(blob, Block + 1, Len(blob)) = c
  <2>1. /\ Len(blob) = Block + Len(c)
        /\ SubSeq(blob, 1, Block) = tag
        /\ SubSeq(blob, Block + 1, Len(blob)) = c
    <3>1. tag \in Seq(T) /\ c \in Seq(T) /\ Len(tag) = Block
      BY <1>1, <1>4
    <3>2. /\ Len(tag \o c) = Block + Len(c)
          /\ SubSeq(tag \o c, 1, Block) = tag
          /\ SubSeq(tag \o c, Block + 1, Len(tag \o c)) = c
      BY <3>1, TagThenText
    <3> QED
      BY <1>3, <3>2, Zenon
  <2> QED
    BY <1>1, <2>1, Zenon
<1>6. ~(Len(blob) < Block)
  BY <1>5, LenProperties, BlockAssumption
<1>7. tag = S2V(key, <<ad>>, s) /\ blob = SivEncrypt(key, ad, n, s)
  BY DEF tag, blob
<1> QED
  BY <1>2, <1>5, <1>6, <1>7, Zenon DEF SivDecrypt

\* What each header adds to the block, as a step of a fold.
HeaderStep(key, d, ad) == Dbl(Xor(d, Cmac(key, ad)))
HeaderFold == INSTANCE Induction WITH P <- LAMBDA n : TRUE, Op <- HeaderStep

\* There is one header.
LEMMA HeadersOfOne ==
  ASSUME NEW key, NEW ad
  PROVE  Headers(key, <<ad>>) = Dbl(Xor(Cmac(key, Zero), Cmac(key, ad)))
<1> DEFINE base == Cmac(key, Zero)
           none == <<>>
           one == <<ad>>
           n == 0
           m == 1
<1>1. ASSUME NEW ads PROVE Headers(key, ads) = HeaderFold!Folded(key, base, ads)
  BY DEF Headers, HeaderFold!Folded, HeaderStep, FoldLeft, MapThenFoldSet, Max,
         HeaderFold!FoldLeft, HeaderFold!MapThenFoldSet, HeaderFold!Max
<1>2. HeaderFold!Folded(key, base, none) = base
  BY HeaderFold!FoldNone
<1>3. n \in Nat /\ m = n + 1 /\ DOMAIN none = 1 .. n /\ DOMAIN one = 1 .. m
      /\ \A i \in 1 .. n : one[i] = none[i]
  OBVIOUS
<1>e. one[m] = ad
  OBVIOUS
<1> HIDE DEF base, none, one, n, m
<1>4. HeaderFold!Folded(key, base, one)
        = HeaderStep(key, HeaderFold!Folded(key, base, none), one[m])
  BY <1>3, HeaderFold!FoldLast
<1>5. Headers(key, one) = HeaderStep(key, base, ad)
  BY <1>1, <1>2, <1>e, <1>4, Zenon
<1> QED
  BY <1>5 DEF HeaderStep, base, one

\* Doubled, the sum of the headers is another block, and neither is zero.
LEMMA HeadersApart ==
  ASSUME NEW key, NEW ad, ad # Zero
  PROVE  /\ Headers(key, <<ad>>) # {}
         /\ Dbl(Headers(key, <<ad>>)) # {}
         /\ Dbl(Headers(key, <<ad>>)) # Headers(key, <<ad>>)
<1> DEFINE d == Headers(key, <<ad>>)
           a == <<0, key, Zero>>
<1>1. a \in Xor(Cmac(key, Zero), Cmac(key, ad))
  BY DEF Xor, SymDiff, Cmac
<1>2. \A m \in Xor(Cmac(key, Zero), Cmac(key, ad)) : m[1] = 0
  BY DEF Xor, SymDiff, Cmac
<1>3. d = {<<m[1] + 1, m[2], m[3]>> : m \in Xor(Cmac(key, Zero), Cmac(key, ad))}
  BY HeadersOfOne DEF Dbl
<1> HIDE DEF d
<1>4. <<1, key, Zero>> \in d
  BY <1>1, <1>3
<1>5. \A m \in d : m[1] = 1
  BY <1>2, <1>3
<1>6. <<2, key, Zero>> \in Dbl(d)
  BY <1>4 DEF Dbl
<1>7. <<2, key, Zero>> \notin d
  BY <1>5
<1> QED
  BY <1>4, <1>6, <1>7 DEF d

\* What is given to the last CMAC: s, with the sum of the headers bound to it.
Bound(d, s) == IF Len(s) >= Block THEN XorEnd(s, d) ELSE Short(s, d)

\* No byte of s depends on a CMAC.
MacFree(b) == \A d, n : <<"mac", d, n>> \notin b
NoMac(s) == \A i \in DOMAIN s : MacFree(s[i])

\* A padded text tells how long it was.
LEMMA PadTells ==
  ASSUME NEW S, NEW s \in Seq(S), NEW t \in Seq(S), Len(s) < Len(t), Len(t) < Block
  PROVE  \E i \in 1 .. Block : Pad(s)[i] # Pad(t)[i]
<1> DEFINE i == Len(t) + 1
<1>1. Len(s) \in Nat /\ Len(t) \in Nat
  BY LenProperties
<1>2. i \in 1 .. Block /\ ~(i <= Len(s)) /\ i # Len(s) + 1 /\ ~(i <= Len(t))
  BY <1>1, BlockAssumption
<1>3. Pad(t)[i] = Stop
  BY <1>2 DEF Pad
<1>4. Pad(s)[i] = {}
  BY <1>2 DEF Pad
<1>5. Stop # {}
  <2>1. Stop = {<<"data", 128>>}
    BY SMT DEF Stop, Byte
  <2>2. <<"data", 128>> \in Stop
    BY <2>1
  <2> QED
    BY <2>2
<1> HIDE DEF i
<1> QED
  BY <1>2, <1>3, <1>4, <1>5, Zenon

\* Two texts of less than a block, bound, are equal only if they were.
LEMMA ShortInjective ==
  ASSUME NEW S, NEW s \in Seq(S), NEW t \in Seq(S), NEW d,
         Len(s) < Block, Len(t) < Block, Short(s, d) = Short(t, d)
  PROVE  s = t
<1>1. \A i \in 1 .. Block : Pad(s)[i] = Pad(t)[i]
  <2> SUFFICES ASSUME NEW i \in 1 .. Block PROVE Pad(s)[i] = Pad(t)[i]
    OBVIOUS
  <2>1. DOMAIN Pad(s) = 1 .. Block /\ DOMAIN Pad(t) = 1 .. Block
    BY DEF Pad
  <2>2. /\ Short(s, d)[i] = Xor(Pad(s)[i], BytesOf(Dbl(d))[i])
        /\ Short(t, d)[i] = Xor(Pad(t)[i], BytesOf(Dbl(d))[i])
    BY <2>1 DEF Short, XorEach
  <2> QED
    BY <2>2, XorSame
<1>2. Len(s) \in Nat /\ Len(t) \in Nat
  BY LenProperties
<1>3. Len(s) = Len(t)
  BY <1>1, <1>2, PadTells
<1>4. \A i \in 1 .. Len(s) : s[i] = t[i]
  <2> SUFFICES ASSUME NEW i \in 1 .. Len(s) PROVE s[i] = t[i]
    OBVIOUS
  <2>1. i \in 1 .. Block /\ i <= Len(s) /\ i <= Len(t)
    BY <1>2, <1>3, BlockAssumption
  <2> QED
    BY <1>1, <2>1 DEF Pad
<1> QED
  BY <1>3, <1>4, SeqEqual

\* The sum is added to the end of a sequence and changes no length.
LEMMA XorEndDomain ==
  ASSUME NEW s, NEW d
  PROVE  DOMAIN XorEnd(s, d) = DOMAIN s
BY Zenon DEF XorEnd

\* A short input is padded to a block.
LEMMA ShortDomain ==
  ASSUME NEW t, NEW d
  PROVE  DOMAIN Short(t, d) = 1 .. Block
BY Zenon DEF Short, XorEach, Pad

\* So are two of a block or more.
LEMMA LongInjective ==
  ASSUME NEW S, NEW s \in Seq(S), NEW t \in Seq(S), NEW d, XorEnd(s, d) = XorEnd(t, d)
  PROVE  s = t
<1>1. /\ Len(s) \in Nat /\ DOMAIN s = 1 .. Len(s)
      /\ Len(t) \in Nat /\ DOMAIN t = 1 .. Len(t)
  BY LenProperties
<1>2. DOMAIN XorEnd(s, d) = DOMAIN s /\ DOMAIN XorEnd(t, d) = DOMAIN t
  BY XorEndDomain, Zenon
<1>3. Len(s) = Len(t)
  BY <1>1, <1>2, SameEnd
<1>4. \A i \in 1 .. Len(s) : s[i] = t[i]
  <2> SUFFICES ASSUME NEW i \in 1 .. Len(s) PROVE s[i] = t[i]
    OBVIOUS
  <2> DEFINE end == Len(s) - Block
  <2>1. /\ XorEnd(s, d)[i] = IF i <= end THEN s[i] ELSE Xor(s[i], ByteOf(d, i - end))
        /\ XorEnd(t, d)[i] = IF i <= end THEN t[i] ELSE Xor(t[i], ByteOf(d, i - end))
    BY <1>1, <1>3 DEF XorEnd
  <2> QED
    BY <2>1, XorSame
<1> QED
  BY <1>3, <1>4, SeqEqual

\* And a short one is never taken for a long one: the sum is doubled for it.
LEMMA ShortIsNotLong ==
  ASSUME NEW S, NEW s \in Seq(S), NEW t \in Seq(S), NEW d,
         d # {}, Dbl(d) # {}, Dbl(d) # d, NoMac(s), NoMac(t),
         Len(s) >= Block, Len(t) < Block
  PROVE  XorEnd(s, d) # Short(t, d)
<1> SUFFICES ASSUME XorEnd(s, d) = Short(t, d) PROVE FALSE
  OBVIOUS
<1> DEFINE a == <<"mac", d, 1>>
<1>1. /\ Len(s) \in Nat /\ DOMAIN s = 1 .. Len(s)
      /\ Len(t) \in Nat /\ DOMAIN t = 1 .. Len(t) /\ 1 \in 1 .. Block
  BY LenProperties, BlockAssumption
<1>2. DOMAIN XorEnd(s, d) = 1 .. Len(s) /\ DOMAIN Short(t, d) = 1 .. Block
  <2>1. DOMAIN XorEnd(s, d) = DOMAIN s
    BY XorEndDomain, Zenon
  <2>2. DOMAIN Short(t, d) = 1 .. Block
    BY ShortDomain, Zenon
  <2> QED
    BY <1>1, <2>1, <2>2, Zenon
<1>3. Len(s) = Block
  BY <1>1, <1>2, SameEnd, BlockAssumption
<1>4. XorEnd(s, d)[1] = Xor(s[1], {a})
  BY <1>1, <1>3, BlockAssumption DEF XorEnd, ByteOf
<1>5. Short(t, d)[1] = Xor(Pad(t)[1], {<<"mac", Dbl(d), 1>>})
  BY <1>1, <1>2 DEF Short, XorEach, Pad, BytesOf, ByteOf
<1>6. a \notin s[1]
  BY <1>1, <1>3 DEF NoMac, MacFree
<1>7. a \notin Pad(t)[1]
  <2>1. Pad(t)[1] = IF 1 <= Len(t) THEN t[1] ELSE Stop
    BY <1>1 DEF Pad
  <2>2. 1 <= Len(t) => a \notin t[1]
    BY <1>1 DEF NoMac, MacFree
  <2>3. a \notin Stop
    BY DEF Stop, Byte
  <2> QED
    BY <2>1, <2>2, <2>3
<1>8. a \in Xor(s[1], {a})
  BY <1>6 DEF Xor, SymDiff
<1>9. a \notin Xor(Pad(t)[1], {<<"mac", Dbl(d), 1>>})
  BY <1>7 DEF Xor, SymDiff
<1> QED
  BY <1>4, <1>5, <1>8, <1>9

\* What S2V gives binds the text.
LEMMA S2VBinds ==
  ASSUME NEW key, NEW ad, ad # Zero, NEW S, NEW s \in Seq(S), NEW t \in Seq(S),
         NoMac(s), NoMac(t), S2V(key, <<ad>>, s) = S2V(key, <<ad>>, t)
  PROVE  s = t
<1> DEFINE d == Headers(key, <<ad>>)
<1>1. /\ S2V(key, <<ad>>, s) = BytesOf(Cmac(key, Bound(d, s)))
      /\ S2V(key, <<ad>>, t) = BytesOf(Cmac(key, Bound(d, t)))
  BY DEF S2V, Bound
<1>2. d # {} /\ Dbl(d) # {} /\ Dbl(d) # d
  BY HeadersApart
<1> HIDE DEF d
<1>3. Bound(d, s) = Bound(d, t)
  <2>1. 1 \in 1 .. Block
    BY BlockAssumption
  <2>2. \A x : BytesOf(Cmac(key, x))[1] = {<<"mac", {<<0, key, x>>}, 1>>}
    BY <2>1 DEF BytesOf, ByteOf, Cmac
  <2> DEFINE x == Bound(d, s)
             y == Bound(d, t)
             X == {<<0, key, x>>}
             Y == {<<0, key, y>>}
  <2>3. {<<"mac", X, 1>>} = {<<"mac", Y, 1>>}
    <3>1. BytesOf(Cmac(key, x)) = BytesOf(Cmac(key, y))
      BY <1>1
    <3> HIDE DEF x, y
    <3> QED
      BY <2>2, <3>1
  <2> HIDE DEF X, Y
  <2>4. <<"mac", X, 1>> = <<"mac", Y, 1>>
    BY <2>3, Single
  <2>5. X = Y
    BY <2>4
  <2> USE DEF X, Y
  <2> HIDE DEF x, y
  <2>6. <<0, key, x>> = <<0, key, y>>
    BY <2>5, Single
  <2>7. x = y
    BY <2>6
  <2> QED
    BY <2>7 DEF x, y
<1>4. Len(s) \in Nat /\ Len(t) \in Nat /\ Block \in Nat
  BY LenProperties, BlockAssumption
<1>5. CASE Len(s) >= Block /\ Len(t) >= Block
  BY <1>3, <1>5, LongInjective DEF Bound
<1>6. CASE Len(s) < Block /\ Len(t) < Block
  BY <1>3, <1>4, <1>6, ShortInjective DEF Bound
<1>7. CASE Len(s) >= Block /\ Len(t) < Block
  BY <1>2, <1>3, <1>4, <1>7, ShortIsNotLong DEF Bound
<1>8. CASE Len(s) < Block /\ Len(t) >= Block
  BY <1>2, <1>3, <1>4, <1>8, ShortIsNotLong DEF Bound
<1> QED
  BY <1>4, <1>5, <1>6, <1>7, <1>8

\* The bytes there are.
LEMMA BytesMacFree ==
  /\ \A v : MacFree(Byte(v))
  /\ MacFree(Flip) /\ MacFree(Top) /\ MacFree({})
  /\ \A key, tag, n, p : MacFree(KeyStream(key, tag, n, p))
BY DEF MacFree, Byte, Flip, Top, KeyStream

LEMMA XorMacFree ==
  ASSUME NEW a, NEW b, MacFree(a), MacFree(b) PROVE MacFree(Xor(a, b))
BY DEF MacFree, Xor, SymDiff

\* What siv_decrypt accepts.
LEMMA DecryptNeeds ==
  ASSUME NEW key, NEW ad, NEW n, NEW T, NEW blob \in Seq(T),
         SivDecrypt(key, ad, n, blob).ok
  PROVE  LET tag == SubSeq(blob, 1, Block)
             c   == SubSeq(blob, Block + 1, Len(blob))
         IN  Len(blob) >= Block /\ S2V(key, <<ad>>, Stream(key, tag, n, c)) = tag
<1>1. ~(Len(blob) < Block)
  BY Zenon DEF SivDecrypt, Refused
<1>2. Len(blob) >= Block
  BY <1>1, BlockAssumption, LenProperties
<1>3. ~Refused.ok
  BY DEF Refused
<1> QED
  BY <1>1, <1>2, <1>3, Zenon DEF SivDecrypt

\* What S2V gave is all one knows of a block of it.
LEMMA TagByte ==
  ASSUME NEW key, NEW ads, NEW s, NEW i \in 1 .. Block,
         NEW x \in S2V(key, ads, s)[i]
  PROVE  \E d : x = <<"mac", d, i>>
<1>1. \A y : BytesOf(Cmac(key, y))[i] = {<<"mac", Cmac(key, y), i>>}
  BY DEF BytesOf, ByteOf, Cmac
<1>2. \E y : S2V(key, ads, s)[i] = BytesOf(Cmac(key, y))[i]
  BY Zenon DEF S2V
<1> QED
  BY <1>1, <1>2, Zenon

\* A ciphertext that changed behind a tag that did not is refused.
LEMMA ChangedTextRefused ==
  ASSUME NEW key, NEW ad, ad # Zero, NEW n, NEW S, NEW s \in Seq(S), NoMac(s),
         NEW T, NEW blob \in Seq(T), NEW U, NEW c \in Seq(U),
         SubSeq(blob, 1, Block) = S2V(key, <<ad>>, s),
         SubSeq(blob, Block + 1, Len(blob)) = c,
         c # Stream(key, S2V(key, <<ad>>, s), n, s),
         \A p \in 1 .. Len(c) :
           MacFree(Xor(c[p], KeyStream(key, S2V(key, <<ad>>, s), n, p)))
  PROVE  ~SivDecrypt(key, ad, n, blob).ok
<1> SUFFICES ASSUME SivDecrypt(key, ad, n, blob).ok PROVE FALSE
  OBVIOUS
<1> DEFINE tag == S2V(key, <<ad>>, s)
           t == Stream(key, tag, n, c)
<1>1. S2V(key, <<ad>>, t) = tag
  BY DecryptNeeds
<1>2. /\ DOMAIN t = DOMAIN c
      /\ \A p \in DOMAIN c : t[p] = Xor(c[p], KeyStream(key, tag, n, p))
  <2> HIDE DEF tag
  <2>1. DOMAIN t = DOMAIN c
    BY StreamAt, SMT
  <2>2. \A p \in DOMAIN c : t[p] = Xor(c[p], KeyStream(key, tag, n, p))
    BY StreamAt, Zenon
  <2> QED
    BY <2>1, <2>2
<1>3. DOMAIN c = 1 .. Len(c) /\ Len(c) \in Nat
  BY LenProperties
<1>4. NoMac(t)
  <2> HIDE DEF t
  <2>1. DOMAIN t = 1 .. Len(c) /\ \A p \in DOMAIN t : t[p] = Xor(c[p], KeyStream(key, tag, n, p))
    BY <1>2, <1>3
  <2> QED
    BY <2>1 DEF NoMac
<1>5. Stream(key, tag, n, t) = c
  BY StreamTwice
<1>6. t = s
  <2>1. t \in Seq({t[p] : p \in 1 .. Len(c)})
    <3> HIDE DEF tag
    <3> QED
      BY StreamSeq
  <2> HIDE DEF t
  <2> DEFINE V == S \cup {t[p] : p \in 1 .. Len(c)}
  <2>2. t \in Seq(V)
    BY <2>1, SeqMonotonic
  <2>3. s \in Seq(V)
    BY SeqMonotonic
  <2> HIDE DEF V
  <2> QED
    BY <1>1, <1>4, <2>2, <2>3, S2VBinds DEF tag
<1> QED
  BY <1>5, <1>6
\* A blob as siv_decrypt takes it apart.
LEMMA HeadAndTail ==
  ASSUME NEW T, NEW blob \in Seq(T), Len(blob) >= Block
  PROVE  /\ SubSeq(blob, 1, Block) \in Seq(T) /\ Len(SubSeq(blob, 1, Block)) = Block
         /\ \A i \in 1 .. Block : SubSeq(blob, 1, Block)[i] = blob[i]
         /\ SubSeq(blob, Block + 1, Len(blob)) \in Seq(T)
         /\ Len(SubSeq(blob, Block + 1, Len(blob))) = Len(blob) - Block
         /\ \A p \in 1 .. Len(blob) - Block :
              SubSeq(blob, Block + 1, Len(blob))[p] = blob[Block + p]
<1> DEFINE m == Block + 1
           n == Len(blob)
<1>1. n \in Nat /\ Block \in Nat /\ Block > 0 /\ m \in Nat
  BY LenProperties, BlockAssumption
<1>2. \A i \in 1 .. n : blob[i] \in T
  BY ElementOfSeq
<1>3. /\ SubSeq(blob, 1, Block) \in Seq(T)
      /\ Len(SubSeq(blob, 1, Block)) = IF 1 <= Block THEN Block - 1 + 1 ELSE 0
      /\ \A i \in 1 .. Block - 1 + 1 : SubSeq(blob, 1, Block)[i] = blob[1 + i - 1]
  <2>1. \A i \in 1 .. Block : blob[i] \in T
    BY <1>1, <1>2
  <2> QED
    BY <1>1, <2>1, SubSeqProperties
<1>4. /\ SubSeq(blob, m, n) \in Seq(T)
      /\ Len(SubSeq(blob, m, n)) = IF m <= n THEN n - m + 1 ELSE 0
      /\ \A p \in 1 .. n - m + 1 : SubSeq(blob, m, n)[p] = blob[m + p - 1]
  <2>1. \A i \in m .. n : blob[i] \in T
    BY <1>1, <1>2
  <2> HIDE DEF m, n
  <2> QED
    BY <1>1, <2>1, SubSeqProperties
<1>5. Len(SubSeq(blob, 1, Block)) = Block
      /\ \A i \in 1 .. Block : SubSeq(blob, 1, Block)[i] = blob[i]
  BY <1>1, <1>3
<1>6. Len(SubSeq(blob, m, n)) = n - Block
      /\ \A p \in 1 .. n - Block : SubSeq(blob, m, n)[p] = blob[Block + p]
  BY <1>1, <1>4
<1> QED
  BY <1>3, <1>4, <1>5, <1>6

\* What is sealed, byte by byte.
LEMMA SealedBytes ==
  ASSUME NEW key, NEW ad, NEW n, NEW S, NEW s \in Seq(S), NoMac(s)
  PROVE  /\ \E T : SivEncrypt(key, ad, n, s) \in Seq(T)
         /\ Len(SivEncrypt(key, ad, n, s)) = Block + Len(s)
         /\ \A i \in 1 .. Block :
              SivEncrypt(key, ad, n, s)[i] = S2V(key, <<ad>>, s)[i]
         /\ \A p \in 1 .. Len(s) :
              /\ SivEncrypt(key, ad, n, s)[Block + p]
                    = Stream(key, S2V(key, <<ad>>, s), n, s)[p]
              /\ MacFree(SivEncrypt(key, ad, n, s)[Block + p])
<1> DEFINE tag == S2V(key, <<ad>>, s)
           c == Stream(key, tag, n, s)
<1>1. Len(tag) = Block
  BY TagLength
<1>2. Len(c) = Len(s)
  BY SivSeq
<1>3. \E T : tag \in Seq(T) /\ c \in Seq(T)
  BY SivSeq
<1>4. \A p \in 1 .. Len(s) : MacFree(c[p])
  <2>1. \A p \in DOMAIN s : c[p] = Xor(s[p], KeyStream(key, tag, n, p))
    <3> HIDE DEF tag
    <3> QED
      BY StreamAt, Zenon
  <2>2. DOMAIN s = 1 .. Len(s)
    BY LenProperties
  <2> HIDE DEF c, tag
  <2> QED
    BY <2>1, <2>2, BytesMacFree, XorMacFree DEF NoMac
<1>5. SivEncrypt(key, ad, n, s) = tag \o c
  BY DEF SivEncrypt
<1> HIDE DEF c, tag
<1>6. PICK T : tag \in Seq(T) /\ c \in Seq(T)
  BY <1>3
<1>7. /\ tag \o c \in Seq(T) /\ Len(tag \o c) = Block + Len(s)
      /\ \A i \in 1 .. Block : (tag \o c)[i] = tag[i]
      /\ \A p \in 1 .. Len(s) : (tag \o c)[Block + p] = c[p]
  <2>1. /\ tag \o c \in Seq(T) /\ Len(tag \o c) = Len(tag) + Len(c)
        /\ \A i \in 1 .. Len(tag) : (tag \o c)[i] = tag[i]
        /\ \A i \in 1 .. Len(c) : (tag \o c)[Len(tag) + i] = c[i]
    BY <1>6, Joins
  <2> QED
    BY <2>1, <1>1, <1>2, Zenon
<1> QED
  BY <1>4, <1>5, <1>7, Zenon DEF tag, c

\* What keeps the tag and not the text is refused.
LEMMA ChangedTailRefused ==
  ASSUME NEW key, NEW ad, ad # Zero, NEW n, NEW S, NEW s \in Seq(S), NoMac(s),
         NEW T, NEW other \in Seq(T), Len(other) >= Block,
         \A i \in 1 .. Block : other[i] = S2V(key, <<ad>>, s)[i],
         \A p \in 1 .. Len(other) - Block : MacFree(other[Block + p]),
         \/ Len(other) # Block + Len(s)
         \/ \E p \in 1 .. Len(s) :
              other[Block + p] # Stream(key, S2V(key, <<ad>>, s), n, s)[p]
  PROVE  ~SivDecrypt(key, ad, n, other).ok
<1> DEFINE tag == S2V(key, <<ad>>, s)
           c == SubSeq(other, Block + 1, Len(other))
<1>1. /\ SubSeq(other, 1, Block) \in Seq(T) /\ Len(SubSeq(other, 1, Block)) = Block
      /\ \A i \in 1 .. Block : SubSeq(other, 1, Block)[i] = other[i]
      /\ c \in Seq(T) /\ Len(c) = Len(other) - Block
      /\ \A p \in 1 .. Len(other) - Block : c[p] = other[Block + p]
  BY HeadAndTail, Zenon
<1>2. Len(tag) = Block
  BY TagLength
<1>3. Len(Stream(key, tag, n, s)) = Len(s)
  BY SivSeq
<1>4. PICK V : tag \in Seq(V)
  <2>1. \E V : tag \in Seq(V)
    BY SivSeq
  <2> QED
    BY <2>1
<1>5. /\ Len(other) \in Nat /\ Len(s) \in Nat /\ Block \in Nat
  BY LenProperties, BlockAssumption
<1>6. c # Stream(key, tag, n, s)
  <2> HIDE DEF c, tag
  <2> SUFFICES ASSUME c = Stream(key, tag, n, s) PROVE FALSE
    OBVIOUS
  <2>1. Len(other) - Block = Len(s)
    BY <1>1, <1>3
  <2>2. Len(other) = Block + Len(s)
    BY <1>5, <2>1
  <2>3. \A p \in 1 .. Len(s) : other[Block + p] = Stream(key, tag, n, s)[p]
    BY <1>1, <2>1
  <2> QED
    BY <2>2, <2>3 DEF tag
<1>7. SubSeq(other, 1, Block) = tag
  <2> DEFINE h == SubSeq(other, 1, Block)
             W == T \cup V
  <2>1. h \in Seq(W)
    BY <1>1, SeqMonotonic
  <2>2. tag \in Seq(W)
    <3> HIDE DEF tag
    <3> QED
      BY <1>4, SeqMonotonic
  <2>3. \A i \in 1 .. Block : h[i] = tag[i]
    BY <1>1, Zenon
  <2>4. Len(h) = Block
    BY <1>1, Zenon
  <2> HIDE DEF h, W, tag
  <2>5. h = tag
    BY <1>2, <2>1, <2>2, <2>3, <2>4, SeqEqual
  <2> QED
    BY <2>5 DEF h
<1>8. \A p \in 1 .. Len(c) : MacFree(Xor(c[p], KeyStream(key, tag, n, p)))
  <2>1. \A p \in 1 .. Len(c) : MacFree(c[p])
    <3> HIDE DEF c
    <3> QED
      BY <1>1, Zenon
  <2> HIDE DEF c, tag
  <2> QED
    BY <2>1, BytesMacFree, XorMacFree
<1> HIDE DEF c
<1>9. SubSeq(other, Block + 1, Len(other)) = c
  BY DEF c
<1> QED
  BY <1>1, <1>6, <1>7, <1>8, <1>9, ChangedTextRefused

\* So is a tag of which a byte is no longer a CMAC's.
LEMMA ChangedTagRefused ==
  ASSUME NEW key, NEW ad, NEW n, NEW T, NEW other \in Seq(T),
         NEW i \in 1 .. Block, NEW x \in other[i], \A d, j : x # <<"mac", d, j>>
  PROVE  ~SivDecrypt(key, ad, n, other).ok
<1> SUFFICES ASSUME SivDecrypt(key, ad, n, other).ok PROVE FALSE
  OBVIOUS
<1> DEFINE t == Stream(key, SubSeq(other, 1, Block), n, SubSeq(other, Block + 1, Len(other)))
<1>1. Len(other) >= Block /\ S2V(key, <<ad>>, t) = SubSeq(other, 1, Block)
  BY DecryptNeeds
<1> HIDE DEF t
<1>2. SubSeq(other, 1, Block)[i] = other[i]
  BY <1>1, HeadAndTail
<1>3. x \in S2V(key, <<ad>>, t)[i]
  BY <1>1, <1>2
<1>4. \E d : x = <<"mac", d, i>>
  BY <1>3, TagByte
<1> QED
  BY <1>4

-----------------------------------------------------------------------------
(* What is sealed.                                                         *)

\* The payload, and its text at its end.
LEMMA PayloadIs ==
  ASSUME NEW m \in Metas, NEW t \in Texts
  PROVE  /\ Payload(m, t) \in Seq(Bytes) /\ Len(Payload(m, t)) = 1 + Len(m) + Len(t)
         /\ m \in Seq(Bytes) /\ t \in Seq(Bytes)
         /\ Len(m) \in Octets /\ Len(m) \in Nat /\ Len(m) # 0 /\ Len(t) \in Nat
<1>1. m \in Seq(Bytes) /\ Len(m) \in Octets /\ Len(m) # 0 /\ t \in Seq(Bytes)
  BY MetasAssumption, TextsAssumption
<1>2. Len(m) \in Nat /\ Len(t) \in Nat
  BY <1>1, LenProperties
<1>3. Byte(Len(m)) \in Bytes
  BY <1>1, Zenon DEF Bytes
<1> DEFINE b == Byte(Len(m))
           x == <<b>>
           y == x \o m
           z == y \o t
<1>4. x \in Seq(Bytes) /\ Len(x) = 1
  <2> HIDE DEF b
  <2> QED
    BY <1>3 DEF b
<1> HIDE DEF b, x
<1>5. y \in Seq(Bytes) /\ Len(y) = 1 + Len(m)
  <2>1. x \in Seq(Bytes) /\ m \in Seq(Bytes)
    BY <1>1, <1>4
  <2>2. y \in Seq(Bytes) /\ Len(y) = Len(x) + Len(m)
    BY <2>1, Joins
  <2> QED
    BY <1>4, <2>2
<1> HIDE DEF y
<1>6. z \in Seq(Bytes) /\ Len(z) = 1 + Len(m) + Len(t)
  <2>1. y \in Seq(Bytes) /\ t \in Seq(Bytes)
    BY <1>1, <1>5
  <2>2. z \in Seq(Bytes) /\ Len(z) = Len(y) + Len(t)
    BY <2>1, Joins
  <2> QED
    BY <1>5, <2>2
<1>7. Payload(m, t) = z
  BY DEF Payload, z, y, x, b
<1> QED
  BY <1>1, <1>2, <1>6, <1>7, Zenon

\* Bytes depend on no CMAC.
LEMMA BytesNoMac == ASSUME NEW s \in Seq(Bytes) PROVE NoMac(s)
<1>1. \A b \in Bytes : MacFree(b)
  BY BytesMacFree, Zenon DEF Bytes
<1>2. \A i \in DOMAIN s : s[i] \in Bytes
  BY LenProperties, ElementOfSeq
<1> QED
  BY <1>1, <1>2 DEF NoMac

\* The one header is not the zero block.
LEMMA OpeningNotZero == Opening # Zero
<1>1. Zero[1] = {}
  BY BlockAssumption DEF Zero
<1>2. Opening[1] = {<<"data", 7>>}
  BY DEF Opening, Byte
<1> QED
  BY <1>1, <1>2

\* Two payloads never share a synthetic IV, and so no keystream: neither two
\* on the same side of a block's length nor one on each (s2v, pad16).
LEMMA TagsApart ==
  ASSUME NEW m \in Metas, NEW t \in Texts, NEW mm \in Metas, NEW tt \in Texts,
         Payload(m, t) # Payload(mm, tt)
  PROVE  S2V(SealedDek, <<Opening>>, Payload(m, t))
           # S2V(SealedDek, <<Opening>>, Payload(mm, tt))
<1>1. Payload(m, t) \in Seq(Bytes) /\ Payload(mm, tt) \in Seq(Bytes)
  BY PayloadIs
<1>2. NoMac(Payload(m, t)) /\ NoMac(Payload(mm, tt))
  BY <1>1, BytesNoMac
<1> QED
  BY <1>1, <1>2, OpeningNotZero, S2VBinds

\* Whatever is altered of what was sealed, it is refused.
LEMMA AlteredRefused ==
  ASSUME NEW key, NEW ad, ad # Zero, NEW n, NEW S, NEW s \in Seq(S), NoMac(s),
         NEW blob, blob = SivEncrypt(key, ad, n, s), NEW other \in Altered(blob)
  PROVE  ~SivDecrypt(key, ad, n, other).ok
<1> DEFINE tag == S2V(key, <<ad>>, s)
           c == Stream(key, tag, n, s)
<1>1. /\ Len(blob) = Block + Len(s)
      /\ \A i \in 1 .. Block : blob[i] = tag[i]
      /\ \A p \in 1 .. Len(s) : blob[Block + p] = c[p] /\ MacFree(blob[Block + p])
      /\ \E T : blob \in Seq(T)
  <2> HIDE DEF tag, c
  <2>1. /\ \E T : blob \in Seq(T)
        /\ Len(blob) = Block + Len(s)
        /\ \A i \in 1 .. Block : blob[i] = tag[i]
        /\ \A p \in 1 .. Len(s) : blob[Block + p] = c[p] /\ MacFree(blob[Block + p])
    <3>1. /\ \E T : SivEncrypt(key, ad, n, s) \in Seq(T)
          /\ Len(SivEncrypt(key, ad, n, s)) = Block + Len(s)
          /\ \A i \in 1 .. Block :
               SivEncrypt(key, ad, n, s)[i] = S2V(key, <<ad>>, s)[i]
          /\ \A p \in 1 .. Len(s) :
               /\ SivEncrypt(key, ad, n, s)[Block + p]
                     = Stream(key, S2V(key, <<ad>>, s), n, s)[p]
               /\ MacFree(SivEncrypt(key, ad, n, s)[Block + p])
      BY SealedBytes, Zenon
    <3> QED
      BY <3>1, Zenon DEF tag, c
  <2> QED
    BY <2>1
<1> HIDE DEF c
<1>2. PICK T : blob \in Seq(T)
  BY <1>1
<1>3. Len(s) \in Nat /\ Block \in Nat /\ Block > 0 /\ DOMAIN blob = 1 .. Len(blob)
      /\ Len(blob) = Block + Len(s)
  BY <1>1, <1>2, LenProperties, BlockAssumption
<1>4. ASSUME NEW i \in DOMAIN blob, NEW d \in {Flip, Top},
             other = [blob EXCEPT ![i] = Xor(@, d)]
      PROVE  ~SivDecrypt(key, ad, n, other).ok
  <2> DEFINE b == Xor(blob[i], d)
             W == T \cup {b}
  <2>1. blob \in Seq(W)
    BY <1>2, SeqMonotonic
  <2>2. PICK x \in d : \A e, j : x # <<"mac", e, j>>
    <3>1. <<"flip", 0>> \in Flip /\ <<"top", 0>> \in Top
      BY DEF Flip, Top
    <3> QED
      BY <3>1
  <2> HIDE DEF b, W
  <2>3. /\ other \in Seq(W) /\ Len(other) = Len(blob)
        /\ \A j \in 1 .. Len(blob) : other[j] = IF j = i THEN b ELSE blob[j]
    <3>1. b \in W /\ i \in 1 .. Len(blob) /\ other = [blob EXCEPT ![i] = b]
      BY <1>3, <1>4 DEF W, b
    <3> QED
      BY <2>1, <3>1, ExceptSeq
  <2>4. CASE i \in 1 .. Block
    <3>1. x \notin tag[i]
      <4>1. ASSUME x \in tag[i] PROVE \E e : x = <<"mac", e, i>>
        BY <2>4, <4>1, TagByte
      <4> QED
        BY <2>2, <4>1
    <3>2. x \notin blob[i]
      BY <1>1, <2>4, <3>1, Zenon
    <3>3. x \in b
      BY <2>2, <3>2 DEF b, Xor, SymDiff
    <3>4. x \in other[i]
      BY <1>3, <2>3, <3>3
    <3> QED
      BY <2>2, <2>3, <2>4, <3>4, ChangedTagRefused
  <2>5. CASE i \notin 1 .. Block
    <3> DEFINE p == i - Block
    <3>1. i = Block + p /\ p \in 1 .. Len(s)
      BY <1>3, <2>5
    <3>2. \A j \in 1 .. Block : other[j] = tag[j]
      <4> HIDE DEF tag
      <4>1. \A j \in 1 .. Block : j \in 1 .. Len(blob) /\ j # i
        BY <1>1, <1>3, <2>5
      <4> QED
        BY <1>1, <2>3, <4>1, Zenon
    <3>3. b # blob[i]
      BY <2>2 DEF b, Xor, SymDiff
    <3>4. \A q \in 1 .. Len(other) - Block : MacFree(other[Block + q])
      <4>1. MacFree(b)
        BY <1>1, <3>1, BytesMacFree, XorMacFree, Zenon DEF b
      <4>2. \A q \in 1 .. Len(other) - Block :
              q \in 1 .. Len(s) /\ Block + q \in 1 .. Len(blob)
        BY <1>1, <1>3, <2>3
      <4> QED
        BY <1>1, <2>3, <4>1, <4>2, Zenon
    <3>5. other[Block + p] # c[p]
      <4>1. other[i] = b /\ blob[i] = c[p]
        BY <1>1, <1>3, <2>3, <3>1
      <4> QED
        BY <3>1, <3>3, <4>1
    <3>6. Len(other) >= Block
      BY <1>1, <1>3, <2>3
    <3> HIDE DEF p
    <3> QED
      BY <2>3, <3>1, <3>2, <3>4, <3>5, <3>6, ChangedTailRefused, Zenon DEF c
  <2> QED
    BY <2>4, <2>5
<1>5. ASSUME NEW m \in 0 .. Len(blob) - 1, other = SubSeq(blob, 1, m)
      PROVE  ~SivDecrypt(key, ad, n, other).ok
  <2>1. other \in Seq(T) /\ Len(other) = m /\ \A i \in 1 .. m : other[i] = blob[i]
    <3>1. \A i \in 1 .. m : blob[i] \in T
      BY <1>1, <1>2, <1>3, ElementOfSeq
    <3>2. m \in Nat
      BY <1>1, <1>3
    <3>3. /\ SubSeq(blob, 1, m) \in Seq(T)
          /\ Len(SubSeq(blob, 1, m)) = IF 1 <= m THEN m - 1 + 1 ELSE 0
          /\ \A i \in 1 .. m - 1 + 1 : SubSeq(blob, 1, m)[i] = blob[1 + i - 1]
      BY <3>1, <3>2, SubSeqProperties
    <3> QED
      BY <1>5, <3>2, <3>3
  <2>2. CASE m < Block
    <3>1. ~(Len(other) >= Block)
      BY <1>1, <1>3, <2>1, <2>2
    <3> QED
      BY <2>1, <3>1, DecryptNeeds, Zenon
  <2>3. CASE m >= Block
    <3>1. \A i \in 1 .. Block : other[i] = tag[i]
      <4>1. \A i \in 1 .. Block : i \in 1 .. m
        BY <1>1, <1>3, <2>3
      <4> QED
        BY <1>1, <2>1, <4>1, Zenon
    <3>2. \A q \in 1 .. Len(other) - Block : MacFree(other[Block + q])
      <4>1. \A q \in 1 .. m - Block : q \in 1 .. Len(s) /\ Block + q \in 1 .. m
        BY <1>1, <1>3, <2>3
      <4> QED
        BY <1>1, <2>1, <4>1, Zenon
    <3>3. Len(other) >= Block /\ Len(other) # Block + Len(s)
      BY <1>1, <1>3, <2>1, <2>3
    <3> QED
      BY <2>1, <3>1, <3>2, <3>3, ChangedTailRefused, Zenon
  <2> QED
    BY <1>1, <1>3, <2>2, <2>3
<1>6. ASSUME other = Append(blob, Zero[1])
      PROVE  ~SivDecrypt(key, ad, n, other).ok
  <2> DEFINE W == T \cup {{}}
  <2>1. blob \in Seq(W) /\ {} \in W
    BY <1>2, SeqMonotonic
  <2>2. Zero[1] = {}
    BY BlockAssumption DEF Zero
  <2> HIDE DEF W
  <2>3. /\ other \in Seq(W) /\ Len(other) = Len(blob) + 1
        /\ \A i \in 1 .. Len(blob) : other[i] = blob[i]
        /\ other[Len(blob) + 1] = {}
    BY <1>6, <2>1, <2>2, AppendProperties
  <2>4. \A i \in 1 .. Block : other[i] = tag[i]
    <3>1. \A i \in 1 .. Block : i \in 1 .. Len(blob)
      BY <1>1, <1>3
    <3> QED
      BY <1>1, <2>3, <3>1, Zenon
  <2>5. \A q \in 1 .. Len(other) - Block : MacFree(other[Block + q])
    <3>1. \A q \in 1 .. Len(other) - Block :
            \/ q \in 1 .. Len(s) /\ Block + q \in 1 .. Len(blob)
            \/ Block + q = Len(blob) + 1
      BY <1>3, <2>3
    <3>2. ASSUME NEW q \in 1 .. Len(other) - Block PROVE MacFree(other[Block + q])
      <4>1. CASE q \in 1 .. Len(s) /\ Block + q \in 1 .. Len(blob)
        <5>1. other[Block + q] = blob[Block + q]
          BY <2>3, <4>1, Zenon
        <5>2. MacFree(blob[Block + q])
          BY <1>1, <4>1, Zenon
        <5> QED
          BY <5>1, <5>2, Zenon
      <4>2. CASE Block + q = Len(blob) + 1
        <5>1. other[Block + q] = {}
          BY <2>3, <4>2, Zenon
        <5> QED
          BY <5>1, BytesMacFree, Zenon
      <4> QED
        BY <3>1, <4>1, <4>2, Zenon
    <3> QED
      BY <3>2, Zenon
  <2>6. Len(other) >= Block /\ Len(other) # Block + Len(s)
    BY <1>1, <1>3, <2>3
  <2>7. /\ other \in Seq(W) /\ Len(other) >= Block
        /\ \A i \in 1 .. Block : other[i] = S2V(key, <<ad>>, s)[i]
        /\ \A q \in 1 .. Len(other) - Block : MacFree(other[Block + q])
        /\ Len(other) # Block + Len(s)
    BY <2>3, <2>4, <2>5, <2>6, Zenon DEF tag
  <2> QED
    BY <2>7, ChangedTailRefused, Zenon
<1> QED
  BY <1>4, <1>5, <1>6 DEF Altered

-----------------------------------------------------------------------------
(* Types.                                                                  *)

LEMMA InitTyped == Init => TypeOK
<1> SUFFICES ASSUME Init PROVE TypeOK
  OBVIOUS
<1>1. NoCount \in Counters
  BY RadixAssumption DEF NoCount, Counters
<1>2. iv \in Counters
  BY <1>1 DEF Init
<1>3. bad \subseteq Blobs
  <2>1. \A n, b : b \in kSubset(n, Blobs) => b \subseteq Blobs
    BY DEF kSubset
  <2>2. bad = {} \/ bad \in UNION {kSubset(n, Blobs) : n \in 1 .. MaxBad}
    BY DEF Init
  <2> QED
    BY <2>1, <2>2
<1>4. call \in Nat \X Nat
  <2>1. Native \in Nat \X Nat
    BY SMT DEF Native, AuditArch
  <2>2. {AuditArch, 3} \X Calls \subseteq Nat \X Nat
    <3>1. AuditArch \in Nat /\ 3 \in Nat
      BY SMT DEF AuditArch
    <3> QED
      BY <3>1, CallsAssumption
  <2>3. call = Native \/ call \in {AuditArch, 3} \X Calls
    BY DEF Init
  <2> QED
    BY <2>1, <2>2, <2>3
<1> QED
  BY <1>2, <1>3, <1>4 DEF Init, TypeOK, Places

LEMMA StepTyped == TypeOK /\ [Next]_vars => TypeOK'
<1> SUFFICES ASSUME TypeOK, [Next]_vars PROVE TypeOK'
  OBVIOUS
<1> USE DEF TypeOK, SealKeeps, sealedVars, At, Goto, End, Places
<1>1. CASE SystemCall
  BY <1>1 DEF SystemCall
<1>2. CASE OpenTs
  BY <1>2 DEF OpenTs
<1>3. CASE ComparePlain
  BY <1>3 DEF ComparePlain, Kems
<1>4. ASSUME NEW l \in Kems, NEW p \in Places \ {"shown"}, Recover(l, p) PROVE TypeOK'
  BY <1>4 DEF Recover, Kems
<1>5. CASE RecoverAll
  BY <1>4, <1>5 DEF RecoverAll, Kems
<1>6. CASE ParseVk
  BY <1>6 DEF ParseVk
<1>7. CASE UnwrapDek
  BY <1>7 DEF UnwrapDek
<1>8. CASE Combine
  BY <1>8 DEF Combine
<1>9. CASE VerifySig
  BY <1>9 DEF VerifySig
<1>10. CASE VerifyEd
  BY <1>10 DEF VerifyEd
<1>11. CASE Decrypt
  <2>1. \/ proc' \in {"panicked", "fault"} /\ UNCHANGED at /\ UNCHANGED text
        \/ Goto("shown") /\ \E t : text' = <<t>>
    <3> DEFINE t == Parsed(SivDecrypt(dek, Opening, iv, SivBlob).text)
    <3>1. \/ End("panicked") /\ UNCHANGED text
          \/ End("fault") /\ UNCHANGED text
          \/ Goto("shown") /\ text' = <<t>>
      BY <1>11, Zenon DEF Decrypt
    <3> HIDE DEF t
    <3> QED
      BY <3>1
  <2>2. At("siv") /\ UNCHANGED <<shards, dek>> /\ SealKeeps
    BY <1>11 DEF Decrypt
  <2> QED
    BY <2>1, <2>2
<1>12. CASE UNCHANGED vars
  BY <1>12 DEF vars
<1> QED
  BY <1>1, <1>2, <1>3, <1>5, <1>6, <1>7, <1>8, <1>9, <1>10, <1>11, <1>12 DEF Next

\* The variables of module Layers keep their types.
THEOREM LayersTypes == Spec => []TypeOK
BY InitTyped, StepTyped, PTL DEF Spec

\* Two payloads never share a synthetic IV: TagsDiffer, in every state.
THEOREM TagsDifferHolds == Spec => []TagsDiffer
<1>1. TypeOK => TagsDiffer
  BY TagsApart DEF TypeOK, TagsDiffer
<1> QED
  BY <1>1, LayersTypes, PTL

\* siv_decrypt refuses a blob of siv_encrypt that was altered, be it the tag, a
\* bit of it that the counter does not see, or the length (Altered lists the
\* ways): AlteredSivRefused, in every state.
THEOREM AlteredSivRefusedHolds == Spec => []AlteredSivRefused
<1>1. TypeOK => AlteredSivRefused
  <2> SUFFICES ASSUME TypeOK, NEW other \in Altered(SealedSiv)
               PROVE  ~SivDecrypt(SealedDek, Opening, iv, other).ok
    BY DEF AlteredSivRefused
  <2>1. Payload(meta, content) \in Seq(Bytes)
    BY PayloadIs DEF TypeOK
  <2>2. NoMac(Payload(meta, content))
    BY <2>1, BytesNoMac
  <2>3. SealedSiv = SivEncrypt(SealedDek, Opening, iv, Payload(meta, content))
    BY DEF SealedSiv
  <2> QED
    BY <2>1, <2>2, <2>3, OpeningNotZero, AlteredRefused
<1> QED
  BY <1>1, LayersTypes, PTL

-----------------------------------------------------------------------------
(* The combined secret.                                                    *)

LEMMA InXor == ASSUME NEW a, NEW b, NEW x
               PROVE  x \in Xor(a, b) <=> (x \in a /\ x \notin b) \/ (x \in b /\ x \notin a)
BY DEF Xor, SymDiff

LEMMA XorZero == ASSUME NEW a PROVE Xor(a, {}) = a
BY DEF Xor, SymDiff

\* The build's sum is main's of the shards themselves.
LEMMA SealedDekIs ==
  SealedDek = Xor(Xor(Xor(Xor(Xor(Shard("rsa"), Shard("kyber")), Shard("mceliece")),
                          Shard("frodokem")), Hash("blake3", "vk")), Hash("sm3", "vk"))
BY XorZero, Zenon DEF SealedDek, Xor32

\* Undamaged, the shards add up to what was sealed.
LEMMA CombinedWhole ==
  ASSUME \A l \in Kems : shards[l] = Shard(l), Whole(One("vk"))
  PROVE  Combined = SealedDek
<1>1. /\ shards["rsa"] = Shard("rsa") /\ shards["kyber"] = Shard("kyber")
      /\ shards["mceliece"] = Shard("mceliece") /\ shards["frodokem"] = Shard("frodokem")
  BY DEF Kems
<1>2. Vk = "vk"
  BY DEF Vk
<1> QED
  BY <1>1, <1>2, SealedDekIs, Zenon DEF Combined, Xor6

\* A shard that a damaged ciphertext yielded is the sealed one only if it is
\* FrodoKEM's.
LEMMA YieldsTell ==
  /\ \A l \in Kems : Shard(l) \in Yields(l) => Whole(Ct(l)) \/ l = "frodokem"
  /\ \A l \in Kems : \A s : s \in Yields(l) /\ Whole(Ct(l)) => s = Shard(l)
<1>1. ASSUME NEW l \in Kems, Shard(l) \in Yields(l), ~Whole(Ct(l)), l # "frodokem"
      PROVE  FALSE
  <2>1. Shard(l) = Other(l)
    BY <1>1 DEF Yields
  <2>2. <<"shard", l>> \in Other(l)
    BY <2>1 DEF Shard
  <2>3. <<"shard", l>> = <<"other", l>>
    BY <2>2 DEF Other
  <2> QED
    BY <2>3
<1>2. ASSUME NEW l \in Kems, NEW s, s \in Yields(l), Whole(Ct(l)) PROVE s = Shard(l)
  BY <1>2 DEF Yields
<1> QED
  BY <1>1, <1>2, Zenon

\* And they do not if one is another's: each atom is in one summand only.
LEMMA CombinedBinds ==
  ASSUME \A l \in Kems : shards[l] \in Yields(l), Combined = SealedDek
  PROVE  (\A l \in Kems : shards[l] = Shard(l)) /\ Whole(One("vk"))
<1> DEFINE a == shards["rsa"]
           b == shards["kyber"]
           c == shards["mceliece"]
           d == shards["frodokem"]
           v == Hash("blake3", Vk)
           m == Hash("sm3", Vk)
           In(x, e, f, g, h, i, j) == x \in Xor(Xor(Xor(Xor(Xor(e, f), g), h), i), j)
<1>1. \A l \in Kems : shards[l] \in {Shard(l), Other(l)}
  BY DEF Yields
<1>2. \A x : In(x, a, b, c, d, v, m)
              <=> In(x, Shard("rsa"), Shard("kyber"), Shard("mceliece"), Shard("frodokem"),
                     Hash("blake3", "vk"), Hash("sm3", "vk"))
  <2>1. Combined = Xor(Xor(Xor(Xor(Xor(a, b), c), d), v), m)
    BY Zenon DEF Combined, Xor6
  <2> QED
    BY <2>1, SealedDekIs, Zenon
<1>3. ASSUME NEW x, NEW e, NEW f, NEW g, NEW h, NEW i, NEW j
      PROVE  /\ x \in e /\ x \notin f /\ x \notin g /\ x \notin h /\ x \notin i /\ x \notin j
                 => In(x, e, f, g, h, i, j)
             /\ x \in f /\ x \notin e /\ x \notin g /\ x \notin h /\ x \notin i /\ x \notin j
                 => In(x, e, f, g, h, i, j)
             /\ x \in g /\ x \notin e /\ x \notin f /\ x \notin h /\ x \notin i /\ x \notin j
                 => In(x, e, f, g, h, i, j)
             /\ x \in h /\ x \notin e /\ x \notin f /\ x \notin g /\ x \notin i /\ x \notin j
                 => In(x, e, f, g, h, i, j)
             /\ x \in i /\ x \notin e /\ x \notin f /\ x \notin g /\ x \notin h /\ x \notin j
                 => In(x, e, f, g, h, i, j)
             /\ In(x, e, f, g, h, i, j) => x \in e \cup f \cup g \cup h \cup i \cup j
  BY InXor
<1> HIDE DEF In
<1>4. \A l \in Kems : \A k \in Kems :
        /\ <<"shard", l>> \in Shard(k) <=> k = l
        /\ <<"shard", l>> \notin Hash("blake3", "vk") /\ <<"shard", l>> \notin Hash("sm3", "vk")
        /\ <<"shard", l>> \notin v /\ <<"shard", l>> \notin m
        /\ <<"shard", l>> \in shards[k] => k = l /\ shards[k] = Shard(k)
  BY <1>1 DEF Shard, Other, Hash, Vk
<1>5. ASSUME NEW l \in Kems PROVE shards[l] = Shard(l)
  <2> DEFINE x == <<"shard", l>>
  <2>1. \A k \in Kems : x \in Shard(k) <=> k = l
    BY <1>4
  <2>2. x \notin Hash("blake3", "vk") /\ x \notin Hash("sm3", "vk") /\ x \notin v /\ x \notin m
    BY <1>4
  <2>3. \A k \in Kems : x \in shards[k] => k = l /\ shards[k] = Shard(k)
    BY <1>4
  <2> HIDE DEF x, v, m
  <2>4. In(x, Shard("rsa"), Shard("kyber"), Shard("mceliece"), Shard("frodokem"),
           Hash("blake3", "vk"), Hash("sm3", "vk"))
    BY <1>3, <2>1, <2>2 DEF Kems
  <2>5. x \in a \cup b \cup c \cup d \cup v \cup m
    BY <1>2, <1>3, <2>4
  <2> QED
    BY <2>2, <2>3, <2>5 DEF Kems
<1>6. Whole(One("vk"))
  <2> DEFINE x == <<"blake3", "vk">>
  <2>1. \A k \in Kems : x \notin Shard(k) /\ x \notin shards[k]
    BY <1>1 DEF Shard, Other
  <2>2. x \in Hash("blake3", "vk") /\ x \notin Hash("sm3", "vk") /\ x \notin m
    BY DEF Hash
  <2>3. x \in v => Vk = "vk"
    BY DEF Hash
  <2> HIDE DEF x, v, m
  <2>4. In(x, Shard("rsa"), Shard("kyber"), Shard("mceliece"), Shard("frodokem"),
           Hash("blake3", "vk"), Hash("sm3", "vk"))
    BY <1>3, <2>1, <2>2 DEF Kems
  <2>5. x \in a \cup b \cup c \cup d \cup v \cup m
    BY <1>2, <1>3, <2>4
  <2>6. Vk = "vk"
    BY <2>1, <2>2, <2>3, <2>5 DEF Kems
  <2> QED
    BY <2>6 DEF Vk
<1> QED
  BY <1>5, <1>6

-----------------------------------------------------------------------------
(* The text again.                                                         *)

\* The byte of a value tells it.
LEMMA ByteTells == ASSUME NEW v, NEW w, w # 0, Byte(v) = Byte(w) PROVE v = w
<1>1. Byte(w) = {<<"data", w>>}
  BY Zenon DEF Byte
<1>2. <<"data", w>> \in Byte(v)
  BY <1>1, Zenon
<1>3. Byte(v) = {<<"data", v>>}
  BY <1>2, Zenon DEF Byte
<1>4. <<"data", w>> = <<"data", v>>
  BY <1>2, <1>3, Zenon
<1> QED
  BY <1>4

\* The text is found behind the metadata.
LEMMA ParsedIs ==
  ASSUME NEW m \in Metas, NEW t \in Texts PROVE Parsed(Payload(m, t)) = t
<1> DEFINE b == Byte(Len(m))
           a == <<b>> \o m
           c == Payload(m, t)
           n == CHOOSE n \in Octets : Byte(n) = c[1]
<1>1. /\ m \in Seq(Bytes) /\ t \in Seq(Bytes) /\ Len(m) \in Octets /\ Len(m) \in Nat
      /\ Len(m) # 0 /\ Len(t) \in Nat /\ Len(c) = 1 + Len(m) + Len(t)
  BY PayloadIs, Zenon
<1>2. b \in Bytes
  BY <1>1, Zenon DEF Bytes
<1>4. c = a \o t
  BY DEF Payload
<1> HIDE DEF b
<1>3. a \in Seq(Bytes) /\ Len(a) = 1 + Len(m) /\ a[1] = b
  <2> DEFINE x == <<b>>
  <2>1. x \in Seq(Bytes) /\ Len(x) = 1 /\ x[1] = b
    BY <1>2
  <2>2. a = x \o m
    OBVIOUS
  <2> HIDE DEF x, a
  <2>3. x \in Seq(Bytes) /\ m \in Seq(Bytes)
    BY <1>1, <2>1
  <2>4. /\ x \o m \in Seq(Bytes) /\ Len(x \o m) = Len(x) + Len(m)
        /\ \A i \in 1 .. Len(x) : (x \o m)[i] = x[i]
    BY <2>3, Joins
  <2> QED
    BY <2>1, <2>2, <2>4
<1> HIDE DEF a, c
<1>5. a # <<>>
  BY <1>1, <1>3, EmptySeq
<1>6. SubSeq(c, Len(a) + 1, Len(c)) = t
  BY <1>1, <1>3, <1>4, <1>5, SplitConcat
<1>7. c[1] = b
  <2>1. 1 \in 1 .. Len(a)
    BY <1>1, <1>3
  <2>2. c[1] = a[1]
    BY <1>1, <1>3, <1>4, <2>1, ConcatProperties
  <2> QED
    BY <1>3, <2>2
<1>8. n = Len(m)
  <2>1. ASSUME NEW v, Byte(v) = Byte(Len(m)) PROVE v = Len(m)
    <3> DEFINE l == Len(m)
    <3>0. l # 0 /\ Byte(v) = Byte(l)
      BY <1>1, <2>1
    <3> HIDE DEF l
    <3> QED
      BY <3>0, ByteTells DEF l
  <2> QED
    BY <1>1, <1>7, <2>1, Zenon DEF n, b
<1> HIDE DEF n
<1>9. Len(c) >= 1 + n /\ (1 + n) + 1 = Len(a) + 1 /\ c # <<>>
  <2>1. Len(c) # 0
    BY <1>1
  <2>2. c # <<>>
    BY <2>1
  <2> QED
    BY <1>1, <1>3, <1>8, <2>2
<1>10. Parsed(c) = SubSeq(c, (1 + n) + 1, Len(c))
  BY <1>9, Zenon DEF Parsed, n
<1> QED
  BY <1>6, <1>9, <1>10 DEF c

\* Pages are counted up.
LEMMA UsableHolds == ASSUME NEW len \in Nat PROVE Usable(len) >= len
<1> DEFINE a == len + PageSize - 1
           q == a \div PageSize
<1>1. PageSize \in Nat /\ PageSize > 0 /\ a \in Nat
  BY PageSizeAssumption
<1>2. q \in Int /\ PageSize * q <= a /\ a < PageSize * (q + 1)
  <2> HIDE DEF a
  <2> QED
    BY <1>1, SMT
<1>3. q * PageSize >= len
  <2> HIDE DEF q
  <2> QED
    BY <1>1, <1>2, SMT
<1> QED
  BY <1>1, <1>3 DEF Usable

\* content_buf is as long as any text that was sealed.
LEMMA Fits ==
  ASSUME meta \in Metas, content \in Texts
  PROVE  ~(Len(content) > Usable(PayloadLen))
<1>1. /\ Len(Payload(meta, content)) = 1 + Len(meta) + Len(content)
      /\ Len(meta) \in Nat /\ Len(content) \in Nat
  BY PayloadIs
<1>2. PayloadLen \in Nat /\ PayloadLen >= Len(content)
  BY <1>1, OverheadAssumption, SMT DEF PayloadLen
<1>3. Usable(PayloadLen) >= PayloadLen
  BY <1>2, UsableHolds
<1>4. Usable(PayloadLen) \in Int
  BY <1>2, PageSizeAssumption, SMT DEF Usable
<1> QED
  BY <1>1, <1>2, <1>3, <1>4

\* What was sealed and is whole opens under its key to what it was made from.
LEMMA SealedOpens ==
  ASSUME meta \in Metas, content \in Texts, dek = SealedDek, Whole(One("siv"))
  PROVE  SivDecrypt(dek, Opening, iv, SivBlob)
           = [ok |-> TRUE, text |-> Payload(meta, content)]
<1>1. Payload(meta, content) \in Seq(Bytes)
  BY PayloadIs
<1>2. SivBlob = SivEncrypt(SealedDek, Opening, iv, Payload(meta, content))
  BY Zenon DEF SivBlob, SealedSiv
<1> QED
  BY <1>1, <1>2, SivRoundTrip

-----------------------------------------------------------------------------
(* The system-call filter.                                                *)

\* An instruction, as a step of a fold over a program.
FilterStep(cn, m, ins) == Step(cn[1], cn[2], m, ins)

\* The program's beginning, and with the entries of the first i calls.
Head4 == <<Load(ArchWord), JumpIfEqual(AuditArch, 1, 0), Return(Kill), Load(NrWord)>>
Entries(i) == FlattenSeq([j \in 1 .. i |-> Entry(Blacklist[j])])
ProgTo(i) == Head4 \o Entries(i)
Fresh == [skip |-> 0, acc |-> 0, verdict |-> {}]

Instrs == {Load(ArchWord), JumpIfEqual(AuditArch, 1, 0), Return(Kill), Load(NrWord),
           Return(Allow)}
            \cup {JumpIfEqual(Blacklist[j], 0, 1) : j \in DOMAIN Blacklist}

\* What the machine is after them: the call is barred if it is one of the first
\* i or of another architecture.
BarredBy(arch, nr, i) == arch # AuditArch \/ \E j \in 1 .. i : Blacklist[j] = nr
After(arch, nr, i) ==
  [skip |-> 0, acc |-> IF arch = AuditArch THEN nr ELSE arch,
   verdict |-> IF BarredBy(arch, nr, i) THEN {Kill} ELSE {}]
FF == INSTANCE Induction WITH P <- LAMBDA n : TRUE, Op <- FilterStep

Runs(i) ==
  i <= Len(Blacklist) =>
    /\ Entries(i) \in Seq(Instrs)
    /\ \A arch, nr : FF!Folded(<<arch, nr>>, Fresh, ProgTo(i)) = After(arch, nr, i)
RunsInd == INSTANCE Induction WITH P <- Runs, Op <- FilterStep

LEMMA BlacklistIs == Len(Blacklist) = 22 /\ DOMAIN Blacklist = 1 .. 22
BY SMT DEF Blacklist

LEMMA VerdictFold ==
  ASSUME NEW arch, NEW nr
  PROVE  Verdict(arch, nr) = FF!Folded(<<arch, nr>>, Fresh, Prog).verdict
<1> DEFINE k == <<arch, nr>>
<1>1. Verdict(arch, nr) = FoldLeft(LAMBDA m, ins : Step(k[1], k[2], m, ins), Fresh, Prog).verdict
  BY DEF Verdict, Fresh
<1> HIDE DEF k
<1>2. FoldLeft(LAMBDA m, ins : Step(k[1], k[2], m, ins), Fresh, Prog)
        = FF!Folded(k, Fresh, Prog)
  BY DEF FF!Folded, FilterStep, FoldLeft, MapThenFoldSet, Max,
         FF!FoldLeft, FF!MapThenFoldSet, FF!Max
<1> QED
  BY <1>1, <1>2 DEF k

\* The instructions.
LEMMA Frozen ==
  ASSUME NEW cn, NEW m, NEW ins, m.verdict # {} PROVE FilterStep(cn, m, ins) = m
BY DEF FilterStep, Step

LEMMA Skipped ==
  ASSUME NEW cn, NEW a, NEW ins
  PROVE  FilterStep(cn, [skip |-> 1, acc |-> a, verdict |-> {}], ins)
           = [skip |-> 0, acc |-> a, verdict |-> {}]
BY DEF FilterStep, Step

LEMMA Loaded ==
  ASSUME NEW cn, NEW a, NEW word
  PROVE  FilterStep(cn, [skip |-> 0, acc |-> a, verdict |-> {}], Load(word))
           = [skip |-> 0, acc |-> IF word = ArchWord THEN cn[1] ELSE cn[2], verdict |-> {}]
BY DEF FilterStep, Step, Load

LEMMA Jumped ==
  ASSUME NEW cn, NEW a, NEW k, NEW jt, NEW jf
  PROVE  FilterStep(cn, [skip |-> 0, acc |-> a, verdict |-> {}], JumpIfEqual(k, jt, jf))
           = [skip |-> IF a = k THEN jt ELSE jf, acc |-> a, verdict |-> {}]
BY DEF FilterStep, Step, JumpIfEqual

LEMMA Returned ==
  ASSUME NEW cn, NEW a, NEW v
  PROVE  FilterStep(cn, [skip |-> 0, acc |-> a, verdict |-> {}], Return(v))
           = [skip |-> 0, acc |-> a, verdict |-> {v}]
BY DEF FilterStep, Step, Return

\* One instruction more.
LEMMA FoldOne ==
  ASSUME NEW cn, NEW s \in Seq(Instrs), NEW ins \in Instrs
  PROVE  /\ s \o <<ins>> \in Seq(Instrs)
         /\ FF!Folded(cn, Fresh, s \o <<ins>>) = FilterStep(cn, FF!Folded(cn, Fresh, s), ins)
<1>1. <<ins>> \in Seq(Instrs)
  OBVIOUS
<1>2. s \o <<ins>> \in Seq(Instrs)
  BY <1>1, ConcatProperties
<1> QED
  BY <1>2, FF!FoldAppend

LEMMA FoldTo ==
  ASSUME NEW cn, NEW s, NEW t, NEW n \in Nat, NEW m, m = n + 1,
         DOMAIN s = 1 .. n, DOMAIN t = 1 .. m, \A i \in 1 .. n : t[i] = s[i]
  PROVE  FF!Folded(cn, Fresh, t) = FilterStep(cn, FF!Folded(cn, Fresh, s), t[m])
BY FF!FoldLast

\* The first four.
LEMMA HeadRuns ==
  ASSUME NEW arch, NEW nr
  PROVE  FF!Folded(<<arch, nr>>, Fresh, Head4) = After(arch, nr, 0)
<1> DEFINE cn == <<arch, nr>>
           a == Load(ArchWord)
           b == JumpIfEqual(AuditArch, 1, 0)
           c == Return(Kill)
           d == Load(NrWord)
           s0 == <<>>
           s1 == <<a>>
           s2 == <<a, b>>
           s3 == <<a, b, c>>
           s4 == <<a, b, c, d>>
           M(s) == FF!Folded(cn, Fresh, s)
<1>0. cn[1] = arch /\ cn[2] = nr
  OBVIOUS
<1>2. Head4 = s4
  BY DEF Head4
<1>3. M(s0) = [skip |-> 0, acc |-> 0, verdict |-> {}]
  BY FF!FoldNone DEF Fresh
<1> HIDE DEF M
<1>4. /\ M(s1) = FilterStep(cn, M(s0), a) /\ M(s2) = FilterStep(cn, M(s1), b)
      /\ M(s3) = FilterStep(cn, M(s2), c) /\ M(s4) = FilterStep(cn, M(s3), d)
  <2> HIDE DEF cn, a, b, c, d
  <2>4. M(s1) = FilterStep(cn, M(s0), a)
    <3> DEFINE n == 0
               m == 1
    <3>1. /\ DOMAIN s0 = 1 .. n /\ DOMAIN s1 = 1 .. m /\ \A i \in 1 .. n : s1[i] = s0[i]
          /\ n \in Nat /\ m = n + 1 /\ s1[m] = a
      OBVIOUS
    <3> HIDE DEF s0, s1, n, m
    <3> QED
      BY <3>1, FoldTo DEF M
  <2>5. M(s2) = FilterStep(cn, M(s1), b)
    <3> DEFINE n == 1
               m == 2
    <3>1. /\ DOMAIN s1 = 1 .. n /\ DOMAIN s2 = 1 .. m /\ \A i \in 1 .. n : s2[i] = s1[i]
          /\ n \in Nat /\ m = n + 1 /\ s2[m] = b
      OBVIOUS
    <3> HIDE DEF s1, s2, n, m
    <3> QED
      BY <3>1, FoldTo DEF M
  <2>6. M(s3) = FilterStep(cn, M(s2), c)
    <3> DEFINE n == 2
               m == 3
    <3>1. /\ DOMAIN s2 = 1 .. n /\ DOMAIN s3 = 1 .. m /\ \A i \in 1 .. n : s3[i] = s2[i]
          /\ n \in Nat /\ m = n + 1 /\ s3[m] = c
      OBVIOUS
    <3> HIDE DEF s2, s3, n, m
    <3> QED
      BY <3>1, FoldTo DEF M
  <2>7. M(s4) = FilterStep(cn, M(s3), d)
    <3> DEFINE n == 3
               m == 4
    <3>1. /\ DOMAIN s3 = 1 .. n /\ DOMAIN s4 = 1 .. m /\ \A i \in 1 .. n : s4[i] = s3[i]
          /\ n \in Nat /\ m = n + 1 /\ s4[m] = d
      OBVIOUS
    <3> HIDE DEF s3, s4, n, m
    <3> QED
      BY <3>1, FoldTo DEF M
  <2> QED
    BY <2>4, <2>5, <2>6, <2>7
<1> HIDE DEF s0, s1, s2, s3, s4, cn
<1>5. M(s1) = [skip |-> 0, acc |-> arch, verdict |-> {}]
  BY <1>0, <1>3, <1>4, Loaded DEF ArchWord
<1>6. M(s2) = [skip |-> IF arch = AuditArch THEN 1 ELSE 0, acc |-> arch, verdict |-> {}]
  BY <1>4, <1>5, Jumped
<1>7. CASE arch = AuditArch
  <2>1. M(s3) = [skip |-> 0, acc |-> arch, verdict |-> {}]
    BY <1>4, <1>6, <1>7, Skipped
  <2>2. M(s4) = [skip |-> 0, acc |-> nr, verdict |-> {}]
    <3>1. NrWord # ArchWord
      BY SMT DEF NrWord, ArchWord
    <3> QED
      BY <1>0, <1>4, <2>1, <3>1, Loaded
  <2>3. ~BarredBy(arch, nr, 0)
    BY <1>7 DEF BarredBy
  <2> QED
    BY <1>2, <1>4, <1>7, <2>2, <2>3 DEF After, M, cn
<1>8. CASE arch # AuditArch
  <2>0. M(s2) = [skip |-> 0, acc |-> arch, verdict |-> {}]
    BY <1>6, <1>8
  <2>1. M(s3) = [skip |-> 0, acc |-> arch, verdict |-> {Kill}]
    <3>1. FilterStep(cn, [skip |-> 0, acc |-> arch, verdict |-> {}], Return(Kill))
            = [skip |-> 0, acc |-> arch, verdict |-> {Kill}]
      BY Returned
    <3> QED
      BY <1>4, <2>0, <3>1, Zenon
  <2>2. M(s4) = M(s3)
    <3>1. M(s3).verdict # {}
      BY <2>1
    <3> QED
      BY <1>4, <3>1, Frozen
  <2>3. BarredBy(arch, nr, 0)
    BY <1>8 DEF BarredBy
  <2> QED
    BY <1>2, <1>4, <1>8, <2>1, <2>2, <2>3 DEF After, M, cn
<1> QED
  BY <1>7, <1>8

\* One entry more.
LEMMA EntriesMore ==
  ASSUME NEW i \in Nat, NEW m, m = i + 1
  PROVE  /\ Entries(0) = <<>>
         /\ Entries(m) = IF i = 0 THEN Entry(Blacklist[m])
                         ELSE Entries(i) \o Entry(Blacklist[m])
<1> DEFINE S(n) == [j \in 1 .. n |-> Entry(Blacklist[j])]
<1>0. \A s : FF!FlattenSeq(s) = FlattenSeq(s)
  BY DEF FlattenSeq, FF!FlattenSeq
<1>1. ASSUME NEW n \in Nat PROVE Len(S(n)) = n /\ \A j \in 1 .. n : S(n)[j] = Entry(Blacklist[j])
  <2>1. S(n) = [j \in 1 .. n |-> S(n)[j]]
    OBVIOUS
  <2>2. \A j \in 1 .. n : S(n)[j] = Entry(Blacklist[j])
    OBVIOUS
  <2> HIDE DEF S
  <2> QED
    BY <2>1, <2>2, SeqOfValues
<1>2. \A n : Entries(n) = FlattenSeq(S(n))
  BY DEF Entries
<1>3. Entries(0) = <<>>
  <2>1. S(0) = <<>>
    OBVIOUS
  <2> HIDE DEF S
  <2> QED
    BY <1>0, <1>2, <2>1, FF!FlattenNone
<1> HIDE DEF S
<1>4. m \in Nat /\ m \in 1 .. m
  OBVIOUS
<1>5. S(m)[m] = Entry(Blacklist[m])
  BY <1>1, <1>4
<1>6. CASE i = 0
  <2>0. m = 1
    BY <1>6
  <2>1. Len(S(m)) = 1
    BY <1>1, <1>4, <2>0
  <2> QED
    <3>1. FF!FlattenSeq(S(m)) = S(m)[1]
      BY <2>1, FF!FlattenOne
    <3> QED
      BY <1>0, <1>2, <1>3, <1>5, <1>6, <2>0, <3>1
<1>7. CASE i # 0
  <2> DEFINE x == S(i)
             y == S(m)
  <2>1. /\ Len(x) \in Nat \ {0} /\ Len(y) = Len(x) + 1 /\ Len(y) = m
        /\ \A j \in 1 .. Len(x) : x[j] = y[j]
    BY <1>1, <1>4, <1>7
  <2> HIDE DEF x, y
  <2>2. FF!FlattenSeq(y) = FF!FlattenSeq(x) \o y[Len(y)]
    BY <2>1, FF!FlattenLast
  <2>3. FF!FlattenSeq(S(m)) = FF!FlattenSeq(S(i)) \o S(m)[m]
    BY <2>1, <2>2, Zenon DEF x, y
  <2> QED
    BY <1>0, <1>2, <1>3, <1>5, <1>7, <2>3
<1> QED
  BY <1>6, <1>7

LEMMA Pair == ASSUME NEW S, NEW a \in S, NEW b \in S PROVE <<a, b>> = <<a>> \o <<b>>
<1>1. <<a>> \in Seq(S) /\ <<b>> \in Seq(S) /\ Len(<<a>>) = 1 /\ Len(<<b>>) = 1
      /\ <<a>>[1] = a /\ <<b>>[1] = b
  OBVIOUS
<1> DEFINE x == <<a>>
           y == <<b>>
           z == <<a, b>>
<1>2. z \in Seq(S) /\ Len(z) = 2 /\ z[1] = a /\ z[2] = b
  OBVIOUS
<1>3. x \in Seq(S) /\ y \in Seq(S) /\ Len(x) = 1 /\ Len(y) = 1 /\ x[1] = a /\ y[1] = b
  BY <1>1
<1> HIDE DEF x, y, z
<1>4. x \o y \in Seq(S) /\ Len(x \o y) = 2 /\ (x \o y)[1] = a /\ (x \o y)[2] = b
  <2>1. /\ x \o y \in Seq(S) /\ Len(x \o y) = Len(x) + Len(y)
        /\ \A i \in 1 .. Len(x) : (x \o y)[i] = x[i]
        /\ \A i \in 1 .. Len(y) : (x \o y)[Len(x) + i] = y[i]
    <3>1. x \in Seq(S) /\ y \in Seq(S)
      BY <1>3
    <3> QED
      BY <3>1, Joins
  <2> QED
    BY <1>3, <2>1
<1>5. \A i \in 1 .. Len(z) : z[i] = (x \o y)[i]
  BY <1>2, <1>4
<1>6. z = x \o y
  BY <1>2, <1>4, <1>5, SeqEqual
<1> QED
  BY <1>6 DEF x, y, z

LEMMA HeadSeq == Head4 \in Seq(Instrs)
<1> DEFINE a == Load(ArchWord)
           b == JumpIfEqual(AuditArch, 1, 0)
           c == Return(Kill)
           d == Load(NrWord)
<1>1. a \in Instrs /\ b \in Instrs /\ c \in Instrs /\ d \in Instrs
  BY DEF Instrs
<1>2. Head4 = <<a, b, c, d>>
  BY DEF Head4
<1> HIDE DEF a, b, c, d
<1> QED
  BY <1>1, <1>2

\* Two instructions more.
LEMMA EntryRuns ==
  ASSUME NEW i \in Nat, NEW m, m = i + 1, m <= Len(Blacklist), Runs(i)
  PROVE  Runs(m)
<1> DEFINE e == Blacklist[m]
           j == JumpIfEqual(e, 0, 1)
           r == Return(Kill)
           p == ProgTo(i)
<1>1. m \in 1 .. Len(Blacklist) /\ i <= Len(Blacklist) /\ m \in Nat
  BY BlacklistIs
<1>2. j \in Instrs /\ r \in Instrs
  BY <1>1, BlacklistIs DEF Instrs
<1>3. Entries(i) \in Seq(Instrs)
      /\ \A arch, nr : FF!Folded(<<arch, nr>>, Fresh, p) = After(arch, nr, i)
  BY <1>1 DEF Runs
<1>4. Entry(e) = <<j>> \o <<r>>
  <2>1. Entry(e) = <<j, r>>
    BY DEF Entry
  <2> HIDE DEF j, r
  <2> QED
    BY <1>2, <2>1, Pair
<1> HIDE DEF j, r, e
<1>5. <<j>> \in Seq(Instrs) /\ <<r>> \in Seq(Instrs)
  BY <1>2
<1>6. Entries(m) = Entries(i) \o Entry(e)
  <2>1. CASE i = 0
    <3>1. Entries(i) = <<>> /\ Entries(m) = Entry(e)
      BY <2>1, EntriesMore DEF e
    <3>2. Entry(e) \in Seq(Instrs)
      BY <1>4, <1>5, ConcatProperties
    <3> QED
      BY <3>1, <3>2, ConcatEmptySeq
  <2>2. CASE i # 0
    BY <2>2, EntriesMore DEF e
  <2> QED
    BY <2>1, <2>2
<1>7. Entries(m) \in Seq(Instrs) /\ p \in Seq(Instrs)
      /\ ProgTo(m) = (p \o <<j>>) \o <<r>>
  <2> DEFINE n == Entries(i)
  <2>1. n \in Seq(Instrs) /\ <<j>> \o <<r>> \in Seq(Instrs)
    BY <1>3, <1>5, ConcatProperties
  <2>2. Entries(m) = n \o (<<j>> \o <<r>>)
    BY <1>4, <1>6
  <2>3. p = Head4 \o n /\ ProgTo(m) = Head4 \o Entries(m)
    BY DEF ProgTo
  <2> HIDE DEF n, p
  <2>4. p \in Seq(Instrs) /\ Entries(m) \in Seq(Instrs)
    BY <2>1, <2>2, <2>3, HeadSeq, ConcatProperties
  <2>5. Head4 \o (n \o (<<j>> \o <<r>>)) = (Head4 \o n) \o (<<j>> \o <<r>>)
    <3> DEFINE h == Head4
               y == <<j>> \o <<r>>
               S == Instrs
    <3>1. h \in Seq(S) /\ n \in Seq(S) /\ y \in Seq(S)
      BY <2>1, HeadSeq
    <3> HIDE DEF h, y, S
    <3>2. (h \o n) \o y = h \o (n \o y)
      BY <3>1
    <3> QED
      BY <3>2 DEF h, y
  <2>6. p \o (<<j>> \o <<r>>) = (p \o <<j>>) \o <<r>>
    <3> DEFINE x == <<j>>
               y == <<r>>
               S == Instrs
    <3>1. p \in Seq(S) /\ x \in Seq(S) /\ y \in Seq(S)
      BY <1>5, <2>4
    <3> HIDE DEF x, y, S
    <3>2. (p \o x) \o y = p \o (x \o y)
      BY <3>1
    <3> QED
      BY <3>2 DEF x, y
  <2> QED
    BY <2>2, <2>3, <2>4, <2>5, <2>6, Zenon
<1> HIDE DEF p
<1>8. ASSUME NEW arch, NEW nr
      PROVE  FF!Folded(<<arch, nr>>, Fresh, ProgTo(m)) = After(arch, nr, m)
  <2> DEFINE cn == <<arch, nr>>
             M(s) == FF!Folded(cn, Fresh, s)
             one == p \o <<j>>
             two == one \o <<r>>
  <2>1. M(one) = FilterStep(cn, M(p), j) /\ one \in Seq(Instrs)
    <3> HIDE DEF cn
    <3> QED
      BY <1>2, <1>7, FoldOne
  <2>2. M(two) = FilterStep(cn, M(one), r)
    <3> HIDE DEF cn, one
    <3> QED
      BY <1>2, <2>1, FoldOne
  <2>3. M(p) = After(arch, nr, i)
    BY <1>3
  <2> HIDE DEF M, one, two
  <2>4. BarredBy(arch, nr, m) <=> BarredBy(arch, nr, i) \/ e = nr
    <3>1. \A k \in 1 .. m : k \in 1 .. i \/ k = m
      BY <1>1
    <3>2. \A k \in 1 .. i : k \in 1 .. m
      BY <1>1
    <3>3. m \in 1 .. m
      BY <1>1
    <3> QED
      BY <3>1, <3>2, <3>3, Zenon DEF BarredBy, e
  <2>5. CASE BarredBy(arch, nr, i)
    <3>1. M(p).verdict # {}
      BY <2>3, <2>5 DEF After
    <3>2. M(two) = M(p)
      BY <2>1, <2>2, <3>1, Frozen
    <3>3. After(arch, nr, m) = After(arch, nr, i)
      BY <2>4, <2>5, Zenon DEF After
    <3> QED
      BY <1>7, <2>3, <3>2, <3>3, Zenon DEF M, one, two
  <2>6. CASE ~BarredBy(arch, nr, i)
    <3>1. arch = AuditArch
      BY <2>6 DEF BarredBy
    <3>2. M(p) = [skip |-> 0, acc |-> nr, verdict |-> {}]
      BY <2>3, <2>6, <3>1 DEF After
    <3>3. M(one) = [skip |-> IF nr = e THEN 0 ELSE 1, acc |-> nr, verdict |-> {}]
      BY <2>1, <3>2, Jumped DEF j
    <3>4. CASE nr = e
      <4>1. M(one) = [skip |-> 0, acc |-> nr, verdict |-> {}]
        BY <3>3, <3>4
      <4>2. FilterStep(cn, [skip |-> 0, acc |-> nr, verdict |-> {}], Return(Kill))
              = [skip |-> 0, acc |-> nr, verdict |-> {Kill}]
        BY Returned
      <4>3. M(two) = [skip |-> 0, acc |-> nr, verdict |-> {Kill}]
        BY <2>2, <4>1, <4>2, Zenon DEF r
      <4>4. After(arch, nr, m) = [skip |-> 0, acc |-> nr, verdict |-> {Kill}]
        BY <2>4, <3>1, <3>4, Zenon DEF After
      <4> QED
        BY <1>7, <4>3, <4>4, Zenon DEF M, one, two
    <3>5. CASE nr # e
      <4>1. M(one) = [skip |-> 1, acc |-> nr, verdict |-> {}]
        BY <3>3, <3>5
      <4>2. M(two) = [skip |-> 0, acc |-> nr, verdict |-> {}]
        BY <2>2, <4>1, Skipped
      <4>3. After(arch, nr, m) = [skip |-> 0, acc |-> nr, verdict |-> {}]
        BY <2>4, <2>6, <3>1, <3>5, Zenon DEF After
      <4> QED
        BY <1>7, <4>2, <4>3, Zenon DEF M, one, two
    <3> QED
      BY <3>4, <3>5
  <2> QED
    BY <2>5, <2>6
<1> QED
  BY <1>7, <1>8 DEF Runs

\* What the filter says of a call: it lets it pass if it is of this machine's
\* architecture and not on the list, and kills the process for any other.
LEMMA FilterSays ==
  ASSUME NEW arch, NEW nr
  PROVE  Verdict(arch, nr) = IF BarredBy(arch, nr, Len(Blacklist)) THEN {Kill} ELSE {Allow}
<1> DEFINE n == Len(Blacklist)
           M(s) == FF!Folded(<<arch, nr>>, Fresh, s)
<1>1. Runs(0)
  <2>1. Entries(0) = <<>> /\ ProgTo(0) = Head4
    <3>1. Entries(0) = <<>>
      BY EntriesMore
    <3> QED
      BY <3>1, HeadSeq, ConcatEmptySeq DEF ProgTo
  <2>2. Entries(0) \in Seq(Instrs)
    BY <2>1, EmptySeq
  <2> QED
    BY <2>1, <2>2, HeadRuns, Zenon DEF Runs
<1>2. ASSUME NEW i \in Nat, Runs(i) PROVE Runs(i + 1)
  <2> DEFINE m == i + 1
  <2>1. m = i + 1
    OBVIOUS
  <2> HIDE DEF m
  <2>2. m <= Len(Blacklist) => Runs(m)
    BY <1>2, <2>1, EntryRuns
  <2> QED
    BY <2>1, <2>2 DEF Runs
<1>3. \A i \in Nat : Runs(i)
  <2>1. \A i \in Nat : Runs(i) => Runs(i + 1)
    BY <1>2
  <2> QED
    BY <1>1, <2>1, RunsInd!NatInduct, Zenon
<1>4. n \in Nat /\ n <= n
  BY BlacklistIs
<1>5. Entries(n) \in Seq(Instrs) /\ M(ProgTo(n)) = After(arch, nr, n)
  BY <1>3, <1>4 DEF Runs
<1>6. Prog = ProgTo(n) \o <<Return(Allow)>>
  <2>1. DOMAIN Blacklist = 1 .. n
    BY BlacklistIs
  <2> QED
    BY <2>1, Zenon DEF Prog, ProgTo, Entries, Head4
<1>7. ProgTo(n) \in Seq(Instrs) /\ Return(Allow) \in Instrs
  <2>1. ProgTo(n) \in Seq(Instrs)
    BY <1>5, HeadSeq, ConcatProperties DEF ProgTo
  <2> QED
    BY <2>1 DEF Instrs
<1>8. M(Prog) = FilterStep(<<arch, nr>>, M(ProgTo(n)), Return(Allow))
  <2> DEFINE cn == <<arch, nr>>
  <2> HIDE DEF cn, n
  <2>1. FF!Folded(cn, Fresh, ProgTo(n) \o <<Return(Allow)>>)
          = FilterStep(cn, FF!Folded(cn, Fresh, ProgTo(n)), Return(Allow))
    BY <1>7, FoldOne
  <2> QED
    BY <1>6, <2>1, Zenon DEF cn
<1> HIDE DEF M, n
<1>9. CASE BarredBy(arch, nr, n)
  <2>1. M(ProgTo(n)).verdict = {Kill}
    BY <1>5, <1>9 DEF After
  <2>2. M(Prog) = M(ProgTo(n))
    BY <1>8, <2>1, Frozen
  <2> QED
    BY <1>9, <2>1, <2>2, VerdictFold DEF M, n
<1>10. CASE ~BarredBy(arch, nr, n)
  <2>1. M(ProgTo(n)) = [skip |-> 0, acc |-> nr, verdict |-> {}]
    BY <1>5, <1>10 DEF After, BarredBy
  <2>2. M(Prog) = [skip |-> 0, acc |-> nr, verdict |-> {Allow}]
    <3>1. FilterStep(<<arch, nr>>, [skip |-> 0, acc |-> nr, verdict |-> {}], Return(Allow))
            = [skip |-> 0, acc |-> nr, verdict |-> {Allow}]
      BY Returned
    <3> QED
      BY <1>8, <2>1, <3>1, Zenon
  <2>3. M(Prog).verdict = {Allow}
    BY <2>2
  <2> QED
    BY <1>10, <2>3, VerdictFold DEF M, n
<1> QED
  BY <1>9, <1>10

-----------------------------------------------------------------------------
(* What is known at each place.                                            *)

\* The places before a layer's shard is recovered, and up to it.
UpTo(l) == {"filtered", "ts", "ts_plain", "rsa"}
             \cup (CASE l = "rsa" -> {} [] l = "kyber" -> {"kyber"}
                     [] l = "mceliece" -> {"kyber", "mceliece"}
                     [] l = "frodokem" -> {"kyber", "mceliece", "frodokem"})

\* What has been checked so far was whole, and yielded what it holds.
Checked ==
  /\ at \notin {"filtered", "ts"} => Whole(One("km")) /\ Whole(One("ts"))
  /\ at \notin {"filtered", "ts", "ts_plain"} => Whole(One("ts_plain"))
  /\ \A l \in Kems :
       at \notin UpTo(l) => Whole(SkWrap(l)) /\ shards[l] \in Yields(l)
  /\ at \in {"combine", "sig", "ed_sig", "siv", "shown"} => Whole(One("dek_wrap"))

\* What DEK_WRAP held, and then that the shards add up to it.
DekKnown ==
  /\ at = "combine" /\ proc = "running" => dek = SealedDek
  /\ at \in {"sig", "ed_sig", "siv", "shown"} => dek = SealedDek /\ Combined = SealedDek

\* What the two signatures bind, and what they let through.
SignedKnown ==
  /\ at \in {"ed_sig", "siv", "shown"} =>
       Whole(One("siv")) /\ Whole(One("vk")) /\ Whole(One("sig"))
  /\ at \in {"siv", "shown"} => Whole(One("ed_vk")) /\ Whole(One("ed_sig"))
  /\ at = "shown" => text = <<content>>

\* No run ends for no reason.
EndsFor ==
  /\ proc \in {"died", "panicked"} => ~(bad \subseteq {One("payload")})
  /\ proc # "fault"
  /\ proc = "barred" => Verdict(call[1], call[2]) # {Allow}
  /\ at # "filtered" => Verdict(call[1], call[2]) = {Allow}

LayInv == TypeOK /\ Checked /\ DekKnown /\ SignedKnown /\ EndsFor

LEMMA LayInit == Init => LayInv
<1> SUFFICES ASSUME Init PROVE LayInv
  OBVIOUS
<1>1. TypeOK
  BY InitTyped
<1>2. Checked /\ DekKnown /\ SignedKnown /\ EndsFor
  BY DEF Init, Checked, UpTo, DekKnown, SignedKnown, EndsFor
<1> QED
  BY <1>1, <1>2 DEF LayInv

\* A key is derived as the build derived it.
LEMMA KeysAgree ==
  ASSUME Whole(One("km")), NEW l, NEW b PROVE Unwraps(l, b) <=> Whole(b)
<1>1. K1 = "k1"
  BY DEF K1
<1>2. WrappingKeys = BuildWrappingKeys("k1")
  BY <1>1 DEF WrappingKeys, BuildWrappingKeys, Labels, BuildLabels
<1> QED
  BY <1>2, Zenon DEF Unwraps

\* The blobs that matter are not the one that does not.
LEMMA NotPayload ==
  /\ \A n : n # "payload" => One(n) # One("payload")
  /\ \A l \in Kems : SkWrap(l) # One("payload") /\ Ct(l) # One("payload")
BY DEF One, SkWrap, Ct, Kems

LEMMA LayStep == LayInv /\ [Next]_vars => LayInv'
<1> SUFFICES ASSUME LayInv, [Next]_vars PROVE LayInv'
  OBVIOUS
<1>1. TypeOK'
  BY StepTyped DEF LayInv
<1>2. TypeOK /\ Checked /\ DekKnown /\ SignedKnown /\ EndsFor
  BY DEF LayInv
<1>3. ASSUME SealKeeps PROVE /\ \A b : Whole(b)' <=> Whole(b)
                             /\ \A l \in Kems : Yields(l)' = Yields(l)
                             /\ UNCHANGED shards => Combined' = Combined
                             /\ UNCHANGED <<call, content, bad>>
  BY <1>3 DEF SealKeeps, sealedVars, Whole, Yields, Combined, Vk
<1> USE DEF At, Goto, End
<1> HIDE DEF SealKeeps
<1>4. CASE SystemCall
  <2>1. /\ at = "filtered" /\ proc = "running" /\ UNCHANGED <<shards, dek, text>>
        /\ SealKeeps
        /\ \/ Verdict(call[1], call[2]) = {Allow} /\ at' = "ts" /\ UNCHANGED proc
           \/ Verdict(call[1], call[2]) # {Allow} /\ proc' = "barred" /\ UNCHANGED at
    BY <1>4 DEF SystemCall
  <2>2. Checked' /\ DekKnown' /\ SignedKnown' /\ EndsFor'
    BY <1>2, <1>3, <2>1 DEF Checked, UpTo, DekKnown, SignedKnown, EndsFor, Kems
  <2> QED
    BY <1>1, <2>2 DEF LayInv
<1>5. CASE OpenTs
  <2>1. /\ at = "ts" /\ proc = "running" /\ UNCHANGED <<shards, dek, text>> /\ SealKeeps
        /\ \/ Whole(One("km")) /\ Whole(One("ts")) /\ at' = "ts_plain" /\ UNCHANGED proc
           \/ ~(Whole(One("km")) /\ Whole(One("ts"))) /\ proc' = "died" /\ UNCHANGED at
    BY <1>5 DEF OpenTs, K1
  <2>2. Checked' /\ DekKnown' /\ SignedKnown' /\ EndsFor'
    BY <1>2, <1>3, <2>1, NotPayload
       DEF Checked, UpTo, DekKnown, SignedKnown, EndsFor, Kems, Whole
  <2> QED
    BY <1>1, <2>2 DEF LayInv
<1>6. CASE ComparePlain
  <2>1. /\ at = "ts_plain" /\ proc = "running" /\ UNCHANGED <<shards, dek, text>>
        /\ SealKeeps
        /\ \/ Whole(One("ts_plain")) /\ at' = "rsa" /\ UNCHANGED proc
           \/ ~Whole(One("ts_plain")) /\ proc' = "died" /\ UNCHANGED at
    BY <1>6 DEF ComparePlain
  <2>2. Checked' /\ DekKnown' /\ SignedKnown' /\ EndsFor'
    BY <1>2, <1>3, <2>1, NotPayload
       DEF Checked, UpTo, DekKnown, SignedKnown, EndsFor, Kems, Whole
  <2> QED
    BY <1>1, <2>2 DEF LayInv
<1>7. ASSUME NEW l \in Kems, NEW p, Recover(l, p),
             <<l, p>> \in {<<"rsa", "kyber">>, <<"kyber", "mceliece">>,
                          <<"mceliece", "frodokem">>, <<"frodokem", "vk">>}
      PROVE  LayInv'
  <2>1. Whole(One("km")) /\ at = l
    BY <1>2, <1>7 DEF Checked, Recover, Kems
  <2>2. /\ at = l /\ proc = "running" /\ UNCHANGED <<dek, text>> /\ SealKeeps
        /\ \/ ~Whole(SkWrap(l)) /\ proc' = "died" /\ UNCHANGED <<at, shards>>
           \/ /\ Whole(SkWrap(l)) /\ at' = p /\ UNCHANGED proc
              /\ \E y \in Yields(l) : shards' = [shards EXCEPT ![l] = y]
           \/ ~Whole(Ct(l)) /\ proc' = "panicked" /\ UNCHANGED <<at, shards>>
    BY <1>7, <2>1, KeysAgree DEF Recover, Rejects
  <2>3. EndsFor'
    BY <1>2, <1>3, <1>7, <2>2, NotPayload DEF EndsFor, Whole, Kems
  <2>4. DekKnown' /\ SignedKnown'
    BY <1>3, <1>7, <2>2 DEF DekKnown, SignedKnown, Kems
  <2>5. Checked'
    <3>1. CASE UNCHANGED <<at, shards>>
      BY <1>2, <1>3, <2>2, <3>1 DEF Checked, UpTo
    <3>2. CASE /\ Whole(SkWrap(l)) /\ at' = p
               /\ \E y \in Yields(l) : shards' = [shards EXCEPT ![l] = y]
      <4>1. shards'[l] \in Yields(l) /\ \A k \in Kems : k # l => shards'[k] = shards[k]
        BY <1>2, <3>2 DEF TypeOK
      <4>2. at' \notin {"filtered", "ts", "ts_plain", "combine", "sig", "ed_sig", "siv",
                        "shown"}
            /\ at \notin {"filtered", "ts", "ts_plain"}
        BY <1>7, <2>2, <3>2 DEF Kems
      <4>3. \A k \in Kems : at' \notin UpTo(k) => k = l \/ at \notin UpTo(k)
        BY <1>7, <2>2, <3>2 DEF Kems, UpTo
      <4> QED
        BY <1>2, <1>3, <2>2, <3>2, <4>1, <4>2, <4>3 DEF Checked
    <3> QED
      BY <2>2, <3>1, <3>2
  <2> QED
    BY <1>1, <2>3, <2>4, <2>5 DEF LayInv
<1>8. CASE RecoverAll
  BY <1>7, <1>8 DEF RecoverAll, Kems
<1>9. CASE ParseVk
  <2>1. /\ at = "vk" /\ proc = "running" /\ UNCHANGED <<shards, dek, text>> /\ SealKeeps
        /\ \/ at' = "dek" /\ UNCHANGED proc
           \/ ~Whole(One("vk")) /\ proc' = "panicked" /\ UNCHANGED at
    BY <1>9 DEF ParseVk
  <2>2. Checked' /\ DekKnown' /\ SignedKnown' /\ EndsFor'
    BY <1>2, <1>3, <2>1, NotPayload
       DEF Checked, UpTo, DekKnown, SignedKnown, EndsFor, Kems, Whole
  <2> QED
    BY <1>1, <2>2 DEF LayInv
<1>10. CASE UnwrapDek
  <2>1. Whole(One("km"))
    BY <1>2, <1>10 DEF Checked, UnwrapDek
  <2>2. /\ at = "dek" /\ proc = "running" /\ UNCHANGED <<shards, text>> /\ SealKeeps
        /\ \/ /\ Whole(One("dek_wrap")) /\ dek' = SealedDek
              /\ at' = "combine" /\ UNCHANGED proc
           \/ ~Whole(One("dek_wrap")) /\ proc' = "died" /\ UNCHANGED <<at, dek>>
    BY <1>10, <2>1, KeysAgree DEF UnwrapDek
  <2>3. Checked' /\ DekKnown' /\ SignedKnown' /\ EndsFor'
    BY <1>2, <1>3, <2>2, NotPayload
       DEF Checked, UpTo, DekKnown, SignedKnown, EndsFor, Kems, Whole
  <2> QED
    BY <1>1, <2>3 DEF LayInv
<1>11. CASE Combine
  <2>1. /\ at = "combine" /\ proc = "running" /\ UNCHANGED <<shards, text>> /\ SealKeeps
        /\ dek' = Combined /\ dek = SealedDek
        /\ \/ Combined = SealedDek /\ at' = "sig" /\ UNCHANGED proc
           \/ Combined # SealedDek /\ proc' = "died" /\ UNCHANGED at
    BY <1>2, <1>11 DEF Combine, DekKnown
  <2>2. Combined # SealedDek => ~(bad \subseteq {One("payload")})
    <3> SUFFICES ASSUME bad \subseteq {One("payload")} PROVE Combined = SealedDek
      OBVIOUS
    <3>1. Whole(One("vk")) /\ \A l \in Kems : Whole(Ct(l))
      BY NotPayload DEF Whole
    <3>2. \A l \in Kems : shards[l] = Shard(l)
      BY <1>2, <2>1, <3>1, YieldsTell DEF Checked, UpTo, Kems
    <3> QED
      BY <3>1, <3>2, CombinedWhole
  <2>3. Checked' /\ DekKnown' /\ SignedKnown'
    BY <1>2, <1>3, <2>1 DEF Checked, UpTo, DekKnown, SignedKnown, Kems
  <2>4. EndsFor'
    BY <1>2, <1>3, <2>1, <2>2 DEF EndsFor
  <2> QED
    BY <1>1, <2>3, <2>4 DEF LayInv
<1>12. CASE VerifySig
  <2>1. /\ at = "sig" /\ proc = "running" /\ UNCHANGED <<shards, dek, text>> /\ SealKeeps
        /\ \/ /\ Whole(One("siv")) /\ Whole(One("vk")) /\ Whole(One("sig"))
              /\ at' = "ed_sig" /\ UNCHANGED proc
           \/ /\ ~(Whole(One("siv")) /\ Whole(One("vk")) /\ Whole(One("sig")))
              /\ proc' = "died" /\ UNCHANGED at
    BY <1>2, <1>12 DEF VerifySig, Signed, DekKnown
  <2>2. Checked' /\ DekKnown' /\ SignedKnown'
    BY <1>2, <1>3, <2>1 DEF Checked, UpTo, DekKnown, SignedKnown, Kems
  <2>3. EndsFor'
    BY <1>2, <1>3, <2>1, NotPayload DEF EndsFor, Whole
  <2> QED
    BY <1>1, <2>2, <2>3 DEF LayInv
<1>13. CASE VerifyEd
  <2>1. /\ at = "ed_sig" /\ proc = "running" /\ UNCHANGED <<shards, dek, text>>
        /\ SealKeeps
        /\ \/ /\ Whole(One("ed_vk")) /\ Whole(One("ed_sig"))
              /\ at' = "siv" /\ UNCHANGED proc
           \/ /\ ~(Whole(One("ed_vk")) /\ Whole(One("ed_sig")))
              /\ proc' \in {"died", "panicked"} /\ UNCHANGED at
    BY <1>2, <1>13 DEF VerifyEd, Signed, DekKnown, SignedKnown
  <2>2. Checked' /\ DekKnown' /\ SignedKnown'
    BY <1>2, <1>3, <2>1 DEF Checked, UpTo, DekKnown, SignedKnown, Kems
  <2>3. EndsFor'
    BY <1>2, <1>3, <2>1, NotPayload DEF EndsFor, Whole
  <2> QED
    BY <1>1, <2>2, <2>3 DEF LayInv
<1>14. CASE Decrypt
  <2> DEFINE d == SivDecrypt(dek, Opening, iv, SivBlob)
  <2>1. at = "siv" /\ proc = "running" /\ UNCHANGED <<shards, dek>> /\ SealKeeps
    BY <1>14, Zenon DEF Decrypt
  <2>2. meta \in Metas /\ content \in Texts /\ dek = SealedDek /\ Whole(One("siv"))
    BY <1>2, <2>1 DEF TypeOK, DekKnown, SignedKnown
  <2>3. d.ok = TRUE /\ d.text = Payload(meta, content)
    <3>1. d = [ok |-> TRUE, text |-> Payload(meta, content)]
      BY <2>2, SealedOpens
    <3> HIDE DEF d
    <3> QED
      BY <3>1
  <2>4. Parsed(d.text) = content
    BY <2>2, <2>3, ParsedIs, Zenon
  <2>5. at' = "shown" /\ UNCHANGED proc /\ text' = <<content>>
    BY <1>14, <2>2, <2>3, <2>4, Fits, Zenon DEF Decrypt
  <2>6. Checked' /\ DekKnown' /\ SignedKnown'
    BY <1>2, <1>3, <2>1, <2>5 DEF Checked, UpTo, DekKnown, SignedKnown, Kems
  <2>7. EndsFor'
    BY <1>2, <1>3, <2>1, <2>5 DEF EndsFor
  <2> QED
    BY <1>1, <2>6, <2>7 DEF LayInv
<1>15. CASE UNCHANGED vars
  BY <1>1, <1>2, <1>15
     DEF LayInv, vars, sealedVars, Checked, DekKnown, SignedKnown, EndsFor, Whole, Yields,
         Combined, Vk
<1> QED
  BY <1>4, <1>5, <1>6, <1>8, <1>9, <1>10, <1>11, <1>12, <1>13, <1>14, <1>15 DEF Next

\* What is known at each place of main(), in every run.
LEMMA LayAlways == Spec => []LayInv
BY LayInit, LayStep, PTL DEF Spec

-----------------------------------------------------------------------------
(* The properties.                                                         *)

\* What build.rs sealed opens, and to the same text: SealOpens, for every
\* metadata, text and counter.
THEOREM SealOpensHolds == Spec => []SealOpens
<1>1. LayInv => SealOpens
  <2> SUFFICES ASSUME LayInv, bad \subseteq {One("payload")}
               PROVE  /\ proc \in {"running", "barred"}
                      /\ at = "shown" => text = <<content>>
    BY DEF SealOpens
  <2> QED
    BY DEF LayInv, TypeOK, EndsFor, SignedKnown
<1> QED
  BY <1>1, LayAlways, PTL

\* Past the comparison every shard is the sealed one, and nothing behind them
\* is damaged but what FrodoKEM's decoding makes good: ShardsBind, for every set
\* of damaged blobs (xor6 and ct_eq in main).
THEOREM ShardsBindHolds == Spec => []ShardsBind
<1>1. LayInv => ShardsBind
  <2> SUFFICES ASSUME LayInv, at \in {"sig", "ed_sig", "siv", "shown"}
               PROVE  /\ dek = SealedDek
                      /\ \A l \in Kems : shards[l] = Shard(l)
                      /\ bad \cap ({SkWrap(l) : l \in Kems}
                                      \cup {Ct(l) : l \in Kems \ {"frodokem"}}
                                      \cup {One("vk"), One("dek_wrap")}) = {}
    BY DEF ShardsBind
  <2>1. dek = SealedDek /\ Combined = SealedDek
    BY DEF LayInv, DekKnown
  <2>2. \A l \in Kems : Whole(SkWrap(l)) /\ shards[l] \in Yields(l)
    BY DEF LayInv, Checked, UpTo, Kems
  <2>3. (\A l \in Kems : shards[l] = Shard(l)) /\ Whole(One("vk"))
    BY <2>1, <2>2, CombinedBinds
  <2>4. \A l \in Kems \ {"frodokem"} : Whole(Ct(l))
    BY <2>2, <2>3, YieldsTell
  <2>5. Whole(One("dek_wrap"))
    BY DEF LayInv, Checked
  <2> QED
    BY <2>1, <2>2, <2>3, <2>4, <2>5 DEF Whole
<1> QED
  BY <1>1, LayAlways, PTL

\* content_buf holds the text, for every length and size of page: TextFits.
THEOREM TextFitsHolds == Spec => []TextFits
<1>1. LayInv => TextFits
  BY DEF LayInv, EndsFor, TextFits
<1> QED
  BY <1>1, LayAlways, PTL

\* The program the filter was built from lets a call pass if and only if it is
\* of this machine and not on the list: a run gets beyond the filter by such a
\* call only, and is stopped there by any other.
THEOREM BarredAsListedHolds == Spec => []BarredAsListed
<1>1. LayInv => BarredAsListed
  <2> SUFFICES ASSUME LayInv PROVE BarredAsListed
    OBVIOUS
  <2> DEFINE barred == BarredBy(call[1], call[2], Len(Blacklist))
  <2>1. barred <=> call[1] # AuditArch \/ \E i \in DOMAIN Blacklist : Blacklist[i] = call[2]
    <3>1. DOMAIN Blacklist = 1 .. Len(Blacklist)
      BY BlacklistIs
    <3> QED
      BY <3>1, Zenon DEF BarredBy
  <2>2. Verdict(call[1], call[2]) = IF barred THEN {Kill} ELSE {Allow}
    BY FilterSays, Zenon
  <2>3. {Kill} # {Allow}
    <3>1. Kill # Allow
      BY DEF Kill, Allow
    <3> HIDE DEF Kill, Allow
    <3> QED
      BY <3>1, Single
  <2>4. /\ proc = "barred" => Verdict(call[1], call[2]) # {Allow}
        /\ at # "filtered" => Verdict(call[1], call[2]) = {Allow}
    BY DEF LayInv, EndsFor
  <2> HIDE DEF barred
  <2>5. proc = "barred" => barred
    BY <2>2, <2>4
  <2>6. at # "filtered" => ~barred
    BY <2>2, <2>3, <2>4
  <2> QED
    BY <2>1, <2>5, <2>6, Zenon DEF BarredAsListed
<1> QED
  BY <1>1, LayAlways, PTL

-----------------------------------------------------------------------------
(* Keeper's gate and its Unseal.                                           *)

\* The state of module Keeper that a state of this one is.
AsProc == CASE proc \in {"running", "barred"} -> "running"
            [] proc = "died" -> "killed" [] OTHER -> proc
AsCause == IF proc # "died" THEN "none"
           ELSE IF at \in {"ts", "ts_plain"} THEN "gate" ELSE "layer"
AsKey == [val |-> IF Whole(One("km")) THEN "secret" ELSE "wrong", prot |-> "ro"]
AsMain == CASE at \in {"filtered", "ts", "ts_plain"} -> "gate"
            [] at = "shown" -> "show" [] OTHER -> "layers"
AsBad == IF ~Whole(One("km")) THEN "kmLow"
         ELSE IF bad \cap {One("ts"), One("ts_plain")} # {} THEN "ts"
         ELSE IF bad \cap Layer # {} THEN "layer"
         ELSE IF Ct("frodokem") \in bad THEN "frodoCt" ELSE "none"
AsContent == IF text = <<>> THEN "none" ELSE "text"

LEMMA AsStutter ==
  ASSUME AsProc' = AsProc, AsCause' = AsCause, AsKey' = AsKey, AsMain' = AsMain,
         AsBad' = AsBad, AsContent' = AsContent
  PROVE  UNCHANGED K!vars
BY DEF AsProc, AsCause, AsKey, AsMain, AsBad, AsContent,
       K!vars, K!watchVars, K!mainVars

LEMMA AsPassGate ==
  ASSUME AsKey' = AsKey, AsBad' = AsBad, AsContent' = AsContent, AsMain = "gate",
         IF AsKey.val \notin {"secret", "half"} \/ AsBad = "ts"
           THEN AsProc' = "killed" /\ AsCause' = "gate" /\ AsMain' = AsMain
           ELSE AsMain' = "layers" /\ AsProc' = AsProc /\ AsCause' = AsCause
  PROVE  K!PassGate
BY DEF AsProc, AsCause, AsKey, AsMain, AsBad, AsContent, K!PassGate, K!Die, K!SelfDestruct,
       K!Goto, K!Refuse, K!Beaten, K!Untouched, K!petVars

LEMMA AsUnseal ==
  ASSUME AsKey' = AsKey, AsBad' = AsBad, AsMain = "layers",
         \/ /\ AsBad \in {"layer", "frodoCt"}
            /\ \/ AsProc' = "killed" /\ AsCause' = "layer"
               \/ AsProc' = "panicked" /\ AsCause' = AsCause
            /\ AsMain' = AsMain /\ AsContent' = AsContent
         \/ /\ AsBad # "layer"
            /\ AsMain' = "show" /\ AsProc' = AsProc /\ AsCause' = AsCause
            /\ AsContent' = "text"
  PROVE  K!Unseal
BY DEF AsProc, AsCause, AsKey, AsMain, AsBad, AsContent, K!Unseal, K!Die, K!SelfDestruct,
       K!Goto, K!Exit, K!Beaten, K!Untouched, K!petVars

\* A step from a layer on: to the next, to an end, or to the text.
LEMMA FromALayer ==
  ASSUME LayInv, LayInv', Next, at \notin {"filtered", "ts", "ts_plain"}
  PROVE  /\ proc = "running" /\ at # "shown" /\ SealKeeps
         /\ at' \notin {"filtered", "ts", "ts_plain"}
         /\ \/ proc' = "running" /\ at' # "shown" /\ text' = text
            \/ proc' \in {"died", "panicked"} /\ at' = at /\ text' = text
            \/ proc' = "running" /\ at' = "shown"
<1> USE DEF At, Goto, End, Kems
<1>1. CASE RecoverAll
  <2>1. ASSUME NEW l \in Kems, NEW p \in {"kyber", "mceliece", "frodokem", "vk"},
               Recover(l, p)
        PROVE  /\ proc = "running" /\ at = l /\ SealKeeps /\ text' = text
               /\ \/ proc' = "running" /\ at' = p
                  \/ proc' \in {"died", "panicked"} /\ at' = at
    BY <2>1 DEF Recover
  <2> QED
    BY <1>1, <2>1 DEF RecoverAll
<1>2. CASE ParseVk
  BY <1>2 DEF ParseVk
<1>3. CASE UnwrapDek
  BY <1>3 DEF UnwrapDek
<1>4. CASE Combine
  BY <1>4 DEF Combine
<1>5. CASE VerifySig
  BY <1>5 DEF VerifySig
<1>6. CASE VerifyEd
  BY <1>6 DEF VerifyEd
<1>7. CASE Decrypt
  <2>1. /\ at = "siv" /\ proc = "running" /\ SealKeeps
        /\ \/ proc' = "panicked" /\ at' = at /\ text' = text
           \/ proc' = "fault"
           \/ proc' = "running" /\ at' = "shown"
    BY <1>7, Zenon DEF Decrypt
  <2>2. proc' # "fault"
    BY DEF LayInv, EndsFor
  <2> QED
    BY <2>1, <2>2
<1> QED
  BY <1>1, <1>2, <1>3, <1>4, <1>5, <1>6, <1>7 DEF Next, SystemCall, OpenTs, ComparePlain

\* Before the layers and behind them, in the words of module Keeper.
AsInv ==
  at \notin {"filtered", "ts", "ts_plain"} =>
    /\ proc \in {"died", "panicked"} => AsBad \in {"layer", "frodoCt"}
    /\ at = "shown" => AsBad # "layer"

LEMMA AsWhole == LayInv => AsInv
<1> SUFFICES ASSUME LayInv, at \notin {"filtered", "ts", "ts_plain"}
             PROVE  /\ proc \in {"died", "panicked"} => AsBad \in {"layer", "frodoCt"}
                    /\ at = "shown" => AsBad # "layer"
  BY DEF AsInv
<1>1. Whole(One("km")) /\ Whole(One("ts")) /\ Whole(One("ts_plain"))
  BY DEF LayInv, Checked
<1>2. AsBad = IF bad \cap Layer # {} THEN "layer"
              ELSE IF Ct("frodokem") \in bad THEN "frodoCt" ELSE "none"
  BY <1>1 DEF AsBad, Whole
<1>3. ASSUME proc \in {"died", "panicked"}
      PROVE  bad \cap Layer # {} \/ Ct("frodokem") \in bad
  <2>1. PICK b \in bad : b # One("payload")
    BY <1>3 DEF LayInv, EndsFor
  <2>2. b \in Layer \/ b = Ct("frodokem")
    BY <1>1, <2>1 DEF LayInv, TypeOK, Layer, Whole
  <2> QED
    BY <2>1, <2>2
<1>4. ASSUME at = "shown" PROVE bad \cap Layer = {}
  <2>1. /\ Whole(One("dek_wrap")) /\ Whole(One("siv")) /\ Whole(One("vk"))
        /\ Whole(One("sig")) /\ Whole(One("ed_vk")) /\ Whole(One("ed_sig"))
    BY <1>4 DEF LayInv, Checked, SignedKnown
  <2>2. \A l \in Kems : Whole(SkWrap(l)) /\ shards[l] \in Yields(l)
    BY <1>4 DEF LayInv, Checked, UpTo, Kems
  <2>3. \A l \in Kems \ {"frodokem"} : Whole(Ct(l))
    BY <1>4, <2>2, CombinedBinds, YieldsTell DEF LayInv, DekKnown
  <2>4. ASSUME NEW b \in Layer PROVE Whole(b)
    <3>1. \/ \E l \in Kems : (b = SkWrap(l) \/ (b = Ct(l) /\ l # "frodokem"))
          \/ b \in {One(n) : n \in {"vk", "sig", "dek_wrap", "siv", "ed_vk", "ed_sig"}}
      BY DEF Layer, Blobs
    <3> QED
      BY <2>1, <2>2, <2>3, <3>1
  <2> QED
    BY <2>4 DEF Whole
<1> QED
  BY <1>2, <1>3, <1>4

LEMMA LayersStep ==
  ASSUME LayInv, LayInv', AsInv', [Next]_vars PROVE [K!PassGate \/ K!Unseal]_(K!vars)
<1>1. CASE UNCHANGED vars
  <2>1. /\ AsProc' = AsProc /\ AsCause' = AsCause /\ AsKey' = AsKey /\ AsMain' = AsMain
        /\ AsBad' = AsBad /\ AsContent' = AsContent
    BY <1>1 DEF vars, sealedVars, AsProc, AsCause, AsKey, AsMain, AsBad, AsContent, Whole
  <2> QED
    BY <2>1, AsStutter
<1>2. ASSUME SealKeeps PROVE AsKey' = AsKey /\ AsBad' = AsBad
  BY <1>2 DEF SealKeeps, sealedVars, AsKey, AsBad, Whole
<1>3. CASE SystemCall
  <2>1. /\ AsProc' = AsProc /\ AsCause' = AsCause /\ AsMain' = AsMain
        /\ AsContent' = AsContent /\ SealKeeps
    BY <1>3 DEF SystemCall, At, Goto, End, AsProc, AsCause, AsMain, AsContent
  <2> QED
    BY <1>2, <2>1, AsStutter
<1>4. CASE OpenTs
  <2>1. at = "ts" /\ proc = "running" /\ text' = text /\ SealKeeps
    BY <1>4 DEF OpenTs, At
  <2>2. CASE at' = "ts_plain" /\ proc' = proc
    <3>1. /\ AsProc' = AsProc /\ AsCause' = AsCause /\ AsMain' = AsMain
          /\ AsContent' = AsContent
      BY <2>1, <2>2 DEF AsProc, AsCause, AsMain, AsContent
    <3> QED
      BY <1>2, <2>1, <3>1, AsStutter
  <2>3. CASE at' = at /\ proc' = "died" /\ ~(Whole(One("km")) /\ Whole(One("ts")))
    <3>1. AsKey.val \notin {"secret", "half"} \/ AsBad = "ts"
      BY <2>3 DEF AsKey, AsBad, Whole
    <3>2. /\ AsProc' = "killed" /\ AsCause' = "gate" /\ AsMain' = AsMain
          /\ AsContent' = AsContent /\ AsMain = "gate"
      BY <2>1, <2>3 DEF AsProc, AsCause, AsMain, AsContent
    <3> QED
      BY <1>2, <2>1, <3>1, <3>2, AsPassGate, Zenon
  <2> QED
    BY <1>4, <2>2, <2>3 DEF OpenTs, Goto, End, K1
<1>5. CASE ComparePlain
  <2>1. at = "ts_plain" /\ proc = "running" /\ text' = text /\ SealKeeps
        /\ Whole(One("km")) /\ Whole(One("ts"))
    BY <1>5 DEF ComparePlain, At, LayInv, Checked
  <2>2. CASE at' = "rsa" /\ proc' = proc /\ Whole(One("ts_plain"))
    <3>1. ~(AsKey.val \notin {"secret", "half"} \/ AsBad = "ts")
      BY <2>1, <2>2 DEF AsKey, AsBad, Whole
    <3>2. /\ AsProc' = AsProc /\ AsCause' = AsCause /\ AsMain' = "layers"
          /\ AsContent' = AsContent /\ AsMain = "gate"
      BY <2>1, <2>2 DEF AsProc, AsCause, AsMain, AsContent
    <3> QED
      BY <1>2, <2>1, <3>1, <3>2, AsPassGate, Zenon
  <2>3. CASE at' = at /\ proc' = "died" /\ ~Whole(One("ts_plain"))
    <3>1. AsBad = "ts"
      BY <2>1, <2>3 DEF AsBad, Whole
    <3>2. /\ AsProc' = "killed" /\ AsCause' = "gate" /\ AsMain' = AsMain
          /\ AsContent' = AsContent /\ AsMain = "gate"
      BY <2>1, <2>3 DEF AsProc, AsCause, AsMain, AsContent
    <3> QED
      BY <1>2, <2>1, <3>1, <3>2, AsPassGate, Zenon
  <2> QED
    BY <1>5, <2>2, <2>3 DEF ComparePlain, Goto, End
<1>6. CASE Next /\ at \notin {"filtered", "ts", "ts_plain"}
  <2>1. /\ proc = "running" /\ at # "shown" /\ SealKeeps
        /\ at' \notin {"filtered", "ts", "ts_plain"}
        /\ \/ proc' = "running" /\ at' # "shown" /\ text' = text
           \/ proc' \in {"died", "panicked"} /\ at' = at /\ text' = text
           \/ proc' = "running" /\ at' = "shown"
    BY <1>6, FromALayer
  <2>2. AsMain = "layers"
    BY <1>6, <2>1 DEF AsMain
  <2>3. /\ proc' \in {"died", "panicked"} => AsBad \in {"layer", "frodoCt"}
        /\ at' = "shown" => AsBad # "layer"
    BY <1>2, <2>1 DEF AsInv
  <2>4. CASE proc' = "running" /\ at' # "shown" /\ text' = text
    <3>1. /\ AsProc' = AsProc /\ AsCause' = AsCause /\ AsMain' = AsMain
          /\ AsContent' = AsContent
      BY <1>6, <2>1, <2>4 DEF AsProc, AsCause, AsMain, AsContent
    <3> QED
      BY <1>2, <2>1, <3>1, AsStutter
  <2>5. CASE proc' \in {"died", "panicked"} /\ at' = at /\ text' = text
    <3>1. /\ \/ AsProc' = "killed" /\ AsCause' = "layer"
             \/ AsProc' = "panicked" /\ AsCause' = AsCause
          /\ AsMain' = AsMain /\ AsContent' = AsContent
      BY <1>6, <2>1, <2>5 DEF AsProc, AsCause, AsMain, AsContent
    <3> QED
      BY <1>2, <2>1, <2>2, <2>3, <2>5, <3>1, AsUnseal, Zenon
  <2>6. CASE proc' = "running" /\ at' = "shown"
    <3>1. text' # <<>>
      BY <2>6 DEF LayInv, TypeOK
    <3>2. /\ AsMain' = "show" /\ AsProc' = AsProc /\ AsCause' = AsCause
          /\ AsContent' = "text"
      BY <1>6, <2>1, <2>6, <3>1 DEF AsProc, AsCause, AsMain, AsContent
    <3> QED
      BY <1>2, <2>1, <2>2, <2>3, <2>6, <3>2, AsUnseal, Zenon
  <2> QED
    BY <2>1, <2>4, <2>5, <2>6
<1>7. Next => SystemCall \/ OpenTs \/ ComparePlain \/ at \notin {"filtered", "ts", "ts_plain"}
  BY DEF Next, RecoverAll, Recover, ParseVk, UnwrapDek, Combine, VerifySig, VerifyEd,
         Decrypt, At
<1> QED
  BY <1>1, <1>3, <1>4, <1>5, <1>6, <1>7

\* However many blobs are damaged and wherever the run ends, what the layers
\* do is a step of Keeper's gate or of its Unseal, or none; a damaged FrodoKEM
\* ciphertext may open in both: KeepsUnseal.
THEOREM KeepsUnsealHolds == Spec => KeepsUnseal
<1>1. LayInv /\ LayInv' /\ AsInv' /\ [Next]_vars => [K!PassGate \/ K!Unseal]_(K!vars)
  BY LayersStep
<1> QED
  BY <1>1, AsWhole, LayAlways, PTL DEF Spec, KeepsUnseal

-----------------------------------------------------------------------------
(* The counter.                                                            *)

Times(k, a, n) == Radix * a
DigitStep(c, n, i) == n + c[i] * Power[i - 1]
IncStep(k, c, n) == Inc(c)
Powering == INSTANCE Induction WITH P <- LAMBDA n : TRUE, Op <- Times
Adding == INSTANCE Induction WITH P <- LAMBDA n : TRUE, Op <- DigitStep
Counting == INSTANCE Induction WITH P <- LAMBDA n : TRUE, Op <- IncStep

LEMMA PowerSteps ==
  /\ Power[0] = 1
  /\ \A n \in Nat : Power[n + 1] = Radix * Power[n]
<1> DEFINE F(f) == [n \in Nat |-> IF n = 0 THEN 1 ELSE Radix * f[n - 1]]
<1>1. \E f : f = F(f)
  <2> DEFINE base == 1
             none == 0
  <2> HIDE DEF base, none
  <2>1. PICK f : Powering!Recursive(f, none, base)
    BY Powering!RecursionExists
  <2>2. f = [n \in Nat |-> f[n]] /\ f[0] = base
    BY <2>1, Powering!RecursionSays
  <2>3. \A n \in Nat : n # 0 => f[n] = Times(none, f[n - 1], n)
    BY <2>1, Powering!RecursionStep
  <2>4. f = F(f)
    BY <2>2, <2>3 DEF Times, base
  <2> HIDE DEF F
  <2> QED
    BY <2>4
<1>2. Power = F(Power)
  <2>1. Power = CHOOSE f : f = F(f)
    BY DEF Power
  <2> HIDE DEF F
  <2> QED
    BY <1>1, <2>1
<1> HIDE DEF Power
<1>3. \A n \in Nat : Power[n] = IF n = 0 THEN 1 ELSE Radix * Power[n - 1]
  BY <1>2
<1>4. Power[0] = 1
  BY <1>3
<1>5. ASSUME NEW n \in Nat PROVE Power[n + 1] = Radix * Power[n]
  <2> DEFINE m == n + 1
  <2>1. m \in Nat /\ m # 0 /\ m - 1 = n
    OBVIOUS
  <2> HIDE DEF m
  <2>2. Power[m] = Radix * Power[n]
    BY <1>3, <2>1
  <2> QED
    BY <2>2 DEF m
<1> QED
  BY <1>4, <1>5

LEMMA Products ==
  \A a, b, c \in Nat : /\ a * b \in Nat /\ (a + b) * c = a * c + b * c
                       /\ a > 0 /\ b > 0 => a * b > 0
BY SMT

LEMMA PowerPositive == \A n \in Nat : Power[n] \in Nat \ {0}
<1> DEFINE G == {n \in Nat : Power[n] \in Nat \ {0}}
<1>1. 0 \in G
  BY PowerSteps
<1>2. ASSUME NEW n \in Nat, n \in G PROVE n + 1 \in G
  <2> DEFINE a == Power[n]
             b == Power[n + 1]
  <2>1. b = Radix * a /\ a \in Nat /\ a > 0 /\ Radix \in Nat /\ Radix > 0
    BY <1>2, PowerSteps, RadixAssumption
  <2> HIDE DEF a, b
  <2>2. b \in Nat /\ b # 0
    BY <2>1, Products
  <2> QED
    BY <2>2 DEF b
<1> HIDE DEF G
<1>3. Nat \subseteq G
  BY <1>1, <1>2, Powering!NatInductIn
<1> QED
  BY <1>3 DEF G

\* The numbers from 1 to n, which both folds go through.
Upto(n) == [i \in 1 .. n |-> i]

\* What the lowest n digits stand for.
Lowest(c, n) == Adding!Folded(c, 0, Upto(n))

LEMMA LowestSays ==
  ASSUME NEW c
  PROVE  /\ ValueOf(c) = Lowest(c, Block)
         /\ Lowest(c, 0) = 0
         /\ \A n \in Nat : Lowest(c, n + 1) = Lowest(c, n) + c[n + 1] * Power[n]
<1>1. ValueOf(c) = Lowest(c, Block)
  BY DEF ValueOf, Lowest, Upto, DigitStep, Adding!Folded, FoldLeft, MapThenFoldSet, Max,
         Adding!FoldLeft, Adding!MapThenFoldSet, Adding!Max
<1>2. Lowest(c, 0) = 0
  <2> DEFINE zero == 0
  <2>1. Upto(zero) = <<>>
    BY DEF Upto
  <2> HIDE DEF zero
  <2>2. Adding!Folded(c, zero, Upto(zero)) = zero
    BY <2>1, Adding!FoldNone
  <2> QED
    BY <2>2 DEF Lowest, zero
<1>3. ASSUME NEW n \in Nat
      PROVE  Lowest(c, n + 1) = Lowest(c, n) + c[n + 1] * Power[n]
  <2> DEFINE m == n + 1
             s == Upto(n)
             t == Upto(m)
             zero == 0
  <2>1. /\ m = n + 1 /\ m - 1 = n /\ DOMAIN s = 1 .. n /\ DOMAIN t = 1 .. m
        /\ \A i \in 1 .. n : t[i] = s[i]
        /\ t[m] = m
    BY DEF Upto
  <2> HIDE DEF m, s, t, zero
  <2>2. Adding!Folded(c, zero, t) = DigitStep(c, Adding!Folded(c, zero, s), t[m])
    BY <2>1, Adding!FoldLast
  <2>3. Adding!Folded(c, zero, t) = Adding!Folded(c, zero, s) + c[m] * Power[n]
    BY <2>1, <2>2 DEF DigitStep
  <2> QED
    BY <2>3 DEF Lowest, m, s, t, zero
<1> QED
  BY <1>1, <1>2, <1>3

\* How far a carry goes.
Carries(c, n) == \A j \in 1 .. n : c[j] = Radix - 1

LEMMA IncDigit ==
  ASSUME NEW c \in Counters
  PROVE  /\ Inc(c) \in Counters
         /\ \A n \in Nat : n + 1 <= Block =>
              /\ c[n + 1] \in 0 .. Radix - 1
              /\ Inc(c)[n + 1] = IF ~Carries(c, n) THEN c[n + 1]
                                 ELSE IF c[n + 1] = Radix - 1 THEN 0 ELSE c[n + 1] + 1
<1>1. Block \in Nat /\ Radix \in Nat /\ Radix > 0
  BY BlockAssumption, RadixAssumption
<1>2. ASSUME NEW d \in 0 .. Radix - 1
      PROVE  (d + 1) % Radix = IF d = Radix - 1 THEN 0 ELSE d + 1
  <2>1. \A r \in Nat \ {0} : r % r = 0 /\ \A x \in 0 .. r - 1 : x % r = x
    BY SMT
  <2>2. CASE d = Radix - 1
    <3>1. d + 1 = Radix
      BY <1>1, <2>2
    <3> QED
      BY <1>1, <2>1, <2>2, <3>1
  <2>3. CASE d # Radix - 1
    <3>1. d + 1 \in 0 .. Radix - 1
      BY <1>1, <2>3
    <3> QED
      BY <1>1, <2>1, <2>3, <3>1
  <2> QED
    BY <2>2, <2>3
<1>3. ASSUME NEW i \in 1 .. Block
      PROVE  /\ c[i] \in 0 .. Radix - 1
             /\ Inc(c)[i] = IF ~Carries(c, i - 1) THEN c[i]
                            ELSE IF c[i] = Radix - 1 THEN 0 ELSE c[i] + 1
  <2>1. c[i] \in 0 .. Radix - 1
    BY DEF Counters
  <2>2. Inc(c)[i] = IF Carries(c, i - 1) THEN (c[i] + 1) % Radix ELSE c[i]
    BY DEF Inc, Carries
  <2> QED
    BY <1>2, <2>1, <2>2
<1>4. Inc(c) \in Counters
  <2>1. \A i \in 1 .. Block : Inc(c)[i] \in 0 .. Radix - 1
    <3> SUFFICES ASSUME NEW i \in 1 .. Block PROVE Inc(c)[i] \in 0 .. Radix - 1
      OBVIOUS
    <3> DEFINE d == c[i]
               e == Inc(c)[i]
    <3>1. d \in 0 .. Radix - 1 /\ (e = d \/ e = 0 \/ (d # Radix - 1 /\ e = d + 1))
      BY <1>3
    <3> HIDE DEF d, e
    <3>2. e \in 0 .. Radix - 1
      BY <1>1, <3>1
    <3> QED
      BY <3>2 DEF e
  <2>2. Inc(c) = [i \in 1 .. Block |-> Inc(c)[i]]
    BY DEF Inc
  <2> QED
    BY <2>1, <2>2 DEF Counters
<1>5. ASSUME NEW n \in Nat, n + 1 <= Block
      PROVE  /\ c[n + 1] \in 0 .. Radix - 1
             /\ Inc(c)[n + 1] = IF ~Carries(c, n) THEN c[n + 1]
                                ELSE IF c[n + 1] = Radix - 1 THEN 0 ELSE c[n + 1] + 1
  <2> DEFINE i == n + 1
  <2>1. i \in 1 .. Block /\ i - 1 = n
    BY <1>1, <1>5
  <2> HIDE DEF i
  <2>2. /\ c[i] \in 0 .. Radix - 1
        /\ Inc(c)[i] = IF ~Carries(c, n) THEN c[i]
                       ELSE IF c[i] = Radix - 1 THEN 0 ELSE c[i] + 1
    BY <1>3, <2>1
  <2> QED
    BY <2>2 DEF i
<1> QED
  BY <1>4, <1>5

\* One digit more: p is what the digit counts, v the number below it, w the one
\* below it after the increment.
LEMMA DigitCounts ==
  ASSUME NEW p \in Nat, p > 0, NEW r \in Nat, r > 0, NEW d \in 0 .. r - 1, NEW v \in 0 .. p - 1
  PROVE  /\ v + d * p \in 0 .. r * p - 1
         /\ v = p - 1 /\ d = r - 1 => v + d * p = r * p - 1
         /\ (d + 1) * p = p - 1 + d * p + 1
         /\ 0 * p = 0
<1> DEFINE e == r - 1 - d
<1>1. e \in Nat /\ r = (d + e) + 1 /\ d \in Nat
  OBVIOUS
<1> HIDE DEF e
<1>2. (d + e) * p = d * p + e * p /\ d * p \in Nat /\ e * p \in Nat
      /\ ((d + e) + 1) * p = (d + e) * p + 1 * p /\ (d + 1) * p = d * p + 1 * p
      /\ 1 * p = p /\ 0 * p = 0
  <2>1. d + e \in Nat
    BY <1>1
  <2> QED
    BY <1>1, <2>1, Products, SMT
<1>3. r * p = d * p + e * p + p
  BY <1>1, <1>2
<1> DEFINE dp == d * p
           ep == e * p
           rp == r * p
<1>4. dp \in Nat /\ ep \in Nat /\ rp = dp + ep + p
  BY <1>2, <1>3
<1> HIDE DEF dp, ep, rp
<1>5. v + dp \in 0 .. rp - 1
  BY <1>4
<1>6. ASSUME v = p - 1, d = r - 1 PROVE v + d * p = r * p - 1
  <2>1. e = 0
    BY <1>6 DEF e
  <2>2. ep = 0
    BY <1>2, <2>1 DEF ep
  <2>3. v + dp = rp - 1
    BY <1>4, <1>6, <2>2
  <2> QED
    BY <2>3 DEF dp, rp
<1>7. (d + 1) * p = p - 1 + d * p + 1
  <2>1. dp + p = p - 1 + dp + 1
    BY <1>4
  <2> QED
    BY <1>2, <2>1 DEF dp
<1> QED
  BY <1>2, <1>5, <1>6, <1>7 DEF dp, rp

LEMMA IncCounts ==
  ASSUME NEW c \in Counters
  PROVE  /\ ValueOf(c) \in 0 .. Power[Block] - 1
         /\ ValueOf(Inc(c)) = (ValueOf(c) + 1) % Power[Block]
<1> DEFINE Says(n) ==
             LET v == Lowest(c, n)
             IN  /\ v \in 0 .. Power[n] - 1 /\ Lowest(Inc(c), n) \in 0 .. Power[n] - 1
                 /\ IF Carries(c, n) THEN v = Power[n] - 1 /\ Lowest(Inc(c), n) = 0
                    ELSE Lowest(Inc(c), n) = v + 1
           G == {n \in Nat : n <= Block => Says(n)}
<1>0. Block \in Nat /\ Radix \in Nat /\ Radix > 0
  BY BlockAssumption, RadixAssumption
<1>1. 0 \in G
  <2>1. Lowest(c, 0) = 0 /\ Lowest(Inc(c), 0) = 0 /\ Power[0] = 1 /\ Carries(c, 0)
    BY LowestSays, PowerSteps DEF Carries
  <2>2. Says(0)
    BY <2>1
  <2> QED
    BY <2>2
<1>2. ASSUME NEW n \in Nat, n \in G PROVE n + 1 \in G
  <2> DEFINE m == n + 1
             v == Lowest(c, n)
             w == Lowest(Inc(c), n)
             d == c[m]
             e == Inc(c)[m]
             p == Power[n]
  <2> SUFFICES ASSUME m <= Block PROVE Says(m)
    BY <1>0
  <2>1. Says(n)
    BY <1>0, <1>2
  <2>2. /\ Lowest(c, m) = v + d * p /\ Lowest(Inc(c), m) = w + e * p
        /\ Power[m] = Radix * p /\ p \in Nat /\ p > 0
    <3>1. /\ Lowest(c, n + 1) = Lowest(c, n) + c[n + 1] * Power[n]
          /\ Lowest(Inc(c), n + 1) = Lowest(Inc(c), n) + Inc(c)[n + 1] * Power[n]
      BY LowestSays
    <3>2. Power[n + 1] = Radix * Power[n]
      BY PowerSteps
    <3>3. Power[n] \in Nat /\ Power[n] > 0
      BY PowerPositive
    <3> QED
      BY <3>1, <3>2, <3>3, Zenon
  <2>3. /\ d \in 0 .. Radix - 1
        /\ e = IF ~Carries(c, n) THEN d ELSE IF d = Radix - 1 THEN 0 ELSE d + 1
    BY IncDigit
  <2>4. Carries(c, m) <=> Carries(c, n) /\ d = Radix - 1
    BY DEF Carries
  <2>5. /\ v \in 0 .. p - 1 /\ w \in 0 .. p - 1
        /\ Carries(c, n) => v = p - 1 /\ w = 0
        /\ ~Carries(c, n) => w = v + 1
    BY <2>1
  <2> HIDE DEF v, w, d, e, p
  <2>6. /\ v + d * p \in 0 .. Radix * p - 1
        /\ v = p - 1 /\ d = Radix - 1 => v + d * p = Radix * p - 1
        /\ (d + 1) * p = p - 1 + d * p + 1
        /\ 0 * p = 0
    BY <1>0, <2>2, <2>3, <2>5, DigitCounts
  <2>10. e \in 0 .. Radix - 1
    BY <1>0, <2>3
  <2>11. w + e * p \in 0 .. Radix * p - 1
    BY <1>0, <2>2, <2>5, <2>10, DigitCounts
  <2> DEFINE dp == d * p
             ep == e * p
  <2>7. dp \in Int
    BY <2>2, <2>3, SMT
  <2>8. CASE Carries(c, m)
    <3>1. v = p - 1 /\ d = Radix - 1 /\ w = 0 /\ e = 0 /\ Carries(c, n)
      BY <2>3, <2>4, <2>5, <2>8
    <3>2. w + e * p = 0
      BY <2>6, <3>1
    <3> QED
      BY <2>2, <2>6, <2>8, <2>11, <3>1, <3>2
  <2>9. CASE ~Carries(c, m)
    <3>1. w + e * p = v + d * p + 1
      <4>1. CASE Carries(c, n)
        <5>1. v = p - 1 /\ w = 0 /\ e = d + 1
          BY <2>3, <2>4, <2>5, <2>9, <4>1
        <5>2. ep = p - 1 + dp + 1
          BY <2>6, <5>1
        <5> HIDE DEF dp, ep
        <5>3. w + ep = v + dp + 1
          BY <2>2, <2>7, <5>1, <5>2
        <5> QED
          BY <5>3 DEF dp, ep
      <4>2. CASE ~Carries(c, n)
        <5>1. w = v + 1 /\ ep = dp
          BY <2>3, <2>5, <4>2
        <5> HIDE DEF dp, ep
        <5>2. w + ep = v + dp + 1
          BY <2>5, <2>7, <5>1
        <5> QED
          BY <5>2 DEF dp, ep
      <4> QED
        BY <4>1, <4>2
    <3> QED
      BY <2>2, <2>6, <2>9, <2>11, <3>1
  <2> QED
    BY <2>8, <2>9
<1> HIDE DEF G
<1>3. Nat \subseteq G
  BY <1>1, <1>2, Powering!NatInductIn
<1>4. Says(Block)
  BY <1>0, <1>3 DEF G
<1> DEFINE v == ValueOf(c)
           w == ValueOf(Inc(c))
           p == Power[Block]
<1>5. /\ v \in 0 .. p - 1 /\ p \in Nat \ {0}
      /\ w = v + 1 \/ (v = p - 1 /\ w = 0)
      /\ w \in 0 .. p - 1
  <2>1. v = Lowest(c, Block) /\ w = Lowest(Inc(c), Block)
    BY LowestSays
  <2> QED
    BY <1>0, <1>4, <2>1, PowerPositive
<1> QED
  BY <1>5

\* What the counter of a block stands for: as many more than the first's as
\* there are blocks before, and from nought again after the largest.
Ordinal(c, k) == Counting!Folded(0, c, Upto(k))

LEMMA OrdinalSays ==
  ASSUME NEW c
  PROVE  /\ Ordinal(c, 0) = c
         /\ \A k \in Nat : Ordinal(c, k + 1) = Inc(Ordinal(c, k))
<1> DEFINE zero == 0
<1>1. Ordinal(c, zero) = c
  <2>1. Upto(zero) = <<>>
    BY DEF Upto
  <2> HIDE DEF zero
  <2> QED
    BY <2>1, Counting!FoldNone DEF Ordinal
<1>2. ASSUME NEW k \in Nat
      PROVE  Ordinal(c, k + 1) = Inc(Ordinal(c, k))
  <2> DEFINE m == k + 1
             s == Upto(k)
             t == Upto(m)
  <2>1. /\ m = k + 1 /\ DOMAIN s = 1 .. k /\ DOMAIN t = 1 .. m
        /\ \A i \in 1 .. k : t[i] = s[i]
    BY DEF Upto
  <2> HIDE DEF m, s, t, zero
  <2>2. Counting!Folded(zero, c, t) = IncStep(zero, Counting!Folded(zero, c, s), t[m])
    BY <2>1, Counting!FoldLast
  <2> QED
    BY <2>2 DEF IncStep, Ordinal, m, s, t, zero
<1> QED
  BY <1>1, <1>2

LEMMA OrdinalCounts ==
  ASSUME NEW c \in Counters, NEW k \in Nat, k < Power[Block]
  PROVE  ValueOf(Ordinal(c, k)) = IF ValueOf(c) + k < Power[Block] THEN ValueOf(c) + k
                                  ELSE ValueOf(c) + k - Power[Block]
<1> DEFINE p == Power[Block]
           v == ValueOf(c)
           Says(n) == /\ Ordinal(c, n) \in Counters
                      /\ ValueOf(Ordinal(c, n)) = IF v + n < p THEN v + n ELSE v + n - p
           G == {n \in Nat : n < p => Says(n)}
<1>0. v \in 0 .. p - 1 /\ p \in Nat \ {0}
  BY IncCounts, PowerPositive, BlockAssumption
<1>1. 0 \in G
  <2>1. Ordinal(c, 0) = c
    BY OrdinalSays
  <2> HIDE DEF p, v
  <2> QED
    BY <1>0, <2>1 DEF v
<1>2. ASSUME NEW n \in Nat, n \in G PROVE n + 1 \in G
  <2> DEFINE m == n + 1
             o == Ordinal(c, n)
             x == ValueOf(o)
             y == ValueOf(Inc(o))
  <2> SUFFICES ASSUME m < p PROVE Says(m)
    OBVIOUS
  <2>1. n < p
    BY <1>0
  <2>2. o \in Counters /\ x = IF v + n < p THEN v + n ELSE v + n - p
    BY <1>2, <2>1
  <2>3. Ordinal(c, m) = Inc(o)
    BY OrdinalSays
  <2>4. Inc(o) \in Counters /\ x \in 0 .. p - 1 /\ y = (x + 1) % p
    BY <2>2, IncDigit, IncCounts
  <2> HIDE DEF p, v, o, x, y
  <2>5. y = IF v + m < p THEN v + m ELSE v + m - p
    <3>1. \A r \in Nat \ {0} : r % r = 0 /\ \A z \in 0 .. r - 1 : z % r = z
      BY SMT
    <3>2. CASE x = p - 1
      <4>1. x + 1 = p /\ v + m = p
        BY <1>0, <2>2, <3>2
      <4>2. y = 0
        BY <1>0, <2>4, <3>1, <4>1
      <4> QED
        BY <1>0, <4>1, <4>2
    <3>3. CASE x # p - 1
      <4>1. x + 1 \in 0 .. p - 1
        BY <1>0, <2>4, <3>3
      <4>2. y = x + 1
        BY <1>0, <2>4, <3>1, <4>1
      <4>3. x \in Nat /\ x + 1 < p
        <5>1. x \in 0 .. p - 1 /\ p \in Nat
          BY <1>0, <2>4
        <5> QED
          BY <3>3, <5>1
      <4>4. x = IF v + n < p THEN v + n ELSE v + n - p
        BY <2>2
      <4>5. m = n + 1 /\ m < p /\ n \in Nat /\ v \in Nat /\ v < p /\ p \in Nat
        BY <1>0
      <4> HIDE DEF m
      <4> QED
        BY <4>2, <4>3, <4>4, <4>5
    <3> QED
      BY <3>2, <3>3
  <2> QED
    BY <2>3, <2>4, <2>5 DEF y, p, v
<1> HIDE DEF G
<1>3. Nat \subseteq G
  BY <1>1, <1>2, Powering!NatInductIn
<1>4. k < p => Says(k)
  BY <1>3 DEF G
<1>5. ValueOf(Ordinal(c, k)) = IF v + k < p THEN v + k ELSE v + k - p
  <2>1. k < p
    OBVIOUS
  <2> HIDE DEF p, v
  <2> QED
    BY <1>4, <2>1
<1> HIDE DEF Says
<1> QED
  BY <1>5 DEF p, v

\* Two blocks never meet the same counter, as long as there are enough.
LEMMA OrdinalsDiffer ==
  ASSUME NEW c \in Counters, NEW j \in Nat, NEW k \in Nat,
         j < Power[Block], k < Power[Block], Ordinal(c, j) = Ordinal(c, k)
  PROVE  j = k
<1> DEFINE p == Power[Block]
           v == ValueOf(c)
<1>1. v \in 0 .. p - 1 /\ p \in Nat
  BY IncCounts, PowerPositive, BlockAssumption
<1>2. (IF v + j < p THEN v + j ELSE v + j - p) = (IF v + k < p THEN v + k ELSE v + k - p)
  <2>1. ASSUME NEW i \in {j, k}
        PROVE  ValueOf(Ordinal(c, i)) = IF v + i < p THEN v + i ELSE v + i - p
    <3>1. i \in Nat /\ i < Power[Block]
      OBVIOUS
    <3>2. ValueOf(Ordinal(c, i)) = IF ValueOf(c) + i < Power[Block] THEN ValueOf(c) + i
                                   ELSE ValueOf(c) + i - Power[Block]
      BY <3>1, OrdinalCounts
    <3> QED
      BY <3>2
  <2> HIDE DEF p, v
  <2> QED
    BY <2>1
<1>3. j < p /\ k < p
  OBVIOUS
<1> HIDE DEF p, v
<1> QED
  BY <1>1, <1>2, <1>3

LEMMA MaskedCounter == ASSUME NEW c \in Counters PROVE CtrMask(c) \in Counters
<1> DEFINE h == Radix \div 2
<1>1. h \in Nat \ {0} /\ h <= Radix /\ Radix \in Nat
  BY RadixAssumption, SMT
<1> HIDE DEF h
<1>2. \A x \in Nat : x % h \in 0 .. Radix - 1
  <2>1. \A x \in Nat, y \in Nat \ {0} : x % y \in 0 .. y - 1
    BY SMT
  <2>2. 0 .. h - 1 \subseteq 0 .. Radix - 1
    BY <1>1
  <2> QED
    BY <1>1, <2>1, <2>2
<1>3. \A i \in 1 .. Block : c[i] \in Nat /\ c[i] \in 0 .. Radix - 1
  BY DEF Counters
<1>4. CtrMask(c) = [i \in 1 .. Block |-> IF i \in Masked THEN c[i] % h ELSE c[i]]
  BY DEF CtrMask, h
<1>5. \A i \in 1 .. Block : (IF i \in Masked THEN c[i] % h ELSE c[i]) \in 0 .. Radix - 1
  BY <1>2, <1>3
<1> QED
  BY <1>4, <1>5 DEF Counters

LEMMA CounterIs ==
  ASSUME NEW c, NEW p
  PROVE  CounterAt(c, p) = Ordinal(CtrMask(c), (p - 1) \div Block)
BY DEF CounterAt, Ordinal, Upto, IncStep, Counting!Folded, FoldLeft, MapThenFoldSet, Max,
       Counting!FoldLeft, Counting!MapThenFoldSet, Counting!Max

LEMMA LaterBlocks ==
  ASSUME NEW x \in Nat, NEW y \in Nat, NEW d \in Nat \ {0}, x <= y
  PROVE  x \div d \in Nat /\ x \div d <= y \div d
<1> DEFINE q == x \div d
           t == y \div d
<1>1. q \in Nat /\ t \in Nat /\ d * q <= x /\ y < d * t + d
  BY SMT
<1> HIDE DEF q, t
<1>2. ~(q > t)
  <2> SUFFICES ASSUME q > t PROVE FALSE
    OBVIOUS
  <2> DEFINE e == q - t - 1
  <2>1. e \in Nat /\ q = (t + 1) + e
    BY <1>1
  <2> HIDE DEF e
  <2>2. d * q = d * t + d + d * e /\ d * e \in Nat
    BY <1>1, <2>1, SMT
  <2> QED
    BY <1>1, <2>2
<1> QED
  BY <1>1, <1>2 DEF q, t

\* No text has more blocks than there are counters (2^128 in the code).
CountersEnough ==
  \A m \in Metas, t \in Texts : (Len(Payload(m, t)) - 1) \div Block < Power[Block]

\* The counter counts, for every size of block and byte and wherever it begins;
\* and so no two blocks of a text are met with the same one (inc128, ctr_mask).
THEOREM CountersCountHolds == CountersEnough => (Spec => []CountersCount)
<1> SUFFICES ASSUME CountersEnough PROVE Spec => []CountersCount
  OBVIOUS
<1>1. TypeOK => CountersCount
  <2> SUFFICES ASSUME TypeOK PROVE CountersCount
    OBVIOUS
  <2> DEFINE n == Len(Payload(meta, content))
             c == CtrMask(iv)
             last == (n - 1) \div Block
  <2>1. iv \in Counters /\ meta \in Metas /\ content \in Texts
    BY DEF TypeOK
  <2>2. ValueOf(Inc(iv)) = (ValueOf(iv) + 1) % Power[Block]
    BY <2>1, IncCounts
  <2>3. n \in Nat /\ last < Power[Block]
    <3>1. n \in Nat
      BY <2>1, PayloadIs, LenProperties
    <3> QED
      BY <2>1, <3>1 DEF CountersEnough
  <2>4. c \in Counters
    BY <2>1, MaskedCounter
  <2>5. ASSUME NEW p \in 1 .. n PROVE (p - 1) \div Block \in Nat /\ (p - 1) \div Block <= last
    <3> DEFINE x == p - 1
               y == n - 1
    <3>1. x \in Nat /\ y \in Nat /\ x <= y /\ Block \in Nat \ {0}
      BY <2>3, BlockAssumption
    <3> HIDE DEF x, y
    <3>2. x \div Block \in Nat /\ x \div Block <= y \div Block
      BY <3>1, LaterBlocks
    <3> QED
      BY <3>2 DEF x, y
  <2>6. ASSUME NEW p \in 1 .. n, NEW q \in 1 .. n
        PROVE  CounterAt(iv, p) = CounterAt(iv, q) <=> (p - 1) \div Block = (q - 1) \div Block
    <3> DEFINE j == (p - 1) \div Block
               k == (q - 1) \div Block
    <3>1. CounterAt(iv, p) = Ordinal(c, j) /\ CounterAt(iv, q) = Ordinal(c, k)
      BY CounterIs
    <3>2. j \in Nat /\ k \in Nat /\ j <= last /\ k <= last /\ last \in Nat
      <4>1. j \in Nat /\ k \in Nat /\ j <= last /\ k <= last
        BY <2>5
      <4> QED
        BY <4>1, <2>3, BlockAssumption, LaterBlocks
    <3>3. Power[Block] \in Nat
      BY PowerPositive, BlockAssumption
    <3> HIDE DEF c, j, k, last
    <3>4. j < Power[Block] /\ k < Power[Block]
      BY <2>3, <3>2, <3>3
    <3>5. Ordinal(c, j) = Ordinal(c, k) => j = k
      BY <2>4, <3>2, <3>4, OrdinalsDiffer
    <3>6. Ordinal(c, j) = Ordinal(c, k) <=> j = k
      BY <3>5
    <3> QED
      BY <3>1, <3>6 DEF j, k
  <2> QED
    BY <2>2, <2>6 DEF CountersCount
<1> QED
  BY <1>1, LayersTypes, PTL
=============================================================================
