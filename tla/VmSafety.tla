------------------------------ MODULE VmSafety ------------------------------
(***************************************************************************)
(* Module VmProgram, proved for every size of stack, word and key: no      *)
(* program the VM still accepts overruns its stack, whatever it holds are  *)
(* words and bytes, and what gen_vm_program writes rebuilds the key.       *)
(***************************************************************************)
EXTENDS VmProgram, SequenceTheorems, TLAPS

\* The recursion of Pow2.
Twice(k, a, n) == 2 * a
Nothing(n) == TRUE
Doubling == INSTANCE Induction WITH P <- Nothing, Op <- Twice

-----------------------------------------------------------------------------
(* Powers of two.                                                          *)

LEMMA Powers ==
  /\ Pow2[0] = 1
  /\ \A n \in Nat : Pow2[n + 1] = 2 * Pow2[n]
<1> DEFINE F(f) == [n \in Nat |-> IF n = 0 THEN 1 ELSE 2 * f[n - 1]]
<1>1. \E f : f = F(f)
  <2> DEFINE base == 1
             none == 0
  <2> HIDE DEF base, none
  <2>1. PICK f : Doubling!Recursive(f, none, base)
    BY Doubling!RecursionExists
  <2>2. f = [n \in Nat |-> f[n]] /\ f[0] = base
    BY <2>1, Doubling!RecursionSays
  <2>3. \A n \in Nat : n # 0 => f[n] = Twice(none, f[n - 1], n)
    BY <2>1, Doubling!RecursionStep
  <2>4. f = F(f)
    BY <2>2, <2>3 DEF Twice, base
  <2> HIDE DEF F
  <2> QED
    BY <2>4
<1>2. Pow2 = F(Pow2)
  <2>1. Pow2 = CHOOSE f : f = F(f)
    BY DEF Pow2
  <2> HIDE DEF F
  <2> QED
    BY <1>1, <2>1
<1> HIDE DEF Pow2
<1>3. \A n \in Nat : Pow2[n] = IF n = 0 THEN 1 ELSE 2 * Pow2[n - 1]
  BY <1>2
<1>4. Pow2[0] = 1
  BY <1>3
<1>5. ASSUME NEW n \in Nat PROVE Pow2[n + 1] = 2 * Pow2[n]
  <2> DEFINE m == n + 1
  <2>1. m \in Nat /\ m # 0 /\ m - 1 = n
    OBVIOUS
  <2> HIDE DEF m
  <2>2. Pow2[m] = 2 * Pow2[n]
    BY <1>3, <2>1
  <2> QED
    BY <2>2 DEF m
<1> QED
  BY <1>4, <1>5

LEMMA PowerNat == \A n \in Nat : Pow2[n] \in Nat \ {0}
<1> DEFINE G == {n \in Nat : Pow2[n] \in Nat \ {0}}
<1>1. 0 \in G
  BY Powers
<1>2. \A n \in Nat : n \in G => n + 1 \in G
  BY Powers
<1> HIDE DEF G
<1>3. Nat \subseteq G
  BY <1>1, <1>2, Doubling!NatInductIn
<1> QED
  BY <1>3 DEF G

LEMMA PowerGrows == \A m, n \in Nat : Pow2[m] <= Pow2[m + n]
<1> SUFFICES ASSUME NEW m \in Nat PROVE \A n \in Nat : Pow2[m] <= Pow2[m + n]
  OBVIOUS
<1> DEFINE G == {n \in Nat : Pow2[m] <= Pow2[m + n]}
<1>1. 0 \in G
  BY PowerNat
<1>2. ASSUME NEW n \in Nat, n \in G PROVE n + 1 \in G
  <2>1. m + n \in Nat /\ m + (n + 1) = (m + n) + 1
    OBVIOUS
  <2>2. Pow2[m + (n + 1)] = 2 * Pow2[m + n]
    BY <2>1, Powers
  <2>3. Pow2[m] \in Nat /\ Pow2[m + n] \in Nat
    BY <2>1, PowerNat
  <2> QED
    BY <1>2, <2>2, <2>3
<1>3. \A n \in Nat : n \in G => n + 1 \in G
  BY <1>2
<1> HIDE DEF G
<1>4. Nat \subseteq G
  BY <1>1, <1>3, Doubling!NatInductIn
<1> QED
  BY <1>4 DEF G

-----------------------------------------------------------------------------
(* Numbers and their bits.                                                 *)

Bit(w, i) == (w \div Pow2[i]) % 2

\* A number is its half and its lowest bit.
LEMMA Halves ==
  ASSUME NEW w \in Nat, NEW b \in {0, 1}
  PROVE  (2 * w + b) \div 2 = w /\ (2 * w + b) % 2 = b
BY SMT

LEMMA HalfBits ==
  ASSUME NEW w \in Nat, NEW b \in {0, 1}
  PROVE  /\ Bit(2 * w + b, 0) = b
         /\ \A i \in Nat : Bit(2 * w + b, i + 1) = Bit(w, i)
<1>1. \A x \in Nat : x \div 1 = x
  BY SMT
<1>2. Bit(2 * w + b, 0) = b
  BY <1>1, Powers, Halves DEF Bit
<1>3. ASSUME NEW p \in Nat \ {0} PROVE (2 * w + b) \div (2 * p) = w \div p
  <2> DEFINE q == w \div p
             r == w % p
  <2>1. q \in Nat /\ r \in 0 .. p - 1 /\ w = p * q + r
    BY SMT
  <2> HIDE DEF q, r
  <2>2. 2 * w + b = (2 * p) * q + (2 * r + b) /\ 2 * r + b \in 0 .. 2 * p - 1
    BY <2>1, SMT
  <2>3. \A x \in Nat, d \in Nat \ {0} : \A y \in 0 .. d - 1 : (d * x + y) \div d = x
    BY SMT
  <2>4. ((2 * p) * q + (2 * r + b)) \div (2 * p) = q
    <3> DEFINE d == 2 * p
               y == 2 * r + b
    <3>1. d \in Nat \ {0} /\ y \in 0 .. d - 1
      BY <2>2
    <3> HIDE DEF d, y
    <3>2. (d * q + y) \div d = q
      BY <2>1, <2>3, <3>1
    <3> QED
      BY <3>2 DEF d, y
  <2> QED
    BY <2>2, <2>4 DEF q
<1>4. ASSUME NEW i \in Nat PROVE Bit(2 * w + b, i + 1) = Bit(w, i)
  <2>1. Pow2[i + 1] = 2 * Pow2[i] /\ Pow2[i] \in Nat \ {0}
    BY Powers, PowerNat
  <2> QED
    BY <1>3, <2>1 DEF Bit
<1> QED
  BY <1>2, <1>4

LEMMA HalfOf ==
  ASSUME NEW n \in Nat, NEW w \in 0 .. Pow2[n + 1] - 1
  PROVE  \E v \in 0 .. Pow2[n] - 1, b \in {0, 1} : w = 2 * v + b
<1>1. Pow2[n + 1] = 2 * Pow2[n] /\ Pow2[n] \in Nat
  BY Powers, PowerNat
<1> DEFINE v == w \div 2
           b == w % 2
<1>2. v \in Nat /\ b \in {0, 1} /\ w = 2 * v + b
  BY <1>1, SMT
<1>3. v <= Pow2[n] - 1
  <2> HIDE DEF v, b
  <2> QED
    BY <1>1, <1>2
<1> HIDE DEF v, b
<1> QED
  BY <1>1, <1>2, <1>3

\* There is a number for any bits below n,
LEMMA BitsMade ==
  \A n \in Nat : \A S \in SUBSET Nat :
    \E w \in 0 .. Pow2[n] - 1 : \A i \in 0 .. n - 1 : Bit(w, i) = 1 <=> i \in S
<1> DEFINE Made(n, S, w) == \A i \in 0 .. n - 1 : Bit(w, i) = 1 <=> i \in S
           G == {n \in Nat : \A S \in SUBSET Nat : \E w \in 0 .. Pow2[n] - 1 : Made(n, S, w)}
<1>1. 0 \in G
  <2>1. 0 \in 0 .. Pow2[0] - 1 /\ 0 .. 0 - 1 = {}
    BY Powers
  <2>2. \A S \in SUBSET Nat : Made(0, S, 0)
    BY <2>1
  <2> QED
    BY <2>1, <2>2
<1>2. ASSUME NEW n \in Nat, n \in G PROVE n + 1 \in G
  <2>1. ASSUME NEW S \in SUBSET Nat
        PROVE  \E w \in 0 .. Pow2[n + 1] - 1 : Made(n + 1, S, w)
    <3> DEFINE T == {i \in Nat : i + 1 \in S}
               b == IF 0 \in S THEN 1 ELSE 0
    <3>1. PICK v \in 0 .. Pow2[n] - 1 : Made(n, T, v)
      <4>1. T \in SUBSET Nat
        OBVIOUS
      <4> HIDE DEF T, Made
      <4> QED
        BY <1>2, <4>1
    <3>2. Pow2[n + 1] = 2 * Pow2[n] /\ Pow2[n] \in Nat
      BY Powers, PowerNat
    <3>3. v \in Nat /\ b \in {0, 1} /\ 2 * v + b \in 0 .. Pow2[n + 1] - 1
      BY <3>2
    <3>4. ASSUME NEW i \in 0 .. n PROVE Bit(2 * v + b, i) = 1 <=> i \in S
      <4>1. CASE i = 0
        <5>1. Bit(2 * v + b, 0) = b
          BY <3>3, HalfBits
        <5> QED
          BY <4>1, <5>1
      <4>2. CASE i # 0
        <5> DEFINE j == i - 1
        <5>1. j \in Nat /\ j \in 0 .. n - 1 /\ i = j + 1
          BY <4>2
        <5>2. Bit(2 * v + b, j + 1) = Bit(v, j)
          <6> HIDE DEF b, j
          <6> QED
            BY <3>3, <5>1, HalfBits
        <5>3. Bit(v, j) = 1 <=> j \in T
          BY <3>1, <5>1
        <5> HIDE DEF j, b
        <5> QED
          BY <5>1, <5>2, <5>3
      <4> QED
        BY <4>1, <4>2
    <3>5. 0 .. (n + 1) - 1 = 0 .. n
      OBVIOUS
    <3>6. Made(n + 1, S, 2 * v + b)
      <4> HIDE DEF b
      <4> QED
        BY <3>4, <3>5
    <3> QED
      BY <3>3, <3>6
  <2> QED
    BY <2>1
<1>3. \A n \in Nat : n \in G => n + 1 \in G
  BY <1>2
<1> HIDE DEF G
<1>4. Nat \subseteq G
  BY <1>1, <1>3, Doubling!NatInductIn
<1> QED
  BY <1>4 DEF G

\* and no other has them.
LEMMA BitsTell ==
  \A n \in Nat : \A v, w \in 0 .. Pow2[n] - 1 :
    (\A i \in 0 .. n - 1 : Bit(v, i) = Bit(w, i)) => v = w
<1> DEFINE Same(n, v, w) == \A i \in 0 .. n - 1 : Bit(v, i) = Bit(w, i)
           G == {n \in Nat : \A v, w \in 0 .. Pow2[n] - 1 : Same(n, v, w) => v = w}
<1>1. 0 \in G
  BY Powers
<1>2. ASSUME NEW n \in Nat, n \in G PROVE n + 1 \in G
  <2>1. ASSUME NEW v \in 0 .. Pow2[n + 1] - 1, NEW w \in 0 .. Pow2[n + 1] - 1,
               Same(n + 1, v, w)
        PROVE  v = w
    <3>1. PICK x \in 0 .. Pow2[n] - 1, b \in {0, 1} : v = 2 * x + b
      BY HalfOf
    <3>2. PICK y \in 0 .. Pow2[n] - 1, c \in {0, 1} : w = 2 * y + c
      BY HalfOf
    <3>3. x \in Nat /\ y \in Nat
      BY PowerNat
    <3>4. b = c
      <4>1. Bit(v, 0) = b /\ Bit(w, 0) = c
        BY <3>1, <3>2, <3>3, HalfBits
      <4>2. 0 \in 0 .. (n + 1) - 1
        OBVIOUS
      <4> QED
        BY <2>1, <4>1, <4>2
    <3>5. ASSUME NEW i \in 0 .. n - 1 PROVE Bit(x, i) = Bit(y, i)
      <4>1. i \in Nat /\ i + 1 \in 0 .. (n + 1) - 1
        OBVIOUS
      <4>2. Bit(v, i + 1) = Bit(x, i) /\ Bit(w, i + 1) = Bit(y, i)
        BY <3>1, <3>2, <3>3, <4>1, HalfBits
      <4> QED
        BY <2>1, <4>1, <4>2
    <3>6. x = y
      BY <1>2, <3>5
    <3> QED
      BY <3>1, <3>2, <3>4, <3>6
  <2> QED
    BY <2>1
<1>3. \A n \in Nat : n \in G => n + 1 \in G
  BY <1>2
<1> HIDE DEF G
<1>4. Nat \subseteq G
  BY <1>1, <1>3, Doubling!NatInductIn
<1> QED
  BY <1>4 DEF G

\* A small number has no high bits.
LEMMA NoHighBits ==
  ASSUME NEW n \in Nat, NEW w \in 0 .. Pow2[n] - 1, NEW i \in Nat, n <= i
  PROVE  Bit(w, i) = 0
<1>1. i - n \in Nat /\ n + (i - n) = i
  OBVIOUS
<1>2. Pow2[n] <= Pow2[i] /\ Pow2[n] \in Nat /\ Pow2[i] \in Nat \ {0}
  BY <1>1, PowerGrows, PowerNat
<1>3. \A p \in Nat \ {0} : \A x \in 0 .. p - 1 : x \div p = 0
  BY SMT
<1>4. w \in 0 .. Pow2[i] - 1
  BY <1>2
<1>5. w \div Pow2[i] = 0
  BY <1>2, <1>3, <1>4
<1> QED
  BY <1>5 DEF Bit

-----------------------------------------------------------------------------
(* Words.                                                                  *)

LEMMA Sizes ==
  /\ Width \in Nat /\ ByteWidth \in Nat /\ ByteWidth <= Width
  /\ Pow2[Width] \in Nat \ {0} /\ Pow2[ByteWidth] \in Nat \ {0}
  /\ Byte \subseteq Word /\ 0 \in Byte
<1>1. Width \in Nat /\ ByteWidth \in Nat /\ ByteWidth <= Width
  BY WidthAssumption
<1>2. Pow2[Width] \in Nat \ {0} /\ Pow2[ByteWidth] \in Nat \ {0}
  BY <1>1, PowerNat
<1>3. Pow2[ByteWidth] <= Pow2[Width]
  <2>1. Width - ByteWidth \in Nat /\ ByteWidth + (Width - ByteWidth) = Width
    BY <1>1
  <2> QED
    BY <1>1, <2>1, PowerGrows
<1> QED
  BY <1>1, <1>2, <1>3 DEF Byte, Word

\* A word is the number of its bits, and they are its.
LEMMA NumberOfBits ==
  /\ \A w \in Word : Bits(w) \in SUBSET (0 .. Width - 1) /\ Number(Bits(w)) = w
  /\ \A S \in SUBSET (0 .. Width - 1) : Number(S) \in Word /\ Bits(Number(S)) = S
<1>1. ASSUME NEW S \in SUBSET (0 .. Width - 1)
      PROVE  \E w \in Word : Bits(w) = S
  <2>1. S \in SUBSET Nat
    BY Sizes
  <2>2. PICK w \in 0 .. Pow2[Width] - 1 : \A i \in 0 .. Width - 1 : Bit(w, i) = 1 <=> i \in S
    BY <2>1, Sizes, BitsMade
  <2>3. Bits(w) = S
    BY <2>2 DEF Bits, Bit
  <2> QED
    BY <2>3 DEF Word
<1>2. ASSUME NEW v \in Word, NEW w \in Word, Bits(v) = Bits(w) PROVE v = w
  <2>1. ASSUME NEW i \in 0 .. Width - 1 PROVE Bit(v, i) = Bit(w, i)
    <3>1. Bit(v, i) = 1 <=> Bit(w, i) = 1
      BY <1>2 DEF Bits, Bit
    <3>2. Bit(v, i) \in {0, 1} /\ Bit(w, i) \in {0, 1}
      <4>1. i \in Nat
        BY Sizes
      <4>2. Pow2[i] \in Nat \ {0} /\ v \in Nat /\ w \in Nat
        BY <4>1, Sizes, PowerNat DEF Word
      <4>3. \A x \in Nat, p \in Nat \ {0} : (x \div p) % 2 \in {0, 1}
        BY SMT
      <4> QED
        BY <4>2, <4>3 DEF Bit
    <3> QED
      BY <3>1, <3>2
  <2> QED
    BY <2>1, Sizes, BitsTell DEF Word
<1>3. \A w \in Word : Bits(w) \in SUBSET (0 .. Width - 1)
  BY DEF Bits
<1>4. \A S \in SUBSET (0 .. Width - 1) : Number(S) \in Word /\ Bits(Number(S)) = S
  BY <1>1 DEF Number
<1>5. \A w \in Word : Number(Bits(w)) = w
  BY <1>2, <1>3, <1>4
<1> QED
  BY <1>3, <1>4, <1>5

\* What has no bits above a byte's is a byte, and the other way round.
LEMMA ByteBits ==
  /\ \A w \in Byte : Bits(w) \in SUBSET (0 .. ByteWidth - 1)
  /\ \A S \in SUBSET (0 .. ByteWidth - 1) : Number(S) \in Byte
<1>1. \A w \in Byte : \A i \in 0 .. Width - 1 : Bit(w, i) = 1 => i \in 0 .. ByteWidth - 1
  <2> SUFFICES ASSUME NEW w \in Byte, NEW i \in 0 .. Width - 1, i \notin 0 .. ByteWidth - 1
               PROVE  Bit(w, i) = 0
    OBVIOUS
  <2>1. i \in Nat /\ ByteWidth <= i
    BY Sizes
  <2> QED
    BY <2>1, Sizes, NoHighBits DEF Byte
<1>2. ASSUME NEW S \in SUBSET (0 .. ByteWidth - 1) PROVE Number(S) \in Byte
  <2>1. S \in SUBSET Nat /\ S \in SUBSET (0 .. Width - 1)
    BY Sizes
  <2>2. PICK w \in 0 .. Pow2[ByteWidth] - 1 :
             \A i \in 0 .. ByteWidth - 1 : Bit(w, i) = 1 <=> i \in S
    BY <2>1, Sizes, BitsMade
  <2>3. w \in Byte /\ w \in Word
    BY <2>2, Sizes DEF Byte
  <2>4. ASSUME NEW i \in 0 .. Width - 1 PROVE Bit(w, i) = 1 <=> i \in S
    BY <1>1, <2>2, <2>3, <2>4
  <2>5. Bits(w) = S
    BY <2>1, <2>4 DEF Bits, Bit
  <2>6. Number(S) = w
    BY <2>3, <2>5, NumberOfBits
  <2> QED
    BY <2>3, <2>6
<1> QED
  BY <1>1, <1>2 DEF Bits, Bit

\* What is masked twice is as it was.
LEMMA Xors ==
  /\ \A a, b \in Word : Xor(a, b) \in Word
  /\ \A a, b \in Byte : Xor(a, b) \in Byte /\ Xor(Xor(a, b), b) = a
<1>1. ASSUME NEW a \in Word, NEW b \in Word
      PROVE  Xor(a, b) \in Word /\ Bits(Xor(a, b)) = (Bits(a) \ Bits(b)) \cup (Bits(b) \ Bits(a))
  BY NumberOfBits DEF Xor
<1>2. ASSUME NEW a \in Byte, NEW b \in Byte PROVE Xor(a, b) \in Byte
  BY ByteBits DEF Xor
<1>3. ASSUME NEW a \in Byte, NEW b \in Byte PROVE Xor(Xor(a, b), b) = a
  <2> DEFINE x == Xor(a, b)
  <2>1. a \in Word /\ b \in Word
    BY Sizes
  <2>2. x \in Word /\ Bits(x) = (Bits(a) \ Bits(b)) \cup (Bits(b) \ Bits(a))
    BY <1>1, <2>1
  <2> HIDE DEF x
  <2>3. (Bits(x) \ Bits(b)) \cup (Bits(b) \ Bits(x)) = Bits(a)
    BY <2>2
  <2>4. Xor(x, b) = Number(Bits(a))
    BY <2>3 DEF Xor
  <2> QED
    BY <2>1, <2>4, NumberOfBits DEF x
<1> QED
  BY <1>1, <1>2, <1>3

\* What the instructions make of words are words.
LEMMA ResultWord ==
  ASSUME NEW op \in Binary, NEW a \in Word, NEW b \in Word
  PROVE  Result(op, a, b) \in Word
<1> DEFINE p == Pow2[Width]
<1>1. \A x \in Int : x % p \in Word
  <2>1. p \in Nat \ {0}
    BY Sizes
  <2> QED
    BY <2>1 DEF Word
<1>2. a + b \in Int /\ b - a \in Int
  BY DEF Word
<1>3. Number(Bits(a) \cap Bits(b)) \in Word /\ Number(Bits(a) \cup Bits(b)) \in Word
  BY NumberOfBits
<1>4. Xor(a, b) \in Word
  BY Xors
<1>5. (a + b) % Pow2[Width] \in Word /\ (b - a) % Pow2[Width] \in Word
  BY <1>1, <1>2
<1>6. op = "xor" \/ op = "add" \/ op = "sub" \/ op = "and" \/ op = "or"
  BY DEF Binary
<1> QED
  BY <1>3, <1>4, <1>5, <1>6 DEF Result

LEMMA RotatedWord ==
  ASSUME NEW w \in Word, NEW n \in Nat
  PROVE  RotateLeft(w, n) \in Word
<1>1. \A i \in Bits(w) : (i + n) % Width \in 0 .. Width - 1
  <2> SUFFICES ASSUME NEW i \in Bits(w) PROVE (i + n) % Width \in 0 .. Width - 1
    OBVIOUS
  <2>1. i + n \in Nat /\ Width \in Nat \ {0}
    BY Sizes, WidthAssumption DEF Bits
  <2>2. \A x \in Nat, d \in Nat \ {0} : x % d \in 0 .. d - 1
    BY SMT
  <2> QED
    BY <2>1, <2>2
<1>2. {(i + n) % Width : i \in Bits(w)} \in SUBSET (0 .. Width - 1)
  BY <1>1
<1> QED
  BY <1>2, NumberOfBits DEF RotateLeft

-----------------------------------------------------------------------------
(* The end of the stack.                                                   *)

USE DEF sp, Room

\* Between turns, a program not yet rejected has room for one more cell.
RoomInv == outcome = "running" /\ ok => Room

\* A turn that ends in acceptance has looked at the stack it leaves.
LEMMA TurnLeavesRoom ==
  ASSUME NEW i, NEW valid, NEW s, Turn(i, valid, s)
  PROVE  (ok' => Room') /\ outcome' # "panicked"
  BY DEF Turn, Fits

LEMMA ExecStep ==
  ASSUME RoomInv, OverflowForeseen, NEW i, Exec(i), UNCHANGED sealed
  PROVE  RoomInv' /\ OverflowForeseen'
<1> USE DEF RoomInv, OverflowForeseen, Exec, Panic
<1>1. CASE Push(i)
  BY <1>1, TurnLeavesRoom DEF Push
<1>2. CASE Dup(i)
  <2>1. CASE sp = 0
    <3>1. outcome' = "panicked" /\ sp' = 0
      BY <1>2, <2>1 DEF Dup
    <3> QED
      BY <3>1
  <2>2. CASE sp # 0
    BY <1>2, <2>2, TurnLeavesRoom DEF Dup
  <2> QED
    BY <2>1, <2>2
<1>3. CASE Swap(i)
  BY <1>3, TurnLeavesRoom DEF Swap
<1>4. CASE Drop(i)
  BY <1>4, TurnLeavesRoom DEF Drop
<1>5. CASE Combine(i)
  BY <1>5, TurnLeavesRoom DEF Combine
<1>6. CASE Not(i)
  <2>1. CASE sp = 0
    <3>1. outcome' = "panicked" /\ sp' = 0
      BY <1>6, <2>1 DEF Not
    <3> QED
      BY <3>1
  <2>2. CASE sp # 0
    BY <1>6, <2>2, TurnLeavesRoom DEF Not
  <2> QED
    BY <2>1, <2>2
<1>7. CASE Rotate(i)
  BY <1>7, TurnLeavesRoom DEF Rotate
<1>8. CASE WriteMem(i)
  BY <1>8, TurnLeavesRoom DEF WriteMem
<1>9. CASE Skip(i) \/ Unknown(i)
  BY <1>9, TurnLeavesRoom DEF Skip, Unknown
<1>10. CASE Halt(i)
  BY <1>10 DEF Halt
<1> QED
  BY <1>1, <1>2, <1>3, <1>4, <1>5, <1>6, <1>7, <1>8, <1>9, <1>10

\* A push beyond the end of the stack, which aborts, comes only after the
\* check at the end of a turn has rejected the program (src/rustyvm.rs).
THEOREM OverflowForeseenHolds == Spec => []OverflowForeseen
<1>1. Init => RoomInv /\ OverflowForeseen
  BY DepthAssumption DEF Init, VmInit, RoomInv, OverflowForeseen
<1>2. RoomInv /\ OverflowForeseen /\ [Next]_vars
        => RoomInv' /\ OverflowForeseen'
  <2> SUFFICES ASSUME RoomInv, OverflowForeseen, [Next]_vars
               PROVE  RoomInv' /\ OverflowForeseen'
    OBVIOUS
  <2>1. CASE Sealed
    BY <2>1, ExecStep DEF Sealed
  <2>2. ASSUME ~sealed, UNCHANGED sealed, NEW i \in Instrs, Exec(i)
        PROVE  RoomInv' /\ OverflowForeseen'
    BY <2>2, ExecStep
  <2>3. CASE Arbitrary /\ RunOut
    BY <2>3 DEF RunOut, RoomInv, OverflowForeseen
  <2>4. CASE UNCHANGED vars
    BY <2>4 DEF vars, vmVars, RoomInv, OverflowForeseen
  <2> QED
    BY <2>1, <2>2, <2>3, <2>4 DEF Next, Arbitrary
<1> QED
  BY <1>1, <1>2, PTL DEF Spec

-----------------------------------------------------------------------------
(* Types.                                                                  *)

\* What gen_vm_program writes.
Written ==
  [op : Fillers \cup {"xor", "halt"}, arg : {0}]
  \cup [op : {"pushkey", "wrmem"}, arg : 0 .. Cells - 1]
  \cup [op : {"push1"}, arg : Byte]

\* An instruction whose operand, if it is there, is one it may have.
Proper(i) ==
  /\ i.arg \in Int
  /\ i.op \in {"push1", "push8"} /\ i.arg # Cut => i.arg \in Word
  /\ i.op \in Rotations /\ i.arg # Cut => i.arg \in Nat

\* A turn of the interpreter that leaves words on the stack, and bytes in the
\* output.
Turned == stack' \in Seq(Word) /\ Len(stack') <= Depth /\ out' \in [Index -> Byte]

\* The upper n cells are replaced by one word, or by none.
LEMMA ReplacedWords ==
  ASSUME VmTypeOK, NEW n \in 0 .. sp, NEW s \in Seq(Word)
  PROVE  /\ Replace(n, s) \in Seq(Word)
         /\ Len(Replace(n, s)) = sp - n + Len(s)
<1> DEFINE m == sp - n
<1>1. m \in Nat /\ m <= sp /\ m \in Int /\ sp \in Nat
  BY LenProperties DEF VmTypeOK
<1>2. \A i \in 1 .. m : stack[i] \in Word
  BY <1>1, ElementOfSeq DEF VmTypeOK
<1> HIDE DEF m
<1>3. SubSeq(stack, 1, m) \in Seq(Word)
  BY <1>1, <1>2, SubSeqProperties
<1>4. Len(SubSeq(stack, 1, m)) = m
  <2>1. Len(SubSeq(stack, 1, m)) = IF 1 <= m THEN m - 1 + 1 ELSE 0
    BY <1>1, <1>2, SubSeqProperties
  <2> QED
    BY <1>1, <2>1
<1> DEFINE t == SubSeq(stack, 1, m)
<1> HIDE DEF t
<1>5. t \in Seq(Word) /\ Len(t) = m
  BY <1>3, <1>4 DEF t
<1>6. t \o s \in Seq(Word) /\ Len(t \o s) = m + Len(s)
  BY <1>5, ConcatProperties
<1> QED
  BY <1>6 DEF Replace, t, m

LEMMA Cell ==
  ASSUME VmTypeOK
  PROVE  /\ sp \in Nat /\ sp <= Depth /\ Depth \in Nat
         /\ sp > 0 => Top \in Word
         /\ sp > 1 => Below \in Word
<1>1. stack \in Seq(Word) /\ sp \in Nat /\ sp <= Depth /\ Depth \in Nat
  BY LenProperties, DepthAssumption DEF VmTypeOK
<1>2. \A i \in 1 .. sp : stack[i] \in Word
  BY <1>1, ElementOfSeq
<1> QED
  BY <1>1, <1>2 DEF Top, Below

LEMMA ExecTyped ==
  ASSUME VmTypeOK, NEW i, Proper(i), Exec(i)
  PROVE  VmTypeOK'
<1> DEFINE Ends == ok' \in BOOLEAN /\ outcome' \in {"running", "returned", "panicked"}
<1>0. /\ stack \in Seq(Word) /\ Len(stack) <= Depth /\ ok \in BOOLEAN
      /\ out \in [Index -> Byte] /\ material \in [Index -> Byte]
      /\ sp \in Nat /\ Depth \in Nat
      /\ \A s \in Seq(Word) : Len(s) \in Nat
  BY Cell, LenProperties DEF VmTypeOK
<1>t. ASSUME NEW valid \in BOOLEAN, NEW s \in Seq(Word), Len(s) <= Depth, Turn(i, valid, s)
      PROVE  stack' \in Seq(Word) /\ Len(stack') <= Depth /\ Ends
  BY <1>0, <1>t DEF Turn, Fits
<1>p. CASE Panic
  BY <1>0, <1>p DEF Panic, Exec, VmTypeOK
<1> SUFFICES ASSUME ~Panic PROVE Turned /\ Ends
  BY <1>0, <1>p DEF Turned, VmTypeOK, Exec
<1> HIDE DEF Ends
<1> USE DEF Turned
<1>w. ASSUME NEW w \in Word
      PROVE  <<w>> \in Seq(Word) /\ Len(<<w>>) = 1
  OBVIOUS
<1>1. CASE Push(i)
  <2> DEFINE valid == i.arg # Cut /\ (i.op = "pushkey" => i.arg + 1 \in Index)
             value == IF i.op = "pushkey" THEN material[i.arg + 1] ELSE i.arg
             s == IF valid THEN Append(stack, value) ELSE stack
  <2>1. Room /\ Turn(i, valid, s) /\ out' = out
    BY <1>1 DEF Push
  <2>2. valid => value \in Word
    <3>1. CASE i.op = "pushkey"
      <4>1. valid => material[i.arg + 1] \in Byte
        BY <1>0, <3>1
      <4> QED
        BY <3>1, <4>1, Sizes
    <3>2. CASE i.op # "pushkey"
      BY <1>1, <3>2 DEF Push, Pushes, Proper
    <3> QED
      BY <3>1, <3>2
  <2>3. valid \in BOOLEAN
    OBVIOUS
  <2>4. s \in Seq(Word) /\ Len(s) <= Depth
    <3> HIDE DEF valid, value
    <3>1. CASE valid
      <4>1. Append(stack, value) \in Seq(Word) /\ Len(Append(stack, value)) = sp + 1
        BY <1>0, <2>2, <3>1
      <4> QED
        BY <1>0, <2>1, <3>1, <4>1
    <3>2. CASE ~valid
      BY <1>0, <3>2
    <3> QED
      BY <3>1, <3>2
  <2> HIDE DEF valid, s
  <2> QED
    BY <1>0, <1>t, <2>1, <2>3, <2>4
<1>2. CASE Dup(i)
  <2>a. ~(sp = 0 \/ ~Room) /\ Turn(i, TRUE, Append(stack, Top)) /\ out' = out
    BY <1>2, Zenon DEF Dup
  <2>1. sp > 0 /\ Room /\ sp + 1 <= Depth
    BY <1>0, <2>a
  <2>2. Append(stack, Top) \in Seq(Word) /\ Len(Append(stack, Top)) = sp + 1
    BY <1>0, <2>1, Cell
  <2> DEFINE s == Append(stack, Top)
  <2>3. s \in Seq(Word) /\ Len(s) <= Depth /\ Turn(i, TRUE, s)
    BY <2>1, <2>2, <2>a
  <2> HIDE DEF s
  <2> QED
    BY <1>0, <1>t, <2>a, <2>3
<1>3. CASE Swap(i)
  <2>a. ~(sp < 2) /\ Turn(i, TRUE, Replace(2, <<Top, Below>>)) /\ out' = out
    BY <1>3, Zenon DEF Swap
  <2>1. sp >= 2
    BY <1>0, <2>a
  <2>2. <<Top, Below>> \in Seq(Word) /\ Len(<<Top, Below>>) = 2
    BY <2>1, <1>0, Cell
  <2>3. Replace(2, <<Top, Below>>) \in Seq(Word) /\ Len(Replace(2, <<Top, Below>>)) <= Depth
    <3> DEFINE n == 2
               t == <<Top, Below>>
    <3>1. n \in 0 .. sp /\ t \in Seq(Word) /\ Len(t) = n
      BY <1>0, <2>1, <2>2
    <3> HIDE DEF n, t
    <3>2. Replace(n, t) \in Seq(Word) /\ Len(Replace(n, t)) = sp - n + Len(t)
      BY <3>1, ReplacedWords
    <3>3. Len(Replace(n, t)) = sp
      BY <1>0, <3>1, <3>2
    <3> QED
      BY <1>0, <3>2, <3>3 DEF n, t
  <2> DEFINE s == Replace(2, <<Top, Below>>)
  <2>4. s \in Seq(Word) /\ Len(s) <= Depth /\ Turn(i, TRUE, s)
    BY <2>a, <2>3
  <2> HIDE DEF s
  <2> QED
    BY <1>0, <1>t, <2>a, <2>4
<1>n. ASSUME NEW n \in 1 .. sp, NEW w \in Word
      PROVE  Replace(n, <<w>>) \in Seq(Word) /\ Len(Replace(n, <<w>>)) <= Depth
  <2> DEFINE t == <<w>>
  <2>1. n \in 0 .. sp /\ t \in Seq(Word) /\ Len(t) = 1
    BY <1>w, <1>0
  <2> HIDE DEF t
  <2>2. Replace(n, t) \in Seq(Word) /\ Len(Replace(n, t)) = sp - n + Len(t)
    BY <2>1, ReplacedWords
  <2>3. Len(Replace(n, t)) <= Depth
    BY <1>0, <2>1, <2>2
  <2> QED
    BY <2>2, <2>3 DEF t
<1>e. ASSUME sp > 0
      PROVE  Replace(1, <<>>) \in Seq(Word) /\ Len(Replace(1, <<>>)) <= Depth
  <2> DEFINE n == 1
             t == <<>>
  <2>1. n \in 0 .. sp /\ t \in Seq(Word) /\ Len(t) = 0
    BY <1>0, <1>e, EmptySeq
  <2> HIDE DEF n, t
  <2>2. Replace(n, t) \in Seq(Word) /\ Len(Replace(n, t)) = sp - n + Len(t)
    BY <2>1, ReplacedWords
  <2>3. Len(Replace(n, t)) <= Depth
    BY <1>0, <2>1, <2>2
  <2> QED
    BY <2>2, <2>3 DEF n, t
<1>4. CASE Drop(i)
  <2> DEFINE s == IF sp > 0 THEN Replace(1, <<>>) ELSE stack
             valid == sp > 0
  <2>1. s \in Seq(Word) /\ Len(s) <= Depth /\ valid \in BOOLEAN
    BY <1>0, <1>e
  <2>2. Turn(i, valid, s) /\ out' = out
    BY <1>4 DEF Drop
  <2> HIDE DEF s, valid
  <2> QED
    BY <1>0, <1>t, <2>1, <2>2
<1>5. CASE Combine(i)
  <2>a. ~(sp < 2) /\ i.op \in Binary
        /\ Turn(i, TRUE, Replace(2, <<Result(i.op, Top, Below)>>)) /\ out' = out
    BY <1>5, Zenon DEF Combine
  <2>1. sp >= 2
    BY <1>0, <2>a
  <2> DEFINE w == Result(i.op, Top, Below)
             s == Replace(2, <<w>>)
  <2>2. w \in Word
    BY <1>0, <2>1, <2>a, Cell, ResultWord
  <2>3. 2 \in 1 .. sp
    BY <1>0, <2>1
  <2>4. Turn(i, TRUE, s)
    BY <2>a
  <2>5. s \in Seq(Word) /\ Len(s) <= Depth
    <3> HIDE DEF w
    <3> QED
      BY <1>n, <2>2, <2>3
  <2> HIDE DEF s
  <2> QED
    BY <1>0, <1>t, <2>a, <2>4, <2>5
<1>6. CASE Not(i)
  <2> DEFINE w == Pow2[Width] - 1 - Top
             s == Replace(1, <<w>>)
  <2>a. sp # 0 /\ Turn(i, TRUE, s) /\ out' = out
    BY <1>6, Zenon DEF Not
  <2>1. sp > 0
    BY <1>0, <2>a
  <2>2. w \in Word
    BY <2>1, Cell, Sizes DEF Word
  <2>3. 1 \in 1 .. sp
    BY <1>0, <2>1
  <2>4. s \in Seq(Word) /\ Len(s) <= Depth
    <3> HIDE DEF w
    <3> QED
      BY <1>n, <2>2, <2>3
  <2> HIDE DEF s
  <2> QED
    BY <1>0, <1>t, <2>a, <2>4
<1>7. CASE Rotate(i)
  <2> DEFINE n == IF i.arg = Cut THEN 0
                  ELSE IF i.op = "rotl" THEN i.arg % Width
                  ELSE (Width - (i.arg % Width)) % Width
             w == RotateLeft(Top, n)
             s == Replace(1, <<w>>)
             valid == i.arg # Cut
  <2>1. sp > 0 /\ Turn(i, valid, s) /\ out' = out /\ i.op \in Rotations
    BY <1>0, <1>7 DEF Rotate
  <2>2. n \in Nat
    <3>1. i.arg # Cut => i.arg \in Nat
      BY <2>1 DEF Proper
    <3>2. \A x \in Nat, d \in Nat \ {0} : x % d \in Nat /\ (d - (x % d)) % d \in Nat
      BY SMT
    <3>3. Width \in Nat \ {0}
      BY WidthAssumption
    <3>4. i.arg # Cut => i.arg % Width \in Nat /\ (Width - (i.arg % Width)) % Width \in Nat
      BY <3>1, <3>2, <3>3
    <3> QED
      BY <3>4
  <2>3. w \in Word
    <3> HIDE DEF n
    <3> QED
      BY <2>1, <2>2, Cell, RotatedWord
  <2>4. 1 \in 1 .. sp /\ valid \in BOOLEAN
    BY <1>0, <2>1
  <2> HIDE DEF w
  <2>5. s \in Seq(Word) /\ Len(s) <= Depth
    BY <1>n, <2>3, <2>4
  <2> HIDE DEF s, valid
  <2> QED
    BY <1>0, <1>t, <2>1, <2>4, <2>5
<1>8. CASE WriteMem(i)
  <2> DEFINE valid == i.arg + 1 \in Index /\ sp > 0
             s == IF sp > 0 THEN Replace(1, <<>>) ELSE stack
             b == Top % Pow2[ByteWidth]
  <2>1. Turn(i, valid, s) /\ out' = IF valid THEN [out EXCEPT ![i.arg + 1] = b] ELSE out
    BY <1>8 DEF WriteMem
  <2>2. s \in Seq(Word) /\ Len(s) <= Depth /\ valid \in BOOLEAN
    BY <1>0, <1>e
  <2>3. sp > 0 => b \in Byte
    <3>1. \A x \in Nat, d \in Nat \ {0} : x % d \in 0 .. d - 1
      BY SMT
    <3>2. sp > 0 => Top \in Nat
      BY Cell, Sizes DEF Word
    <3> QED
      BY <3>1, <3>2, Sizes DEF Byte
  <2>4. out' \in [Index -> Byte]
    <3> HIDE DEF b
    <3> QED
      BY <1>0, <2>1, <2>3
  <2> HIDE DEF valid, s
  <2> QED
    BY <1>t, <2>1, <2>2, <2>4
<1>9. CASE Skip(i) \/ Unknown(i)
  <2> DEFINE valid == IF Skip(i) THEN i.arg # Cut ELSE FALSE
  <2>1. valid \in BOOLEAN /\ out' = out /\ Turn(i, valid, stack)
    BY <1>9 DEF Skip, Unknown
  <2> HIDE DEF valid
  <2> QED
    BY <1>0, <1>t, <2>1
<1>10. CASE Halt(i)
  BY <1>0, <1>10 DEF Halt, Ends
<1> QED
  BY <1>1, <1>2, <1>3, <1>4, <1>5, <1>6, <1>7, <1>8, <1>9, <1>10 DEF Exec

-----------------------------------------------------------------------------
(* The sealed program.                                                     *)

\* What is written for each byte, and how many instructions come before those
\* of byte c.
Blocks(k, m, junk) == [c \in Index |-> Block(k, m, c, junk[c])]
Start(k, m, junk, c) == Len(FlattenSeq(SubSeq(Blocks(k, m, junk), 1, c - 1)))

LEMMA FlattenSame == \A s : Doubling!FlattenSeq(s) = FlattenSeq(s)
BY DEF FlattenSeq, Doubling!FlattenSeq

LEMMA AppendToOne == ASSUME NEW a, NEW b PROVE Append(<<a>>, b) = <<a, b>>
<1> DEFINE S == {a, b}
           s == <<a>>
           t == <<a, b>>
           u == Append(s, b)
<1>1. s \in Seq(S) /\ b \in S /\ Len(s) = 1 /\ s[1] = a
  OBVIOUS
<1>2. t \in Seq(S) /\ Len(t) = 2 /\ t[1] = a /\ t[2] = b
  OBVIOUS
<1> HIDE DEF S, s, t
<1>3. /\ u \in Seq(S) /\ Len(u) = Len(s) + 1
      /\ \A j \in 1 .. Len(s) : u[j] = s[j]
      /\ u[Len(s) + 1] = b
  <2>1. s \in Seq(S) /\ b \in S
    BY <1>1
  <2> QED
    BY <2>1, AppendProperties
<1>4. Len(u) = 2 /\ u[1] = a /\ u[2] = b
  BY <1>1, <1>3
<1> HIDE DEF u
<1>5. \A j \in 1 .. Len(u) : u[j] = t[j]
  <2>1. \A j \in 1 .. 2 : j = 1 \/ j = 2
    OBVIOUS
  <2> QED
    BY <1>2, <1>4, <2>1
<1>6. Len(u) = Len(t)
  BY <1>2, <1>4
<1>7. u = t
  BY <1>2, <1>3, <1>5, <1>6, SeqEqual
<1> QED
  BY <1>7 DEF u, s, t

LEMMA Joined ==
  ASSUME NEW S, NEW s \in Seq(S), NEW t \in Seq(S), NEW u, u = s \o t
  PROVE  /\ u \in Seq(S) /\ Len(u) = Len(s) + Len(t) /\ Len(s) \in Nat
         /\ \A j \in 1 .. Len(s) : u[j] = s[j]
         /\ \A j \in 1 .. Len(t) : u[Len(s) + j] = t[j]
BY ConcatProperties, LenProperties

LEMMA BlockSays ==
  ASSUME NEW k \in [Index -> Byte], NEW m \in [Index -> Byte], NEW c \in Index, NEW q \in Nat
  PROVE  LET b == Block(k, m, c, q)
         IN  /\ b \in Seq(Written) /\ Len(b) \in {q + 4, q + 5}
             /\ \A j \in 1 .. q : b[j] = Instr("obfuscation", 0)
             /\ b[q + 1] = Instr("pushkey", c - 1)
             /\ b[q + 2] = Instr("push1", Mask(k[c], m[c]))
             /\ b[q + 3] = Instr("xor", 0)
             /\ b[q + 4] = Instr("wrmem", c - 1)
             /\ Len(b) = q + 5 => b[q + 5] = Instr("label", 0)
<1> DEFINE junk == [j \in 1 .. q |-> Instr("obfuscation", 0)]
           i1 == Instr("pushkey", c - 1)
           i2 == Instr("push1", Mask(k[c], m[c]))
           i3 == Instr("xor", 0)
           i4 == Instr("wrmem", c - 1)
           last == Instr("label", 0)
           core == <<i1, i2, i3, i4>>
           end == IF c \in {Cells \div 2, Cells} THEN <<last>> ELSE <<>>
<1>1. Block(k, m, c, q) = (junk \o core) \o end
  BY DEF Block
<1>2. /\ Instr("obfuscation", 0) \in Written /\ i3 \in Written /\ last \in Written
      /\ i1 \in Written /\ i4 \in Written
  BY DepthAssumption DEF Written, Instr, Fillers, Index
<1>3. i2 \in Written
  <2>1. Mask(k[c], m[c]) \in Byte
    BY Xors DEF Mask
  <2> QED
    BY <2>1 DEF Written, Instr
<1>4. junk \in Seq(Written) /\ Len(junk) = q /\ \A j \in 1 .. q : junk[j] = Instr("obfuscation", 0)
  <2> HIDE DEF i1, i2, i3, i4, last
  <2> QED
    BY <1>2
<1> HIDE DEF junk, i1, i2, i3, i4, last
<1>5. core \in Seq(Written) /\ Len(core) = 4
      /\ core[1] = i1 /\ core[2] = i2 /\ core[3] = i3 /\ core[4] = i4
  BY <1>2, <1>3
<1>6. end \in Seq(Written) /\ Len(end) \in {0, 1} /\ (Len(end) = 1 => end[1] = last)
  BY <1>2
<1> HIDE DEF core, end
<1> DEFINE front == junk \o core
           b == front \o end
<1>7. /\ front \in Seq(Written) /\ Len(front) = q + 4
      /\ \A j \in 1 .. q : front[j] = Instr("obfuscation", 0)
      /\ front[q + 1] = i1 /\ front[q + 2] = i2 /\ front[q + 3] = i3 /\ front[q + 4] = i4
  <2>1. /\ front \in Seq(Written) /\ Len(front) = Len(junk) + Len(core)
        /\ \A j \in 1 .. Len(junk) : front[j] = junk[j]
        /\ \A j \in 1 .. Len(core) : front[Len(junk) + j] = core[j]
    <3>1. front = junk \o core
      OBVIOUS
    <3>2. junk \in Seq(Written) /\ core \in Seq(Written)
      BY <1>4, <1>5
    <3> HIDE DEF front, b
    <3> QED
      BY <3>1, <3>2, Joined
  <2> HIDE DEF front
  <2>2. Len(front) = q + 4 /\ \A j \in 1 .. q : front[j] = Instr("obfuscation", 0)
    BY <1>4, <1>5, <2>1
  <2>3. \A j \in 1 .. 4 : front[q + j] = core[j]
    BY <1>4, <1>5, <2>1
  <2> QED
    BY <1>5, <2>1, <2>2, <2>3
<1>8. /\ b \in Seq(Written) /\ Len(b) = Len(front) + Len(end)
      /\ \A j \in 1 .. Len(front) : b[j] = front[j]
      /\ \A j \in 1 .. Len(end) : b[Len(front) + j] = end[j]
  <2>1. b = front \o end
    OBVIOUS
  <2>2. front \in Seq(Written) /\ end \in Seq(Written)
    BY <1>6, <1>7
  <2> HIDE DEF front, b
  <2> QED
    BY <2>1, <2>2, Joined
<1>9. b = Block(k, m, c, q)
  BY <1>1
<1> HIDE DEF b, front
<1>10. /\ Len(b) \in {q + 4, q + 5} /\ (Len(b) = q + 5 => Len(end) = 1)
       /\ \A j \in 1 .. q + 4 : b[j] = front[j]
  <2>1. Len(b) = q + 4 + Len(end)
    BY <1>7, <1>8
  <2>2. \A j \in 1 .. q + 4 : b[j] = front[j]
    BY <1>7, <1>8
  <2>3. Len(end) = 0 \/ Len(end) = 1
    BY <1>6
  <2> DEFINE n == Len(b)
             e == Len(end)
  <2>4. n = q + 4 + e /\ (e = 0 \/ e = 1)
    BY <2>1, <2>3
  <2> HIDE DEF n, e
  <2>5. n \in {q + 4, q + 5} /\ (n = q + 5 => e = 1)
    BY <2>4
  <2> QED
    BY <2>2, <2>5 DEF n, e
<1>11. Len(end) = 1 => b[q + 5] = last
  <2> SUFFICES ASSUME Len(end) = 1 PROVE b[q + 5] = last
    OBVIOUS
  <2>1. 1 \in 1 .. Len(end) /\ Len(front) + 1 = q + 5
    BY <1>7
  <2> QED
    BY <1>6, <1>8, <2>1
<1>12. /\ \A j \in 1 .. q : b[j] = Instr("obfuscation", 0)
       /\ b[q + 1] = i1 /\ b[q + 2] = i2 /\ b[q + 3] = i3 /\ b[q + 4] = i4
  <2>1. /\ q + 1 \in 1 .. q + 4 /\ q + 2 \in 1 .. q + 4 /\ q + 3 \in 1 .. q + 4
        /\ q + 4 \in 1 .. q + 4 /\ \A j \in 1 .. q : j \in 1 .. q + 4
    OBVIOUS
  <2> QED
    BY <1>7, <1>10, <2>1
<1> QED
  BY <1>8, <1>9, <1>10, <1>11, <1>12 DEF i1, i2, i3, i4, last

LEMMA ProgramSays ==
  ASSUME NEW k \in [Index -> Byte], NEW m \in [Index -> Byte],
         NEW junk \in [Index -> 1 .. JunkMax]
  PROVE  LET p == Generated(k, m, junk)
         IN  /\ p \in Seq(Written) /\ Start(k, m, junk, 1) = 0
             /\ Len(p) = Start(k, m, junk, Cells + 1) + 1
             /\ p[Len(p)] = Instr("halt", 0)
             /\ \A c \in Index :
                  LET b == Block(k, m, c, junk[c])
                  IN  /\ Start(k, m, junk, c) \in Nat
                      /\ Start(k, m, junk, c + 1) = Start(k, m, junk, c) + Len(b)
                      /\ \A j \in 1 .. Len(b) : p[Start(k, m, junk, c) + j] = b[j]
<1> DEFINE s == Blocks(k, m, junk)
           f == FlattenSeq(s)
           halt == <<Instr("halt", 0)>>
           S == Seq(Written)
<1>1. \A c \in Index : junk[c] \in Nat /\ Block(k, m, c, junk[c]) \in S
  BY BlockSays, JunkAssumption
<1>2. s \in Seq(S) /\ Len(s) = Cells /\ \A c \in Index : s[c] = Block(k, m, c, junk[c])
  <2> HIDE DEF S
  <2>1. Cells \in Nat
    BY DepthAssumption
  <2> QED
    BY <1>1, <2>1 DEF Blocks, Index
<1>3. f \in Seq(Written)
  <2> HIDE DEF s
  <2> QED
    BY <1>2, FlattenSame, Doubling!FlattenTyped
<1>4. halt \in Seq(Written) /\ Len(halt) = 1 /\ halt[1] = Instr("halt", 0)
  BY DEF Written, Instr
<1>5. Generated(k, m, junk) = f \o halt
  BY DEF Generated, Blocks
<1>6. Start(k, m, junk, 1) = 0
  <2> DEFINE z == 1 - 1
  <2>1. z = 0
    OBVIOUS
  <2>2. SubSeq(s, 1, z) = <<>>
    <3> HIDE DEF s
    <3> QED
      BY SubSeqEmpty
  <2>3. FlattenSeq(SubSeq(s, 1, z)) = <<>>
    <3> HIDE DEF s, z
    <3> QED
      BY <2>2, FlattenSame, Doubling!FlattenNone
  <2> QED
    BY <2>3 DEF Start
<1>7. Start(k, m, junk, Cells + 1) = Len(f)
  <2> DEFINE e == Cells + 1
             z == e - 1
  <2>1. z = Len(s) /\ e = Cells + 1
    BY <1>2, DepthAssumption
  <2>2. SubSeq(s, 1, z) = s
    <3> HIDE DEF s, z, S
    <3> QED
      BY <1>2, <2>1, SubSeqFull
  <2>3. Start(k, m, junk, e) = Len(FlattenSeq(SubSeq(s, 1, z)))
    <3> HIDE DEF e
    <3> QED
      BY DEF Start
  <2> HIDE DEF s, z, e
  <2> QED
    BY <2>1, <2>2, <2>3
<1>8. ASSUME NEW c \in Index
      PROVE  /\ Start(k, m, junk, c) \in Nat
             /\ Start(k, m, junk, c + 1) = Start(k, m, junk, c) + Len(s[c])
             /\ \A j \in 1 .. Len(s[c]) : /\ Start(k, m, junk, c) + j \in 1 .. Len(f)
                                         /\ f[Start(k, m, junk, c) + j] = s[c][j]
  <2>1. c \in 1 .. Len(s)
    BY <1>2 DEF Index
  <2> DEFINE before == Len(FlattenSeq(SubSeq(s, 1, c - 1)))
             with == Len(FlattenSeq(SubSeq(s, 1, c)))
  <2>2. /\ before \in Nat /\ with = before + Len(s[c])
        /\ \A j \in 1 .. Len(s[c]) : before + j \in 1 .. Len(f) /\ f[before + j] = s[c][j]
    <3> HIDE DEF s
    <3>1. LET x == Len(Doubling!FlattenSeq(SubSeq(s, 1, c - 1)))
          IN  /\ x \in Nat
              /\ Len(Doubling!FlattenSeq(SubSeq(s, 1, c))) = x + Len(s[c])
              /\ \A j \in 1 .. Len(s[c]) :
                   /\ x + j \in 1 .. Len(Doubling!FlattenSeq(s))
                   /\ Doubling!FlattenSeq(s)[x + j] = s[c][j]
      BY <1>2, <2>1, Doubling!FlattenAt
    <3> QED
      BY <3>1, FlattenSame
  <2>3. Start(k, m, junk, c) = before
    BY DEF Start
  <2>4. Start(k, m, junk, c + 1) = with
    <3>1. c + 1 - 1 = c
      BY <2>1
    <3> QED
      BY <3>1 DEF Start
  <2> HIDE DEF s, f, before, with
  <2> QED
    BY <2>2, <2>3, <2>4
<1> HIDE DEF s, f, halt, S
<1> DEFINE p == f \o halt
<1>a. /\ p \in Seq(Written) /\ Len(p) = Len(f) + Len(halt) /\ Len(f) \in Nat
      /\ \A j \in 1 .. Len(f) : p[j] = f[j]
      /\ \A j \in 1 .. Len(halt) : p[Len(f) + j] = halt[j]
  <2>1. p = f \o halt
    OBVIOUS
  <2>2. f \in Seq(Written) /\ halt \in Seq(Written)
    BY <1>3, <1>4
  <2> HIDE DEF p
  <2> QED
    BY <2>1, <2>2, Joined
<1>10. p = Generated(k, m, junk)
  BY <1>5
<1> HIDE DEF p
<1>9. Len(p) = Len(f) + 1 /\ p[Len(f) + 1] = Instr("halt", 0)
  <2>1. 1 \in 1 .. Len(halt)
    BY <1>4
  <2> QED
    BY <1>4, <1>a, <2>1
<1>11. ASSUME NEW c \in Index
       PROVE  LET b == Block(k, m, c, junk[c])
              IN  /\ Start(k, m, junk, c) \in Nat
                  /\ Start(k, m, junk, c + 1) = Start(k, m, junk, c) + Len(b)
                  /\ \A j \in 1 .. Len(b) : p[Start(k, m, junk, c) + j] = b[j]
  <2>1. s[c] = Block(k, m, c, junk[c])
    BY <1>2
  <2>2. \A j \in 1 .. Len(s[c]) : p[Start(k, m, junk, c) + j] = s[c][j]
    BY <1>8, <1>a
  <2> QED
    BY <1>8, <2>1, <2>2
<1> QED
  BY <1>6, <1>7, <1>9, <1>a, <1>10, <1>11

-----------------------------------------------------------------------------
(* What its instructions do.                                               *)

Goes == ok' /\ outcome' = "running"

LEMMA GoesOn ==
  ASSUME NEW i, NEW s, Turn(i, TRUE, s), ok, Len(s) < Depth, i.arg # Cut
  PROVE  Goes /\ stack' = s
BY DEF Turn, Fits, Goes

USE DEF Pushes, Rotations, Fillers, Binary, Unary

LEMMA FillerRuns ==
  ASSUME NEW i, i.op \in Fillers, i.arg = 0, Exec(i), ok, sp < Depth
  PROVE  Goes /\ stack' = stack /\ out' = out
<1>1. Skip(i)
  BY DEF Exec, Push, Dup, Swap, Drop, Combine, Not, Rotate, WriteMem, Unknown, Halt
<1>2. i.arg # Cut
  BY DEF Cut
<1> QED
  BY <1>1, <1>2, GoesOn DEF Skip

LEMMA PushRuns ==
  ASSUME NEW i, i.op \in Pushes, i.arg \in Nat, i.op = "pushkey" => i.arg + 1 \in Index,
         Exec(i), ok, sp \in Nat, sp + 1 < Depth, Depth \in Nat, stack \in Seq(Word),
         NEW v \in Word, v = IF i.op = "pushkey" THEN material[i.arg + 1] ELSE i.arg
  PROVE  Goes /\ stack' = Append(stack, v) /\ out' = out
<1>1. Push(i)
  BY DEF Exec, Dup, Swap, Drop, Combine, Not, Rotate, WriteMem, Skip, Unknown, Halt
<1>2. i.arg # Cut /\ Room
  BY DEF Cut
<1>3. Turn(i, TRUE, Append(stack, v)) /\ out' = out
  BY <1>1, <1>2 DEF Push
<1>4. Len(Append(stack, v)) < Depth
  BY SMT
<1> QED
  BY <1>2, <1>3, <1>4, GoesOn

LEMMA XorRuns ==
  ASSUME NEW i, i.op = "xor", i.arg = 0, Exec(i), ok, NEW a \in Word, NEW b \in Word,
         stack = <<a, b>>, 1 < Depth
  PROVE  Goes /\ stack' = <<Xor(b, a)>> /\ out' = out
<1>1. Combine(i)
  BY DEF Exec, Push, Dup, Swap, Drop, Not, Rotate, WriteMem, Skip, Unknown, Halt
<1>2. sp = 2 /\ Top = b /\ Below = a
  BY DEF Top, Below
<1>3. Turn(i, TRUE, Replace(2, <<Result(i.op, Top, Below)>>)) /\ out' = out
  <2>1. ~(sp < 2)
    BY <1>2
  <2> QED
    BY <1>1, <2>1, Zenon DEF Combine
<1>4. Result(i.op, Top, Below) = Xor(b, a)
  BY <1>2 DEF Result
<1> DEFINE x == Xor(b, a)
<1>5. Replace(2, <<x>>) = <<x>>
  <2> HIDE DEF x
  <2>1. SubSeq(stack, 1, 2 - 2) = <<>>
    OBVIOUS
  <2>2. <<>> \o <<x>> = <<x>>
    OBVIOUS
  <2> QED
    BY <1>2, <2>1, <2>2 DEF Replace
<1>6. i.arg # Cut
  BY DEF Cut
<1>7. Turn(i, TRUE, <<x>>)
  BY <1>3, <1>4, <1>5
<1> HIDE DEF x
<1> DEFINE s == <<x>>
<1>8. Len(s) < Depth /\ Turn(i, TRUE, s)
  BY <1>7
<1> HIDE DEF s
<1>9. Goes /\ stack' = s
  BY <1>6, <1>8, GoesOn
<1> QED
  BY <1>3, <1>9 DEF s, x

LEMMA StoreRuns ==
  ASSUME NEW i, i.op = "wrmem", i.arg \in Nat, i.arg + 1 \in Index, Exec(i), ok,
         NEW a \in Byte, stack = <<a>>, 0 < Depth
  PROVE  Goes /\ stack' = <<>> /\ out' = [out EXCEPT ![i.arg + 1] = a]
<1>1. WriteMem(i)
  BY DEF Exec, Push, Dup, Swap, Drop, Combine, Not, Rotate, Skip, Unknown, Halt
<1>2. sp = 1 /\ Top = a /\ sp > 0
  BY DEF Top
<1>3. a % Pow2[ByteWidth] = a
  <2>1. \A d \in Nat \ {0} : \A x \in 0 .. d - 1 : x % d = x
    BY SMT
  <2> QED
    BY <2>1, Sizes DEF Byte
<1>4. Replace(1, <<>>) = <<>>
  <2>1. SubSeq(stack, 1, 1 - 1) = <<>>
    OBVIOUS
  <2> QED
    BY <1>2, <2>1 DEF Replace
<1>5. Turn(i, TRUE, <<>>) /\ out' = [out EXCEPT ![i.arg + 1] = a]
  BY <1>1, <1>2, <1>3, <1>4 DEF WriteMem
<1> DEFINE s == <<>>
<1>6. Len(s) < Depth /\ i.arg # Cut
  BY DEF Cut
<1>8. Turn(i, TRUE, s)
  BY <1>5
<1> HIDE DEF s
<1>7. Goes /\ stack' = s
  BY <1>6, <1>8, GoesOn
<1> QED
  BY <1>5, <1>7 DEF s

LEMMA HaltRuns ==
  ASSUME NEW i, i.op = "halt", Exec(i)
  PROVE  outcome' = "returned" /\ UNCHANGED <<stack, ok, out>>
BY DEF Exec, Push, Dup, Swap, Drop, Combine, Not, Rotate, WriteMem, Skip, Unknown, Halt

-----------------------------------------------------------------------------
(* The sealed program's run.                                               *)

\* What is on the stack n instructions after the fillers of byte c.
Loaded(k, m, c, n) ==
  CASE n = 2 -> <<m[c]>>
    [] n = 3 -> <<m[c], Mask(k[c], m[c])>>
    [] n = 4 -> <<k[c]>>
    [] OTHER -> <<>>

\* Instruction j of those for byte c is next: the bytes before are rebuilt.
AtByte(junk, c, j) ==
  /\ ip = Start(key, material, junk, c) + j
  /\ ok /\ outcome = "running"
  /\ stack = Loaded(key, material, c, j - junk[c])
  /\ \A d \in Index : d < c => out[d] = key[d]
  /\ j > junk[c] + 4 => out[c] = key[c]

\* The last instruction is next.
AtHalt == ip = Len(prog) /\ ok /\ outcome = "running" /\ out = key

AtEnd == ok /\ outcome = "returned" /\ out = key

RunInv(junk) ==
  /\ prog = Generated(key, material, junk)
  /\ \/ \E c \in Index : \E j \in 1 .. Len(Block(key, material, c, junk[c])) :
          AtByte(junk, c, j)
     \/ AtHalt
     \/ AtEnd

\* The sealed program is somewhere on its way, and has done what lies behind.
SealInv == sealed => \E junk \in [Index -> 1 .. JunkMax] : RunInv(junk)

\* Before its first instruction nothing of a byte is on the stack.
LEMMA BlockOpens ==
  ASSUME NEW k \in [Index -> Byte], NEW m \in [Index -> Byte], NEW c \in Index,
         NEW q \in Nat, q > 0
  PROVE  /\ 1 \in 1 .. Len(Block(k, m, c, q))
         /\ Loaded(k, m, c, 1 - q) = <<>> /\ ~(1 > q + 4)
<1> DEFINE n == Len(Block(k, m, c, q))
<1>1. n = q + 4 \/ n = q + 5
  BY BlockSays
<1> HIDE DEF n
<1>2. 1 \in 1 .. n /\ 1 - q # 2 /\ 1 - q # 3 /\ 1 - q # 4 /\ ~(1 > q + 4)
  BY <1>1
<1>3. Loaded(k, m, c, 1 - q) = <<>>
  BY <1>2 DEF Loaded
<1> QED
  BY <1>2, <1>3 DEF n

\* An instruction for byte c takes it further.
LEMMA ByteStep ==
  ASSUME TypeOK, TypeOK', Depth >= 3,
         NEW junk \in [Index -> 1 .. JunkMax], prog = Generated(key, material, junk),
         NEW c \in Index, NEW j \in 1 .. Len(Block(key, material, c, junk[c])),
         AtByte(junk, c, j), Sealed
  PROVE  RunInv(junk)'
<1> DEFINE q == junk[c]
           b == Block(key, material, c, q)
           i == prog[ip]
           m == material[c]
           k == key[c]
<1>1. /\ key \in [Index -> Byte] /\ material \in [Index -> Byte]
      /\ out \in [Index -> Byte] /\ out' \in [Index -> Byte]
      /\ stack \in Seq(Word) /\ sp \in Nat /\ Depth \in Nat /\ Cells \in Nat
      /\ Exec(i) /\ ip' = ip + 1 /\ UNCHANGED <<key, prog, material>>
  BY DepthAssumption, LenProperties DEF TypeOK, VmTypeOK, Sealed, Exec
<1>2. q \in Nat /\ q > 0 /\ k \in Byte /\ m \in Byte /\ Mask(k, m) \in Byte /\ c \in Nat
      /\ Byte \subseteq Word
  <2>1. q \in 1 .. JunkMax
    OBVIOUS
  <2> QED
    BY <1>1, <2>1, JunkAssumption, Xors, Sizes DEF Mask, Index
<1>3. /\ Len(b) \in {q + 4, q + 5} /\ Len(b) \in Nat
      /\ \A n \in 1 .. q : b[n] = Instr("obfuscation", 0)
      /\ b[q + 1] = Instr("pushkey", c - 1) /\ b[q + 2] = Instr("push1", Mask(k, m))
      /\ b[q + 3] = Instr("xor", 0) /\ b[q + 4] = Instr("wrmem", c - 1)
      /\ Len(b) = q + 5 => b[q + 5] = Instr("label", 0)
  <2> HIDE DEF q
  <2>1. LET x == Block(key, material, c, q)
        IN  /\ x \in Seq(Written) /\ Len(x) \in {q + 4, q + 5}
            /\ \A n \in 1 .. q : x[n] = Instr("obfuscation", 0)
            /\ x[q + 1] = Instr("pushkey", c - 1)
            /\ x[q + 2] = Instr("push1", Mask(key[c], material[c]))
            /\ x[q + 3] = Instr("xor", 0)
            /\ x[q + 4] = Instr("wrmem", c - 1)
            /\ Len(x) = q + 5 => x[q + 5] = Instr("label", 0)
    <3>1. key \in [Index -> Byte] /\ material \in [Index -> Byte] /\ q \in Nat
      BY <1>1, <1>2
    <3> HIDE DEF b
    <3> QED
      BY <3>1, BlockSays
  <2>2. Len(b) \in Nat
    BY <2>1, LenProperties
  <2> QED
    BY <2>1, <2>2
<1>4. /\ Start(key, material, junk, c) \in Nat
      /\ Start(key, material, junk, c + 1) = Start(key, material, junk, c) + Len(b)
      /\ i = b[j]
  <2> DEFINE s == Start(key, material, junk, c)
             p == Generated(key, material, junk)
  <2>1. /\ s \in Nat /\ Start(key, material, junk, c + 1) = s + Len(b)
        /\ \A n \in 1 .. Len(b) : p[s + n] = b[n]
    <3>1. /\ key \in [Index -> Byte] /\ material \in [Index -> Byte]
          /\ junk \in [Index -> 1 .. JunkMax]
      BY <1>1
    <3> HIDE DEF b, s, p
    <3>2. LET x == Generated(key, material, junk)
          IN  \A e \in Index :
                LET y == Block(key, material, e, junk[e])
                IN  /\ Start(key, material, junk, e) \in Nat
                    /\ Start(key, material, junk, e + 1)
                         = Start(key, material, junk, e) + Len(y)
                    /\ \A n \in 1 .. Len(y) :
                         x[Start(key, material, junk, e) + n] = y[n]
      BY <3>1, ProgramSays
    <3>3. c \in Index
      OBVIOUS
    <3> QED
      BY <3>2, <3>3, Zenon DEF b, s, p
  <2>2. ip = s + j /\ p = prog
    BY DEF AtByte
  <2> HIDE DEF s, p, b
  <2> QED
    BY <2>1, <2>2 DEF s, b
<1>5. /\ ok /\ stack = Loaded(key, material, c, j - q)
      /\ ip = Start(key, material, junk, c) + j
      /\ \A d \in Index : d < c => out[d] = key[d]
      /\ j > q + 4 => out[c] = key[c]
  BY DEF AtByte
<1>6. j \in Nat /\ j > 0 /\ j <= Len(b)
  BY <1>3
<1> DEFINE Kept == \A d \in Index : d < c => out'[d] = key[d]
           Further == /\ Goes /\ Kept
                      /\ stack' = Loaded(key, material, c, j + 1 - q)
                      /\ j + 1 > q + 4 => out'[c] = key[c]
\* Where that leads.
<1>7. ASSUME Further PROVE RunInv(junk)'
  <2>1. CASE j + 1 <= Len(b)
    <3> DEFINE n == j + 1
    <3>1. n \in 1 .. Len(b)
      BY <1>3, <1>6, <2>1
    <3>2. AtByte(junk, c, n)'
      <4>1. ip' = Start(key, material, junk, c) + n
        BY <1>1, <1>4, <1>5, <1>6
      <4> HIDE DEF b
      <4> QED
        BY <1>1, <1>7, <4>1 DEF AtByte, Goes
    <3> HIDE DEF n
    <3>3. (\E x \in Index : \E y \in 1 .. Len(Block(key, material, x, junk[x])) :
             AtByte(junk, x, y))'
      BY <1>1, <3>1, <3>2
    <3> QED
      BY <1>1, <3>3 DEF RunInv
  <2>2. CASE ~(j + 1 <= Len(b))
    <3> DEFINE d == c + 1
               n == j + 1 - q
    <3>1. j = Len(b) /\ d \in 1 .. Cells + 1
      BY <1>1, <1>3, <1>6, <2>2 DEF Index
    <3>2. ip' = Start(key, material, junk, d) + 1
      <4> HIDE DEF b
      <4> QED
        BY <1>1, <1>3, <1>4, <1>5, <3>1
    <3>3. n # 2 /\ n # 3 /\ n # 4 /\ j + 1 > q + 4
      <4> DEFINE l == Len(b)
      <4>1. (l = q + 4 \/ l = q + 5) /\ j = l
        BY <1>3, <3>1
      <4> HIDE DEF l, b, q
      <4> QED
        BY <1>2, <4>1
    <3>4. stack' = <<>>
      BY <1>7, <3>3 DEF Loaded
    <3>5. \A x \in Index : x < d => out'[x] = key[x]
      <4> SUFFICES ASSUME NEW x \in Index, x < d PROVE out'[x] = key[x]
        OBVIOUS
      <4>1. x < c \/ x = c
        BY <1>2 DEF Index
      <4> QED
        BY <1>7, <3>3, <4>1
    <3> HIDE DEF d, b, q
    <3>6. /\ key' = key /\ material' = material /\ prog' = prog
          /\ ok' /\ outcome' = "running"
      BY <1>1, <1>7 DEF Goes
    <3>7. /\ key' \in [Index -> Byte] /\ material' \in [Index -> Byte]
          /\ prog' = Generated(key', material', junk)
          /\ ip' = Start(key', material', junk, d) + 1
          /\ \A x \in Index : x < d => out'[x] = key'[x]
      BY <1>1, <3>2, <3>5, <3>6
    <3>8. CASE d \in Index
      <4> DEFINE r == junk[d]
      <4>1. r \in Nat /\ r > 0
        <5>1. r \in 1 .. JunkMax
          BY <3>8
        <5> QED
          BY <5>1, JunkAssumption
      <4>2. /\ 1 \in 1 .. Len(Block(key, material, d, junk[d]))
            /\ Loaded(key, material, d, 1 - junk[d]) = <<>> /\ ~(1 > junk[d] + 4)
        BY <1>1, <3>8, <4>1, BlockOpens
      <4>3. AtByte(junk, d, 1)'
        BY <3>4, <3>6, <3>7, <4>2 DEF AtByte
      <4> DEFINE first == 1
      <4>4. first \in 1 .. Len(Block(key, material, d, junk[d])) /\ AtByte(junk, d, first)'
        BY <4>2, <4>3
      <4> HIDE DEF first
      <4>5. (\E x \in Index : \E y \in 1 .. Len(Block(key, material, x, junk[x])) :
               AtByte(junk, x, y))'
        BY <3>6, <3>8, <4>4
      <4> QED
        BY <3>7, <4>5 DEF RunInv
    <3>9. CASE d \notin Index
      <4>1. d = Cells + 1 /\ \A x \in Index : x < d
        BY <1>1, <3>1, <3>9 DEF Index
      <4>2. ip' = Len(prog')
        <5>1. Len(prog') = Start(key', material', junk, Cells + 1) + 1
          BY <3>7, ProgramSays
        <5> QED
          BY <3>7, <4>1, <5>1
      <4>3. out' = key'
        BY <1>1, <3>6, <3>7, <4>1
      <4> QED
        BY <3>6, <3>7, <4>2, <4>3 DEF RunInv, AtHalt
    <3> QED
      BY <3>8, <3>9
  <2> QED
    BY <2>1, <2>2
<1> SUFFICES Further
  BY <1>7
<1>l. \A n \in Int : n # 2 /\ n # 3 /\ n # 4 => Loaded(key, material, c, n) = <<>>
  BY DEF Loaded
<1>8. CASE j <= q
  <2>1. i = Instr("obfuscation", 0)
    BY <1>3, <1>4, <1>6, <1>8
  <2>2. j - q # 2 /\ j - q # 3 /\ j - q # 4 /\ j - q \in Int
        /\ j + 1 - q # 2 /\ j + 1 - q # 3 /\ j + 1 - q # 4 /\ j + 1 - q \in Int
        /\ ~(j + 1 > q + 4)
    BY <1>2, <1>6, <1>8
  <2>3. stack = <<>> /\ Loaded(key, material, c, j + 1 - q) = <<>>
    BY <1>5, <1>l, <2>2
  <2>4. Goes /\ stack' = stack /\ out' = out
    <3>1. i.op \in Fillers /\ i.arg = 0 /\ Exec(i) /\ ok
      BY <1>1, <1>5, <2>1 DEF Instr
    <3>2. sp < Depth
      BY <1>1, <2>3
    <3> HIDE DEF i
    <3> QED
      BY <3>1, <3>2, FillerRuns
  <2> QED
    BY <1>5, <2>2, <2>3, <2>4
<1>9. CASE j = q + 1
  <2>1. i = Instr("pushkey", c - 1)
    BY <1>3, <1>4, <1>9
  <2>2. j - q # 2 /\ j - q # 3 /\ j - q # 4 /\ j - q \in Int
        /\ j + 1 - q = 2 /\ ~(j + 1 > q + 4)
    BY <1>2, <1>6, <1>9
  <2>3. stack = <<>> /\ Loaded(key, material, c, 2) = <<m>>
    BY <1>5, <1>l, <2>2 DEF Loaded
  <2>4. Goes /\ stack' = Append(stack, m) /\ out' = out
    <3>1. i.op \in Pushes /\ i.arg \in Nat /\ i.arg + 1 = c /\ i.op = "pushkey"
      BY <1>2, <2>1 DEF Instr, Index
    <3>2. sp + 1 < Depth
      BY <1>1, <2>3
    <3>3. m = IF i.op = "pushkey" THEN material[i.arg + 1] ELSE i.arg
      BY <3>1
    <3>4. i.op = "pushkey" => i.arg + 1 \in Index
      BY <3>1
    <3>5. m \in Word
      BY <1>2
    <3>6. /\ i.op \in Pushes /\ i.arg \in Nat /\ Exec(i) /\ ok
          /\ sp \in Nat /\ Depth \in Nat /\ stack \in Seq(Word)
      BY <1>1, <1>5, <3>1
    <3> HIDE DEF i, m
    <3> QED
      BY <3>2, <3>3, <3>4, <3>5, <3>6, PushRuns
  <2>5. stack' = <<m>>
    BY <2>3, <2>4
  <2> QED
    BY <1>5, <2>2, <2>3, <2>4, <2>5
<1>10. CASE j = q + 2
  <2> DEFINE v == Mask(k, m)
  <2>1. i = Instr("push1", v)
    BY <1>3, <1>4, <1>10
  <2>2. j - q = 2 /\ j + 1 - q = 3 /\ ~(j + 1 > q + 4)
    BY <1>2, <1>6, <1>10
  <2>3. stack = <<m>> /\ Loaded(key, material, c, 3) = <<m, v>>
    BY <1>5, <2>2 DEF Loaded
  <2>4. Goes /\ stack' = Append(stack, v) /\ out' = out
    <3>0. v \in Word /\ v \in Nat
      BY <1>2 DEF Byte
    <3> HIDE DEF v
    <3>1. i.op \in Pushes /\ i.arg = v /\ i.arg \in Nat /\ i.op # "pushkey"
      BY <2>1, <3>0 DEF Instr
    <3>2. sp + 1 < Depth
      <4>1. sp = 1
        BY <2>3
      <4> QED
        BY <1>1, <4>1
    <3>3. v = IF i.op = "pushkey" THEN material[i.arg + 1] ELSE i.arg
      BY <3>1
    <3>4. i.op = "pushkey" => i.arg + 1 \in Index
      BY <3>1
    <3>5. /\ i.op \in Pushes /\ i.arg \in Nat /\ Exec(i) /\ ok
          /\ sp \in Nat /\ Depth \in Nat /\ stack \in Seq(Word)
      BY <1>1, <1>5, <3>1
    <3> HIDE DEF i
    <3> QED
      BY <3>0, <3>2, <3>3, <3>4, <3>5, PushRuns
  <2>5. stack' = <<m, v>>
    <3> HIDE DEF v, m
    <3>1. Append(<<m>>, v) = <<m, v>>
      BY AppendToOne
    <3> QED
      BY <2>3, <2>4, <3>1
  <2> QED
    BY <1>5, <2>2, <2>3, <2>4, <2>5
<1>11. CASE j = q + 3
  <2> DEFINE v == Mask(k, m)
  <2>1. i = Instr("xor", 0)
    BY <1>3, <1>4, <1>11
  <2>2. j - q = 3 /\ j + 1 - q = 4 /\ ~(j + 1 > q + 4)
    BY <1>2, <1>6, <1>11
  <2>3. stack = <<m, v>> /\ Loaded(key, material, c, 4) = <<k>>
    BY <1>5, <2>2 DEF Loaded
  <2>4. Goes /\ stack' = <<Xor(v, m)>> /\ out' = out
    <3>1. v \in Word /\ m \in Word /\ 1 < Depth
      BY <1>1, <1>2
    <3>2. i.op = "xor" /\ i.arg = 0
      BY <2>1 DEF Instr
    <3>3. Exec(i) /\ ok
      BY <1>1, <1>5
    <3> HIDE DEF v, m, i
    <3> QED
      BY <2>3, <3>1, <3>2, <3>3, XorRuns
  <2>5. Xor(v, m) = k
    BY <1>2, Xors DEF Mask
  <2> QED
    BY <1>5, <2>2, <2>3, <2>4, <2>5
<1>12. CASE j = q + 4
  <2>1. i = Instr("wrmem", c - 1)
    BY <1>3, <1>4, <1>12
  <2>2. j - q = 4 /\ j + 1 - q # 2 /\ j + 1 - q # 3 /\ j + 1 - q # 4 /\ j + 1 - q \in Int
    BY <1>2, <1>6, <1>12
  <2>3. stack = <<k>> /\ Loaded(key, material, c, j + 1 - q) = <<>>
    BY <1>5, <1>l, <2>2 DEF Loaded
  <2>4. Goes /\ stack' = <<>> /\ out' = [out EXCEPT ![c] = k]
    <3>1. i.op = "wrmem" /\ i.arg \in Nat /\ i.arg + 1 = c
      BY <1>2, <2>1 DEF Instr, Index
    <3>2. 0 < Depth /\ i.arg + 1 \in Index /\ k \in Byte
      BY <1>1, <1>2, <3>1
    <3>4. Exec(i) /\ ok
      BY <1>1, <1>5
    <3> HIDE DEF i, k
    <3>3. Goes /\ stack' = <<>> /\ out' = [out EXCEPT ![i.arg + 1] = k]
      BY <2>3, <3>1, <3>2, <3>4, StoreRuns
    <3> QED
      BY <3>1, <3>3
  <2>5. out'[c] = k /\ \A d \in Index : d < c => out'[d] = out[d]
    BY <1>1, <1>2, <2>4 DEF Index
  <2> QED
    BY <1>5, <2>3, <2>4, <2>5
<1>13. CASE j = q + 5
  <2>1. i = Instr("label", 0)
    <3>1. Len(b) = q + 5
      <4> DEFINE l == Len(b)
      <4>1. (l = q + 4 \/ l = q + 5) /\ j <= l
        BY <1>3, <1>6
      <4> HIDE DEF l, q
      <4>2. l = q + 5
        BY <1>2, <1>13, <4>1
      <4> QED
        BY <4>2 DEF l
    <3> QED
      BY <1>3, <1>4, <1>13, <3>1
  <2>2. j - q # 2 /\ j - q # 3 /\ j - q # 4 /\ j - q \in Int
        /\ j + 1 - q # 2 /\ j + 1 - q # 3 /\ j + 1 - q # 4 /\ j + 1 - q \in Int
        /\ j > q + 4
    BY <1>2, <1>6, <1>13
  <2>3. stack = <<>> /\ Loaded(key, material, c, j + 1 - q) = <<>>
    BY <1>5, <1>l, <2>2
  <2>4. Goes /\ stack' = stack /\ out' = out
    <3>1. i.op \in Fillers /\ i.arg = 0 /\ Exec(i) /\ ok
      BY <1>1, <1>5, <2>1 DEF Instr
    <3>2. sp < Depth
      BY <1>1, <2>3
    <3> HIDE DEF i
    <3> QED
      BY <3>1, <3>2, FillerRuns
  <2> QED
    BY <1>5, <2>2, <2>3, <2>4
<1>14. j <= q \/ j = q + 1 \/ j = q + 2 \/ j = q + 3 \/ j = q + 4 \/ j = q + 5
  <2> DEFINE l == Len(b)
  <2>1. (l = q + 4 \/ l = q + 5) /\ j <= l
    BY <1>3, <1>6
  <2> HIDE DEF l, q
  <2> QED
    BY <1>2, <1>6, <2>1
<1> HIDE DEF q, Further
<1> QED
  BY <1>8, <1>9, <1>10, <1>11, <1>12, <1>13, <1>14

\* The last instruction ends the run.
LEMMA HaltStep ==
  ASSUME TypeOK, NEW junk \in [Index -> 1 .. JunkMax],
         prog = Generated(key, material, junk), AtHalt, Sealed
  PROVE  AtEnd'
<1> DEFINE i == prog[ip]
<1>1. key \in [Index -> Byte] /\ material \in [Index -> Byte]
  BY DEF TypeOK, VmTypeOK
<1>2. i = Instr("halt", 0)
  <2>1. Generated(key, material, junk)[Len(Generated(key, material, junk))] = Instr("halt", 0)
    BY <1>1, ProgramSays
  <2> QED
    BY <2>1 DEF AtHalt
<1>3. i.op = "halt" /\ Exec(i) /\ key' = key
  BY <1>2 DEF Instr, Sealed
<1> HIDE DEF i
<1>4. outcome' = "returned" /\ UNCHANGED <<stack, ok, out>>
  BY <1>3, HaltRuns
<1> QED
  BY <1>3, <1>4 DEF AtHalt, AtEnd

\* At its first instruction a sealed program is on its way.
LEMMA SealInit == ASSUME Init PROVE SealInv
<1> SUFFICES ASSUME sealed PROVE \E junk \in [Index -> 1 .. JunkMax] : RunInv(junk)
  BY DEF SealInv
<1>1. /\ key \in [Index -> Byte] /\ material \in [Index -> Byte]
      /\ stack = <<>> /\ ok /\ outcome = "running" /\ ip = 1
      /\ out = [c \in Index |-> 0] /\ Cells \in Nat
  BY DepthAssumption DEF Init, VmInit
<1>2. PICK junk \in [Index -> 1 .. JunkMax] : prog = Generated(key, material, junk)
  BY DEF Init
<1> DEFINE p == Generated(key, material, junk)
<1>3. /\ Start(key, material, junk, 1) = 0
      /\ Len(p) = Start(key, material, junk, Cells + 1) + 1
  BY <1>1, ProgramSays
<1> HIDE DEF p
<1>4. CASE Cells = 0
  <2>1. Cells + 1 = 1
    BY <1>4
  <2>2. Len(p) = 1
    BY <1>3, <2>1
  <2>3. Index = {}
    BY <1>4 DEF Index
  <2>4. out = key
    BY <1>1, <2>3
  <2>5. AtHalt
    BY <1>1, <1>2, <2>2, <2>4 DEF AtHalt, p
  <2> QED
    BY <1>2, <2>5 DEF RunInv
<1>5. CASE Cells # 0
  <2> DEFINE c == 1
  <2>1. c \in Index /\ \A d \in Index : ~(d < c)
    BY <1>1, <1>5 DEF Index
  <2>2. Start(key, material, junk, c) = 0 /\ ip = 0 + 1
    BY <1>1, <1>3
  <2> HIDE DEF c
  <2> DEFINE q == junk[c]
             first == 1
  <2>3. q \in Nat /\ q > 0
    <3>1. q \in 1 .. JunkMax
      BY <2>1
    <3> QED
      BY <3>1, JunkAssumption
  <2>4. /\ first \in 1 .. Len(Block(key, material, c, q))
        /\ Loaded(key, material, c, first - q) = <<>> /\ ~(first > q + 4)
    <3> HIDE DEF q
    <3> QED
      BY <1>1, <2>1, <2>3, BlockOpens
  <2>5. ip = Start(key, material, junk, c) + first
    BY <2>2
  <2> HIDE DEF first
  <2>6. AtByte(junk, c, first)
    BY <1>1, <2>1, <2>4, <2>5 DEF AtByte
  <2> QED
    BY <1>2, <2>1, <2>4, <2>6 DEF RunInv
<1> QED
  BY <1>4, <1>5

\* Every step keeps it there.
LEMMA SealStep ==
  ASSUME TypeOK, TypeOK', Depth >= 3, SealInv, [Next]_vars
  PROVE  SealInv'
<1>1. CASE Sealed
  <2>1. sealed
    BY <1>1 DEF Sealed
  <2>2. PICK junk \in [Index -> 1 .. JunkMax] : RunInv(junk)
    BY <2>1 DEF SealInv
  <2>3. prog = Generated(key, material, junk)
    BY <2>2 DEF RunInv
  <2>4. ASSUME NEW c \in Index, NEW j \in 1 .. Len(Block(key, material, c, junk[c])),
               AtByte(junk, c, j)
        PROVE  RunInv(junk)'
    BY <1>1, <2>3, <2>4, ByteStep
  <2>5. ASSUME AtHalt PROVE RunInv(junk)'
    <3>1. AtEnd'
      BY <1>1, <2>3, <2>5, HaltStep
    <3>2. prog' = prog /\ key' = key /\ material' = material
      BY <1>1 DEF Sealed, Exec
    <3> QED
      BY <2>3, <3>1, <3>2 DEF RunInv
  <2>6. ~AtEnd
    BY <1>1 DEF AtEnd, Sealed, Exec
  <2>7. RunInv(junk)'
    <3>1. \/ \E c \in Index : \E j \in 1 .. Len(Block(key, material, c, junk[c])) :
                AtByte(junk, c, j)
          \/ AtHalt
      BY <2>2, <2>6 DEF RunInv
    <3> QED
      BY <2>4, <2>5, <3>1
  <2> QED
    BY <2>7 DEF SealInv
<1>2. CASE Arbitrary
  BY <1>2 DEF Arbitrary, SealInv
<1>3. CASE UNCHANGED vars
  BY <1>3 DEF vars, vmVars, SealInv, RunInv, AtByte, AtHalt, AtEnd
<1> QED
  BY <1>1, <1>2, <1>3 DEF Next

-----------------------------------------------------------------------------
(* The theorems.                                                           *)

\* What runs is what gen_vm_program writes, or nothing that is known before.
ProgInv == IF sealed THEN prog \in Seq(Written) ELSE prog = <<>>

LEMMA InitTyped == ASSUME Init PROVE TypeOK /\ ProgInv
<1> USE DEF Init, VmInit
<1>1. VmTypeOK
  <2>1. <<>> \in Seq(Word) /\ Len(<<>>) = 0
    BY EmptySeq
  <2>2. 0 \in Byte /\ 0 <= Depth
    BY Sizes, DepthAssumption DEF Byte
  <2> QED
    BY <2>1, <2>2 DEF VmTypeOK
<1>2. sealed \in BOOLEAN /\ key \in [Index -> Byte]
  OBVIOUS
<1>3. ProgInv
  <2>1. CASE sealed
    <3>1. PICK junk \in [Index -> 1 .. JunkMax] : prog = Generated(key, material, junk)
      BY <2>1
    <3>2. key \in [Index -> Byte] /\ material \in [Index -> Byte]
      OBVIOUS
    <3>3. Generated(key, material, junk) \in Seq(Written)
      BY <3>2, ProgramSays
    <3> QED
      BY <2>1, <3>1, <3>3 DEF ProgInv
  <2> QED
    BY <2>1 DEF ProgInv
<1>4. Len(prog) \in Nat
  <2>1. CASE sealed
    BY <1>3, <2>1, LenProperties DEF ProgInv
  <2>2. CASE ~sealed
    BY <2>2
  <2> QED
    BY <2>1, <2>2
<1>5. ip \in 1 .. (Len(prog) + 1)
  BY <1>4
<1> QED
  BY <1>1, <1>2, <1>3, <1>5 DEF TypeOK

LEMMA WrittenProper == \A i \in Written : Proper(i)
BY Sizes, DepthAssumption DEF Written, Proper, Byte, Word

LEMMA InstrsProper == \A i \in Instrs : Proper(i)
<1>1. /\ Operands \subseteq Word /\ Cut \in Int /\ 0 \in Word
      /\ \A y \in Word : y \in Nat /\ y \in Int
  BY OperandsAssumption, Sizes DEF Word, Cut
<1>2. ASSUME NEW i \in Instrs PROVE i.arg \in Operands \cup {Cut, 0}
  BY DEF Instrs
<1>3. ASSUME NEW i \in Instrs PROVE i.arg \in Word \cup {Cut}
  BY <1>1, <1>2
<1>4. ASSUME NEW i \in Instrs
      PROVE  i.arg \in Int /\ (i.arg # Cut => i.arg \in Word /\ i.arg \in Nat)
  <2>1. i.arg = Cut \/ i.arg \in Word
    BY <1>3
  <2> DEFINE x == i.arg
  <2> HIDE DEF x
  <2>2. x = Cut \/ x \in Word
    BY <2>1 DEF x
  <2>3. x \in Int /\ (x # Cut => x \in Word /\ x \in Nat)
    BY <1>1, <2>2, Zenon
  <2> QED
    BY <2>3 DEF x
<1> QED
  BY <1>4, Zenon DEF Proper

LEMMA NextTyped ==
  ASSUME TypeOK, ProgInv, [Next]_vars
  PROVE  TypeOK' /\ ProgInv'
<1>1. CASE Sealed
  <2>1. sealed /\ prog \in Seq(Written) /\ ip \in 1 .. Len(prog) /\ Len(prog) \in Nat
        /\ ip' = ip + 1 /\ UNCHANGED <<sealed, key, prog>>
    BY <1>1, LenProperties DEF Sealed, ProgInv, TypeOK
  <2>2. Proper(prog[ip])
    BY <2>1, ElementOfSeq, WrittenProper
  <2>3. VmTypeOK'
    BY <1>1, <2>2, ExecTyped DEF Sealed, TypeOK
  <2>4. ip' \in 1 .. (Len(prog') + 1)
    BY <2>1
  <2> QED
    BY <2>1, <2>3, <2>4 DEF TypeOK, ProgInv
<1>2. CASE Arbitrary
  <2>1. UNCHANGED <<sealed, key, prog, ip>>
    BY <1>2 DEF Arbitrary
  <2>2. VmTypeOK'
    <3>1. ASSUME NEW i \in Instrs, Exec(i) PROVE VmTypeOK'
      BY <3>1, ExecTyped, InstrsProper DEF TypeOK
    <3>2. CASE RunOut
      BY <3>2 DEF RunOut, TypeOK, VmTypeOK
    <3> QED
      BY <1>2, <3>1, <3>2 DEF Arbitrary
  <2> QED
    BY <2>1, <2>2 DEF TypeOK, ProgInv
<1>3. CASE UNCHANGED vars
  BY <1>3 DEF vars, vmVars, TypeOK, VmTypeOK, ProgInv
<1> QED
  BY <1>1, <1>2, <1>3 DEF Next

\* Whatever runs, the stack holds words and never more than its cells, the
\* output holds bytes, and a sealed program never leaves itself (run, VM).
THEOREM VmTypes == Spec => []TypeOK
<1>1. Init => TypeOK /\ ProgInv
  BY InitTyped
<1>2. TypeOK /\ ProgInv /\ [Next]_vars => TypeOK' /\ ProgInv'
  BY NextTyped
<1> QED
  BY <1>1, <1>2, PTL DEF Spec

\* Where the sealed program is says what it has rebuilt.
LEMMA SealedTells == ASSUME SealInv PROVE SealedKeyRebuilt
BY DEF SealInv, SealedKeyRebuilt, RunInv, AtByte, AtHalt, AtEnd

\* The stack has room for two cells and one to spare (16 in the code).
RoomForTwo == Depth >= 3

\* Build and run agree for every key, material, choice of fillers, size of word
\* and length of the key: a stack with room for two cells is enough for the
\* sealed program, which is accepted and leaves the key (gen_vm_program, run).
THEOREM SealedKeyRebuiltHolds == RoomForTwo => (Spec => []SealedKeyRebuilt)
<1> SUFFICES ASSUME RoomForTwo PROVE Spec => []SealedKeyRebuilt
  OBVIOUS
<1>1. Init => TypeOK /\ ProgInv /\ SealInv
  BY InitTyped, SealInit
<1>2. TypeOK /\ ProgInv /\ SealInv /\ [Next]_vars => TypeOK' /\ ProgInv' /\ SealInv'
  BY NextTyped, SealStep DEF RoomForTwo
<1>3. SealInv => SealedKeyRebuilt
  BY SealedTells
<1> QED
  BY <1>1, <1>2, <1>3, PTL DEF Spec
=============================================================================
