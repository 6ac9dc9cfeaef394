------------------------------- MODULE RustyVM -------------------------------
(***************************************************************************)
(* The interpreter of src/rustyvm.rs: a stack machine that rebuilds the    *)
(* key from masked material.  One action per kind of instruction; which    *)
(* instruction comes next is left to module VmProgram.                     *)
(*                                                                         *)
(* The stack holds the cells below sp, for the code never reads the cells  *)
(* above before it writes them.  An index outside the array is a panic,    *)
(* and the release profile aborts; ok is what run() returns otherwise.     *)
(***************************************************************************)
EXTENDS Integers, Sequences

CONSTANTS
  Width,      \* bits in a word (64)
  ByteWidth,  \* bits in a byte (8)
  Depth,      \* cells of the stack (16)
  Cells       \* bytes of material, and of output (KEY_LEN)

ASSUME WidthAssumption == Width \in Nat \ {0} /\ ByteWidth \in 1..Width
ASSUME DepthAssumption == Depth \in Nat \ {0} /\ Cells \in Nat

VARIABLES
  stack,     \* the cells of the stack below sp
  ok,        \* has every instruction been valid?
  out,       \* the output buffer
  material,  \* KM (never changes)
  outcome    \* "running", "returned" or "panicked"

vmVars == <<stack, ok, out, material, outcome>>

\* 2^n.
Pow2[n \in Nat] == IF n = 0 THEN 1 ELSE 2 * Pow2[n - 1]

Word == 0..(Pow2[Width] - 1)
Byte == 0..(Pow2[ByteWidth] - 1)
Index == 1..Cells

\* An instruction and its operand; Cut stands for one the program ends before.
Cut == -1
Unary == {"not"}
Binary == {"xor", "add", "sub", "and", "or"}
Pushes == {"push1", "push8", "pushkey"}
Rotations == {"rotl", "rotr"}
Fillers == {"label", "predicate", "obfuscation"}

VmTypeOK ==
  /\ stack \in Seq(Word) /\ Len(stack) <= Depth
  /\ ok \in BOOLEAN
  /\ out \in [Index -> Byte]
  /\ material \in [Index -> Byte]
  /\ outcome \in {"running", "returned", "panicked"}

-----------------------------------------------------------------------------
(* Words, as numbers and as the sets of their bits.                        *)

Bits(w) == {i \in 0..(Width - 1) : (w \div Pow2[i]) % 2 = 1}
Number(S) == CHOOSE w \in Word : Bits(w) = S

Xor(a, b) == Number((Bits(a) \ Bits(b)) \cup (Bits(b) \ Bits(a)))

RotateLeft(w, n) == Number({(i + n) % Width : i \in Bits(w)})

\* What a binary instruction makes of a, on top, and b, below it.
Result(op, a, b) ==
  CASE op = "xor" -> Xor(a, b)
    [] op = "add" -> (a + b) % Pow2[Width]
    [] op = "sub" -> (b - a) % Pow2[Width]
    [] op = "and" -> Number(Bits(a) \cap Bits(b))
    [] op = "or"  -> Number(Bits(a) \cup Bits(b))

-----------------------------------------------------------------------------
(* The instructions.                                                       *)

sp == Len(stack)
Top == stack[sp]
Below == stack[sp - 1]

\* The stack with its upper n cells replaced by those of s.
Replace(n, s) == SubSeq(stack, 1, sp - n) \o s

Panic == outcome' = "panicked" /\ UNCHANGED <<stack, ok, out>>

\* Mutant of Fits: the stack may be full.
FitsFull(s) == Len(s) <= Depth

\* The check at the end of each turn.
Fits(s) == Len(s) < Depth

\* A turn that leaves the stack s.  After an operand cut off, the loop ends.
Turn(i, valid, s) ==
  /\ stack' = s
  /\ ok' = (ok /\ valid /\ Fits(s))
  /\ outcome' = IF i.arg = Cut THEN "returned" ELSE "running"

\* Mutant of Room: the stack has no end.
RoomAlways == TRUE

\* Is there a cell above the stack?
Room == sp < Depth

\* The cell above the stack is touched even when the operand is not valid.
Push(i) ==
  /\ i.op \in Pushes
  /\ IF ~Room THEN Panic
     ELSE LET valid == i.arg # Cut /\ (i.op = "pushkey" => i.arg + 1 \in Index)
              value == IF i.op = "pushkey" THEN material[i.arg + 1] ELSE i.arg
          IN  /\ Turn(i, valid, IF valid THEN Append(stack, value) ELSE stack)
              /\ UNCHANGED out

Dup(i) ==
  /\ i.op = "dup"
  /\ IF sp = 0 \/ ~Room THEN Panic
     ELSE Turn(i, TRUE, Append(stack, Top)) /\ UNCHANGED out

Swap(i) ==
  /\ i.op = "swap"
  /\ IF sp < 2 THEN Panic
     ELSE Turn(i, TRUE, Replace(2, <<Top, Below>>)) /\ UNCHANGED out

\* Dropping from an empty stack is the one underflow that is rejected.
Drop(i) ==
  /\ i.op = "drop"
  /\ Turn(i, sp > 0, IF sp > 0 THEN Replace(1, <<>>) ELSE stack)
  /\ UNCHANGED out

Combine(i) ==
  /\ i.op \in Binary
  /\ IF sp < 2 THEN Panic
     ELSE /\ Turn(i, TRUE, Replace(2, <<Result(i.op, Top, Below)>>))
          /\ UNCHANGED out

Not(i) ==
  /\ i.op \in Unary
  /\ IF sp = 0 THEN Panic
     ELSE Turn(i, TRUE, Replace(1, <<Pow2[Width] - 1 - Top>>)) /\ UNCHANGED out

Rotate(i) ==
  /\ i.op \in Rotations
  /\ IF sp = 0 THEN Panic
     ELSE LET n == IF i.arg = Cut THEN 0
                   ELSE IF i.op = "rotl" THEN i.arg % Width
                   ELSE (Width - (i.arg % Width)) % Width
          IN  /\ Turn(i, i.arg # Cut, Replace(1, <<RotateLeft(Top, n)>>))
              /\ UNCHANGED out

\* OP_WRMEM: the low byte of the top goes to the output if the operand names a
\* byte of it; the top leaves the stack in any case.
WriteMem(i) ==
  /\ i.op = "wrmem"
  /\ LET valid == i.arg + 1 \in Index /\ sp > 0
     IN  /\ Turn(i, valid, IF sp > 0 THEN Replace(1, <<>>) ELSE stack)
         /\ out' = IF valid
                     THEN [out EXCEPT ![i.arg + 1] = Top % Pow2[ByteWidth]]
                     ELSE out

\* Opaque predicates, control flow obfuscation and labels do nothing.
Skip(i) ==
  /\ i.op \in Fillers
  /\ Turn(i, i.arg # Cut, stack)
  /\ UNCHANGED out

Unknown(i) ==
  /\ i.op = "unknown"
  /\ Turn(i, FALSE, stack)
  /\ UNCHANGED out

\* OP_HALT leaves the loop before the checks at its end.
Halt(i) ==
  /\ i.op = "halt"
  /\ outcome' = "returned"
  /\ UNCHANGED <<stack, ok, out>>

Exec(i) ==
  /\ outcome = "running"
  /\ \/ Push(i) \/ Dup(i) \/ Swap(i) \/ Drop(i) \/ Combine(i) \/ Not(i)
     \/ Rotate(i) \/ WriteMem(i) \/ Skip(i) \/ Unknown(i) \/ Halt(i)
  /\ UNCHANGED material

\* The loop ends where the program does.
RunOut ==
  /\ outcome = "running"
  /\ outcome' = "returned"
  /\ UNCHANGED <<stack, ok, out, material>>

VmInit ==
  /\ stack = <<>> /\ ok = TRUE
  /\ out = [c \in Index |-> 0]
  /\ material \in [Index -> Byte]
  /\ outcome = "running"
=============================================================================
