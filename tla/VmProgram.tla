------------------------------ MODULE VmProgram ------------------------------
(***************************************************************************)
(* What module RustyVM runs: the program gen_vm_program of build.rs writes *)
(* for a key and its masked material, or instructions as they come, which  *)
(* stands for every program there is.                                      *)
(***************************************************************************)
EXTENDS RustyVM, SequencesExt

CONSTANTS
  JunkMax,   \* most fillers before a byte of the key (3)
  Operands   \* operands of instructions that come as they please

ASSUME JunkAssumption == JunkMax \in Nat
ASSUME OperandsAssumption == Operands \subseteq Word

VARIABLES
  sealed,  \* does a sealed program run, or any?  (never changes)
  key,     \* k1 and k2, one after the other (never changes)
  prog,    \* the sealed program (never changes)
  ip       \* the instruction that is next in it

vars == <<vmVars, sealed, key, prog, ip>>

Instr(op, arg) == [op |-> op, arg |-> arg]

\* Mutant of Mask: the byte itself is sealed.
MaskBare(k, m) == k

\* mask = key_half[i] ^ km[base + i]
Mask(k, m) == Xor(k, m)

\* What is written for byte c of key k: fillers, then a load, an unmasking and
\* a store; each half of the key ends with a label.
Block(k, m, c, junk) ==
  [j \in 1..junk |-> Instr("obfuscation", 0)]
  \o <<Instr("pushkey", c - 1), Instr("push1", Mask(k[c], m[c])),
       Instr("xor", 0), Instr("wrmem", c - 1)>>
  \o IF c \in {Cells \div 2, Cells} THEN <<Instr("label", 0)>> ELSE <<>>

Generated(k, m, junk) ==
  FlattenSeq([c \in Index |-> Block(k, m, c, junk[c])])
  \o <<Instr("halt", 0)>>

\* Any instruction, its operand there or cut off.
Instrs ==
  [op : Pushes \cup Rotations \cup Fillers \cup {"wrmem"},
   arg : Operands \cup {Cut}]
  \cup [op : Unary \cup Binary \cup {"dup", "swap", "drop", "halt", "unknown"},
        arg : {0}]

TypeOK ==
  /\ VmTypeOK
  /\ sealed \in BOOLEAN
  /\ key \in [Index -> Byte]
  /\ ip \in 1..(Len(prog) + 1)

Init ==
  /\ VmInit
  /\ \/ /\ sealed = TRUE
        /\ key \in [Index -> Byte]
        /\ \E junk \in [Index -> 1..JunkMax] :
             prog = Generated(key, material, junk)
     \/ /\ sealed = FALSE
        /\ key = material
        /\ prog = <<>>
  /\ ip = 1

Sealed ==
  /\ sealed /\ ip <= Len(prog)
  /\ Exec(prog[ip])
  /\ ip' = ip + 1
  /\ UNCHANGED <<sealed, key, prog>>

Arbitrary ==
  /\ ~sealed
  /\ \/ \E i \in Instrs : Exec(i)
     \/ RunOut
  /\ UNCHANGED <<sealed, key, prog, ip>>

Next == Sealed \/ Arbitrary

Spec == Init /\ [][Next]_vars

-----------------------------------------------------------------------------
(* Properties.                                                             *)

\* The build and the run agree: whatever key, material and fillers, the sealed
\* program runs to its end without a panic, is accepted, and leaves the key
\* (gen_vm_program, run).
SealedKeyRebuilt ==
  sealed => /\ outcome # "panicked"
            /\ outcome = "returned" => ok /\ out = key

\* No accepted program has ever filled the stack: a push beyond its end, which
\* aborts, comes only after the check at the end of a turn has rejected the
\* program, so among programs not yet rejected only an underflow panics.
OverflowForeseen == outcome = "panicked" /\ ok => sp < 2
=============================================================================
