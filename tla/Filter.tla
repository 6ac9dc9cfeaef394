------------------------------- MODULE Filter -------------------------------
(***************************************************************************)
(* The seccomp filter of src/seccomp.rs: the BPF program install() writes  *)
(* and what the kernel makes of it at each system call.                    *)
(*                                                                         *)
(* The numbers are those of the code, but for AUDIT_ARCH_X86_64, of which  *)
(* the machine number is kept.  Jumps go forward only, and so the program  *)
(* is run by going through it once: skip is how many instructions are      *)
(* jumped over, acc the accumulator, verdict what a return has said.       *)
(***************************************************************************)
EXTENDS Integers, SequencesExt

AuditArch == 62

\* ptrace, execve, execveat, process_vm_readv, process_vm_writev, bpf, keyctl,
\* add_key, request_key, userfaultfd, perf_event_open, kcmp,
\* open_by_handle_at, name_to_handle_at, memfd_create, mount, umount2, reboot,
\* init_module, delete_module, kexec_load, finit_module.
Blacklist == <<101, 59, 322, 310, 311, 321, 250, 248, 249, 323, 298, 312, 304,
               303, 319, 165, 166, 169, 175, 176, 246, 313>>

\* stmt and jump.
Load(word) == [op |-> "load", k |-> word, jt |-> 0, jf |-> 0]
Return(verdict) == [op |-> "return", k |-> verdict, jt |-> 0, jf |-> 0]
JumpIfEqual(k, jt, jf) == [op |-> "jeq", k |-> k, jt |-> jt, jf |-> jf]

Kill == 0
Allow == 1

\* The words of seccomp_data the program loads.
NrWord == 0
ArchWord == 4

\* Mutant of Entry: the jump over the verdict goes one too far.
EntryTooFar(nr) == <<JumpIfEqual(nr, 0, 2), Return(Kill)>>

\* Two instructions for each call on the list.
Entry(nr) == <<JumpIfEqual(nr, 0, 1), Return(Kill)>>

Prog ==
  <<Load(ArchWord), JumpIfEqual(AuditArch, 1, 0), Return(Kill), Load(NrWord)>>
    \o FlattenSeq([i \in DOMAIN Blacklist |-> Entry(Blacklist[i])])
    \o <<Return(Allow)>>

\* One instruction, for a call with this architecture and number.
Step(arch, nr, m, ins) ==
  IF m.verdict # {} THEN m
  ELSE IF m.skip > 0 THEN [m EXCEPT !.skip = @ - 1]
  ELSE CASE ins.op = "load" -> [m EXCEPT !.acc = IF ins.k = ArchWord THEN arch ELSE nr]
         [] ins.op = "jeq" -> [m EXCEPT !.skip = IF m.acc = ins.k THEN ins.jt ELSE ins.jf]
         [] ins.op = "return" -> [m EXCEPT !.verdict = {ins.k}]

\* What the program says of a call: one verdict, or none if it runs off its end.
Verdict(arch, nr) ==
  FoldLeft(LAMBDA m, ins : Step(arch, nr, m, ins),
           [skip |-> 0, acc |-> 0, verdict |-> {}], Prog).verdict
=============================================================================
