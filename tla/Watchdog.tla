------------------------------ MODULE Watchdog ------------------------------
(***************************************************************************)
(* The watchdog thread of src/watchdog.rs, the memory and files it looks   *)
(* at, and the tamperer it looks for.  The main thread shares proc,        *)
(* running, quiet and key with it; its steps are in module Keeper.         *)
(*                                                                         *)
(* Time is counted in ticks.  A tick passes only when no thread is overdue *)
(* (DogOnTime), so a thread that is due runs within Slack ticks; nothing   *)
(* else is assumed about the scheduler.                                    *)
(***************************************************************************)
EXTENDS Naturals

CONSTANTS
  Poll,        \* the sleep between two rounds of checks (400 ms)
  StaleAfter,  \* a heartbeat this old is stale (61 s: as_secs() > 60)
  Slack,       \* how late the scheduler may run a thread that is due
  Mischief,    \* what the tamperer may touch
  ReadFaults   \* may a read of /proc/self fail (no /proc, no descriptors)?

ASSUME PollAssumption == Poll \in Nat
ASSUME StaleAfterAssumption == StaleAfter \in Nat
ASSUME SlackAssumption == Slack \in Nat
ASSUME MischiefAssumption == Mischief \subseteq {"tracer", "exe", "key"}
ASSUME ReadFaultsAssumption == ReadFaults \in BOOLEAN

VARIABLES
  proc,     \* "running", or how the process ended
  cause,    \* which check called self_destruct
  spare,    \* is NO_SELF_DESTRUCT in the environment?  (never changes)
  running,  \* the static RUNNING
  quiet,    \* ticks since the last beat of main
  dog,      \* where the thread is
  nap,      \* what is left of its sleep
  lag,      \* how long it has been due
  tracer,   \* is a tracer attached (TracerPid # 0)?
  exe,      \* the bytes behind /proc/self/exe
  exeSha,   \* the hash of them taken by start()
  key,      \* the page key_buf.ptr points to: what it holds, its protection
  keySha,   \* the hash of it handed to start()
  traced,   \* history: ticks a tracer has been on the guarded process
  forged    \* history: ticks the guarded key has differed from keySha

petVars == <<dog, nap, lag>>
watchVars == <<proc, cause, spare, running, quiet, dog, nap, lag, tracer,
               exe, exeSha, key, keySha, traced, forged>>

Ended == {"exit0", "exit1", "exit137", "killed", "fault", "panicked"}
KeyVals == {"empty", "secret", "half", "wrong", "forged", "zeroed"}
Prots == {"rw", "ro", "none", "unmapped"}
Causes == {"none", "stale", "tracer", "exe", "key", "password", "program",
           "gate", "layer"}

WatchTypeOK ==
  /\ proc \in {"running"} \cup Ended
  /\ cause \in Causes
  /\ spare \in BOOLEAN
  /\ running \in BOOLEAN
  /\ quiet \in Nat
  /\ dog \in {"unborn", "head", "asleep", "looks", "exe", "key", "gone"}
  /\ nap \in 0..Poll
  /\ lag \in 0..Slack
  /\ tracer \in BOOLEAN
  /\ exe \in {"intact", "altered"}
  /\ exeSha \in {"intact", "altered", "unread"}
  /\ key \in [val: KeyVals, prot: Prots]
  /\ keySha \in KeyVals
  /\ traced \in Nat
  /\ forged \in Nat

WatchInit ==
  /\ proc = "running" /\ cause = "none"
  /\ spare \in BOOLEAN
  /\ running = TRUE
  /\ quiet = 0
  /\ dog = "unborn" /\ nap = 0 /\ lag = 0
  /\ tracer = FALSE
  /\ exe = "intact" /\ exeSha = "unread"
  /\ key = [val |-> "empty", prot |-> "unmapped"] /\ keySha = "empty"
  /\ traced = 0 /\ forged = 0

-----------------------------------------------------------------------------
(* The end of the process.                                                 *)

\* Sudden death: SIGKILL, or exit(1) when NO_SELF_DESTRUCT spares the program.
SelfDestruct(why) ==
  /\ proc' = IF spare THEN "exit1" ELSE "killed"
  /\ cause' = why

\* What read_self_exe_sha may return: an unreadable file hashes to zeros.
ExeReads == {exe} \cup (IF ReadFaults THEN {"unread"} ELSE {})

\* What tracer_pid() # 0 may return: an unreadable status counts as no tracer.
TracerReads == {tracer} \cup (IF ReadFaults THEN {FALSE} ELSE {})

-----------------------------------------------------------------------------
(* The thread.                                                             *)

\* start(): the feed is fresh, the file is hashed, the thread is spawned.
WatchdogStart(sha) ==
  /\ quiet' = 0
  /\ exeSha' \in ExeReads
  /\ keySha' = sha
  /\ dog' = "head" /\ nap' = 0 /\ lag' = 0

\* Mutant of DogHead: one tick too long a sleep.
DogHeadOversleeps ==
  /\ dog = "head"
  /\ IF running
       THEN dog' = "asleep" /\ nap' = Poll + 1 /\ lag' = 0
       ELSE dog' = "gone" /\ nap' = 0 /\ lag' = 0
  /\ UNCHANGED <<proc, cause, spare, running, quiet, tracer, exe, exeSha,
                 key, keySha, traced, forged>>

\* while RUNNING.load(): another round, or the end of the thread.
DogHead ==
  /\ dog = "head"
  /\ IF running
       THEN dog' = "asleep" /\ nap' = Poll /\ lag' = 0
       ELSE dog' = "gone" /\ nap' = 0 /\ lag' = 0
  /\ UNCHANGED <<proc, cause, spare, running, quiet, tracer, exe, exeSha,
                 key, keySha, traced, forged>>

DogWake ==
  /\ dog = "asleep" /\ nap = 0
  /\ dog' = "looks"
  /\ UNCHANGED <<proc, cause, spare, running, quiet, nap, lag, tracer, exe,
                 exeSha, key, keySha, traced, forged>>

\* A stale heartbeat or a tracer is death.
DogLooks ==
  /\ dog = "looks"
  /\ \E seen \in TracerReads :
       IF quiet >= StaleAfter THEN SelfDestruct("stale") /\ UNCHANGED dog
       ELSE IF seen THEN SelfDestruct("tracer") /\ UNCHANGED dog
       ELSE dog' = "exe" /\ UNCHANGED <<proc, cause>>
  /\ UNCHANGED <<spare, running, quiet, nap, lag, tracer, exe, exeSha, key,
                 keySha, traced, forged>>

\* Mutant of DogExe: a good file ends the round, and the key is not looked at.
DogExeEndsRound ==
  /\ dog = "exe"
  /\ \/ \E sha \in ExeReads :
          IF sha # exeSha THEN SelfDestruct("exe") /\ UNCHANGED dog
                          ELSE dog' = "head" /\ UNCHANGED <<proc, cause>>
     \/ /\ ReadFaults
        /\ dog' = "head" /\ UNCHANGED <<proc, cause>>
  /\ UNCHANGED <<spare, running, quiet, nap, lag, tracer, exe, exeSha, key,
                 keySha, traced, forged>>

\* So is a file that no longer hashes as it did; one without metadata is
\* not looked at.
DogExe ==
  /\ dog = "exe"
  /\ \/ \E sha \in ExeReads :
          IF sha # exeSha THEN SelfDestruct("exe") /\ UNCHANGED dog
                          ELSE dog' = "key" /\ UNCHANGED <<proc, cause>>
     \/ /\ ReadFaults
        /\ dog' = "key" /\ UNCHANGED <<proc, cause>>
  /\ UNCHANGED <<spare, running, quiet, nap, lag, tracer, exe, exeSha, key,
                 keySha, traced, forged>>

\* The thread copies the key page, hashes the copy and wipes it.  Copying a
\* page that may not be read is a segmentation fault.
DogKey ==
  /\ dog = "key"
  /\ IF key.prot \in {"none", "unmapped"}
       THEN proc' = "fault" /\ UNCHANGED <<cause, dog>>
     ELSE IF key.val # keySha
       THEN SelfDestruct("key") /\ UNCHANGED dog
     ELSE dog' = "head" /\ UNCHANGED <<proc, cause>>
  /\ UNCHANGED <<spare, running, quiet, nap, lag, tracer, exe, exeSha, key,
                 keySha, traced, forged>>

Dog == proc = "running" /\ (DogHead \/ DogWake \/ DogLooks \/ DogExe \/ DogKey)

-----------------------------------------------------------------------------
(* The tamperer.                                                           *)

AttachTracer ==
  /\ "tracer" \in Mischief /\ ~tracer
  /\ tracer' = TRUE
  /\ UNCHANGED <<exe, key, traced, forged>>

DetachTracer ==
  /\ tracer
  /\ tracer' = FALSE /\ traced' = 0
  /\ UNCHANGED <<exe, key, forged>>

AlterExe ==
  /\ "exe" \in Mischief /\ exe = "intact"
  /\ exe' = "altered"
  /\ UNCHANGED <<tracer, key, traced, forged>>

AlterKey ==
  /\ "key" \in Mischief
  /\ key.prot # "unmapped" /\ key.val \notin {"empty", "forged"}
  /\ key' = [key EXCEPT !.val = "forged"]
  /\ UNCHANGED <<tracer, exe, traced, forged>>

Tamper ==
  /\ proc = "running"
  /\ AttachTracer \/ DetachTracer \/ AlterExe \/ AlterKey
  /\ UNCHANGED <<proc, cause, spare, running, quiet, dog, nap, lag, exeSha,
                 keySha>>

-----------------------------------------------------------------------------
(* Time.                                                                   *)

\* The thread exists and has not been told to stop.
Guarding == running /\ dog # "unborn"

Alive == dog \notin {"unborn", "gone"}

\* The thread sleeps, or is due and not yet overdue.
DogOnTime == Alive => nap > 0 \/ lag < Slack

DogTick ==
  /\ DogOnTime
  /\ nap' = IF nap > 0 THEN nap - 1 ELSE nap
  /\ lag' = IF Alive /\ nap = 0 THEN lag + 1 ELSE lag
  /\ quiet' = IF Alive THEN quiet + 1 ELSE quiet
  /\ traced' = IF Guarding /\ tracer THEN traced + 1 ELSE 0
  /\ forged' = IF Guarding /\ key.val # keySha THEN forged + 1 ELSE 0
  /\ UNCHANGED <<proc, cause, spare, running, dog, tracer, exe, exeSha, key,
                 keySha>>

-----------------------------------------------------------------------------
(* What the thread promises.                                               *)

\* Whatever is tampered with while the watchdog guards is caught within one
\* round of checks: a tracer that stays, or a key that stays changed, is not
\* tolerated longer than a sleep and the slack of two rounds ("any one
\* triggers instant SIGKILL", README.en.md).  Reads of /proc must succeed.
PromptDetection ==
  ~ReadFaults => /\ traced <= Poll + 2 * Slack
                 /\ forged <= Poll + 2 * Slack
=============================================================================
