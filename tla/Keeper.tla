------------------------------- MODULE Keeper -------------------------------
(***************************************************************************)
(* A whole run of hello_old: the main thread of src/main.rs, step by step, *)
(* beside the watchdog thread of module Watchdog and the tamperer.         *)
(*                                                                         *)
(* main is the main thread's place in main(); the screens that wait for a  *)
(* key (show, the dialog, the blocked read after ESC) are used both for    *)
(* the text and for a refusal, and refusing tells which.  How long main    *)
(* stays at a place is an assumption: at most WorkMax ticks of work, or of *)
(* one turn of a loop; at most Patience where a person keeps it from going *)
(* on; at most QueryMax in a custom NTP query; and at least BurnMin in the *)
(* burning animation.                                                      *)
(***************************************************************************)
EXTENDS Watchdog

CONSTANTS
  WorkMax,   \* longest work at a place, or turn of its loop
  Patience,  \* longest a person keeps a blocking read waiting, or a loop
             \* busy with keys that mean nothing
  QueryMax,  \* longest ntp::query (a lookup and a 3 s receive timeout)
  BurnMin,   \* shortest burn_with_progress (its sleeps alone are 4.8 s)
  Words,     \* what is typed at the password prompt
  Blemishes  \* which sealed blob may be damaged

ASSUME WorkMaxAssumption == WorkMax \in Nat \ {0}
ASSUME PatienceAssumption == Patience \in Nat
ASSUME QueryMaxAssumption == QueryMax \in Nat
ASSUME BurnMinAssumption == BurnMin \in Nat
ASSUME WordsAssumption == Words \subseteq {"right", "wrong", "empty"}
ASSUME BlemishesAssumption ==
  Blemishes \subseteq {"none", "boot", "program", "kmLow", "kmHigh", "ts",
                       "layer", "frodoCt"}

VARIABLES
  main,      \* where the main thread is
  refusing,  \* is the screen a refusal?
  tty,       \* is stdin a terminal?  (never changes)
  bad,       \* the damaged blob: SALT or VM_PROG_BLOB ("boot"), a program the
             \* VM rejects, either half of KM, TS_BLOB, CT_FRODO, another blob
             \* of the layers (never changes)
  hour,      \* has the opening time come?
  typed,     \* history: the last password read
  ntp,       \* the consensus time against the opening time
  content,   \* the text in content_buf
  file,      \* the executable on disk
  busy,      \* ticks main has been at its place, or in a turn of its loop
  burn       \* ticks since watchdog::stop() let the text burn

mainVars == <<main, refusing, typed, ntp, content, file,
              busy, burn>>
vars == <<watchVars, mainVars, tty, bad, hour>>

\* Places in main(), in the order a run meets them.
Setup == {"start", "inject", "alloc", "password", "vm", "spawn"}
Checks == {"anchor", "seccomp", "year", "ntp", "prompt", "query", "anchor2",
           "gate", "layers"}
Screens == {"show", "esc", "dialog"}
Ending == {"singe", "refused", "burning", "burnt", "locked", "drop",
           "dropKey", "unmap", "return"}

TypeOK ==
  /\ WatchTypeOK
  /\ main \in Setup \cup Checks \cup Screens \cup Ending
  /\ refusing \in BOOLEAN
  /\ tty \in BOOLEAN
  /\ bad \in Blemishes
  /\ hour \in BOOLEAN
  /\ typed \in {"none"} \cup Words
  /\ ntp \in {"none", "before", "after"}
  /\ content \in {"none", "text", "locked", "wiped"}
  /\ file \in {"present", "ash"}
  /\ busy \in Nat
  /\ burn \in 0..BurnMin

Init ==
  /\ WatchInit
  /\ main = "start" /\ refusing = FALSE
  /\ tty \in BOOLEAN
  /\ bad \in Blemishes
  /\ hour \in BOOLEAN
  /\ typed = "none" /\ ntp = "none"
  /\ content = "none" /\ file = "present"
  /\ busy = 0 /\ burn = 0

-----------------------------------------------------------------------------
(* Steps shared by the places below.                                       *)

\* What no step of the main thread ever assigns.
Untouched == UNCHANGED <<spare, tracer, exe, traced, forged, tty, bad, hour>>

\* The run goes on at place p.
Goto(p) == main' = p /\ UNCHANGED <<proc, cause>>

\* refuse(): show the reasons, then burn without deleting, then exit(1).
Refuse == Goto("show") /\ refusing' = TRUE

Exit(how) == proc' = how /\ UNCHANGED <<main, cause>>

\* main calls self_destruct().
Die(why) == SelfDestruct(why) /\ UNCHANGED main

Beaten == quiet' = 0
NoBeat == UNCHANGED quiet

\* A check that may refuse at place p and otherwise goes on to q.
Check(p, q) ==
  /\ main = p
  /\ \/ Goto(q) /\ UNCHANGED refusing
     \/ Refuse
  /\ UNCHANGED <<running, petVars, exeSha, key, keySha, typed, ntp, content,
                 file, burn>>
  /\ Untouched

-----------------------------------------------------------------------------
(* From the start to the watchdog.                                         *)

\* A tracer, or five milliseconds lost between two clock reads, ends the run.
AntiDebug ==
  /\ main = "start"
  /\ \/ Exit("exit137")
     \/ (~tracer \/ ReadFaults) /\ Goto("inject")
  /\ NoBeat
  /\ UNCHANGED <<running, petVars, exeSha, key, keySha, refusing, typed, ntp,
                 content, file, burn>>
  /\ Untouched

CheckInjection == Check("inject", "alloc") /\ NoBeat

\* Two locked buffers, or a refusal.
AllocBuffers ==
  /\ main = "alloc"
  /\ \/ /\ Goto("password") /\ UNCHANGED refusing
        /\ key' = [val |-> "empty", prot |-> "rw"]
     \/ Refuse /\ UNCHANGED key
  /\ NoBeat
  /\ UNCHANGED <<running, petVars, exeSha, keySha, typed, ntp, content, file,
                 burn>>
  /\ Untouched

\* The right password opens VM_PROG_BLOB if it and SALT are as sealed.
Opens(word) == word = "right" /\ bad # "boot"

\* Any other word: a terminal is asked again, a pipe is punished.
EnterPassword ==
  /\ main = "password"
  /\ \E word \in Words :
       /\ typed' = word
       /\ IF Opens(word) THEN Goto("vm")
          ELSE IF tty THEN Goto("password")
          ELSE Die("password")
  /\ NoBeat
  /\ UNCHANGED <<running, petVars, exeSha, key, keySha, refusing, ntp,
                 content, file, burn>>
  /\ Untouched

\* What the VM rebuilds from KM: k1 is its low half, k2 its high half.
Rebuilt == CASE bad = "kmLow" -> "wrong"
             [] bad = "kmHigh" -> "half"
             [] OTHER -> "secret"

RunVM ==
  /\ main = "vm"
  /\ IF bad = "program"
       THEN Die("program") /\ UNCHANGED key
       ELSE Goto("spawn") /\ key' = [key EXCEPT !.val = Rebuilt]
  /\ NoBeat
  /\ UNCHANGED <<running, petVars, exeSha, keySha, refusing, typed, ntp,
                 content, file, burn>>
  /\ Untouched

\* Mutant of Spawn: the key page is hashed before the key is copied into it.
SpawnHashesEarly ==
  /\ main = "spawn"
  /\ Goto("anchor")
  /\ WatchdogStart("empty")
  /\ key' = [key EXCEPT !.prot = "ro"]
  /\ UNCHANGED <<running, refusing, typed, ntp, content, file, burn>>
  /\ Untouched

\* The key page is hashed, the watchdog started, the page made read-only.
Spawn ==
  /\ main = "spawn"
  /\ Goto("anchor")
  /\ WatchdogStart(key.val)
  /\ key' = [key EXCEPT !.prot = "ro"]
  /\ UNCHANGED <<running, refusing, typed, ntp, content, file, burn>>
  /\ Untouched

-----------------------------------------------------------------------------
(* Under the watchdog, up to the text.                                     *)

AnchorClock == Check("anchor", "seccomp") /\ Beaten
InstallSeccomp == Check("seccomp", "year") /\ Beaten
CheckYear == Check("year", "ntp") /\ Beaten
AnchorHolds == Check("anchor2", "gate") /\ Beaten

\* Honest servers, as module TimeGate bounds them.
TrueTime == IF hour THEN "after" ELSE "before"

\* Five servers agree on the time, or none answered in time.
SyncAll ==
  /\ main = "ntp"
  /\ \/ Goto("anchor2") /\ ntp' = TrueTime
     \/ Goto("prompt") /\ UNCHANGED ntp
  /\ Beaten
  /\ UNCHANGED <<running, petVars, exeSha, key, keySha, refusing, typed,
                 content, file, burn>>
  /\ Untouched

\* read_line for another host: it blocks, and nothing beats meanwhile.
AnswerPrompt ==
  /\ main = "prompt"
  /\ Goto("query")
  /\ NoBeat
  /\ UNCHANGED <<running, petVars, exeSha, key, keySha, refusing, typed, ntp,
                 content, file, burn>>
  /\ Untouched

\* ntp::query of that host, still without a beat.
AskCustom ==
  /\ main = "query"
  /\ \/ Goto("anchor2") /\ ntp' = TrueTime /\ UNCHANGED refusing
     \/ Refuse /\ UNCHANGED ntp
  /\ Beaten
  /\ UNCHANGED <<running, petVars, exeSha, key, keySha, typed, content, file,
                 burn>>
  /\ Untouched

\* Mutant of PassGate: the consensus time is not compared.
PassGateAnyTime ==
  /\ main = "gate"
  /\ IF key.val \notin {"secret", "half"} \/ bad = "ts"
       THEN Die("gate") /\ UNCHANGED refusing
     ELSE Goto("layers") /\ UNCHANGED refusing
  /\ Beaten
  /\ UNCHANGED <<running, petVars, exeSha, key, keySha, typed, ntp, content,
                 file, burn>>
  /\ Untouched

\* k1 is copied out of the key page; it must open TS_BLOB, or the run dies.
\* Then the consensus time must have reached the opening time.
PassGate ==
  /\ main = "gate"
  /\ IF key.val \notin {"secret", "half"} \/ bad = "ts"
       THEN Die("gate") /\ UNCHANGED refusing
     ELSE IF ntp = "before"
       THEN Refuse
     ELSE Goto("layers") /\ UNCHANGED refusing
  /\ Beaten
  /\ UNCHANGED <<running, petVars, exeSha, key, keySha, typed, ntp, content,
                 file, burn>>
  /\ Untouched

\* Mutant of Unseal: a damaged layer is not noticed.
UnsealAnyway ==
  /\ main = "layers"
  /\ Goto("show") /\ content' = "text"
  /\ Beaten
  /\ UNCHANGED <<running, petVars, exeSha, key, keySha, refusing, typed, ntp,
                 file, burn>>
  /\ Untouched

\* The layers give up the text, or a damaged one ends the run: a failed check
\* calls self_destruct, a failed expect aborts.  Of CT_FRODO only the decoded
\* message is used, and small damage may leave that as it was.
Unseal ==
  /\ main = "layers"
  /\ \/ /\ bad # "layer"
        /\ Goto("show") /\ content' = "text"
     \/ /\ bad \in {"layer", "frodoCt"}
        /\ Die("layer") \/ Exit("panicked")
        /\ UNCHANGED content
  /\ Beaten
  /\ UNCHANGED <<running, petVars, exeSha, key, keySha, refusing, typed, ntp,
                 file, burn>>
  /\ Untouched

-----------------------------------------------------------------------------
(* The screens, for the text and for a refusal alike.                      *)

\* What no key on a screen assigns.
ScreenKeeps == UNCHANGED <<petVars, exeSha, key, keySha, refusing, typed, ntp,
                           content, file>>

\* Mutant of ShowPiped: a pipe enters the loop that waits for keys.
ShowPipedLoops ==
  /\ main = "show" /\ ~tty
  /\ Goto("show")
  /\ Beaten
  /\ UNCHANGED <<running, burn>> /\ ScreenKeeps /\ Untouched

\* A pipe gets the first page.  After the text that is the end of the run.
ShowPiped ==
  /\ main = "show" /\ ~tty
  /\ IF refusing THEN Goto("singe") ELSE Exit("exit0")
  /\ Beaten
  /\ UNCHANGED <<running, burn>> /\ ScreenKeeps /\ Untouched

\* ESC: nav_wait reads on for the rest of an arrow key, and blocks.
PressEsc ==
  /\ main = "show" /\ tty
  /\ Goto("esc")
  /\ NoBeat
  /\ UNCHANGED <<running, burn>> /\ ScreenKeeps /\ Untouched

\* Mutant of FollowEsc: the loop of show() goes on without its feed().
FollowEscUnfed ==
  /\ main = "esc"
  /\ Goto("show")
  /\ NoBeat
  /\ UNCHANGED <<running, burn>> /\ ScreenKeeps /\ Untouched

FollowEsc ==
  /\ main = "esc"
  /\ Goto("show")
  /\ Beaten
  /\ UNCHANGED <<running, burn>> /\ ScreenKeeps /\ Untouched

PressQ ==
  /\ main = "show" /\ tty
  /\ Goto("dialog")
  /\ Beaten
  /\ UNCHANGED <<running, burn>> /\ ScreenKeeps /\ Untouched

\* Any letter but the one asked for keeps the page on screen.
Cancel ==
  /\ main = "dialog"
  /\ Goto("show")
  /\ Beaten
  /\ UNCHANGED <<running, burn>> /\ ScreenKeeps /\ Untouched

\* Mutant of Confirm: the watchdog is left running while the text burns.
ConfirmNoStop ==
  /\ main = "dialog"
  /\ IF refusing
       THEN Goto("singe") /\ UNCHANGED burn
       ELSE Goto("burning") /\ burn' = 0
  /\ UNCHANGED running
  /\ Beaten
  /\ ScreenKeeps /\ Untouched

\* The letter asked for.  The watchdog is told to stop before the text burns,
\* but not before a refusal does.
Confirm ==
  /\ main = "dialog"
  /\ IF refusing
       THEN Goto("singe") /\ UNCHANGED <<running, burn>>
       ELSE Goto("burning") /\ running' = FALSE /\ burn' = 0
  /\ Beaten
  /\ ScreenKeeps /\ Untouched

-----------------------------------------------------------------------------
(* The end of a refusal, and of a reading.                                 *)

\* Mutant of Singe: the watchdog is waited for, but not told to stop first.
SingeJoins ==
  /\ main = "singe"
  /\ dog \in {"unborn", "gone"}
  /\ Goto("refused") /\ running' = FALSE
  /\ NoBeat
  /\ UNCHANGED burn /\ ScreenKeeps /\ Untouched

Singe ==
  /\ main = "singe"
  /\ Goto("refused") /\ running' = FALSE
  /\ NoBeat
  /\ UNCHANGED burn /\ ScreenKeeps /\ Untouched

RefuseExit ==
  /\ main = "refused"
  /\ Exit("exit1")
  /\ NoBeat
  /\ UNCHANGED <<running, burn>> /\ ScreenKeeps /\ Untouched

BurnDone ==
  /\ main = "burning" /\ burn >= BurnMin
  /\ Goto("burnt")
  /\ NoBeat
  /\ UNCHANGED <<running, burn>> /\ ScreenKeeps /\ Untouched

\* What no step after the animation assigns.
EndKeeps ==
  /\ NoBeat
  /\ UNCHANGED <<running, petVars, exeSha, keySha, refusing, typed, ntp, burn>>
  /\ Untouched

\* Mutant of LockBuffers: only the key is locked.
LockBuffersKeyOnly ==
  /\ main = "burnt"
  /\ Goto("locked")
  /\ key' = [key EXCEPT !.prot = "none"]
  /\ UNCHANGED <<content, file>> /\ EndKeeps

\* key_buf.lock_none(), content_buf.lock_none().
LockBuffers ==
  /\ main = "burnt"
  /\ Goto("locked")
  /\ key' = [key EXCEPT !.prot = "none"]
  /\ content' = "locked"
  /\ UNCHANGED file /\ EndKeeps

\* Mutant of DeleteExe: NO_SELF_DESTRUCT is not asked.
DeleteExeAnyway ==
  /\ main = "locked"
  /\ Goto("drop")
  /\ file' \in {file, "ash"}
  /\ UNCHANGED <<key, content>> /\ EndKeeps

\* Mutant of DeleteExe: the process ends here, and nothing is dropped.
DeleteExeExits ==
  /\ main = "locked"
  /\ Goto("return")
  /\ file' \in IF spare THEN {file} ELSE {file, "ash"}
  /\ UNCHANGED <<key, content>> /\ EndKeeps

\* remove_file, unless spared; a failure is ignored.
DeleteExe ==
  /\ main = "locked"
  /\ Goto("drop")
  /\ file' \in IF spare THEN {file} ELSE {file, "ash"}
  /\ UNCHANGED <<key, content>> /\ EndKeeps

\* main returns and drops content_buf, then key_buf.
DropContent ==
  /\ main = "drop"
  /\ Goto("dropKey")
  /\ content' = "wiped"
  /\ UNCHANGED <<key, file>> /\ EndKeeps

ZeroKey ==
  /\ main = "dropKey"
  /\ Goto("unmap")
  /\ key' = [val |-> "zeroed", prot |-> "rw"]
  /\ UNCHANGED <<content, file>> /\ EndKeeps

UnmapKey ==
  /\ main = "unmap"
  /\ Goto("return")
  /\ key' = [key EXCEPT !.prot = "unmapped"]
  /\ UNCHANGED <<content, file>> /\ EndKeeps

Return ==
  /\ main = "return"
  /\ Exit("exit0")
  /\ UNCHANGED <<key, content, file>> /\ EndKeeps

-----------------------------------------------------------------------------
(* The heartbeat, the hour and the passage of time.                        *)

\* The loops that feed the watchdog while they run.
Fed == {"ntp", "anchor2", "layers", "show", "dialog", "singe", "burning"}

Beat ==
  /\ main \in Fed /\ dog # "unborn" /\ busy > 0
  /\ Beaten
  /\ UNCHANGED <<proc, cause, running, burn, main>> /\ ScreenKeeps /\ Untouched

Strike ==
  /\ proc = "running" /\ ~hour
  /\ hour' = TRUE
  /\ UNCHANGED <<watchVars, mainVars, tty, bad>>

\* How long main may stay at place p, or in one turn of its loop.
\* At "show" a key that means nothing is read and ignored without a beat: only
\* a poll that finds no key for 100 ms beats.
Limit(p) == CASE p \in {"prompt", "esc"} -> Patience
              [] p = "show" -> WorkMax + Patience
              [] p = "query" -> QueryMax
              [] OTHER -> WorkMax

Tick ==
  /\ proc = "running" /\ dog # "unborn"
  /\ busy < Limit(main)
  /\ DogTick
  /\ busy' = busy + 1
  /\ burn' = IF main = "burning" /\ burn < BurnMin THEN burn + 1 ELSE burn
  /\ UNCHANGED <<main, refusing, typed, ntp, content, file, tty, bad, hour>>

-----------------------------------------------------------------------------
(* The specification.                                                      *)

\* Steps that wait for a person at a terminal, and that a pipe never delays.
UserStep == EnterPassword \/ AnswerPrompt

\* Steps only a person takes.
KeyStep == PressEsc \/ FollowEsc \/ PressQ \/ Cancel \/ Confirm

\* Steps the program takes by itself.
OwnStep ==
  \/ AntiDebug \/ CheckInjection \/ AllocBuffers \/ RunVM \/ Spawn
  \/ AnchorClock \/ InstallSeccomp \/ CheckYear \/ SyncAll \/ AskCustom
  \/ AnchorHolds \/ PassGate \/ Unseal \/ ShowPiped \/ Singe \/ RefuseExit
  \/ BurnDone \/ LockBuffers \/ DeleteExe \/ DropContent \/ ZeroKey
  \/ UnmapKey \/ Return

\* A step of the main thread, after which it is busy anew.
MainDoes(A) == proc = "running" /\ A /\ busy' = 0

Main == MainDoes(OwnStep \/ UserStep \/ KeyStep \/ Beat)

DogStep == Dog /\ UNCHANGED <<mainVars, tty, bad, hour>>

TamperStep == Tamper /\ UNCHANGED <<mainVars, tty, bad, hour>>

\* Nothing follows the end of the process.
Finished == proc # "running" /\ UNCHANGED vars

Next == Main \/ DogStep \/ TamperStep \/ Strike \/ Tick \/ Finished

\* The scheduler runs both threads and time passes; nobody has to press a key.
Fairness ==
  /\ WF_vars(MainDoes(OwnStep))
  /\ WF_vars(MainDoes(Beat))
  /\ WF_vars(MainDoes(UserStep) /\ ~tty)
  /\ WF_vars(DogStep)
  /\ WF_vars(Tick)

Spec == Init /\ [][Next]_vars

FairSpec == Spec /\ Fairness

-----------------------------------------------------------------------------
(* Safety.                                                                 *)

\* The burning animation outlasts the watchdog's last round of checks.
LongBurn == BurnMin > Poll + Slack

\* Every blocking read is answered, and every burst of idle keys over, within
\* the minute the watchdog allows.
Answered ==
  /\ WorkMax + 2 * Patience < StaleAfter
  /\ Patience + QueryMax < StaleAfter
  /\ 2 * WorkMax < StaleAfter

\* stop() does not join the watchdog, and main goes on to take the key page
\* away.  No segmentation fault follows as long as the animation in between
\* lasts longer than a sleep of the thread and the scheduler's slack.
NoFault == LongBurn => proc # "fault"

\* The heartbeat never grows stale in a run whose reads are answered: no path
\* between two beats is longer than a blocking read and what surrounds it.
NeverStale == LongBurn /\ Answered => cause # "stale"

\* "Only tampering triggers self-destruct, so legit users are treated gently"
\* (README.en.md), where it holds: nobody tampers, what the key opens is not
\* damaged, /proc can be read, reads are answered, and no wrong word comes
\* out of a pipe.
Gentle ==
  /\ LongBurn /\ Answered
  /\ Mischief = {} /\ ~ReadFaults
  /\ bad \in {"none", "kmHigh"}
  /\ tty \/ typed \in {"none", "right"}
  => proc \in {"running", "exit0", "exit1", "exit137"} /\ cause = "none"

\* Text in the buffer took the right password, the hour, and every sealed blob
\* it depends on: all but the half of KM that holds k2, which nothing uses, and
\* CT_FRODO, of which damage that the decoding rounds away is not noticed.
RevealNeedsAll ==
  content # "none" =>
    hour /\ typed = "right" /\ bad \in {"none", "kmHigh", "frodoCt"}

\* The executable is gone only once its text is out of reach, the watchdog
\* told to stop, and the page of the key taken away.
BurnOrder ==
  file = "ash" =>
    /\ content \in {"locked", "wiped"}
    /\ key.prot # "ro" /\ ~running /\ ~spare

\* A reading at a terminal that ends by itself leaves nothing in the buffers.
ExitWipes ==
  tty /\ proc = "exit0" => content = "wiped" /\ key.val # "secret"

-----------------------------------------------------------------------------
(* What the README says and the code does not do.                          *)

\* "Only tampering triggers self-destruct, so legit users are treated gently"
\* (README.en.md): the owner at a terminal, however slow to answer, is not
\* killed while nobody tampers and nothing is damaged.
OwnerSpared ==
  tty /\ Mischief = {} /\ ~ReadFaults /\ bad = "none" /\ LongBurn
  => proc # "killed"

\* "Burn after reading: buffers are zeroized" (README.en.md): a run that has
\* shown the text and ends by itself has wiped it, at a terminal or not.
EveryReadingWiped == proc = "exit0" => content = "wiped"

-----------------------------------------------------------------------------
(* Liveness.                                                               *)

\* "Piped runs never block" (src/tui.rs): a run on a pipe always ends.
PipedRunEnds == ~tty ~> proc # "running"

\* Once the letter is typed the run ends, come what may.
BurningEnds == main \in {"burning", "singe"} ~> proc # "running"

-----------------------------------------------------------------------------
(* The envelope that a run implements.                                     *)

Promise == INSTANCE Envelope WITH
  page <- proc = "running" /\ content = "text",
  read <- content # "none"

KeepsPromise == Promise!Spec
=============================================================================
