--------------------------- MODULE KeeperPromise ---------------------------
(***************************************************************************)
(* A run of module Keeper keeps the promise of module Envelope, and ends   *)
(* the way main() means it to.  Both follow from what main has done by the *)
(* time it is where it is: PathInv up to the text, EndInv after it.        *)
(***************************************************************************)
EXTENDS KeeperSafety

USE DEF Goto, Refuse, Exit, Die, SelfDestruct, Beaten, NoBeat, Untouched,
        Check, ScreenKeeps, EndKeeps, petVars

PathInv ==
  /\ main \in {"vm", "spawn"} \cup Checks => typed = "right" /\ bad # "boot"
  /\ key.val = "secret" => bad \notin {"program", "kmLow", "kmHigh"}
  /\ key.val = "half" => bad = "kmHigh"
  /\ ntp = "after" => hour
  /\ main \in {"anchor2", "gate"} => ntp # "none"
  /\ main = "layers" => hour /\ bad \notin {"program", "kmLow", "ts"}
  /\ content # "none" =>
       hour /\ typed = "right" /\ bad \in {"none", "kmHigh", "frodoCt"}

EndInv ==
  /\ main \in Setup \cup Checks => content = "none"
  /\ main \in Screens /\ ~refusing => content = "text"
  /\ main \in Screens \cup {"singe", "refused"} => content \in {"none", "text"}
  /\ main \in {"burning", "burnt"} => content = "text"
  /\ main \in {"locked", "drop"} => content = "locked"
  /\ main \in {"dropKey", "unmap", "return"} => content = "wiped"
  /\ main \in {"locked", "drop", "dropKey", "unmap", "return"}
       => key.prot # "ro"
  /\ main \in {"unmap", "return"} => key.val # "secret"
  /\ file = "ash" => main \in {"drop", "dropKey", "unmap", "return"} /\ ~spare
  /\ tty /\ proc = "exit0" => main = "return"

-----------------------------------------------------------------------------
(* Up to the text.                                                         *)

LEMMA PathMain ==
  ASSUME TypeOK, TypeOK', PathInv, EndInv, Main
  PROVE  PathInv'
<1> USE DEF PathInv, Setup, Checks, Screens, Main, MainDoes, TypeOK,
            WatchTypeOK
<1>1. CASE AntiDebug \/ CheckInjection \/ AllocBuffers
  BY <1>1 DEF AntiDebug, CheckInjection, AllocBuffers
<1>2. CASE EnterPassword
  BY <1>2 DEF EnterPassword, Opens, EndInv
<1>3. CASE RunVM
  BY <1>3 DEF RunVM, Rebuilt
<1>4. CASE Spawn
  BY <1>4 DEF Spawn, WatchdogStart
<1>5. CASE AnchorClock \/ InstallSeccomp \/ CheckYear \/ AnchorHolds
  BY <1>5 DEF AnchorClock, InstallSeccomp, CheckYear, AnchorHolds
<1>6. CASE SyncAll \/ AnswerPrompt \/ AskCustom
  BY <1>6 DEF SyncAll, AnswerPrompt, AskCustom, TrueTime
<1>7. CASE PassGate
  BY <1>7 DEF PassGate
<1>8. CASE Unseal
  BY <1>8, BlemishesAssumption DEF Unseal
<1>9. CASE \/ ShowPiped \/ Singe \/ RefuseExit \/ PressEsc \/ FollowEsc
           \/ PressQ \/ Cancel \/ Confirm \/ Beat \/ BurnDone
  BY <1>9 DEF ShowPiped, Singe, RefuseExit, PressEsc, FollowEsc, PressQ,
              Cancel, Confirm, Beat, BurnDone
<1>10. CASE \/ LockBuffers \/ DeleteExe \/ DropContent \/ ZeroKey
            \/ UnmapKey \/ Return
  BY <1>10 DEF LockBuffers, DeleteExe, DropContent, ZeroKey, UnmapKey, Return,
               EndInv
<1> QED
  BY <1>1, <1>2, <1>3, <1>4, <1>5, <1>6, <1>7, <1>8, <1>9, <1>10
  DEF OwnStep, UserStep, KeyStep

\* The watchdog and the clock leave main's past alone; the tamperer can only
\* make the key neither "secret" nor "half".
LEMMA PathStep ==
  TypeOK /\ TypeOK' /\ PathInv /\ EndInv /\ [Next]_vars => PathInv'
<1> SUFFICES ASSUME TypeOK, TypeOK', PathInv, EndInv, [Next]_vars
             PROVE  PathInv'
  OBVIOUS
<1> USE DEF PathInv, TypeOK, WatchTypeOK
<1>1. CASE Main
  BY <1>1, PathMain
<1>2. CASE DogStep
  BY <1>2 DEF DogStep, Dog, DogHead, DogWake, DogLooks, DogExe, DogKey,
              mainVars
<1>3. CASE TamperStep
  BY <1>3 DEF TamperStep, Tamper, AttachTracer, DetachTracer, AlterExe,
              AlterKey, mainVars
<1>4. CASE Strike
  BY <1>4 DEF Strike, watchVars, mainVars
<1>5. CASE Tick \/ UNCHANGED vars
  BY <1>5 DEF Tick, DogTick, vars, watchVars, mainVars
<1> QED
  BY <1>1, <1>2, <1>3, <1>4, <1>5 DEF Next, Finished

-----------------------------------------------------------------------------
(* After the text.                                                         *)

LEMMA EndMain ==
  ASSUME TypeOK, TypeOK', EndInv, Main
  PROVE  EndInv'
<1> USE DEF EndInv, Setup, Checks, Screens, Main, MainDoes, TypeOK,
            WatchTypeOK
<1>1. CASE AntiDebug \/ CheckInjection \/ AllocBuffers
  BY <1>1 DEF AntiDebug, CheckInjection, AllocBuffers
<1>2. CASE EnterPassword \/ RunVM \/ Spawn
  BY <1>2 DEF EnterPassword, RunVM, Spawn, WatchdogStart
<1>3. CASE AnchorClock \/ InstallSeccomp \/ CheckYear \/ AnchorHolds
  BY <1>3 DEF AnchorClock, InstallSeccomp, CheckYear, AnchorHolds
<1>4. CASE SyncAll \/ AnswerPrompt \/ AskCustom \/ PassGate \/ Unseal
  BY <1>4 DEF SyncAll, AnswerPrompt, AskCustom, PassGate, Unseal
<1>5. CASE \/ ShowPiped \/ Singe \/ RefuseExit \/ PressEsc \/ FollowEsc
           \/ PressQ \/ Cancel \/ Beat
  BY <1>5 DEF ShowPiped, Singe, RefuseExit, PressEsc, FollowEsc, PressQ,
              Cancel, Beat
<1>6. CASE Confirm
  <2>1. /\ main = "dialog" /\ UNCHANGED <<content, file, key, refusing, proc>>
        /\ main' = IF refusing THEN "singe" ELSE "burning"
    BY Zenon, <1>6 DEF Confirm
  <2>2. spare' = spare
    BY <1>6 DEF Confirm
  <2> QED
    BY <2>1, <2>2
<1>7. CASE BurnDone \/ LockBuffers \/ DeleteExe \/ DropContent
  BY <1>7 DEF BurnDone, LockBuffers, DeleteExe, DropContent
<1>8. CASE ZeroKey \/ UnmapKey \/ Return
  BY <1>8 DEF ZeroKey, UnmapKey, Return
<1> QED
  BY <1>1, <1>2, <1>3, <1>4, <1>5, <1>6, <1>7, <1>8
  DEF OwnStep, UserStep, KeyStep

LEMMA EndStep ==
  TypeOK /\ TypeOK' /\ EndInv /\ [Next]_vars => EndInv'
<1> SUFFICES ASSUME TypeOK, TypeOK', EndInv, [Next]_vars
             PROVE  EndInv'
  OBVIOUS
<1> USE DEF EndInv, TypeOK, WatchTypeOK
<1>1. CASE Main
  BY <1>1, EndMain
<1>2. CASE DogStep
  BY <1>2 DEF DogStep, Dog, DogHead, DogWake, DogLooks, DogExe, DogKey,
              mainVars
<1>3. CASE TamperStep
  BY <1>3 DEF TamperStep, Tamper, AttachTracer, DetachTracer, AlterExe,
              AlterKey, mainVars
<1>4. CASE Strike
  BY <1>4 DEF Strike, watchVars, mainVars
<1>5. CASE Tick \/ UNCHANGED vars
  BY <1>5 DEF Tick, DogTick, vars, watchVars, mainVars
<1> QED
  BY <1>1, <1>2, <1>3, <1>4, <1>5 DEF Next, Finished

LEMMA PathHolds == Spec => [](PathInv /\ EndInv)
<1>1. Init => PathInv /\ EndInv
  BY DEF Init, WatchInit, PathInv, EndInv, Setup, Checks, Screens
<1>2. TypeOK /\ TypeOK' /\ PathInv /\ EndInv /\ [Next]_vars
        => PathInv' /\ EndInv'
  BY PathStep, EndStep
<1> QED
  BY <1>1, <1>2, TypeCorrect, PTL DEF Spec

\* The text is in the buffer only in a run that took the right password, that
\* the hour let pass, and whose sealed blobs are whole, but for the half of the
\* key material that nothing uses and for what FrodoKEM's decoding makes good
\* (src/main.rs).
THEOREM RevealNeedsAllHolds == Spec => []RevealNeedsAll
<1>1. PathInv => RevealNeedsAll
  BY DEF PathInv, RevealNeedsAll
<1> QED
  BY <1>1, PathHolds, PTL

\* The executable goes after the text, the key page and the watchdog.
THEOREM BurnOrderHolds == Spec => []BurnOrder
<1>1. TypeOK /\ ClockInv /\ EndInv => BurnOrder
  BY DEF ClockInv, Taken, EndInv, BurnOrder
<1> QED
  BY <1>1, PathHolds, ClockHolds, TypeCorrect, PTL

\* A reading at a terminal that comes to its end has wiped both buffers.
THEOREM ExitWipesHolds == Spec => []ExitWipes
<1>1. EndInv => ExitWipes
  BY DEF EndInv, ExitWipes
<1> QED
  BY <1>1, PathHolds, PTL

-----------------------------------------------------------------------------
(* The refinement.                                                         *)

\* A step of main opens, closes or burns the envelope, or leaves it alone.
LEMMA PromiseMain ==
  ASSUME TypeOK, TypeOK', PathInv, PathInv', EndInv, Main
  PROVE  [Promise!Next]_(Promise!vars)
<1>1. ASSUME content' = content, file' = file, hour' = hour
      PROVE  [Promise!Next]_(Promise!vars)
  <2>1. CASE content = "text" /\ proc' # "running"
    BY <1>1, <2>1 DEF Promise!Next, Promise!Close, Promise!vars, Main, MainDoes
  <2>2. CASE content # "text" \/ proc' = "running"
    BY <1>1, <2>2 DEF Promise!vars, Main, MainDoes
  <2> QED
    BY <2>1, <2>2
<1> USE DEF Main, MainDoes
<1>2. CASE \/ AntiDebug \/ CheckInjection \/ AllocBuffers \/ RunVM \/ Spawn
           \/ EnterPassword
  BY <1>1, <1>2 DEF AntiDebug, CheckInjection, AllocBuffers, RunVM, Spawn,
                    EnterPassword
<1>3. CASE \/ AnchorClock \/ InstallSeccomp \/ CheckYear \/ AnchorHolds
           \/ SyncAll \/ AnswerPrompt \/ AskCustom \/ PassGate
  BY <1>1, <1>3 DEF AnchorClock, InstallSeccomp, CheckYear, AnchorHolds,
                    SyncAll, AnswerPrompt, AskCustom, PassGate
<1>4. CASE Unseal
  <2>1. hour' = hour /\ file' = file
    BY <1>4 DEF Unseal
  <2>2. CASE content' = content
    BY <1>1, <1>4, <2>1, <2>2 DEF Unseal
  <2>3. CASE content' # content
    <3>1. hour /\ content = "none" /\ content' = "text" /\ proc' = "running"
      BY <1>4, <2>3 DEF Unseal, PathInv, EndInv, Checks
    <3> QED
      BY <2>1, <3>1 DEF Promise!Next, Promise!Open
  <2> QED
    BY <2>2, <2>3
<1>5. CASE \/ ShowPiped \/ Singe \/ RefuseExit \/ PressEsc \/ FollowEsc
           \/ PressQ \/ Cancel \/ Confirm \/ Beat \/ BurnDone
           \/ ZeroKey \/ UnmapKey \/ Return
  BY <1>1, <1>5 DEF ShowPiped, Singe, RefuseExit, PressEsc, FollowEsc, PressQ,
                    Cancel, Confirm, Beat, BurnDone, ZeroKey, UnmapKey, Return
<1>6. CASE LockBuffers
  <2>1. /\ content = "text" /\ content' = "locked" /\ proc' = "running"
        /\ file' = file /\ hour' = hour
    BY <1>6 DEF LockBuffers, EndInv
  <2> QED
    BY <2>1 DEF Promise!Next, Promise!Close, Main, MainDoes
<1>7. CASE DeleteExe
  <2>1. /\ content = "locked" /\ content' = content /\ hour' = hour
        /\ file' = file \/ file' = "ash"
    BY <1>7 DEF DeleteExe, EndInv
  <2>2. file = "present"
    BY <1>7 DEF DeleteExe, EndInv, TypeOK
  <2> QED
    BY <1>1, <2>1, <2>2 DEF Promise!Next, Promise!Burn
<1>8. CASE DropContent
  <2>1. /\ content = "locked" /\ content' = "wiped" /\ hour' = hour
        /\ file' = file
    BY <1>8 DEF DropContent, EndInv
  <2> QED
    BY <2>1 DEF Promise!vars
<1> QED
  BY <1>2, <1>3, <1>4, <1>5, <1>6, <1>7, <1>8 DEF OwnStep, UserStep, KeyStep

\* Any other step leaves the envelope alone, or is the hour striking, or is a
\* sudden death that closes it.
LEMMA PromiseStep ==
  TypeOK /\ TypeOK' /\ PathInv /\ PathInv' /\ EndInv /\ [Next]_vars
    => [Promise!Next]_(Promise!vars)
<1> SUFFICES ASSUME TypeOK, TypeOK', PathInv, PathInv', EndInv, [Next]_vars
             PROVE  [Promise!Next]_(Promise!vars)
  OBVIOUS
<1>1. CASE Main
  BY <1>1, PromiseMain
<1>2. CASE DogStep
  <2>1. UNCHANGED <<content, file, hour>> /\ proc = "running"
    BY <1>2 DEF DogStep, Dog, mainVars
  <2>2. CASE content = "text" /\ proc' # "running"
    BY <2>1, <2>2 DEF Promise!Next, Promise!Close, Promise!vars
  <2>3. CASE content # "text" \/ proc' = "running"
    BY <2>1, <2>3 DEF Promise!vars
  <2> QED
    BY <2>2, <2>3
<1>3. CASE TamperStep \/ Tick \/ UNCHANGED vars
  BY <1>3 DEF TamperStep, Tamper, Tick, DogTick, vars, watchVars, mainVars,
              Promise!vars
<1>4. CASE Strike
  <2>1. UNCHANGED <<content, file, proc>>
    BY <1>4 DEF Strike, watchVars, mainVars
  <2>2. ~hour /\ hour' = TRUE
    BY Zenon, <1>4 DEF Strike
  <2> QED
    BY <2>1, <2>2 DEF Promise!Next, Promise!Strike
<1> QED
  BY <1>1, <1>2, <1>3, <1>4 DEF Next, Finished

\* A run of the program implements the envelope: the text opens once, after the
\* hour, and the sealed copy is destroyed only when the text has been read and
\* is out of reach (README.en.md: "read once, burn forever").
THEOREM RunKeepsPromise == Spec => KeepsPromise
<1>1. Init => Promise!Init
  BY DEF Init, WatchInit, Promise!Init
<1>2. TypeOK /\ TypeOK' /\ PathInv /\ PathInv' /\ EndInv /\ [Next]_vars
        => [Promise!Next]_(Promise!vars)
  BY PromiseStep
<1> QED
  BY <1>1, <1>2, TypeCorrect, PathHolds, PTL
  DEF Spec, KeepsPromise, Promise!Spec

-----------------------------------------------------------------------------
(* A run that nobody tampers with.                                         *)

\* Nobody touches the process, and /proc can be read.
Peace == Mischief = {} /\ ~ReadFaults

\* What the watchdog compares stays as it was when the watchdog was started,
\* the key that main is about to use is the one the VM rebuilt, and a pipe that
\* is still read has not given a wrong word.
PeaceInv ==
  /\ Peace =>
       /\ ~tracer
       /\ exe = "intact"
       /\ dog # "unborn" => exeSha = "intact"
       /\ Alive /\ LongBurn => key.val = keySha
       /\ main \in {"spawn"} \cup Checks /\ bad \in {"none", "kmHigh"}
            => key.val \in {"secret", "half"}
  /\ tty \/ proc # "running" \/ typed \in {"none", "right"}

\* What no step ever assigns.
LEMMA ConstantsStep == [Next]_vars => UNCHANGED <<tty, bad, spare>>
BY Zenon DEF Next, Main, MainDoes, OwnStep, UserStep, KeyStep, AntiDebug,
  CheckInjection, AllocBuffers, RunVM, Spawn, AnchorClock, InstallSeccomp,
  CheckYear, SyncAll, AskCustom, AnchorHolds, PassGate, Unseal, ShowPiped,
  Singe, RefuseExit, BurnDone, LockBuffers, DeleteExe, DropContent, ZeroKey,
  UnmapKey, Return, EnterPassword, AnswerPrompt, PressEsc, FollowEsc, PressQ,
  Cancel, Confirm, Beat, DogStep, Dog, DogHead, DogWake, DogLooks, DogExe,
  DogKey, TamperStep, Tamper, Strike, Tick, DogTick, Finished, vars, watchVars,
  mainVars

\* Nobody attaches a tracer.
LEMMA NoTracerStep ==
  ASSUME Peace, ~tracer, [Next]_vars
  PROVE  ~tracer'
<1> USE DEF Peace
<1>1. CASE Main
  <2> USE <1>1 DEF Main, MainDoes
  <2>1. CASE OwnStep
    BY Zenon, <2>1 DEF OwnStep, AntiDebug, CheckInjection, AllocBuffers, RunVM,
      Spawn, AnchorClock, InstallSeccomp, CheckYear, SyncAll, AskCustom,
      AnchorHolds, PassGate, Unseal, ShowPiped, Singe, RefuseExit, BurnDone,
      LockBuffers, DeleteExe, DropContent, ZeroKey, UnmapKey, Return
  <2>2. CASE UserStep \/ KeyStep \/ Beat
    BY Zenon, <2>2 DEF UserStep, EnterPassword, AnswerPrompt, KeyStep, PressEsc,
      FollowEsc, PressQ, Cancel, Confirm, Beat
  <2> QED
    BY <2>1, <2>2
<1>2. CASE DogStep
  BY Zenon, <1>2 DEF DogStep, Dog, DogHead, DogWake, DogLooks, DogExe, DogKey
<1>3. CASE TamperStep
  BY Zenon, <1>3 DEF TamperStep, Tamper, AttachTracer, DetachTracer, AlterExe,
                     AlterKey
<1>4. CASE Strike \/ Tick \/ UNCHANGED vars
  BY Zenon, <1>4 DEF Strike, Tick, DogTick, vars, watchVars
<1> QED
  BY <1>1, <1>2, <1>3, <1>4 DEF Next, Finished

\* Nobody attaches a tracer, replaces the file or writes to the key page; main
\* writes to it only before the watchdog is born and after it is gone.
LEMMA PeaceStep ==
  ASSUME TypeOK, TypeOK', ClockInv, ClockInv', PeaceInv, [Next]_vars, Peace
  PROVE  /\ exe' = "intact"
         /\ dog' # "unborn" => exeSha' = "intact"
         /\ Alive' /\ LongBurn => key.val' = keySha'
         /\ main' \in {"spawn"} \cup Checks /\ bad' \in {"none", "kmHigh"}
              => key.val' \in {"secret", "half"}
<1> USE DEF PeaceInv, Peace, Alive, Checks, TypeOK, WatchTypeOK
<1>1. CASE Main
  <2> USE <1>1 DEF Main, MainDoes
  <2>1. CASE AntiDebug \/ CheckInjection \/ AllocBuffers \/ EnterPassword
    BY <2>1 DEF AntiDebug, CheckInjection, AllocBuffers, EnterPassword,
                ClockInv, Setup
  <2>2. CASE RunVM
    BY <2>2 DEF RunVM, Rebuilt, ClockInv, Setup
  <2>3. CASE Spawn
    <3>1. exeSha' \in {exe}
      BY Zenon, <2>3 DEF Spawn, WatchdogStart, ExeReads
    <3> QED
      BY <2>3, <3>1 DEF Spawn, WatchdogStart
  <2>4. CASE \/ AnchorClock \/ InstallSeccomp \/ CheckYear \/ AnchorHolds
             \/ SyncAll \/ AnswerPrompt \/ AskCustom \/ PassGate \/ Unseal
    BY <2>4 DEF AnchorClock, InstallSeccomp, CheckYear, AnchorHolds, SyncAll,
                AnswerPrompt, AskCustom, PassGate, Unseal
  <2>5. CASE \/ ShowPiped \/ Singe \/ RefuseExit \/ PressEsc \/ FollowEsc
             \/ PressQ \/ Cancel \/ Confirm \/ Beat \/ BurnDone
    BY <2>5 DEF ShowPiped, Singe, RefuseExit, PressEsc, FollowEsc, PressQ,
                Cancel, Confirm, Beat, BurnDone
  <2>6. CASE \/ LockBuffers \/ DeleteExe \/ DropContent \/ ZeroKey
             \/ UnmapKey \/ Return
    BY <2>6 DEF LockBuffers, DeleteExe, DropContent, ZeroKey, UnmapKey, Return,
                ClockInv, Taken
  <2> QED
    BY <2>1, <2>2, <2>3, <2>4, <2>5, <2>6 DEF OwnStep, UserStep, KeyStep
<1>2. CASE DogStep
  BY <1>2 DEF DogStep, Dog, DogHead, DogWake, DogLooks, DogExe, DogKey,
              mainVars
<1>3. CASE TamperStep
  BY <1>3 DEF TamperStep, Tamper, AttachTracer, DetachTracer, AlterExe,
              AlterKey, mainVars
<1>4. CASE Strike \/ Tick \/ UNCHANGED vars
  BY <1>4 DEF Strike, Tick, DogTick, vars, watchVars, mainVars
<1> QED
  BY <1>1, <1>2, <1>3, <1>4 DEF Next, Finished

\* A pipe is read once: a wrong word from it ends the process.
LEMMA PipeStep ==
  ASSUME TypeOK, tty \/ proc # "running" \/ typed \in {"none", "right"},
         [Next]_vars
  PROVE  tty' \/ proc' # "running" \/ typed' \in {"none", "right"}
<1> SUFFICES ASSUME ~tty PROVE proc' # "running" \/ typed' \in {"none", "right"}
  <2>1. tty' = tty
    BY ConstantsStep
  <2> QED
    BY Zenon, <2>1
<1>1. CASE Main
  <2> USE <1>1 DEF Main, MainDoes
  <2>1. CASE EnterPassword
    BY <2>1, WordsAssumption DEF EnterPassword, Opens, TypeOK, WatchTypeOK
  <2>2. CASE OwnStep
    BY <2>2 DEF OwnStep, AntiDebug, CheckInjection, AllocBuffers, RunVM,
      Spawn, AnchorClock, InstallSeccomp, CheckYear, SyncAll, AskCustom,
      AnchorHolds, PassGate, Unseal, ShowPiped, Singe, RefuseExit, BurnDone,
      LockBuffers, DeleteExe, DropContent, ZeroKey, UnmapKey, Return
  <2>3. CASE AnswerPrompt \/ KeyStep \/ Beat
    BY <2>3 DEF AnswerPrompt, KeyStep, PressEsc, FollowEsc, PressQ, Cancel,
      Confirm, Beat
  <2> QED
    BY <2>1, <2>2, <2>3 DEF UserStep
<1>2. CASE DogStep \/ TamperStep \/ Strike \/ Tick \/ UNCHANGED vars
  BY <1>2 DEF DogStep, Dog, TamperStep, Tamper, Strike, Tick, DogTick, vars,
              watchVars, mainVars
<1> QED
  BY <1>1, <1>2 DEF Next, Finished

\* Neither main nor the watchdog finds anything to punish.
LEMMA GentleStep ==
  ASSUME TypeOK, TypeOK', ClockInv, BeatInv, PeaceInv, PathInv, Gentle,
         [Next]_vars
  PROVE  Gentle'
<1> SUFFICES ASSUME Peace, LongBurn, Answered, bad' \in {"none", "kmHigh"},
                    tty' \/ typed' \in {"none", "right"}
             PROVE  /\ proc' \in {"running", "exit0", "exit1", "exit137"}
                    /\ cause' = "none"
  BY DEF Gentle, Peace, LongBurn, Answered
<1>1. bad' = bad
  BY ConstantsStep
<1>2. CASE proc # "running"
  <2>1. UNCHANGED <<proc, cause, typed, tty>>
    BY <1>2 DEF Next, Main, MainDoes, DogStep, Dog, TamperStep, Tamper, Strike,
                Tick, Finished, vars, watchVars, mainVars
  <2>2. tty \/ typed \in {"none", "right"}
    BY Zenon, <2>1
  <2> QED
    BY <1>1, <2>1, <2>2 DEF Gentle, Peace
<1>3. CASE proc = "running"
  <2>0. cause = "none"
    <3>1. tty \/ typed \in {"none", "right"}
      BY Zenon, <1>3 DEF PeaceInv
    <3> QED
      BY <1>1, <3>1 DEF Gentle, Peace
  <2> USE <1>1, <1>3, <2>0 DEF PeaceInv
  <2>1. CASE Main
    <3> USE <2>1 DEF Main, MainDoes, Checks
    <3>1. CASE EnterPassword
      <4>1. tty' = tty
        BY Zenon, <3>1 DEF EnterPassword
      <4>2. PICK word \in Words :
              /\ typed' = word
              /\ IF Opens(word) THEN Goto("vm")
                 ELSE IF tty THEN Goto("password")
                 ELSE Die("password")
        BY Zenon, <3>1 DEF EnterPassword
      <4>3. Opens(word) \/ tty
        <5>1. tty \/ word = "right"
          BY Zenon, <4>1, <4>2, WordsAssumption
        <5> QED
          BY <5>1 DEF Opens
      <4> QED
        BY Zenon, <4>2, <4>3
    <3>2. CASE RunVM
      BY <3>2 DEF RunVM
    <3>3. CASE PassGate
      BY <3>3 DEF PassGate
    <3>4. CASE Unseal
      BY <3>4 DEF Unseal
    <3>5. CASE \/ AntiDebug \/ CheckInjection \/ AllocBuffers \/ Spawn
               \/ AnchorClock \/ InstallSeccomp \/ CheckYear \/ AnchorHolds
               \/ SyncAll \/ AnswerPrompt \/ AskCustom
      BY <3>5 DEF AntiDebug, CheckInjection, AllocBuffers, Spawn, AnchorClock,
        InstallSeccomp, CheckYear, AnchorHolds, SyncAll, AnswerPrompt, AskCustom
    <3>6. CASE \/ ShowPiped \/ Singe \/ RefuseExit \/ PressEsc \/ FollowEsc
               \/ PressQ \/ Cancel \/ Confirm \/ Beat \/ BurnDone
      BY <3>6 DEF ShowPiped, Singe, RefuseExit, PressEsc, FollowEsc, PressQ,
                  Cancel, Confirm, Beat, BurnDone
    <3>7. CASE \/ LockBuffers \/ DeleteExe \/ DropContent \/ ZeroKey
               \/ UnmapKey \/ Return
      BY <3>7 DEF LockBuffers, DeleteExe, DropContent, ZeroKey, UnmapKey, Return
    <3> QED
      BY <3>1, <3>2, <3>3, <3>4, <3>5, <3>6, <3>7
      DEF OwnStep, UserStep, KeyStep
  <2>2. CASE DogStep
    <3> USE <2>2 DEF DogStep, Dog
    <3>1. CASE DogLooks
      <4>1. quiet < StaleAfter
        BY <3>1, FreshHeart DEF DogLooks, Alive
      <4>2. \A seen \in TracerReads : ~seen
        BY Zenon DEF TracerReads, Peace
      <4>3. ~(quiet >= StaleAfter)
        BY <4>1, StaleAfterAssumption DEF TypeOK, WatchTypeOK
      <4> QED
        BY Zenon, <3>1, <4>2, <4>3 DEF DogLooks
    <3>2. CASE DogExe
      <4>1. ExeReads = {exeSha}
        BY Zenon, <3>2 DEF ExeReads, Peace, DogExe
      <4> QED
        BY Zenon, <3>2, <4>1 DEF DogExe
    <3>3. CASE DogKey
      BY <3>3 DEF DogKey, ClockInv, Alive
    <3>4. CASE DogHead \/ DogWake
      BY <3>4 DEF DogHead, DogWake
    <3> QED
      BY <3>1, <3>2, <3>3, <3>4
  <2>3. CASE TamperStep \/ Strike \/ Tick \/ UNCHANGED vars
    BY <2>3 DEF TamperStep, Tamper, Strike, Tick, DogTick, vars, watchVars
  <2> QED
    BY <2>1, <2>2, <2>3 DEF Next, Finished
<1> QED
  BY <1>2, <1>3

\* "Only tampering triggers self-destruct, so legit users are treated gently"
\* (README.en.md), where it holds: reads answered in time, a whole seal, no
\* wrong word on a pipe, and neither thread kills the process (src/main.rs,
\* src/watchdog.rs).
THEOREM GentleHolds == Spec => []Gentle
<1>1. Init => PeaceInv /\ Gentle
  BY DEF Init, WatchInit, PeaceInv, Gentle, Alive, Checks
<1>2. TypeOK /\ TypeOK' /\ ClockInv /\ ClockInv' /\ BeatInv /\ PathInv
        /\ PeaceInv /\ Gentle /\ [Next]_vars => PeaceInv' /\ Gentle'
  <2> SUFFICES ASSUME TypeOK, TypeOK', ClockInv, ClockInv', BeatInv, PathInv,
                      PeaceInv, Gentle, [Next]_vars
               PROVE  PeaceInv' /\ Gentle'
    OBVIOUS
  <2>1. Peace => ~tracer'
    BY NoTracerStep DEF PeaceInv
  <2>2. PeaceInv'
    BY <2>1, PeaceStep, PipeStep DEF PeaceInv, Peace, LongBurn
  <2> QED
    BY <2>2, GentleStep
<1> QED
  BY <1>1, <1>2, TypeCorrect, ClockHolds, BeatHolds, PathHolds, PTL DEF Spec
=============================================================================
