---------------------------- MODULE KeeperSafety ----------------------------
(***************************************************************************)
(* Module Keeper's types and its safety, proved for every value of the     *)
(* constants.  Each part of the inductive invariant stands for one         *)
(* argument:                                                               *)
(*   ClockInv  the watchdog is gone before the key page is taken away;     *)
(*   BeatInv   the heartbeat is as old as the places main went through;    *)
(*   LookInv   what is tampered with is looked at within a round.          *)
(***************************************************************************)
EXTENDS Keeper, TLAPS

USE DEF Goto, Refuse, Exit, Die, SelfDestruct, Beaten, NoBeat, Untouched,
        Check, ScreenKeeps, EndKeeps, petVars

-----------------------------------------------------------------------------
(* Types.                                                                  *)

\* The flags that steps set to FALSE.
Flags == /\ running \in BOOLEAN /\ tracer \in BOOLEAN
         /\ refusing \in BOOLEAN /\ hour \in BOOLEAN

\* Every step leaves the flags Boolean.
LEMMA FlagsTyped == Flags /\ [Next]_vars => Flags'
<1> SUFFICES ASSUME Flags, [Next]_vars PROVE Flags'
  OBVIOUS
<1> USE DEF Flags
<1>1. CASE MainDoes(OwnStep)
  <2> USE <1>1 DEF MainDoes
  <2>1. CASE AntiDebug \/ CheckInjection \/ AllocBuffers \/ RunVM \/ Spawn
    BY Zenon, <2>1 DEF AntiDebug, CheckInjection, AllocBuffers, RunVM, Spawn
  <2>2. CASE \/ AnchorClock \/ InstallSeccomp \/ CheckYear \/ AnchorHolds
             \/ SyncAll \/ AskCustom \/ PassGate \/ Unseal
    BY Zenon, <2>2 DEF AnchorClock, InstallSeccomp, CheckYear, AnchorHolds,
                       SyncAll, AskCustom, PassGate, Unseal
  <2>3. CASE \/ ShowPiped \/ Singe \/ RefuseExit \/ BurnDone \/ LockBuffers
             \/ DeleteExe \/ DropContent \/ ZeroKey \/ UnmapKey \/ Return
    BY Zenon, <2>3 DEF ShowPiped, Singe, RefuseExit, BurnDone, LockBuffers,
                       DeleteExe, DropContent, ZeroKey, UnmapKey, Return
  <2> QED
    BY <2>1, <2>2, <2>3 DEF OwnStep
<1>2. CASE MainDoes(UserStep)
  BY Zenon, <1>2 DEF MainDoes, UserStep, EnterPassword, AnswerPrompt
<1>3. CASE MainDoes(KeyStep)
  BY Zenon, <1>3
  DEF MainDoes, KeyStep, PressEsc, FollowEsc, PressQ, Cancel, Confirm
<1>4. CASE MainDoes(Beat)
  BY Zenon, <1>4 DEF MainDoes, Beat
<1>5. CASE DogStep
  BY Zenon, <1>5 DEF DogStep, Dog, DogHead, DogWake, DogLooks, DogExe, DogKey,
                     mainVars
<1>6. CASE TamperStep
  BY Zenon, <1>6 DEF TamperStep, Tamper, AttachTracer, DetachTracer, AlterExe,
                     AlterKey, mainVars
<1>7. CASE Strike \/ Tick
  BY Zenon, <1>7 DEF Strike, Tick, DogTick, watchVars, mainVars
<1>8. CASE UNCHANGED vars
  BY Zenon, <1>8 DEF vars, watchVars, mainVars
<1> QED
  BY <1>1, <1>2, <1>3, <1>4, <1>5, <1>6, <1>7, <1>8
  DEF Next, Main, MainDoes, Finished

\* The initial states are typed.
LEMMA InitTyped == Init => TypeOK
<1>1. Init => Flags
  BY Zenon DEF Init, WatchInit, Flags
<1> QED
  BY <1>1, PollAssumption, SlackAssumption, BurnMinAssumption
  DEF Init, WatchInit, TypeOK, WatchTypeOK, KeyVals, Prots, Causes, Ended,
      Setup, Flags

\* Every step keeps the types.
LEMMA StepTyped == TypeOK /\ [Next]_vars => TypeOK'
<1> SUFFICES ASSUME TypeOK, [Next]_vars PROVE TypeOK'
  OBVIOUS
<1>0. Flags'
  BY FlagsTyped DEF Flags, TypeOK, WatchTypeOK
<1> USE <1>0, PollAssumption, SlackAssumption, BurnMinAssumption
    DEF Flags, TypeOK, WatchTypeOK, KeyVals, Prots, Causes, Ended, Setup, Checks,
        Screens, Ending
<1>1. CASE MainDoes(OwnStep)
  <2> USE DEF MainDoes
  <2>1. CASE AntiDebug
    BY <1>1, <2>1 DEF AntiDebug
  <2>2. CASE CheckInjection
    BY <1>1, <2>2 DEF CheckInjection
  <2>3. CASE AllocBuffers
    BY <1>1, <2>3 DEF AllocBuffers
  <2>4. CASE RunVM
    BY <1>1, <2>4 DEF RunVM, Rebuilt
  <2>5. CASE Spawn
    BY <1>1, <2>5 DEF Spawn, WatchdogStart, ExeReads
  <2>6. CASE AnchorClock \/ InstallSeccomp \/ CheckYear \/ AnchorHolds
    BY <1>1, <2>6 DEF AnchorClock, InstallSeccomp, CheckYear, AnchorHolds
  <2>7. CASE SyncAll
    BY <1>1, <2>7 DEF SyncAll, TrueTime
  <2>8. CASE AskCustom
    BY <1>1, <2>8 DEF AskCustom, TrueTime
  <2>9. CASE PassGate
    BY <1>1, <2>9 DEF PassGate
  <2>10. CASE Unseal
    BY <1>1, <2>10 DEF Unseal
  <2>11. CASE ShowPiped
    BY <1>1, <2>11 DEF ShowPiped
  <2>12. CASE Singe \/ RefuseExit \/ BurnDone
    BY <1>1, <2>12 DEF Singe, RefuseExit, BurnDone
  <2>13. CASE LockBuffers \/ DeleteExe \/ DropContent
    BY <1>1, <2>13 DEF LockBuffers, DeleteExe, DropContent
  <2>14. CASE ZeroKey \/ UnmapKey \/ Return
    BY <1>1, <2>14 DEF ZeroKey, UnmapKey, Return
  <2> QED
    BY <1>1, <2>1, <2>2, <2>3, <2>4, <2>5, <2>6, <2>7, <2>8, <2>9, <2>10,
       <2>11, <2>12, <2>13, <2>14 DEF OwnStep
<1>2. CASE MainDoes(UserStep)
  <2>1. CASE EnterPassword
    BY <1>2, <2>1 DEF MainDoes, EnterPassword
  <2>2. CASE AnswerPrompt
    BY <1>2, <2>2 DEF MainDoes, AnswerPrompt
  <2> QED
    BY <1>2, <2>1, <2>2 DEF MainDoes, UserStep
<1>3. CASE MainDoes(KeyStep)
  <2>1. CASE PressEsc \/ FollowEsc \/ PressQ \/ Cancel
    BY <1>3, <2>1 DEF MainDoes, PressEsc, FollowEsc, PressQ, Cancel
  <2>2. CASE Confirm
    BY <1>3, <2>2 DEF MainDoes, Confirm
  <2> QED
    BY <1>3, <2>1, <2>2 DEF MainDoes, KeyStep
<1>4. CASE MainDoes(Beat)
  BY <1>4 DEF MainDoes, Beat
<1>5. CASE DogStep
  <2> USE DEF DogStep, Dog, mainVars
  <2>1. CASE DogHead \/ DogWake
    BY <1>5, <2>1 DEF DogHead, DogWake
  <2>2. CASE DogLooks
    BY <1>5, <2>2 DEF DogLooks
  <2>3. CASE DogExe
    BY <1>5, <2>3 DEF DogExe
  <2>4. CASE DogKey
    BY <1>5, <2>4 DEF DogKey
  <2> QED
    BY <1>5, <2>1, <2>2, <2>3, <2>4
<1>6. CASE TamperStep
  BY <1>6 DEF TamperStep, Tamper, AttachTracer, DetachTracer, AlterExe,
              AlterKey, mainVars
<1>7. CASE Strike
  BY <1>7 DEF Strike, watchVars, mainVars
<1>8. CASE Tick
  BY <1>8 DEF Tick, DogTick, DogOnTime, Alive
<1>9. CASE UNCHANGED vars
  BY <1>9 DEF vars, watchVars, mainVars
<1> QED
  BY <1>1, <1>2, <1>3, <1>4, <1>5, <1>6, <1>7, <1>8, <1>9
  DEF Next, Main, MainDoes, Finished

\* Every variable keeps its type, whatever the constants are.
THEOREM TypeCorrect == Spec => []TypeOK
<1>1. Init => TypeOK
  BY InitTyped
<1>2. TypeOK /\ [Next]_vars => TypeOK'
  BY StepTyped
<1> QED
  BY <1>1, <1>2, PTL DEF Spec

-----------------------------------------------------------------------------
(* Safety.                                                                 *)

\* The ticks the thread has left before its round of checks must be over.
Rest == nap + (Slack - lag)

\* Places where the key page is, or is about to be, taken away.
Taken == {"burnt", "locked", "drop", "dropKey", "unmap", "return"}

ClockInv ==
  /\ main \in Setup => ~Alive
  /\ main \in {"burning"} \cup Taken => ~running
  /\ main = "burning" /\ Alive /\ LongBurn => burn + Rest <= Poll + Slack
  /\ main \in Taken /\ LongBurn => ~Alive
  /\ Alive /\ LongBurn => key.prot \in {"rw", "ro"}

\* How old the heartbeat may be when main comes to place p.
Before(p) == CASE p = "query" -> Patience
               [] p = "esc" -> WorkMax + Patience
               [] p = "refused" -> WorkMax
               [] OTHER -> 0

BeatInv ==
  /\ busy <= Limit(main)
  /\ proc = "running" /\ Alive /\ LongBurn => quiet <= Before(main) + busy

\* The ticks that may pass before the thread next looks for a tracer, and
\* before it next looks at the key.
ToLooks == IF dog \in {"asleep", "looks"} THEN Rest ELSE Rest + Poll + Slack
ToKey == IF dog = "head" THEN Rest + Poll + Slack ELSE Rest

LookInv ==
  /\ dog # "asleep" => nap = 0
  /\ dog = "gone" => ~running
  /\ dog = "unborn" => traced = 0 /\ forged = 0
  /\ ~tracer => traced = 0
  /\ Guarding /\ keySha = "forged" => key.val = "forged"
  /\ Guarding /\ key.val = keySha => forged = 0
  /\ Guarding /\ ~ReadFaults =>
       /\ traced + ToLooks <= Poll + 2 * Slack
       /\ forged + ToKey <= Poll + 2 * Slack
  /\ PromptDetection

-----------------------------------------------------------------------------
(* The watchdog is gone before the key page is taken away.                 *)

\* No step of main before the watchdog is spawned touches the thread.
LEMMA ClockMain ==
  ASSUME TypeOK, TypeOK', ClockInv, Main
  PROVE  ClockInv'
<1> USE PollAssumption, SlackAssumption, BurnMinAssumption
    DEF ClockInv, Alive, LongBurn, Rest, Taken, Setup, TypeOK, WatchTypeOK,
        Main, MainDoes
<1>1. CASE \/ AntiDebug \/ CheckInjection \/ AllocBuffers \/ RunVM
           \/ EnterPassword
  BY <1>1 DEF AntiDebug, CheckInjection, AllocBuffers, RunVM, EnterPassword
<1>2. CASE Spawn
  BY <1>2 DEF Spawn, WatchdogStart
<1>3. CASE \/ AnchorClock \/ InstallSeccomp \/ CheckYear \/ AnchorHolds
           \/ SyncAll \/ AnswerPrompt \/ AskCustom \/ PassGate \/ Unseal
  BY <1>3 DEF AnchorClock, InstallSeccomp, CheckYear, AnchorHolds, SyncAll,
              AnswerPrompt, AskCustom, PassGate, Unseal
<1>4. CASE \/ ShowPiped \/ Singe \/ RefuseExit \/ PressEsc \/ FollowEsc
           \/ PressQ \/ Cancel \/ Beat
  BY <1>4 DEF ShowPiped, Singe, RefuseExit, PressEsc, FollowEsc, PressQ,
              Cancel, Beat
<1>5. CASE Confirm
  <2>1. CASE refusing
    BY <1>5, <2>1 DEF Confirm
  <2>2. CASE ~refusing
    <3>1. main' = "burning" /\ burn' = 0 /\ UNCHANGED <<dog, nap, lag, key>>
      BY <1>5, <2>2 DEF Confirm
    <3>2. ~running'
      BY Zenon, <1>5, <2>2 DEF Confirm
    <3> QED
      BY <3>1, <3>2
  <2> QED
    BY <2>1, <2>2
<1>6. CASE BurnDone
  BY <1>6 DEF BurnDone
<1>7. CASE \/ LockBuffers \/ DeleteExe \/ DropContent \/ ZeroKey
           \/ UnmapKey \/ Return
  BY <1>7 DEF LockBuffers, DeleteExe, DropContent, ZeroKey, UnmapKey, Return
<1> QED
  BY <1>1, <1>2, <1>3, <1>4, <1>5, <1>6, <1>7 DEF OwnStep, UserStep, KeyStep

\* Every step of the system keeps the argument going.
LEMMA ClockStep ==
  TypeOK /\ TypeOK' /\ ClockInv /\ [Next]_vars => ClockInv'
<1> SUFFICES ASSUME TypeOK, TypeOK', ClockInv, [Next]_vars
             PROVE  ClockInv'
  OBVIOUS
<1> USE PollAssumption, SlackAssumption, BurnMinAssumption
    DEF ClockInv, Alive, LongBurn, Rest, Taken, Setup, TypeOK, WatchTypeOK
<1>1. CASE Main
  BY <1>1, ClockMain
<1>2. CASE DogStep
  BY <1>2 DEF DogStep, Dog, DogHead, DogWake, DogLooks, DogExe, DogKey,
              mainVars
<1>3. CASE TamperStep
  BY <1>3 DEF TamperStep, Tamper, AttachTracer, DetachTracer, AlterExe,
              AlterKey, mainVars
<1>4. CASE Strike
  BY <1>4 DEF Strike, watchVars, mainVars
<1>5. CASE Tick
  BY <1>5 DEF Tick, DogTick, DogOnTime
<1>6. CASE UNCHANGED vars
  BY <1>6 DEF vars, watchVars, mainVars
<1> QED
  BY <1>1, <1>2, <1>3, <1>4, <1>5, <1>6 DEF Next, Finished

\* Only the watchdog faults, and only on a page that may not be read.
LEMMA FaultStep ==
  TypeOK /\ ClockInv /\ NoFault /\ [Next]_vars => NoFault'
<1> SUFFICES ASSUME TypeOK, ClockInv, NoFault, [Next]_vars
             PROVE  NoFault'
  OBVIOUS
<1> USE DEF NoFault, LongBurn
<1>1. CASE Main
  <2> USE <1>1 DEF Main, MainDoes
  <2>1. CASE OwnStep
    BY <2>1 DEF OwnStep, AntiDebug, CheckInjection, AllocBuffers, RunVM,
      Spawn, AnchorClock, InstallSeccomp, CheckYear, SyncAll, AskCustom,
      AnchorHolds, PassGate, Unseal, ShowPiped, Singe, RefuseExit, BurnDone,
      LockBuffers, DeleteExe, DropContent, ZeroKey, UnmapKey, Return
  <2>2. CASE UserStep \/ KeyStep \/ Beat
    BY <2>2 DEF UserStep, EnterPassword, AnswerPrompt, KeyStep, PressEsc,
      FollowEsc, PressQ, Cancel, Confirm, Beat
  <2> QED
    BY <2>1, <2>2
<1>2. CASE DogStep
  BY <1>2 DEF DogStep, Dog, DogHead, DogWake, DogLooks, DogExe, DogKey,
              ClockInv, Alive
<1>3. CASE TamperStep \/ Strike \/ Tick \/ UNCHANGED vars
  BY <1>3 DEF TamperStep, Tamper, Strike, Tick, DogTick, vars, watchVars
<1> QED
  BY <1>1, <1>2, <1>3 DEF Next, Finished

LEMMA ClockInit == Init => ClockInv /\ NoFault
  BY DEF Init, WatchInit, ClockInv, NoFault, Alive, Taken

\* stop() does not join the watchdog, and the key page is taken away under it:
\* no segmentation fault follows, if the burning animation outlasts a sleep of
\* the thread and the scheduler's slack (src/watchdog.rs, src/main.rs).
THEOREM NoFaultHolds == Spec => []NoFault
<1>1. Init => ClockInv /\ NoFault
  BY ClockInit
<1>2. TypeOK /\ TypeOK' /\ ClockInv /\ NoFault /\ [Next]_vars
        => ClockInv' /\ NoFault'
  BY ClockStep, FaultStep
<1> QED
  BY <1>1, <1>2, TypeCorrect, PTL DEF Spec

\* The argument itself, for the theorems below.
LEMMA ClockHolds == Spec => []ClockInv
  BY ClockInit, ClockStep, TypeCorrect, PTL DEF Spec

-----------------------------------------------------------------------------
(* The heartbeat is as old as the places main went through.                *)

\* A step of main beats, or takes no time, or leaves no watchdog to mind.
LEMMA BeatMain ==
  ASSUME TypeOK, TypeOK', ClockInv, ClockInv', BeatInv, Main
  PROVE  BeatInv'
<1> USE WorkMaxAssumption, PatienceAssumption, QueryMaxAssumption
    DEF BeatInv, Before, Limit, Alive, Main, MainDoes, TypeOK, WatchTypeOK
<1>1. CASE \/ AntiDebug \/ CheckInjection \/ AllocBuffers \/ RunVM
           \/ EnterPassword
  BY <1>1 DEF AntiDebug, CheckInjection, AllocBuffers, RunVM, EnterPassword,
              ClockInv, Setup
<1>2. CASE \/ Spawn \/ AnchorClock \/ InstallSeccomp \/ CheckYear
           \/ AnchorHolds \/ SyncAll \/ AskCustom \/ PassGate \/ Unseal
  BY <1>2 DEF Spawn, WatchdogStart, AnchorClock, InstallSeccomp, CheckYear,
              AnchorHolds, SyncAll, AskCustom, PassGate, Unseal
<1>3. CASE \/ ShowPiped \/ FollowEsc \/ PressQ \/ Cancel \/ Confirm \/ Beat
  BY <1>3 DEF ShowPiped, FollowEsc, PressQ, Cancel, Confirm, Beat
<1>4. CASE AnswerPrompt \/ PressEsc \/ Singe \/ RefuseExit
  BY <1>4 DEF AnswerPrompt, PressEsc, Singe, RefuseExit
<1>5. CASE \/ BurnDone \/ LockBuffers \/ DeleteExe \/ DropContent \/ ZeroKey
           \/ UnmapKey \/ Return
  BY <1>5 DEF BurnDone, LockBuffers, DeleteExe, DropContent, ZeroKey, UnmapKey,
              Return, ClockInv, Taken
<1> QED
  BY <1>1, <1>2, <1>3, <1>4, <1>5 DEF OwnStep, UserStep, KeyStep

LEMMA BeatStep ==
  TypeOK /\ TypeOK' /\ ClockInv /\ ClockInv' /\ BeatInv /\ [Next]_vars
    => BeatInv'
<1> SUFFICES ASSUME TypeOK, TypeOK', ClockInv, ClockInv', BeatInv, [Next]_vars
             PROVE  BeatInv'
  OBVIOUS
<1> USE WorkMaxAssumption, PatienceAssumption, QueryMaxAssumption
    DEF BeatInv, Before, Limit, Alive, TypeOK, WatchTypeOK
<1>1. CASE Main
  BY <1>1, BeatMain
<1>2. CASE DogStep
  BY <1>2 DEF DogStep, Dog, DogHead, DogWake, DogLooks, DogExe, DogKey,
              mainVars
<1>3. CASE TamperStep \/ Strike \/ UNCHANGED vars
  BY <1>3 DEF TamperStep, Tamper, Strike, vars, watchVars, mainVars
<1>4. CASE Tick
  BY <1>4 DEF Tick, DogTick
<1> QED
  BY <1>1, <1>2, <1>3, <1>4 DEF Next, Finished

\* The heartbeat that a living watchdog finds is never stale.
LEMMA FreshHeart ==
  ASSUME TypeOK, BeatInv, LongBurn, Answered, Alive, proc = "running"
  PROVE  quiet < StaleAfter
<1>1. quiet <= Before(main) + busy /\ busy <= Limit(main)
  BY DEF BeatInv
<1> QED
  BY <1>1, WorkMaxAssumption, PatienceAssumption, QueryMaxAssumption,
     StaleAfterAssumption
  DEF Before, Limit, Answered, TypeOK, WatchTypeOK

\* Only the watchdog calls a heartbeat stale, and it finds none that is.
LEMMA StaleStep ==
  TypeOK /\ ClockInv /\ BeatInv /\ NeverStale /\ [Next]_vars => NeverStale'
<1> SUFFICES ASSUME TypeOK, ClockInv, BeatInv, NeverStale, [Next]_vars,
                    LongBurn, Answered
             PROVE  cause' # "stale"
  BY DEF NeverStale, LongBurn, Answered
<1>0. cause # "stale"
  BY DEF NeverStale
<1>1. CASE Main
  <2> USE <1>0, <1>1 DEF Main, MainDoes
  <2>1. CASE OwnStep
    BY <2>1 DEF OwnStep, AntiDebug, CheckInjection, AllocBuffers, RunVM,
      Spawn, AnchorClock, InstallSeccomp, CheckYear, SyncAll, AskCustom,
      AnchorHolds, PassGate, Unseal, ShowPiped, Singe, RefuseExit, BurnDone,
      LockBuffers, DeleteExe, DropContent, ZeroKey, UnmapKey, Return
  <2>2. CASE UserStep \/ KeyStep \/ Beat
    BY <2>2 DEF UserStep, EnterPassword, AnswerPrompt, KeyStep, PressEsc,
      FollowEsc, PressQ, Cancel, Confirm, Beat
  <2> QED
    BY <2>1, <2>2
<1>2. CASE DogStep
  <2>1. CASE DogLooks
    <3>1. quiet < StaleAfter
      BY <1>2, <2>1, FreshHeart DEF DogStep, Dog, DogLooks, Alive
    <3> QED
      BY <1>0, <2>1, <3>1, StaleAfterAssumption
      DEF DogLooks, TypeOK, WatchTypeOK
  <2>2. CASE DogHead \/ DogWake \/ DogExe \/ DogKey
    BY <1>0, <2>2 DEF DogHead, DogWake, DogExe, DogKey
  <2> QED
    BY <1>2, <2>1, <2>2 DEF DogStep, Dog
<1>3. CASE TamperStep \/ Strike \/ Tick \/ UNCHANGED vars
  BY <1>0, <1>3 DEF TamperStep, Tamper, Strike, Tick, DogTick, vars, watchVars
<1> QED
  BY <1>0, <1>1, <1>2, <1>3 DEF Next, Finished

LEMMA BeatInit == Init => BeatInv /\ NeverStale
  BY WorkMaxAssumption
  DEF Init, WatchInit, BeatInv, NeverStale, Alive, Limit

\* No run dies of a stale heartbeat when its blocking reads (the custom NTP
\* prompt, the byte after ESC) are answered, and keys that mean nothing given up,
\* in time: everywhere else main beats often enough (src/main.rs, src/tui.rs,
\* src/watchdog.rs).
THEOREM NeverStaleHolds == Spec => []NeverStale
<1>1. Init => BeatInv /\ NeverStale
  BY BeatInit
<1>2. TypeOK /\ TypeOK' /\ ClockInv /\ ClockInv' /\ BeatInv /\ NeverStale
        /\ [Next]_vars => BeatInv' /\ NeverStale'
  BY BeatStep, StaleStep
<1> QED
  BY <1>1, <1>2, TypeCorrect, ClockHolds, PTL DEF Spec

\* The argument itself, for the theorems of module KeeperPromise.
LEMMA BeatHolds == Spec => []BeatInv
<1>1. TypeOK /\ TypeOK' /\ ClockInv /\ ClockInv' /\ BeatInv /\ [Next]_vars
        => BeatInv'
  BY BeatStep
<1> QED
  BY <1>1, BeatInit, TypeCorrect, ClockHolds, PTL DEF Spec

-----------------------------------------------------------------------------
(* What is tampered with is looked at within a round.                      *)

\* Before the watchdog is spawned there is nothing to look at; after it, main
\* touches the key only when the watchdog has been told to stop.
LEMMA LookMain ==
  ASSUME TypeOK, TypeOK', ClockInv, LookInv, Main
  PROVE  LookInv'
<1> USE PollAssumption, SlackAssumption
    DEF LookInv, Guarding, PromptDetection, ToLooks, ToKey, Rest,
        Main, MainDoes, TypeOK, WatchTypeOK
<1>0. ASSUME UNCHANGED <<dog, nap, lag, key, keySha, tracer, traced, forged>>,
             running' => running
      PROVE  LookInv'
  BY <1>0
<1>1. CASE AllocBuffers \/ RunVM
  BY <1>1 DEF AllocBuffers, RunVM, ClockInv, Setup, Alive
<1>2. CASE AntiDebug \/ CheckInjection \/ EnterPassword
  BY <1>0, <1>2 DEF AntiDebug, CheckInjection, EnterPassword
<1>3. CASE Spawn
  BY <1>3 DEF Spawn, WatchdogStart, ClockInv, Setup, Alive
<1>4. CASE \/ AnchorClock \/ InstallSeccomp \/ CheckYear \/ AnchorHolds
           \/ SyncAll \/ AnswerPrompt \/ AskCustom \/ PassGate \/ Unseal
  <2>1. UNCHANGED <<running, petVars, key, keySha, tracer, traced, forged>>
    BY <1>4 DEF AnchorClock, InstallSeccomp, CheckYear, AnchorHolds, SyncAll,
                AnswerPrompt, AskCustom, PassGate, Unseal
  <2> QED
    BY <1>0, <2>1
<1>5. CASE \/ ShowPiped \/ RefuseExit \/ PressEsc \/ FollowEsc
           \/ PressQ \/ Cancel \/ Beat \/ BurnDone
  <2>1. UNCHANGED <<running, petVars, key, keySha, tracer, traced, forged>>
    BY <1>5 DEF ShowPiped, RefuseExit, PressEsc, FollowEsc, PressQ, Cancel,
                Beat, BurnDone
  <2> QED
    BY <1>0, <2>1
<1>6. CASE Confirm \/ Singe
  <2>1. UNCHANGED <<petVars, key, keySha, tracer, traced, forged>>
    BY <1>6 DEF Confirm, Singe
  <2>2. running' => running
    BY Zenon, <1>6 DEF Confirm, Singe
  <2> QED
    BY <1>0, <2>1, <2>2
<1>7. CASE \/ LockBuffers \/ DeleteExe \/ DropContent \/ ZeroKey
           \/ UnmapKey \/ Return
  BY <1>7 DEF LockBuffers, DeleteExe, DropContent, ZeroKey, UnmapKey, Return,
              ClockInv, Taken
<1> QED
  BY <1>1, <1>2, <1>3, <1>4, <1>5, <1>6, <1>7 DEF OwnStep, UserStep, KeyStep

\* The thread resets the count by looking, the tamperer by stopping; a tick
\* that adds to the count brings the next look nearer.
LEMMA LookStep ==
  TypeOK /\ TypeOK' /\ ClockInv /\ LookInv /\ [Next]_vars => LookInv'
<1> SUFFICES ASSUME TypeOK, TypeOK', ClockInv, LookInv, [Next]_vars
             PROVE  LookInv'
  OBVIOUS
<1> USE PollAssumption, SlackAssumption, ReadFaultsAssumption
    DEF LookInv, Guarding, PromptDetection, ToLooks, ToKey, Rest,
        TypeOK, WatchTypeOK
<1>1. CASE Main
  BY <1>1, LookMain
<1>2. CASE DogStep
  <2> USE DEF DogStep, Dog, mainVars
  <2>1. CASE DogHead
    <3>1. UNCHANGED <<running, tracer, key, keySha, traced, forged>>
      BY <2>1 DEF DogHead
    <3>2. CASE running
      <4>1. dog = "head" /\ dog' = "asleep" /\ nap' = Poll /\ lag' = 0
        BY <2>1, <3>2 DEF DogHead
      <4> QED
        BY <3>1, <3>2, <4>1
    <3>3. CASE ~running
      <4>1. dog' = "gone" /\ nap' = 0
        BY <2>1, <3>3 DEF DogHead
      <4> QED
        BY <3>1, <3>3, <4>1
    <3> QED
      BY <3>2, <3>3
  <2>2. CASE DogWake
    BY <1>2, <2>2 DEF DogWake
  <2>3. CASE DogLooks
    <3>1. /\ dog = "looks" /\ dog' \in {"looks", "exe"}
          /\ UNCHANGED <<running, tracer, key, keySha, traced, forged, nap, lag>>
      BY <2>3 DEF DogLooks
    <3>2. dog' = "exe" /\ ~ReadFaults => ~tracer
      BY Zenon, <2>3, <3>1 DEF DogLooks, TracerReads
    <3>3. dog' = "exe" /\ ~ReadFaults => traced = 0
      BY <3>2
    <3> QED
      BY <3>1, <3>3
  <2>4. CASE DogExe
    BY <1>2, <2>4 DEF DogExe
  <2>5. CASE DogKey
    BY <1>2, <2>5 DEF DogKey
  <2> QED
    BY <1>2, <2>1, <2>2, <2>3, <2>4, <2>5
<1>3. CASE TamperStep
  <2> USE DEF TamperStep, Tamper, mainVars
  <2>1. CASE AttachTracer
    BY <1>3, <2>1 DEF AttachTracer
  <2>2. CASE DetachTracer
    BY <1>3, <2>2 DEF DetachTracer
  <2>3. CASE AlterExe
    BY <1>3, <2>3 DEF AlterExe
  <2>4. CASE AlterKey
    BY <1>3, <2>4 DEF AlterKey
  <2> QED
    BY <1>3, <2>1, <2>2, <2>3, <2>4
<1>4. CASE Strike \/ UNCHANGED vars
  <2>1. UNCHANGED <<running, dog, nap, lag, tracer, key, keySha, traced, forged>>
    BY <1>4 DEF Strike, vars, watchVars, mainVars
  <2> QED
    BY <2>1
<1>5. CASE Tick
  BY <1>5 DEF Tick, DogTick, DogOnTime, Alive
<1> QED
  BY <1>1, <1>2, <1>3, <1>4, <1>5 DEF Next, Finished

LEMMA LookInit == Init => LookInv
  BY PollAssumption, SlackAssumption
  DEF Init, WatchInit, LookInv, Guarding, PromptDetection

\* A tracer that stays, or a key that stays changed, is caught within a sleep
\* and the slack of two rounds for as long as the watchdog guards, if /proc can
\* be read (src/watchdog.rs).
THEOREM PromptDetectionHolds == Spec => []PromptDetection
<1>1. Init => LookInv
  BY LookInit
<1>2. TypeOK /\ TypeOK' /\ ClockInv /\ LookInv /\ [Next]_vars => LookInv'
  BY LookStep
<1>3. LookInv => PromptDetection
  BY DEF LookInv
<1> QED
  BY <1>1, <1>2, <1>3, TypeCorrect, ClockHolds, PTL DEF Spec
=============================================================================
