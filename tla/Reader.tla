------------------------------- MODULE Reader -------------------------------
(***************************************************************************)
(* The person at the keyboard and the screens of src/tui.rs: the password  *)
(* line (src/pass.rs), the pages of show(), nav_wait, the burn dialog.     *)
(*                                                                         *)
(* All of them read the one buffered stdin of the standard library, which  *)
(* takes from the kernel whatever is there; but nav_wait and confirm_burn  *)
(* poll() the descriptor, and so cannot see what has been taken already.   *)
(* typed is everything the person ever typed: its first cut bytes have     *)
(* been read by the program, those up to fill lie in the buffer, the rest  *)
(* in the kernel.  The buffer's 8 KiB are never filled.                    *)
(*                                                                         *)
(* A terminal may be closed (up becomes FALSE).  The run ignores SIGHUP;   *)
(* it finds stdin no terminal any more, and standard output, if it was the *)
(* same terminal, refusing what is printed, which panics and aborts.       *)
(*                                                                         *)
(* A line is the sequence of its characters' widths; one that is printed   *)
(* unwrapped and is too wide goes on in the rows below, as terminals do it.*)
(***************************************************************************)
EXTENDS Integers, FiniteSets, SequencesExt

CONSTANTS
  Height, Width,  \* of the terminal, in rows and columns
  ShortHint,      \* the hint of a text of one page, and of more
  LongHint,
  Box,            \* the six lines of the dialog
  Texts,          \* the texts, each a sequence of lines
  Bursts,         \* what arrives at once: a key, an arrow, a paste
  Targets,        \* the letters the dialog may ask for
  Chunk,          \* bytes read_password reads at a time (64)
  Room,           \* hints that fit into the buffer of stdout (1 KiB)
  MaxTyped        \* bound: bytes a person types in a run

Letters == {"p", "q", "C", "D"}
Printable == Letters \cup {"space", "["}
Bytes == Printable \cup {"newline", "esc", "bs", "high"}

ASSUME HeightAssumption == Height \in Nat /\ Height >= 7
\* A character may take two columns.
ASSUME WidthAssumption == Width \in Nat /\ Width >= 2
ASSUME HintsAssumption == {ShortHint, LongHint} \subseteq Seq({1, 2})
ASSUME BoxAssumption == Box \in Seq(Seq({1, 2})) /\ Len(Box) = 6
ASSUME TextsAssumption == Texts \subseteq Seq(Seq({1, 2}))
ASSUME BurstsAssumption == Bursts \subseteq Seq(Bytes) \ {<<>>}
ASSUME TargetsAssumption == Targets \subseteq Letters
ASSUME ChunkAssumption == Chunk \in Nat \ {0}
ASSUME RoomAssumption == Room \in Nat
ASSUME MaxTypedAssumption == MaxTyped \in Nat

VARIABLES
  text,    \* the text to show (never changes)
  content, \* the text in chunks that fit a row (never changes)
  piped,   \* is stdin a pipe?  (never changes)
  own,     \* is stdout the terminal that stdin is?  (never changes)
  at,      \* where the main thread is
  up,      \* is the other end of stdin, terminal or pipe, open?
  typed,   \* everything typed, before the text or since
  cut,     \* how much of it the program has read
  fill,    \* how much of it the program's buffer has taken
  start,   \* how much of it was read before the password line
  line,    \* the password line
  page,    \* the page shown
  rows,    \* what each row of the screen shows
  target,  \* the letter the dialog asks for
  room     \* hints that still fit into stdout's buffer

screenVars == <<page, rows, target, room>>
stdinVars == <<typed, up>>
fixed == <<text, content, piped, own>>
vars == <<fixed, at, stdinVars, cut, fill, start, line, screenVars>>

-----------------------------------------------------------------------------
(* The text in chunks that fit a row, and the chunks on pages.             *)

\* display_width of a line without escape sequences.
DisplayWidth(ln) == FoldLeft(+, 0, ln)

\* Mutant of Taken: the character that starts a new chunk is lost.
TakenLoses(wrap, c) ==
  IF wrap.width + c > Width /\ wrap.cur # <<>>
    THEN [out |-> Append(wrap.out, wrap.cur), cur |-> <<>>, width |-> 0]
    ELSE [wrap EXCEPT !.cur = Append(@, c), !.width = @ + c]

\* wrap_line takes character by character and starts a new chunk before one
\* that does not fit, unless the chunk is empty.
Taken(wrap, c) ==
  IF wrap.width + c > Width /\ wrap.cur # <<>>
    THEN [out |-> Append(wrap.out, wrap.cur), cur |-> <<c>>, width |-> c]
    ELSE [wrap EXCEPT !.cur = Append(@, c), !.width = @ + c]

WrapLine(ln) ==
  IF DisplayWidth(ln) <= Width THEN <<ln>>
  ELSE LET end == FoldLeft(Taken, [out |-> <<>>, cur |-> <<>>, width |-> 0], ln)
       IN  IF end.cur = <<>> THEN end.out ELSE Append(end.out, end.cur)

Wrapped(lines) == FlattenSeq([i \in DOMAIN lines |-> WrapLine(lines[i])])

BodyTop == 4
BodyBottom == Height - 3
PerPage == BodyBottom - BodyTop + 1

\* Pages are counted from 0, chunks from 1; a text of nothing has one page.
Pages == IF content = <<>> THEN 1 ELSE (Len(content) + PerPage - 1) \div PerPage

OnPage(p, i) == p * PerPage < i /\ i <= (p + 1) * PerPage /\ i <= Len(content)

\* What a row may show, besides the i-th chunk of the text.
Blank == 0
Hint == -1
Dialog == -2
Frame == -3

\* Mutant of Drawn: rows below the last chunk are not cleared.
DrawnOver(p) ==
  [r \in DOMAIN rows |->
     LET i == p * PerPage + r - BodyTop + 1
     IN  IF r \in BodyTop .. BodyBottom /\ OnPage(p, i) THEN i ELSE rows[r]]

\* draw_page: each chunk of the page on its row, blanks below, the rest kept.
Drawn(p) ==
  [r \in DOMAIN rows |->
     LET i == p * PerPage + r - BodyTop + 1
     IN  IF r \notin BodyTop .. BodyBottom THEN rows[r]
         ELSE IF OnPage(p, i) THEN i ELSE Blank]

\* Rows that a line takes where it is printed: a terminal goes on in the next
\* row where wrap_line would.
RowsOf(ln) == Len(WrapLine(ln))

\* The rows of the dialog's box, in the middle: six, or more if it is wider
\* than the terminal.
DialogTop == (Height - 6) \div 2 + 1
DialogRows ==
  UNION {DialogTop + k - 1 .. DialogTop + k - 2 + RowsOf(Box[k]) : k \in 1 .. 6}

Overlaid == [r \in DOMAIN rows |-> IF r \in DialogRows THEN Dialog ELSE rows[r]]

\* The rows of the hint, from the last one of the body.
ShortRows == RowsOf(ShortHint)
LongRows == RowsOf(LongHint)
HintRows ==
  BodyBottom .. BodyBottom + (IF Pages <= 1 THEN ShortRows ELSE LongRows) - 1

Hinted == [r \in DOMAIN rows |-> IF r \in HintRows THEN Hint ELSE rows[r]]

\* Bound: what is printed stays on the screen, which else would scroll.
ASSUME FitsAssumption ==
  /\ DialogRows \subseteq 1 .. Height
  /\ \A n \in {ShortRows, LongRows} : BodyBottom + n - 1 <= Height

-----------------------------------------------------------------------------
(* Standard input.                                                         *)

\* Bytes in the program's buffer, and in the kernel: those of a terminal are
\* lost when it is closed, those of a pipe are not.
Buffered == fill - cut
Queued == IF up \/ piped THEN Len(typed) - fill ELSE 0

\* Mutant of Ready: the buffer must be empty besides.
ReadyUnbuffered == Buffered = 0 /\ (Queued > 0 \/ ~up)

\* poll() says yes: the kernel has bytes, or will never have any.
Ready == Queued > 0 \/ ~up

\* What read() can give without blocking, from the buffer or else the kernel.
Here == IF Buffered > 0 THEN Buffered ELSE Queued

\* The bytes a read() of n gives.
Given(n) == IF n < Here THEN n ELSE Here
Got(n) == SubSeq(typed, cut + 1, cut + Given(n))

\* Mutant of Read: it is taken to have given all that was asked for.
ReadInFull(n) ==
  /\ Here > 0
  /\ cut' = cut + n
  /\ fill' = IF Buffered > 0 THEN fill ELSE Len(typed)

\* read(): the buffer takes all the kernel has, but only when it is empty.
Read(n) ==
  /\ Here > 0
  /\ cut' = cut + Given(n)
  /\ fill' = IF Buffered > 0 THEN fill ELSE Len(typed)

EndOfFile == Here = 0 /\ ~up /\ UNCHANGED <<cut, fill>>

NoRead == UNCHANGED <<cut, fill>>

Key == typed[cut + 1]

Arrives(burst) ==
  /\ up /\ Len(typed) + Len(burst) <= MaxTyped
  /\ at \notin {"died", "left", "burning", "aborted"}
  /\ typed' = typed \o burst
  /\ UNCHANGED <<fixed, at, up, cut, fill, start, line, screenVars>>

\* A pipe is closed at any time, a terminal not before the text is shown.
HangUp ==
  /\ up
  /\ piped \/ at \notin {"password", "entered"}
  /\ up' = FALSE
  /\ UNCHANGED <<fixed, at, typed, cut, fill, start, line, screenVars>>

-----------------------------------------------------------------------------
(* read_password.                                                          *)

\* A terminal's line is edited here, for the kernel no longer does it.
Edited(ln, b) ==
  CASE b = "bs" -> IF ln = <<>> THEN ln ELSE Front(ln)
    [] b \in Printable -> Append(ln, b)
    [] OTHER -> ln

\* The place of the first newline, or 0.
NewlineIn(bytes) == SelectInSeq(bytes, LAMBDA b : b = "newline")

LineKeeps == UNCHANGED <<fixed, stdinVars, start, screenVars>>

\* Mutant of ReadTerminal: what is typed on after the newline is kept in line.
ReadTerminalOn ==
  /\ at = "password" /\ ~piped
  /\ Read(Chunk)
  /\ line' = FoldLeft(Edited, line, Got(Chunk))
  /\ at' = IF NewlineIn(Got(Chunk)) > 0 THEN "entered" ELSE "password"
  /\ LineKeeps

\* A chunk from the terminal; what follows the newline in it is dropped.
ReadTerminal ==
  /\ at = "password" /\ ~piped
  /\ Read(Chunk)
  /\ LET n == NewlineIn(Got(Chunk)) IN
     /\ line' = FoldLeft(Edited, line,
                         IF n = 0 THEN Got(Chunk) ELSE SubSeq(Got(Chunk), 1, n - 1))
     /\ at' = IF n > 0 THEN "entered" ELSE "password"
  /\ LineKeeps

HasHigh(bytes) == \E i \in DOMAIN bytes : bytes[i] = "high"

\* What read_line makes of a pipe's bytes, once it has them all: the line, or,
\* should they be no UTF-8, an error, upon which main() ends the run.
Decoded(bytes) ==
  \/ at' = "entered" /\ line' = bytes
  \/ at' = "died" /\ line' = <<>> /\ HasHigh(bytes)

\* read_line on a pipe takes what is there, up to the newline.
ReadPipe ==
  /\ at = "password" /\ piped
  /\ LET n == NewlineIn(Got(Here)) IN
     IF n = 0
       THEN /\ Read(Here)
            /\ line' = line \o Got(Here) /\ UNCHANGED at
       ELSE Read(n) /\ Decoded(line \o Got(n - 1))
  /\ LineKeeps

PasswordEnds ==
  /\ at = "password" /\ EndOfFile
  /\ IF piped THEN Decoded(line) ELSE at' = "entered" /\ UNCHANGED line
  /\ LineKeeps

\* A wrong word: a terminal is asked again (a pipe is not, see Keeper).
Reprompt ==
  /\ at = "entered" /\ ~piped
  /\ at' = "password" /\ line' = <<>> /\ start' = cut
  /\ NoRead /\ UNCHANGED <<fixed, stdinVars, screenVars>>

\* The right one: all that lies between is in the other modules.  What was
\* typed and read so far is history no more.
Accept ==
  /\ at = "entered"
  /\ at' = "open" /\ line' = <<>>
  /\ typed' = SubSeq(typed, cut + 1, Len(typed))
  /\ start' = 0 /\ cut' = 0 /\ fill' = fill - cut
  /\ UNCHANGED <<fixed, up, screenVars>>

-----------------------------------------------------------------------------
(* show().                                                                 *)

\* What is printed is refused: stdout is the terminal that was closed.
Mute == own /\ ~piped /\ ~up

ScreenKeeps == UNCHANGED <<fixed, stdinVars, start, line>>

\* The run draws and goes on at place p, or panics and aborts.
Draw(screen, p) ==
  IF Mute THEN at' = "aborted" /\ UNCHANGED rows
          ELSE at' = p /\ rows' = screen

\* Mutant of OpenShow: a pipe is given the hint and the keys, like a terminal.
OpenShowWaits ==
  /\ at = "open"
  /\ Draw(Drawn(0), "hint")
  /\ NoRead /\ UNCHANGED <<page, target, room>> /\ ScreenKeeps

\* The first page; a pipe gets no other.
OpenShow ==
  /\ at = "open"
  /\ Draw(Drawn(0), IF piped \/ ~up THEN "left" ELSE "hint")
  /\ NoRead /\ UNCHANGED <<page, target, room>> /\ ScreenKeeps

\* Mutant of DrawHint: the refused hint is given up without a panic.
DrawHintIgnored ==
  /\ at = "hint"
  /\ at' = "nav"
  /\ rows' = IF Mute THEN rows ELSE Hinted
  /\ NoRead /\ UNCHANGED <<page, target, room>> /\ ScreenKeeps

\* The hint takes the last row of the body, and more if it is wider than the
\* terminal.  A few of it fit into the buffer of a stdout that refuses them.
DrawHint ==
  /\ at = "hint"
  /\ IF Mute
       THEN /\ at' = IF room = 0 THEN "aborted" ELSE "nav"
            /\ room' = IF room = 0 THEN 0 ELSE room - 1
            /\ UNCHANGED rows
       ELSE /\ at' = "nav"
            /\ rows' = Hinted
            /\ UNCHANGED room
  /\ NoRead /\ UNCHANGED <<page, target>> /\ ScreenKeeps

\* Where Nav::Next and Nav::Prev lead: off either end, nothing is drawn.
Turn(p) ==
  /\ IF p \in 0 .. Pages - 1
       THEN page' = p /\ Draw(Drawn(p), "hint")
       ELSE at' = "hint" /\ UNCHANGED <<page, rows>>
  /\ UNCHANGED <<target, room>> /\ ScreenKeeps

GoNext == Turn(page + 1)
GoPrev == Turn(page - 1)

\* Nav::Burn: a letter is drawn by lot and the dialog laid over the page.
AskLetter ==
  /\ target' \in Targets
  /\ Draw(Overlaid, "confirm")
  /\ UNCHANGED <<page, room>> /\ ScreenKeeps

\* nav_wait asks anew whether stdin is a terminal.
NavStart ==
  /\ at = "nav"
  /\ IF up THEN /\ at' = "wait"
                /\ UNCHANGED screenVars /\ ScreenKeeps
           ELSE GoNext
  /\ NoRead

\* A key, once the kernel has one, though it may not be the one read.
NavKey ==
  /\ at = "wait" /\ Ready /\ Read(1)
  /\ CASE Key \in {"space", "newline"} -> GoNext
       [] Key = "p" -> GoPrev
       [] Key = "q" -> AskLetter
       [] Key = "esc" -> /\ at' = "esc"
                         /\ UNCHANGED screenVars /\ ScreenKeeps
       [] OTHER -> UNCHANGED <<at, screenVars>> /\ ScreenKeeps

NavEnds == at = "wait" /\ EndOfFile /\ GoNext

\* The rest of an arrow key: up to two bytes, waited for without poll().
NavEsc ==
  /\ at = "esc" /\ Read(2)
  /\ IF Got(2) = <<"[", "D">> THEN GoPrev ELSE GoNext

NavEscEnds == at = "esc" /\ EndOfFile /\ GoNext

-----------------------------------------------------------------------------
(* confirm_burn.                                                           *)

\* Asked anew once more: without a terminal the burning is confirmed.
ConfirmStart ==
  /\ at = "confirm"
  /\ at' = IF up THEN "ask" ELSE "burning"
  /\ NoRead /\ UNCHANGED screenVars /\ ScreenKeeps

\* Back to the page, which is drawn again.
Cancel ==
  /\ Draw(Drawn(page), "hint")
  /\ target' = "none"
  /\ UNCHANGED <<page, room>> /\ ScreenKeeps

\* Mutant of ConfirmKey: any letter of the dialog's alphabet will do.
ConfirmAnyKey ==
  /\ at = "ask" /\ Ready /\ Read(1)
  /\ IF Key \in Letters
       THEN at' = "burning" /\ UNCHANGED screenVars /\ ScreenKeeps
       ELSE Cancel

ConfirmKey ==
  /\ at = "ask" /\ Ready /\ Read(1)
  /\ IF Key = target
       THEN at' = "burning" /\ UNCHANGED screenVars /\ ScreenKeeps
       ELSE Cancel

ConfirmEnds == at = "ask" /\ EndOfFile /\ Cancel

-----------------------------------------------------------------------------
(* The specification.                                                      *)

Init ==
  /\ text \in Texts /\ content = Wrapped(text)
  /\ piped \in BOOLEAN /\ own \in BOOLEAN
  /\ at = "password" /\ line = <<>> /\ start = 0
  /\ up = TRUE /\ typed = <<>> /\ cut = 0 /\ fill = 0
  /\ page = 0 /\ target = "none" /\ room = Room
  /\ rows = [r \in 1 .. Height |->
               IF r \in BodyTop .. BodyBottom THEN Blank ELSE Frame]

Enter == ReadTerminal \/ ReadPipe \/ PasswordEnds \/ Reprompt \/ Accept
Show == OpenShow \/ DrawHint \/ NavStart \/ NavKey \/ NavEnds \/ NavEsc
          \/ NavEscEnds
Confirm == ConfirmStart \/ ConfirmKey \/ ConfirmEnds

Program == Enter \/ Show \/ Confirm

Person == HangUp \/ \E burst \in Bursts : Arrives(burst)

Next == Program \/ Person

Spec == Init /\ [][Next]_vars

\* The program runs; nobody has to type.
FairSpec == Spec /\ WF_vars(Program)

Over == at \in {"died", "left", "burning", "aborted"}

TypeOK ==
  /\ text \in Texts /\ content \in Seq(Seq({1, 2})) /\ piped \in BOOLEAN /\ own \in BOOLEAN /\ up \in BOOLEAN
  /\ at \in {"password", "entered", "died", "open", "hint", "nav", "wait", "esc",
             "confirm", "ask", "left", "burning", "aborted"}
  /\ typed \in Seq(Bytes)
  /\ start \in Nat /\ cut \in Nat /\ fill \in Nat
  /\ start <= cut /\ cut <= fill /\ fill <= Len(typed)
  /\ line \in Seq(Bytes)
  /\ page \in 0 .. Pages - 1
  /\ rows \in [1 .. Height -> Int]
  /\ target \in Targets \cup {"none"} /\ room \in 0 .. Room

-----------------------------------------------------------------------------
(* Properties.                                                             *)

\* What was typed for the line: all since it was asked for, to the newline.
LineTyped ==
  LET since == SubSeq(typed, start + 1, cut)
      n == NewlineIn(since)
  IN  IF n = 0 THEN since ELSE SubSeq(since, 1, n - 1)

\* The bytes of s that no backspace takes back: each backspace takes the
\* nearest byte before it that is not taken yet.
Survives(s, i) ==
  /\ s[i] \in Printable
  /\ \A j \in i + 1 .. Len(s) :
       Cardinality({k \in i + 1 .. j : s[k] = "bs"})
         <= Cardinality({k \in i + 1 .. j : s[k] \in Printable})

Survivors(s) == {i \in DOMAIN s : Survives(s, i)}

\* A password line is what was typed, as edited, however the bytes arrive: in
\* one chunk or in many, with keys typed ahead of the prompt or after the
\* newline.  A pipe's line is taken as it is, or, as no UTF-8, not at all: for
\* nothing else the run dies here (read_password).
LineAsEdited ==
  LET s == LineTyped
      kept == Survivors(s)
  IN  /\ at = "entered" =>
           IF piped THEN line = s
           ELSE /\ Len(line) = Cardinality(kept)
                /\ \A i \in kept : line[Cardinality({j \in kept : j <= i})] = s[i]
      /\ at = "died" => piped /\ HasHigh(s)

\* wrap_line and the pages keep every character of the text in its order,
\* each chunk on exactly one page and no wider than the screen.
TextKept ==
  at = "open" =>
  /\ FlattenSeq(content) = FlattenSeq(text)
  /\ \A i \in DOMAIN content : DisplayWidth(content[i]) <= Width
  /\ \A i \in DOMAIN content :
       Cardinality({p \in 0 .. Pages - 1 : OnPage(p, i)}) = 1

\* While the person reads, the screen shows this page, the hint and nothing of
\* another page or of a dialog, the row aside where the hint begins, wherever
\* the dialog's box lies within the body (show, draw_page, show_dialog).
CleanScreen ==
  DialogRows \subseteq BodyTop .. BodyBottom /\ at \in {"wait", "esc"} =>
    /\ \A k \in 1 .. PerPage - 1 :
         rows[BodyTop + k - 1] =
           IF page * PerPage + k <= Len(content) THEN page * PerPage + k ELSE Blank
    /\ \A r \in DOMAIN rows :
         /\ r \in HintRows => rows[r] = Hint
         /\ rows[r] = Frame <=> r \notin BodyTop .. BodyBottom \cup HintRows

\* The burning starts only when the person typed q and after it the letter
\* the dialog asked for, or typed q and then the terminal was closed.
BurnNeedsLetter ==
  at = "burning" =>
    \E i \in 1 .. cut :
      /\ typed[i] = "q"
      /\ ~up \/ \E j \in i + 1 .. cut : typed[j] = target

\* Keeper's screens for all of this, of the text or of a refusal.
Whole(refusal) == INSTANCE Keeper WITH
  Poll <- 1, StaleAfter <- 1, Slack <- 0, Mischief <- {}, ReadFaults <- FALSE,
  WorkMax <- 1, Patience <- 0, QueryMax <- 0, BurnMin <- 0,
  Words <- {"right"}, Blemishes <- {"none"},
  proc <- IF at = "left" /\ ~refusal THEN "exit0"
          ELSE IF at = "aborted" THEN "panicked"
          ELSE IF at = "died" THEN "killed" ELSE "running",
  cause <- "none", spare <- FALSE, running <- refusal \/ at # "burning",
  quiet <- 0, dog <- "asleep", nap <- 0, lag <- 0,
  tracer <- FALSE, exe <- "intact", exeSha <- "intact",
  key <- [val |-> "secret", prot |-> "ro"], keySha <- "secret",
  traced <- 0, forged <- 0,
  main <- IF at = "esc" THEN "esc"
          ELSE IF at \in {"confirm", "ask"} THEN "dialog"
          ELSE IF at = "burning" THEN IF refusal THEN "singe" ELSE "burning"
          ELSE IF at = "left" /\ refusal THEN "singe" ELSE "show",
  refusing <- refusal, tty <- ~piped, bad <- "none", hour <- TRUE,
  typed <- "right", ntp <- "after",
  content <- IF refusal THEN "none" ELSE "text",
  file <- "present", busy <- 0, burn <- 0

\* Whatever is typed, pasted or cut short by a hangup, a screen goes where
\* Keeper's screens go: a pipe past its one page, a terminal into the blocked
\* read behind an ESC, into the dialog and by it alone to the burning.  Only a
\* terminal that was closed may end the run elsewhere (show, nav_wait,
\* confirm_burn, against module Keeper).
KeepsScreens ==
  [][at \notin {"password", "entered"} =>
       \A refusal \in BOOLEAN :
         \/ Whole(refusal)!ShowPiped \/ Whole(refusal)!KeyStep
         \/ UNCHANGED Whole(refusal)!vars
         \/ ~piped /\ ~up /\ at' \in {"left", "aborted"}]_vars

\* What lies in the kernel is read in the end, whatever the screen.
KernelDrained == Queued > 0 ~> Queued = 0 \/ Over

\* A run whose terminal is closed, with its output, comes to an end.
HangUpEnds == Mute ~> Over

-----------------------------------------------------------------------------
(* What the comments say and the code does not do.                         *)

\* "so the story stays readable on screen" (src/tui.rs, draw_page): every line
\* of the page is on the screen while the person reads it.
LinesOnScreen ==
  at = "wait" => \A i \in DOMAIN content : OnPage(page, i) => \E r \in DOMAIN rows : rows[r] = i

\* "space / Enter / -> = Next page, p / <- = Previous page, q = open burn
\* dialog" (src/tui.rs, nav_wait): a key that was typed is acted on.
KeysHeard == Buffered > 0 /\ at = "wait" ~> Buffered = 0 \/ Over
=============================================================================
