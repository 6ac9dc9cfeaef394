---------------------------- MODULE ReaderProofs ----------------------------
(***************************************************************************)
(* Theorems about module Reader: what the person must have typed before    *)
(* the text burns, and what is on the screen while it is read.             *)
(***************************************************************************)
EXTENDS Reader, SequenceTheorems, FiniteSetTheorems, TLAPS

\* The three folds of the module.
WidthStep(k, m, c) == m + c
TakenStep(k, m, c) == Taken(m, c)
EditedStep(k, m, b) == Edited(m, b)

Widths == INSTANCE Induction WITH P <- LAMBDA n : TRUE, Op <- WidthStep
Takes == INSTANCE Induction WITH P <- LAMBDA n : TRUE, Op <- TakenStep
Edits == INSTANCE Induction WITH P <- LAMBDA n : TRUE, Op <- EditedStep

-----------------------------------------------------------------------------
(* Standard input: how far the program and its buffer are in what was      *)
(* typed.                                                                  *)

\* Min finds the least member.
LEMMA LeastIsMin ==
  ASSUME NEW S, S \subseteq Nat, S # {}
  PROVE  Min(S) \in S
<1> QED
  BY Widths!LeastMember DEF Min

\* The place of a newline lies within the bytes looked at.
LEMMA NewlineNat == ASSUME NEW b \in Seq(Bytes) PROVE NewlineIn(b) \in 0 .. Len(b)
<1> DEFINE I == {i \in 1 .. Len(b) : b[i] = "newline"}
<1>1. NewlineIn(b) = IF I # {} THEN Min(I) ELSE 0
  BY DEF NewlineIn, SelectInSeq
<1>2. I # {} => Min(I) \in I
  <2> HIDE DEF I
  <2>1. I \subseteq Nat
    BY DEF I
  <2> QED
    BY <2>1, LeastIsMin
<1> QED
  BY <1>1, <1>2

CutInv ==
  /\ typed \in Seq(Bytes)
  /\ cut \in Nat /\ fill \in Nat
  /\ cut <= fill /\ fill <= Len(typed)

\* read() gives no more bytes than there are, and at least one of those asked.
LEMMA ReadKeeps ==
  ASSUME CutInv, NEW n \in Nat, Read(n), typed' = typed
  PROVE  /\ CutInv'
         /\ cut <= cut'
         /\ n > 0 => cut + 1 <= cut'
<1>1. Len(typed) \in Nat
  BY DEF CutInv
<1> QED
  BY <1>1 DEF CutInv, Read, Given, Here, Buffered, Queued

\* A stretch of a sequence of bytes.
LEMMA BytesOfSub ==
  ASSUME NEW s \in Seq(Bytes), NEW c \in Nat, NEW g \in Nat, c + g <= Len(s)
  PROVE  /\ SubSeq(s, c + 1, c + g) \in Seq(Bytes)
         /\ Len(SubSeq(s, c + 1, c + g)) = g
<1> DEFINE m == c + 1
           n == c + g
<1>1. m \in Int /\ n \in Int /\ \A i \in m .. n : s[i] \in Bytes
  OBVIOUS
<1>2. (IF m <= n THEN n - m + 1 ELSE 0) = g
  OBVIOUS
<1> HIDE DEF m, n
<1>3. /\ SubSeq(s, m, n) \in Seq(Bytes)
      /\ Len(SubSeq(s, m, n)) = IF m <= n THEN n - m + 1 ELSE 0
  BY <1>1, SubSeqProperties
<1> QED
  BY <1>2, <1>3 DEF m, n

\* What read() gives is a sequence of bytes, no longer than there is.
LEMMA GotBytes ==
  ASSUME CutInv, NEW n \in Nat
  PROVE  /\ Here \in Nat
         /\ Got(n) \in Seq(Bytes)
         /\ Len(Got(n)) = Given(n)
<1>1. Len(typed) \in Nat
  BY DEF CutInv
<1>2. Here \in Nat /\ Given(n) \in Nat /\ cut + Given(n) <= Len(typed)
  BY <1>1 DEF CutInv, Given, Here, Buffered, Queued
<1> QED
  BY <1>2, BytesOfSub DEF CutInv, Got

\* Every step keeps the order of cut, fill and what was typed.
LEMMA CutStep == CutInv /\ [Next]_vars => CutInv'
<1> SUFFICES ASSUME CutInv, [Next]_vars PROVE CutInv'
  OBVIOUS
<1> USE DEF stdinVars, LineKeeps, ScreenKeeps, NoRead
<1>1. CASE ReadTerminal
  BY <1>1, ReadKeeps, ChunkAssumption DEF ReadTerminal
<1>2. CASE ReadPipe
  <2>1. Here \in Nat
    BY GotBytes
  <2>2. Got(Here) \in Seq(Bytes)
    BY <2>1, GotBytes
  <2>3. NewlineIn(Got(Here)) \in Nat
    BY <2>2, NewlineNat
  <2>4. typed' = typed /\ \E n \in Nat : Read(n)
    BY <1>2, <2>1, <2>3 DEF ReadPipe
  <2> QED
    BY <2>4, ReadKeeps
<1>3. CASE NavKey \/ ConfirmKey
  BY <1>3, ReadKeeps DEF NavKey, ConfirmKey, GoNext, GoPrev, Turn, AskLetter, Cancel
<1>4. CASE NavEsc
  BY <1>4, ReadKeeps DEF NavEsc, GoNext, GoPrev, Turn
<1>5. CASE Accept
  <2>1. Len(typed) \in Nat
    BY DEF CutInv
  <2>2. /\ SubSeq(typed, cut + 1, Len(typed)) \in Seq(Bytes)
        /\ Len(SubSeq(typed, cut + 1, Len(typed)))
             = IF cut + 1 <= Len(typed) THEN Len(typed) - (cut + 1) + 1 ELSE 0
    BY <2>1, SubSeqProperties DEF CutInv
  <2> QED
    BY <1>5, <2>1, <2>2 DEF Accept, CutInv
<1>6. CASE PasswordEnds \/ Reprompt
  BY <1>6 DEF PasswordEnds, Decoded, Reprompt, EndOfFile, CutInv
<1>7. CASE OpenShow \/ DrawHint \/ NavStart \/ NavEnds \/ NavEscEnds
  BY <1>7 DEF OpenShow, DrawHint, NavStart, NavEnds, NavEscEnds, EndOfFile, GoNext,
              Turn, CutInv
<1>8. CASE ConfirmStart \/ ConfirmEnds
  BY <1>8 DEF ConfirmStart, ConfirmEnds, EndOfFile, Cancel, CutInv
<1>9. CASE HangUp \/ UNCHANGED vars
  BY <1>9 DEF HangUp, vars, CutInv
<1>10. ASSUME NEW burst \in Bursts, Arrives(burst) PROVE CutInv'
  <2>1. burst \in Seq(Bytes)
    BY BurstsAssumption
  <2>2. /\ typed \o burst \in Seq(Bytes)
        /\ Len(typed \o burst) = Len(typed) + Len(burst)
    BY <2>1, ConcatProperties DEF CutInv
  <2>3. Len(typed) \in Nat /\ Len(burst) \in Nat
    BY <2>1 DEF CutInv
  <2> QED
    BY <1>10, <2>2, <2>3 DEF Arrives, CutInv
<1> QED
  BY <1>1, <1>2, <1>3, <1>4, <1>5, <1>6, <1>7, <1>8, <1>9, <1>10
  DEF Next, Program, Enter, Show, Confirm, Person

-----------------------------------------------------------------------------
(* The text in chunks.                                                     *)

\* The widths of a line's characters, lines, and chunks that wrap_line makes:
\* no wider than a row.
Cells == {1, 2}
Lines == Seq(Cells)
Chunks == {c \in Lines : DisplayWidth(c) <= Width}

LEMMA WidthFolds == \A ln : DisplayWidth(ln) = Widths!Folded(0, 0, ln)
BY DEF DisplayWidth, Widths!Folded, WidthStep, FoldLeft, MapThenFoldSet, Max,
       Widths!FoldLeft, Widths!MapThenFoldSet, Widths!Max

LEMMA FlattenSame == \A s : Widths!FlattenSeq(s) = FlattenSeq(s)
BY DEF FlattenSeq, Widths!FlattenSeq

Start == [out |-> <<>>, cur |-> <<>>, width |-> 0]

LEMMA TakenFolds == \A ln : FoldLeft(Taken, Start, ln) = Takes!Folded(0, Start, ln)
BY DEF Takes!Folded, TakenStep, FoldLeft, MapThenFoldSet, Max,
       Takes!FoldLeft, Takes!MapThenFoldSet, Takes!Max

\* A line grows by a character.
LEMMA WidthGrows ==
  /\ DisplayWidth(<<>>) = 0
  /\ \A ln \in Lines, c \in Cells : DisplayWidth(ln \o <<c>>) = DisplayWidth(ln) + c
  /\ \A ln \in Lines : DisplayWidth(ln) \in Nat
<1>1. DisplayWidth(<<>>) = 0
  BY WidthFolds, Widths!FoldNone
<1>2. ASSUME NEW ln \in Lines, NEW c \in Cells
      PROVE  DisplayWidth(ln \o <<c>>) = DisplayWidth(ln) + c
  <2>1. Widths!Folded(0, 0, ln \o <<c>>) = WidthStep(0, Widths!Folded(0, 0, ln), c)
    BY Widths!FoldAppend DEF Lines
  <2> QED
    BY <2>1, WidthFolds DEF WidthStep
<1> DEFINE G == {ln \in Lines : DisplayWidth(ln) \in Nat}
<1>3. <<>> \in G
  BY <1>1 DEF Lines
<1>4. ASSUME NEW ln \in Lines, NEW c \in Cells, ln \in G PROVE ln \o <<c>> \in G
  <2>1. ln \o <<c>> \in Lines
    <3>1. <<c>> \in Seq(Cells)
      OBVIOUS
    <3> QED
      BY <3>1, ConcatProperties DEF Lines
  <2>2. DisplayWidth(ln) + c \in Nat
    BY <1>4 DEF Cells
  <2> QED
    BY <1>2, <2>1, <2>2
<1>5. \A ln \in Lines, c \in Cells : ln \in G => ln \o <<c>> \in G
  BY <1>4
<1> HIDE DEF G
<1>6. \A ln \in Lines : ln \in G
  BY <1>3, <1>5, Widths!SeqInduct DEF Lines
<1> QED
  BY <1>1, <1>2, <1>6 DEF G

\* What wrap_line holds when it has taken the characters of ln.
Holds(ln, m) ==
  /\ m \in [out : Seq(Chunks), cur : Chunks, width : Nat]
  /\ m.width = DisplayWidth(m.cur)
  /\ FlattenSeq(m.out) \o m.cur = ln

LEMMA HoldsThese ==
  ASSUME NEW ln, NEW out \in Seq(Chunks), NEW cur \in Chunks, NEW w \in Nat,
         w = DisplayWidth(cur), FlattenSeq(out) \o cur = ln
  PROVE  Holds(ln, [out |-> out, cur |-> cur, width |-> w])
<1> DEFINE m == [out |-> out, cur |-> cur, width |-> w]
<1>1. /\ m \in [out : Seq(Chunks), cur : Chunks, width : Nat]
      /\ m.out = out /\ m.cur = cur /\ m.width = w
  OBVIOUS
<1> HIDE DEF m
<1>2. Holds(ln, m)
  BY <1>1, Zenon DEF Holds
<1> QED
  BY <1>2 DEF m

LEMMA ChunksAreLines ==
  /\ Chunks \subseteq Lines
  /\ Seq(Chunks) \subseteq Seq(Lines)
  /\ \A s \in Seq(Chunks) : FlattenSeq(s) \in Lines
<1>1. Chunks \subseteq Lines
  BY DEF Chunks
<1>2. \A s \in Seq(Chunks) : s \in Seq(Lines)
  BY <1>1, SeqMonotonic
<1>3. \A s \in Seq(Lines) : FlattenSeq(s) \in Lines
  BY Widths!FlattenTyped, FlattenSame DEF Lines
<1> QED
  BY <1>1, <1>2, <1>3

\* One chunk more.
LEMMA OneMore ==
  ASSUME NEW out \in Seq(Chunks), NEW cur \in Chunks
  PROVE  /\ Append(out, cur) \in Seq(Chunks)
         /\ FlattenSeq(Append(out, cur)) = FlattenSeq(out) \o cur
<1>1. Append(out, cur) \in Seq(Chunks) /\ Append(out, cur) = out \o <<cur>>
  BY AppendProperties, AppendIsConcat
<1>2. out \in Seq(Seq(Cells)) /\ cur \in Seq(Cells)
  BY ChunksAreLines DEF Lines
<1>3. FlattenSeq(out \o <<cur>>) = FlattenSeq(out) \o cur
  BY <1>2, FlattenSame, Widths!FlattenAppend
<1> QED
  BY <1>1, <1>3

LEMMA CharSeq == ASSUME NEW c \in Cells PROVE <<c>> \in Lines /\ Len(<<c>>) = 1
BY DEF Lines

LEMMA TakenHolds ==
  ASSUME NEW ln \in Lines, NEW c \in Cells, NEW m, Holds(ln, m)
  PROVE  Holds(ln \o <<c>>, Taken(m, c))
<1> DEFINE out == m.out
           cur == m.cur
           w == m.width
           one == <<c>>
           f == FlattenSeq(out)
<1>1. /\ out \in Seq(Chunks) /\ cur \in Chunks /\ w \in Nat
      /\ w = DisplayWidth(cur) /\ f \o cur = ln
      /\ m = [out |-> out, cur |-> cur, width |-> w]
  BY DEF Holds
<1>2. one \in Lines /\ Len(one) = 1 /\ c \in Nat
  BY CharSeq DEF Cells
<1>4. DisplayWidth(one) = c
  <2>1. <<>> \in Lines /\ <<>> \o one = one
    BY <1>2, EmptySeq, ConcatEmptySeq DEF Lines
  <2>2. DisplayWidth(<<>> \o one) = 0 + c
    BY <2>1, WidthGrows
  <2> QED
    BY <1>2, <2>1, <2>2
<1>a. one \in Chunks
  <2> HIDE DEF one
  <2> QED
    BY <1>2, <1>4, WidthAssumption DEF Cells, Chunks
<1>3. cur \in Lines /\ f \in Lines
  BY <1>1, ChunksAreLines
<1>5. CASE w + c > Width /\ cur # <<>>
  <2>1. Taken(m, c) = [out |-> Append(out, cur), cur |-> one, width |-> c]
    BY <1>5 DEF Taken
  <2>2. /\ Append(out, cur) \in Seq(Chunks)
        /\ FlattenSeq(Append(out, cur)) = ln
    BY <1>1, OneMore
  <2> HIDE DEF one, out, cur, w, f
  <2> QED
    BY <1>2, <1>4, <1>a, <2>1, <2>2, HoldsThese DEF one
<1>6. CASE ~(w + c > Width /\ cur # <<>>)
  <2> DEFINE longer == Append(cur, c)
  <2>1. Taken(m, c) = [out |-> out, cur |-> longer, width |-> w + c]
    BY <1>1, <1>6 DEF Taken
  <2>2. longer = cur \o one /\ longer \in Lines
    BY <1>3, AppendProperties, AppendIsConcat DEF Lines
  <2>3. DisplayWidth(longer) = w + c
    BY <1>1, <1>3, <2>2, WidthGrows
  <2>4. longer \in Chunks
    <3>1. CASE cur = <<>>
      <4>1. longer = one
        BY <1>2, <2>2, <3>1, ConcatEmptySeq DEF Lines
      <4> QED
        BY <1>a, <4>1
    <3>2. CASE cur # <<>>
      <4>1. w + c <= Width
        BY <1>1, <1>2, <1>6, <3>2, WidthAssumption
      <4> QED
        BY <2>2, <2>3, <4>1 DEF Chunks
    <3> QED
      BY <3>1, <3>2
  <2>5. f \o longer = ln \o one
    <3> HIDE DEF one, cur, f, longer
    <3>1. f \in Lines /\ cur \in Lines /\ one \in Lines
      BY <1>2, <1>3
    <3>2. (f \o cur) \o one = f \o (cur \o one)
      BY <3>1 DEF Lines
    <3> QED
      BY <1>1, <2>2, <3>2
  <2>6. w + c \in Nat
    BY <1>1, <1>2
  <2>7. FlattenSeq(out) \o longer = ln \o <<c>>
    BY <2>5
  <2> HIDE DEF out, cur, w, f, one, longer
  <2> QED
    BY <1>1, <2>1, <2>3, <2>4, <2>6, <2>7, HoldsThese
<1> QED
  BY <1>5, <1>6

LEMMA FoldHolds ==
  \A ln \in Lines : Holds(ln, FoldLeft(Taken, Start, ln))
<1> DEFINE G == {ln \in Lines : Holds(ln, FoldLeft(Taken, Start, ln))}
<1>1. <<>> \in G
  <2>1. FoldLeft(Taken, Start, <<>>) = Start
    BY TakenFolds, Takes!FoldNone
  <2>2. <<>> \in Lines /\ <<>> \in Seq(Chunks)
    BY EmptySeq DEF Lines
  <2>3. <<>> \in Chunks
    BY <2>2, WidthGrows, WidthAssumption DEF Chunks
  <2>4. FlattenSeq(<<>>) \o <<>> = <<>>
    BY FlattenSame, Widths!FlattenNone, ConcatEmptySeq, EmptySeq
  <2> QED
    <3>1. DisplayWidth(<<>>) = 0 /\ 0 \in Nat
      BY WidthGrows
    <3>2. Holds(<<>>, Start)
      BY <2>2, <2>3, <2>4, <3>1, HoldsThese DEF Start
    <3> QED
      BY <2>1, <2>2, <3>2
<1>2. ASSUME NEW ln \in Lines, NEW c \in Cells, ln \in G PROVE ln \o <<c>> \in G
  <2>1. FoldLeft(Taken, Start, ln \o <<c>>) = Taken(FoldLeft(Taken, Start, ln), c)
    <3>1. Takes!Folded(0, Start, ln \o <<c>>) = TakenStep(0, Takes!Folded(0, Start, ln), c)
      BY Takes!FoldAppend DEF Lines
    <3> QED
      BY <3>1, TakenFolds DEF TakenStep
  <2>2. ln \o <<c>> \in Lines
    BY CharSeq, ConcatProperties DEF Lines
  <2> QED
    BY <1>2, <2>1, <2>2, TakenHolds
<1>3. \A ln \in Lines, c \in Cells : ln \in G => ln \o <<c>> \in G
  BY <1>2
<1> HIDE DEF G
<1>4. \A ln \in Lines : ln \in G
  BY <1>1, <1>3, Widths!SeqInduct DEF Lines
<1> QED
  BY <1>4 DEF G

\* wrap_line keeps a line's characters in their order, in chunks.
LEMMA WrapKeeps ==
  ASSUME NEW ln \in Lines
  PROVE  WrapLine(ln) \in Seq(Chunks) /\ FlattenSeq(WrapLine(ln)) = ln
<1>1. CASE DisplayWidth(ln) <= Width
  <2>1. WrapLine(ln) = <<ln>> /\ ln \in Chunks
    BY <1>1 DEF WrapLine, Chunks
  <2>2. <<ln>> \in Seq(Chunks) /\ Len(<<ln>>) = 1 /\ <<ln>>[1] = ln
    BY <2>1
  <2>3. FlattenSeq(<<ln>>) = ln
    BY <2>2, FlattenSame, Widths!FlattenOne
  <2> QED
    BY <2>1, <2>2, <2>3
<1>2. CASE ~(DisplayWidth(ln) <= Width)
  <2> DEFINE end == FoldLeft(Taken, Start, ln)
  <2>1. WrapLine(ln) = IF end.cur = <<>> THEN end.out ELSE Append(end.out, end.cur)
    BY <1>2 DEF WrapLine, Start
  <2>2. Holds(ln, end)
    BY FoldHolds
  <2> HIDE DEF end
  <2>3. end.out \in Seq(Chunks) /\ end.cur \in Chunks /\ FlattenSeq(end.out) \o end.cur = ln
    BY <2>2 DEF Holds
  <2>4. CASE end.cur = <<>>
    <3>1. FlattenSeq(end.out) \in Seq(Cells)
      BY <2>3, ChunksAreLines DEF Lines
    <3> QED
      BY <2>1, <2>3, <2>4, <3>1, ConcatEmptySeq
  <2>5. CASE end.cur # <<>>
    BY <2>1, <2>3, <2>5, OneMore
  <2> QED
    BY <2>4, <2>5
<1> QED
  BY <1>1, <1>2

WrapAll(lines) == [i \in DOMAIN lines |-> WrapLine(lines[i])]

\* One line more.
LEMMA WrapAllGrows ==
  ASSUME NEW lines \in Seq(Lines), NEW ln \in Lines
  PROVE  /\ WrapAll(lines) \in Seq(Seq(Chunks))
         /\ WrapAll(lines \o <<ln>>) = WrapAll(lines) \o <<WrapLine(ln)>>
<1>0. ASSUME NEW s \in Seq(Lines)
      PROVE  /\ WrapAll(s) \in Seq(Seq(Chunks)) /\ Len(WrapAll(s)) = Len(s)
             /\ \A i \in 1 .. Len(s) : WrapAll(s)[i] = WrapLine(s[i])
  <2>1. DOMAIN s = 1 .. Len(s) /\ Len(s) \in Nat
    BY LenProperties
  <2>2. \A i \in 1 .. Len(s) : WrapLine(s[i]) \in Seq(Chunks)
    BY ElementOfSeq, WrapKeeps
  <2> QED
    BY <2>1, <2>2 DEF WrapAll
<1> DEFINE one == <<ln>>
           w == WrapLine(ln)
           a == WrapAll(lines \o one)
           b == WrapAll(lines)
           n == Len(lines)
<1>1. one \in Seq(Lines) /\ Len(one) = 1 /\ one[1] = ln /\ n \in Nat
  BY LenProperties
<1>2. /\ lines \o one \in Seq(Lines) /\ Len(lines \o one) = n + 1
      /\ \A i \in 1 .. n + 1 : (lines \o one)[i] = IF i <= n THEN lines[i] ELSE ln
  <2> HIDE DEF one
  <2>1. /\ lines \o one \in Seq(Lines) /\ Len(lines \o one) = n + Len(one)
        /\ \A i \in 1 .. n + Len(one) :
             (lines \o one)[i] = IF i <= n THEN lines[i] ELSE one[i - n]
    BY <1>1, ConcatProperties
  <2> QED
    BY <1>1, <2>1
<1>3. /\ a \in Seq(Seq(Chunks)) /\ Len(a) = n + 1
      /\ \A i \in 1 .. n + 1 : a[i] = WrapLine((lines \o one)[i])
  BY <1>0, <1>2
<1>4. /\ b \in Seq(Seq(Chunks)) /\ Len(b) = n
      /\ \A i \in 1 .. n : b[i] = WrapLine(lines[i])
  BY <1>0
<1>5. w \in Seq(Chunks)
  BY WrapKeeps
<1>6. \A i \in 1 .. n + 1 : a[i] = IF i <= n THEN b[i] ELSE w
  <2> DEFINE all == lines \o one
  <2>1. \A i \in 1 .. n + 1 :
           a[i] = WrapLine(all[i]) /\ all[i] = IF i <= n THEN lines[i] ELSE ln
    BY <1>2, <1>3, Zenon
  <2>2. w = WrapLine(ln) /\ n \in Nat
    BY <1>1
  <2> HIDE DEF a, b, w, n, all
  <2> QED
    BY <1>4, <2>1, <2>2
<1> DEFINE x == <<w>>
<1> HIDE DEF a, b, w, n
<1>7. x \in Seq(Seq(Chunks)) /\ Len(x) = 1 /\ x[1] = w
  BY <1>5
<1> HIDE DEF x
<1>8. /\ b \o x \in Seq(Seq(Chunks)) /\ Len(b \o x) = n + 1
      /\ \A i \in 1 .. n + 1 : (b \o x)[i] = IF i <= n THEN b[i] ELSE w
  <2>1. /\ b \o x \in Seq(Seq(Chunks)) /\ Len(b \o x) = Len(b) + Len(x)
        /\ \A i \in 1 .. Len(b) + Len(x) :
             (b \o x)[i] = IF i <= Len(b) THEN b[i] ELSE x[i - Len(b)]
    <3> DEFINE S == Seq(Chunks)
    <3>1. b \in Seq(S) /\ x \in Seq(S)
      BY <1>4, <1>7
    <3> HIDE DEF S
    <3>2. /\ b \o x \in Seq(S) /\ Len(b \o x) = Len(b) + Len(x)
          /\ \A i \in 1 .. Len(b) + Len(x) :
               (b \o x)[i] = IF i <= Len(b) THEN b[i] ELSE x[i - Len(b)]
      BY <3>1, ConcatProperties
    <3> QED
      BY <3>2 DEF S
  <2> QED
    BY <1>1, <1>4, <1>7, <2>1
<1>9. a = b \o x
  <2> DEFINE S == Seq(Chunks)
             y == b \o x
  <2>1. /\ a \in Seq(S) /\ y \in Seq(S) /\ Len(a) = Len(y)
        /\ \A i \in 1 .. Len(a) : a[i] = y[i]
    BY <1>3, <1>6, <1>8
  <2> HIDE DEF S, y
  <2>2. a = y
    BY <2>1, SeqEqual
  <2> QED
    BY <2>2 DEF y
<1> QED
  BY <1>4, <1>9 DEF a, b, w, x

\* The whole text: chunks, with its characters in their order.
LEMMA WrappedKeeps ==
  \A lines \in Seq(Lines) :
    Wrapped(lines) \in Seq(Chunks) /\ FlattenSeq(Wrapped(lines)) = FlattenSeq(lines)
<1> DEFINE G == {lines \in Seq(Lines) :
                   Wrapped(lines) \in Seq(Chunks) /\ FlattenSeq(Wrapped(lines)) = FlattenSeq(lines)}
<1>0. \A lines : Wrapped(lines) = FlattenSeq(WrapAll(lines))
  BY DEF Wrapped, WrapAll
<1>1. <<>> \in G
  <2>1. WrapAll(<<>>) = <<>>
    BY DEF WrapAll
  <2>2. Wrapped(<<>>) = <<>>
    BY <1>0, <2>1, FlattenSame, Widths!FlattenNone
  <2>3. FlattenSeq(<<>>) = <<>>
    BY FlattenSame, Widths!FlattenNone
  <2> QED
    BY <2>2, <2>3, EmptySeq
<1>2. ASSUME NEW lines \in Seq(Lines), NEW ln \in Lines, lines \in G
      PROVE  lines \o <<ln>> \in G
  <2> DEFINE a == Wrapped(lines)
             w == WrapLine(ln)
  <2>1. Wrapped(lines \o <<ln>>) = a \o w
    BY <1>0, WrapAllGrows, WrapKeeps, FlattenSame, Widths!FlattenAppend
  <2>2. a \in Seq(Chunks) /\ w \in Seq(Chunks) /\ FlattenSeq(w) = ln
        /\ FlattenSeq(a) = FlattenSeq(lines)
    BY <1>2, WrapKeeps
  <2> HIDE DEF a, w
  <2>3. a \o w \in Seq(Chunks)
    BY <2>2, ConcatProperties
  <2>4. a \in Seq(Seq(Cells)) /\ w \in Seq(Seq(Cells))
    BY <2>2, ChunksAreLines DEF Lines
  <2>5. FlattenSeq(a \o w) = FlattenSeq(a) \o FlattenSeq(w)
    BY <2>4, FlattenSame, Widths!FlattenConcat
  <2>6. FlattenSeq(lines \o <<ln>>) = FlattenSeq(lines) \o ln
    BY FlattenSame, Widths!FlattenAppend DEF Lines
  <2>7. lines \o <<ln>> \in Seq(Lines)
    <3>1. <<ln>> \in Seq(Lines)
      OBVIOUS
    <3> QED
      BY <3>1, ConcatProperties
  <2> QED
    BY <2>1, <2>2, <2>3, <2>5, <2>6, <2>7
<1>3. \A lines \in Seq(Lines), ln \in Lines : lines \in G => lines \o <<ln>> \in G
  BY <1>2
<1> HIDE DEF G
<1>4. \A lines \in Seq(Lines) : lines \in G
  BY <1>1, <1>3, Widths!SeqInduct
<1> QED
  BY <1>4 DEF G

-----------------------------------------------------------------------------
(* The burning.                                                            *)

\* A q among what the program has read.
Asked == \E i \in 1 .. cut : typed[i] = "q"

BurnInv ==
  /\ CutInv
  /\ at \in {"confirm", "ask"} => Asked
  /\ BurnNeedsLetter

\* Where the dialog is met, its q has been read; where the fire starts, what
\* must have come before.
LEMMA BurnStep == BurnInv /\ [Next]_vars => BurnInv'
<1> SUFFICES ASSUME BurnInv, [Next]_vars PROVE BurnInv'
  OBVIOUS
<1>0. CutInv /\ CutInv'
  BY CutStep DEF BurnInv
<1> USE DEF stdinVars, LineKeeps, ScreenKeeps, NoRead
<1>1. CASE ReadTerminal \/ ReadPipe \/ PasswordEnds \/ Reprompt \/ Accept
  BY <1>0, <1>1
  DEF ReadTerminal, ReadPipe, Decoded, PasswordEnds, Reprompt, Accept, BurnInv,
      BurnNeedsLetter
<1>2. CASE OpenShow \/ DrawHint \/ NavStart \/ NavEnds \/ NavEsc \/ NavEscEnds
  BY <1>0, <1>2
  DEF OpenShow, DrawHint, NavStart, NavEnds, NavEsc, NavEscEnds, GoNext, GoPrev, Turn,
      Draw, BurnInv, BurnNeedsLetter
<1>3. CASE NavKey
  <2>1. typed' = typed /\ Read(1)
    BY <1>3 DEF NavKey, GoNext, GoPrev, Turn, AskLetter
  <2>2. cut + 1 <= cut' /\ cut \in Nat /\ cut' \in Nat
    BY <1>0, <2>1, ReadKeeps DEF CutInv
  <2>3. CASE Key = "q"
    <3>1. typed'[cut + 1] = "q" /\ cut + 1 \in 1 .. cut'
      BY <2>1, <2>2, <2>3 DEF Key
    <3>2. Asked'
      BY <3>1 DEF Asked
    <3>3. at' # "burning"
      BY <1>3, <2>3 DEF NavKey, AskLetter, Draw
    <3> QED
      BY <1>0, <3>2, <3>3 DEF BurnInv, BurnNeedsLetter
  <2>4. CASE Key # "q"
    <3>1. at' \notin {"confirm", "ask", "burning"}
      BY <1>3, <2>4 DEF NavKey, GoNext, GoPrev, Turn, Draw
    <3> QED
      BY <1>0, <3>1 DEF BurnInv, BurnNeedsLetter
  <2> QED
    BY <2>3, <2>4
<1>4. CASE ConfirmStart
  BY <1>0, <1>4 DEF ConfirmStart, screenVars, BurnInv, BurnNeedsLetter, Asked
<1>5. CASE ConfirmKey
  <2>1. typed' = typed /\ Read(1) /\ at = "ask"
    BY <1>5 DEF ConfirmKey, Cancel
  <2>2. cut + 1 <= cut' /\ cut \in Nat /\ cut' \in Nat
    BY <1>0, <2>1, ReadKeeps DEF CutInv
  <2>3. CASE Key = target
    <3>1. PICK i \in 1 .. cut : typed[i] = "q"
      BY <2>1 DEF BurnInv, Asked
    <3>2. /\ at' = "burning" /\ target' = target
      BY <1>5, <2>3 DEF ConfirmKey, screenVars
    <3>3. /\ i \in 1 .. cut' /\ typed'[i] = "q"
          /\ cut + 1 \in i + 1 .. cut' /\ typed'[cut + 1] = target'
      BY <2>1, <2>2, <2>3, <3>1, <3>2 DEF Key
    <3> QED
      BY <1>0, <3>2, <3>3 DEF BurnInv, BurnNeedsLetter
  <2>4. CASE Key # target
    BY <1>0, <1>5, <2>4 DEF ConfirmKey, Cancel, Draw, BurnInv, BurnNeedsLetter
  <2> QED
    BY <2>3, <2>4
<1>6. CASE ConfirmEnds
  BY <1>0, <1>6 DEF ConfirmEnds, Cancel, Draw, BurnInv, BurnNeedsLetter
<1>7. CASE HangUp
  BY <1>0, <1>7 DEF HangUp, screenVars, BurnInv, BurnNeedsLetter, Asked
<1>8. ASSUME NEW burst \in Bursts, Arrives(burst) PROVE BurnInv'
  <2>1. at' = at /\ at # "burning" /\ cut' = cut /\ typed' = typed \o burst
    BY <1>8 DEF Arrives
  <2>2. \A i \in 1 .. cut : (typed \o burst)[i] = typed[i]
    BY <1>0, BurstsAssumption, ConcatProperties DEF CutInv
  <2>3. Asked => Asked'
    BY <2>1, <2>2 DEF Asked
  <2> QED
    BY <1>0, <2>1, <2>3 DEF BurnInv, BurnNeedsLetter
<1>9. CASE UNCHANGED vars
  BY <1>0, <1>9 DEF vars, screenVars, BurnInv, BurnNeedsLetter, Asked
<1> QED
  BY <1>1, <1>2, <1>3, <1>4, <1>5, <1>6, <1>7, <1>8, <1>9
  DEF Next, Program, Enter, Show, Confirm, Person

\* The text burns only after a q and, after it, the letter the dialog asked
\* for, or a hangup: whatever is typed, ahead or not, and however it arrives
\* (nav_wait, confirm_burn).
THEOREM BurnNeedsLetterHolds == Spec => []BurnNeedsLetter
<1>1. Init => BurnInv
  <2> SUFFICES ASSUME Init PROVE BurnInv
    OBVIOUS
  <2>1. typed = <<>> /\ cut = 0 /\ fill = 0 /\ at = "password"
    BY DEF Init
  <2> QED
    BY <2>1 DEF BurnInv, CutInv, BurnNeedsLetter
<1>2. BurnInv => BurnNeedsLetter
  BY DEF BurnInv
<1> QED
  BY <1>1, <1>2, BurnStep, PTL DEF Spec

-----------------------------------------------------------------------------
(* The screen.                                                             *)

\* Every step leaves the text, its chunks, and what the ends of stdin and
\* stdout are as they were.
LEMMA FixedStep == [Next]_vars => UNCHANGED fixed
<1> SUFFICES ASSUME [Next]_vars PROVE UNCHANGED fixed
  OBVIOUS
<1> USE DEF LineKeeps, ScreenKeeps
<1>1. CASE Enter
  BY <1>1 DEF Enter, ReadTerminal, ReadPipe, PasswordEnds, Reprompt, Accept
<1>2. CASE Show
  BY <1>2 DEF Show, OpenShow, DrawHint, NavStart, NavKey, NavEnds, NavEsc, NavEscEnds,
              GoNext, GoPrev, Turn, AskLetter
<1>3. CASE Confirm
  BY <1>3 DEF Confirm, ConfirmStart, ConfirmKey, ConfirmEnds, Cancel
<1>4. CASE Person \/ UNCHANGED vars
  BY <1>4 DEF Person, HangUp, Arrives, vars
<1> QED
  BY <1>1, <1>2, <1>3, <1>4 DEF Next, Program

TextInv == text \in Seq(Lines) /\ content = Wrapped(text)

Body == BodyTop .. BodyBottom
\* What shows outside the body is the frame or the hint.
Framed == /\ rows \in [1 .. Height -> Int]
          /\ \A r \in 1 .. Height :
               IF r \in Body THEN rows[r] # Frame
               ELSE rows[r] = Frame \/ (rows[r] = Hint /\ r \in HintRows)
HintShown == \A r \in 1 .. Height : r \in HintRows => rows[r] = Hint

\* What the k-th row of the body shows on page p.
PageRow(p, k) ==
  IF p * PerPage + k <= Len(content) THEN p * PerPage + k ELSE Blank
PageShown == \A k \in 1 .. PerPage - 1 : rows[BodyTop + k - 1] = PageRow(page, k)

\* nav_wait is not entered with the terminal there and the hint not drawn.
ScreenInv ==
  /\ Framed /\ page \in Nat
  /\ at \in {"password", "entered", "open"} => page = 0
  /\ at \in {"hint", "nav", "wait", "esc"} => PageShown
  /\ at \in {"wait", "esc"} \/ (at = "nav" /\ up) => HintShown

\* Rows of the body are rows of the screen, and are numbered on every page.
LEMMA BodyRows ==
  /\ PerPage \in Nat \ {0}
  /\ Body \subseteq 1 .. Height
  /\ \A k \in 1 .. PerPage : BodyTop + k - 1 \in Body
  /\ BodyBottom \in Body /\ \A k \in 1 .. PerPage - 1 : BodyTop + k - 1 # BodyBottom
BY HeightAssumption DEF PerPage, Body, BodyTop, BodyBottom

\* The chunks of a page are those its rows are numbered with.
LEMMA OnPageOnce ==
  ASSUME NEW p \in Nat, NEW k \in 1 .. PerPage
  PROVE  /\ p * PerPage + k \in Nat \ {0}
         /\ OnPage(p, p * PerPage + k) <=> p * PerPage + k <= Len(content)
<1>1. PerPage \in Nat
  BY BodyRows
<1> DEFINE n == p * PerPage
<1>2. n \in Nat /\ (p + 1) * PerPage = n + PerPage
  BY <1>1
<1> HIDE DEF n
<1>3. n < n + k /\ n + k <= n + PerPage /\ n + k \in Nat \ {0}
  BY <1>1, <1>2
<1>4. p * PerPage = n
  BY DEF n
<1> QED
  BY <1>2, <1>3, <1>4 DEF OnPage

\* The hint leaves the rows above it alone.
LEMMA HintBelow ==
  /\ HintRows \subseteq Int
  /\ \A k \in 1 .. PerPage - 1 : BodyTop + k - 1 \notin HintRows
  /\ \A r \in HintRows : BodyBottom <= r
<1>1. ShortRows \in Nat /\ LongRows \in Nat
  <2>1. ShortHint \in Lines /\ LongHint \in Lines
    BY HintsAssumption DEF Lines, Cells
  <2>2. WrapLine(ShortHint) \in Seq(Chunks) /\ WrapLine(LongHint) \in Seq(Chunks)
    BY <2>1, WrapKeeps
  <2> QED
    BY <2>2, LenProperties DEF ShortRows, LongRows, RowsOf
<1> DEFINE n == IF Pages <= 1 THEN ShortRows ELSE LongRows
<1>2. n \in Nat /\ HintRows = BodyBottom .. BodyBottom + n - 1
  BY <1>1 DEF HintRows
<1> HIDE DEF n
<1>3. BodyBottom \in Int /\ BodyTop \in Int /\ PerPage = BodyBottom - BodyTop + 1
  BY HeightAssumption DEF BodyBottom, BodyTop, PerPage
<1> QED
  BY <1>2, <1>3

\* draw_page leaves the frame alone and shows page p.
LEMMA DrawnPage ==
  ASSUME Framed, NEW p \in Nat
  PROVE  /\ Drawn(p) \in [1 .. Height -> Int]
         /\ \A r \in 1 .. Height : IF r \in Body THEN Drawn(p)[r] # Frame
                                  ELSE Drawn(p)[r] = rows[r]
         /\ \A k \in 1 .. PerPage - 1 : Drawn(p)[BodyTop + k - 1] = PageRow(p, k)
<1>1. DOMAIN rows = 1 .. Height
  BY DEF Framed
<1>2. ASSUME NEW r \in 1 .. Height, r \notin Body
      PROVE  Drawn(p)[r] = rows[r]
  BY <1>1, <1>2 DEF Drawn, Body
<1>3. ASSUME NEW k \in 1 .. PerPage
      PROVE  /\ Drawn(p)[BodyTop + k - 1] = PageRow(p, k)
             /\ PageRow(p, k) \in Nat
  <2>1. BodyTop + k - 1 \in Body /\ BodyTop + k - 1 \in 1 .. Height
    BY BodyRows
  <2>2. p * PerPage + (BodyTop + k - 1) - BodyTop + 1 = p * PerPage + k
    <3>1. p * PerPage \in Int /\ BodyTop \in Int /\ k \in Int
      BY BodyRows DEF BodyTop
    <3> QED
      BY <3>1
  <2>3. Drawn(p)[BodyTop + k - 1]
          = IF OnPage(p, p * PerPage + k) THEN p * PerPage + k ELSE Blank
    BY <1>1, <2>1, <2>2, Zenon DEF Drawn, Body
  <2> QED
    BY <2>3, OnPageOnce DEF PageRow, Blank
<1>4. ASSUME NEW r \in Body
      PROVE  Drawn(p)[r] \in Nat
  <2>1. r - BodyTop + 1 \in 1 .. PerPage /\ BodyTop + (r - BodyTop + 1) - 1 = r
    BY HeightAssumption DEF Body, BodyTop, BodyBottom, PerPage
  <2> QED
    BY <1>3, <2>1
<1>5. Drawn(p) \in [1 .. Height -> Int]
  <2>1. \A r \in 1 .. Height : Drawn(p)[r] \in Int
    BY <1>2, <1>4 DEF Framed
  <2>2. Drawn(p) = [r \in 1 .. Height |-> Drawn(p)[r]]
    BY <1>1 DEF Drawn
  <2> QED
    BY <2>1, <2>2
<1> QED
  BY <1>2, <1>3, <1>4, <1>5, BodyRows DEF Framed, Frame

\* A dialog within the body leaves the frame alone.
LEMMA DialogFramed ==
  ASSUME Framed, DialogRows \subseteq Body
  PROVE  /\ Overlaid \in [1 .. Height -> Int]
         /\ \A r \in 1 .. Height : IF r \in Body THEN Overlaid[r] # Frame
                                  ELSE Overlaid[r] = rows[r]
BY DEF Overlaid, Framed, Dialog, Frame

\* A step that keeps the frame: pages, and with them the hint, stay.
LEMMA FramedOn ==
  ASSUME Framed, content' = content, rows' \in [1 .. Height -> Int],
         \A r \in 1 .. Height : IF r \in Body THEN rows'[r] # Frame ELSE rows'[r] = rows[r]
  PROVE  Framed' /\ HintRows' = HintRows
<1>1. HintRows' = HintRows /\ Body' = Body
  BY DEF HintRows, Pages, Body
<1> QED
  BY <1>1 DEF Framed

\* A page that is drawn is the page shown.
LEMMA PageDrawn ==
  ASSUME ScreenInv, NEW p \in Nat, page' = p, content' = content,
         Draw(Drawn(p), "hint")
  PROVE  ScreenInv'
<1>1. CASE at' = "aborted" /\ rows' = rows
  <2>1. Framed'
    BY <1>1, FramedOn DEF ScreenInv, Framed
  <2> QED
    BY <1>1, <2>1 DEF ScreenInv
<1>2. CASE at' = "hint" /\ rows' = Drawn(p)
  <2>1. Framed'
    <3>1. Framed
      BY DEF ScreenInv
    <3> QED
      BY <1>2, <3>1, DrawnPage, FramedOn
  <2>2. \A k \in 1 .. PerPage - 1 : rows'[BodyTop + k - 1] = PageRow(p, k)
    BY <1>2, DrawnPage DEF ScreenInv
  <2>3. PageShown'
    BY <2>2 DEF PageShown, PageRow
  <2> QED
    BY <1>2, <2>1, <2>3 DEF ScreenInv
<1> QED
  BY <1>1, <1>2 DEF Draw

\* So is what a turn leads to, and the same page off either end.
LEMMA PageTurned ==
  ASSUME ScreenInv, NEW p \in Int, Turn(p), at \in {"nav", "wait", "esc"}
  PROVE  ScreenInv'
<1>1. content' = content
  BY DEF Turn, ScreenKeeps, fixed
<1>2. CASE p \in 0 .. Pages - 1
  <2>1. p \in Nat /\ page' = p /\ Draw(Drawn(p), "hint")
    BY <1>2 DEF Turn
  <2> QED
    BY <1>1, <2>1, PageDrawn
<1>3. CASE p \notin 0 .. Pages - 1
  <2>1. at' = "hint" /\ page' = page /\ rows' = rows
    BY <1>3 DEF Turn
  <2>2. PageShown'
    BY <1>1, <2>1 DEF ScreenInv, PageShown, PageRow
  <2>3. Framed'
    BY <1>1, <2>1, FramedOn DEF ScreenInv, Framed
  <2> QED
    BY <2>1, <2>2, <2>3 DEF ScreenInv
<1> QED
  BY <1>2, <1>3

\* A step that draws nothing and goes nowhere else.
LEMMA SameScreen ==
  ASSUME ScreenInv, rows' = rows, page' = page, content' = content,
         \/ at' = at /\ (up' => up)
         \/ at = "wait" /\ at' \in {"wait", "esc"}
  PROVE  ScreenInv'
<1>1. Framed' /\ page' \in Nat /\ HintRows' = HintRows
  BY FramedOn DEF ScreenInv, Framed
<1>2. PageShown => PageShown'
  BY DEF PageShown, PageRow
<1>3. HintShown => HintShown'
  BY <1>1 DEF HintShown
<1> QED
  BY <1>1, <1>2, <1>3 DEF ScreenInv

\* Every step keeps the screen in order.
LEMMA ScreenStep ==
  ASSUME DialogRows \subseteq Body, ScreenInv, [Next]_vars
  PROVE  ScreenInv'
<1> USE DEF screenVars, stdinVars, fixed, LineKeeps, ScreenKeeps, NoRead
<1>0. page \in Nat /\ page + 1 \in Int /\ page - 1 \in Int /\ Framed
  BY DEF ScreenInv
<1>a. content' = content
  BY FixedStep
<1>b. rows' = rows => Framed' /\ HintRows' = HintRows
  BY <1>0, <1>a, FramedOn DEF Framed
<1>1. CASE ReadTerminal \/ ReadPipe \/ PasswordEnds \/ Reprompt \/ Accept
  <2>1. rows' = rows /\ page' = page /\ at' \in {"password", "entered", "died", "open"}
        /\ at \in {"password", "entered"}
    BY <1>1 DEF ReadTerminal, ReadPipe, Decoded, PasswordEnds, Reprompt, Accept
  <2> QED
    BY <1>b, <2>1 DEF ScreenInv
<1>2. CASE OpenShow
  <2>1. page = 0 /\ page' = 0 /\ content' = content
    BY <1>2 DEF OpenShow, ScreenInv
  <2>2. CASE Draw(Drawn(0), "hint")
    BY <2>1, <2>2, PageDrawn
  <2>3. CASE Draw(Drawn(0), "left")
    <3>1. rows' \in {rows, Drawn(0)} /\ at' \in {"aborted", "left"}
      BY <2>3 DEF Draw
    <3>2. Framed'
      <4> DEFINE first == 0
      <4>1. first \in Nat
        OBVIOUS
      <4> HIDE DEF first
      <4>2. rows' = Drawn(first) => Framed'
        BY <1>0, <1>a, <4>1, DrawnPage, FramedOn
      <4> QED
        BY <1>b, <3>1, <4>2 DEF first
    <3> QED
      BY <2>1, <3>1, <3>2 DEF ScreenInv
  <2> QED
    BY <1>2, <2>2, <2>3 DEF OpenShow
<1>3. CASE DrawHint
  <2>1. /\ at' \in {"aborted", "nav"} /\ page' = page /\ content' = content /\ up' = up
        /\ at = "hint"
    BY <1>3 DEF DrawHint
  <2>2. CASE Mute
    <3>1. rows' = rows /\ ~up
      BY <1>3, <2>2 DEF DrawHint, Mute
    <3> QED
      BY <1>b, <2>1, <3>1 DEF ScreenInv, PageShown, PageRow
  <2>3. CASE ~Mute
    <3>1. rows' = [r \in 1 .. Height |-> IF r \in HintRows THEN Hint ELSE rows[r]]
          /\ HintRows' = HintRows /\ Body' = Body
      BY <1>0, <1>3, <1>a, <2>3 DEF DrawHint, Hinted, Framed, HintRows, Pages, Body
    <3>2. Framed' /\ HintShown'
      BY <1>0, <3>1 DEF Framed, HintShown, Hint, Frame
    <3>3. PageShown'
      <4>1. SUFFICES ASSUME NEW k \in 1 .. PerPage - 1
                     PROVE  rows'[BodyTop + k - 1] = PageRow(page, k)
        BY <2>1 DEF PageShown, PageRow
      <4>2. /\ BodyTop + k - 1 \notin HintRows
            /\ BodyTop + k - 1 \in 1 .. Height
        <5>1. k \in 1 .. PerPage
          BY BodyRows
        <5> QED
          BY <5>1, BodyRows, HintBelow
      <4>3. rows[BodyTop + k - 1] = PageRow(page, k)
        BY <2>1 DEF ScreenInv, PageShown
      <4> QED
        BY <3>1, <4>2, <4>3
    <3> QED
      BY <2>1, <3>2, <3>3 DEF ScreenInv
  <2> QED
    BY <2>2, <2>3
<1>4. CASE NavStart
  <2>1. CASE up
    <3>1. at = "nav" /\ at' = "wait" /\ rows' = rows /\ page' = page
      BY <1>4, <2>1 DEF NavStart
    <3>2. PageShown' /\ HintShown'
      BY <1>a, <1>b, <2>1, <3>1 DEF ScreenInv, PageShown, PageRow, HintShown
    <3> QED
      BY <1>b, <3>1, <3>2 DEF ScreenInv
  <2>2. CASE ~up
    BY <1>0, <1>4, <2>2, PageTurned DEF NavStart, GoNext
  <2> QED
    BY <2>1, <2>2
<1>5. CASE NavKey
  <2>1. CASE GoNext \/ GoPrev
    BY <1>0, <1>5, <2>1, PageTurned DEF NavKey, GoNext, GoPrev
  <2>2. CASE AskLetter
    <3>1. rows' \in {rows, Overlaid} /\ at' \in {"aborted", "confirm"} /\ page' = page
      BY <2>2 DEF AskLetter, Draw
    <3>2. Framed'
      BY <1>0, <1>a, <1>b, <3>1, DialogFramed, FramedOn
    <3> QED
      BY <1>0, <3>1, <3>2 DEF ScreenInv
  <2>3. CASE at' \in {"wait", "esc"} /\ UNCHANGED <<screenVars, fixed>>
    <3>1. at = "wait" /\ rows' = rows /\ page' = page /\ content' = content
      BY <1>5, <2>3 DEF NavKey
    <3> QED
      BY <2>3, <3>1, SameScreen
  <2> QED
    BY <1>5, <2>1, <2>2, <2>3 DEF NavKey
<1>6. CASE NavEnds \/ NavEsc \/ NavEscEnds
  BY <1>0, <1>6, PageTurned DEF NavEnds, NavEsc, NavEscEnds, GoNext, GoPrev
<1>7. CASE ConfirmStart
  BY <1>0, <1>7, <1>b DEF ConfirmStart, ScreenInv
<1>8. CASE ConfirmKey \/ ConfirmEnds
  <2>1. CASE Cancel
    BY <1>0, <1>a, <2>1, PageDrawn DEF Cancel
  <2>2. CASE at' = "burning" /\ UNCHANGED screenVars
    BY <1>0, <1>b, <2>2 DEF ScreenInv
  <2> QED
    BY <1>8, <2>1, <2>2 DEF ConfirmKey, ConfirmEnds
<1>9. CASE HangUp \/ (\E burst \in Bursts : Arrives(burst)) \/ UNCHANGED vars
  <2>1. /\ at' = at /\ rows' = rows /\ page' = page /\ content' = content
        /\ up' => up
    BY <1>9 DEF HangUp, Arrives, vars
  <2> QED
    BY <2>1, SameScreen
<1> QED
  BY <1>1, <1>2, <1>3, <1>4, <1>5, <1>6, <1>7, <1>8, <1>9
  DEF Next, Program, Enter, Show, Confirm, Person

\* While the person reads, the screen shows the page, the hint and the frame,
\* and nothing that another page or a dialog has left, for every text and
\* every terminal whose body has room for the box, however many rows the hint
\* takes (show, draw_page, show_dialog).
THEOREM CleanScreenHolds == Spec => []CleanScreen
<1>1. Init => ScreenInv
  <2> SUFFICES ASSUME Init PROVE ScreenInv
    OBVIOUS
  <2>1. Framed
    BY DEF Init, Framed, Body, Blank, Frame
  <2> QED
    BY <2>1 DEF Init, ScreenInv
<1>2. ScreenInv => CleanScreen
  <2> SUFFICES ASSUME ScreenInv, at \in {"wait", "esc"}
               PROVE  CleanScreen
    BY DEF CleanScreen
  <2>1. DOMAIN rows = 1 .. Height /\ HintShown /\ PageShown
    BY DEF ScreenInv, Framed
  <2>2. ASSUME NEW r \in 1 .. Height
        PROVE  /\ r \in HintRows => rows[r] = Hint
               /\ rows[r] = Frame <=> r \notin Body \cup HintRows
    BY <2>1 DEF ScreenInv, Framed, HintShown, Hint, Frame
  <2> QED
    BY <2>1, <2>2 DEF PageShown, PageRow, CleanScreen, Body
<1>3. CASE DialogRows \subseteq Body
  BY <1>1, <1>2, <1>3, ScreenStep, PTL DEF Spec
<1>4. CASE ~(DialogRows \subseteq Body)
  <2>1. CleanScreen
    BY <1>4 DEF CleanScreen, Body
  <2> QED
    BY <2>1, PTL
<1> QED
  BY <1>3, <1>4

-----------------------------------------------------------------------------
(* The text on its pages.                                                  *)

\* A page begins where the one before ends.
LEMMA PageBelow ==
  ASSUME NEW p \in Nat, NEW q \in Nat, NEW n \in Nat \ {0}, p < q
  PROVE  p * n + n <= q * n
BY SMT

LEMMA PageOf ==
  ASSUME NEW a \in Nat, NEW n \in Nat \ {0}
  PROVE  (a \div n) \in Nat /\ (a \div n) * n <= a /\ a < (a \div n) * n + n
BY SMT

LEMMA PageExists ==
  ASSUME NEW q \in Nat, NEW n \in Nat \ {0}, NEW i \in Nat \ {0}, NEW m \in Nat,
         i <= m, q * n < i, i <= q * n + n
  PROVE  q < (m + n - 1) \div n
BY SMT

\* There is a page, and each chunk is on one and no other.
LEMMA PagesPartition ==
  ASSUME content \in Seq(Chunks)
  PROVE  /\ Pages \in Nat \ {0}
         /\ \A i \in DOMAIN content : \E q : {p \in 0 .. Pages - 1 : OnPage(p, i)} = {q}
<1> DEFINE n == PerPage
           m == Len(content)
<1>1. n \in Nat \ {0} /\ m \in Nat /\ DOMAIN content = 1 .. m /\ (content # <<>> => m # 0)
  BY BodyRows, LenProperties, EmptySeq
<1>2. Pages = IF content = <<>> THEN 1 ELSE (m + n - 1) \div n
  BY DEF Pages
<1>3. Pages \in Nat \ {0}
  <2>1. CASE content = <<>>
    BY <1>2, <2>1
  <2>2. CASE content # <<>>
    <3> HIDE DEF n, m
    <3>1. m + n - 1 \in Nat
      BY <1>1
    <3>2. (m + n - 1) \div n \in Nat
      BY <1>1, <3>1, PageOf
    <3>3. 0 < (m + n - 1) \div n
      <4> DEFINE q == 0
      <4>1. q \in Nat /\ 1 \in Nat \ {0} /\ 1 <= m /\ q * n < 1 /\ 1 <= q * n + n
        BY <1>1, <2>2
      <4> HIDE DEF q
      <4>2. q < (m + n - 1) \div n
        BY <1>1, <4>1, PageExists
      <4> QED
        BY <4>2 DEF q
    <3> QED
      BY <1>2, <2>2, <3>2, <3>3
  <2> QED
    BY <2>1, <2>2
<1>4. ASSUME NEW i \in DOMAIN content
      PROVE  \E q : {p \in 0 .. Pages - 1 : OnPage(p, i)} = {q}
  <2>1. i \in Nat \ {0} /\ i <= m /\ i - 1 \in Nat /\ content # <<>>
    BY <1>1
  <2> DEFINE q == (i - 1) \div n
  <2>2. q \in Nat /\ q * n <= i - 1 /\ i - 1 < q * n + n
    BY <1>1, <2>1, PageOf
  <2> HIDE DEF n, m, q
  <2>3. q * n \in Nat /\ q * n < i /\ i <= q * n + n
    BY <1>1, <2>1, <2>2
  <2>4. q < Pages
    BY <1>1, <1>2, <2>1, <2>2, <2>3, PageExists
  <2>5. \A p \in Nat : OnPage(p, i) <=> p * n < i /\ i <= p * n + n
    <3>1. \A p \in Nat : (p + 1) * n = p * n + n
      BY <1>1
    <3> QED
      BY <2>1, <3>1 DEF OnPage, n, m
  <2>6. ASSUME NEW p \in Nat, OnPage(p, i) PROVE p = q
    <3>1. p * n < i /\ i <= p * n + n /\ p * n \in Nat
      BY <1>1, <2>5, <2>6
    <3>2. ~(p < q)
      <4>1. p < q => p * n + n <= q * n
        BY <1>1, <2>2, PageBelow
      <4> QED
        BY <1>1, <2>1, <2>3, <3>1, <4>1
    <3>3. ~(q < p)
      <4>1. q < p => q * n + n <= p * n
        BY <1>1, <2>2, PageBelow
      <4> QED
        BY <1>1, <2>1, <2>3, <3>1, <4>1
    <3> QED
      BY <2>2, <3>2, <3>3
  <2>7. OnPage(q, i) /\ q \in 0 .. Pages - 1
    BY <1>3, <2>2, <2>3, <2>4, <2>5
  <2>8. 0 .. Pages - 1 \subseteq Nat
    OBVIOUS
  <2> QED
    BY <2>6, <2>7, <2>8
<1> QED
  BY <1>3, <1>4

\* wrap_line and the pages lose no character of a text and repeat none, keep
\* their order, put each chunk on one page, and make none wider than a row: for
\* every text and every terminal of two columns or more.
THEOREM TextKeptHolds == Spec => []TextKept
<1>1. Init => TextInv
  BY TextsAssumption DEF Init, TextInv, Lines, Cells
<1>2. TextInv /\ [Next]_vars => TextInv'
  BY FixedStep DEF TextInv, fixed
<1>3. TextInv => TextKept
  <2> SUFFICES ASSUME TextInv PROVE TextKept
    OBVIOUS
  <2>1. content \in Seq(Chunks) /\ FlattenSeq(content) = FlattenSeq(text)
    BY WrappedKeeps DEF TextInv
  <2>2. \A i \in DOMAIN content : DisplayWidth(content[i]) <= Width
    <3>1. \A i \in DOMAIN content : content[i] \in Chunks
      BY <2>1, LenProperties, ElementOfSeq
    <3> QED
      BY <3>1 DEF Chunks
  <2>3. \A i \in DOMAIN content : Cardinality({p \in 0 .. Pages - 1 : OnPage(p, i)}) = 1
    <3> SUFFICES ASSUME NEW i \in DOMAIN content
                 PROVE  Cardinality({p \in 0 .. Pages - 1 : OnPage(p, i)}) = 1
      OBVIOUS
    <3>1. PICK q : {p \in 0 .. Pages - 1 : OnPage(p, i)} = {q}
      BY <2>1, PagesPartition
    <3> QED
      BY <3>1, FS_Singleton
  <2> QED
    BY <2>1, <2>2, <2>3, Zenon DEF TextKept
<1> QED
  BY <1>1, <1>2, <1>3, PTL DEF Spec


-----------------------------------------------------------------------------
(* The password line.                                                      *)

\* Backspaces and characters among the bytes after the i-th, up to the j-th,
\* and the survivors on either side of the i-th.
Erasures(s, i, j) == {k \in i + 1 .. j : s[k] = "bs"}
Characters(s, i, j) == {k \in i + 1 .. j : s[k] \in Printable}
Upto(s, i) == {j \in Survivors(s) : j <= i}
After(s, i) == {j \in Survivors(s) : j > i}

LEMMA FiniteBelow ==
  ASSUME NEW n \in Nat, NEW S, S \subseteq 1 .. n
  PROVE  IsFiniteSet(S) /\ Cardinality(S) \in Nat
<1>1. IsFiniteSet(1 .. n)
  BY FS_Interval
<1> QED
  BY <1>1, FS_Subset, FS_CardinalityType

LEMMA LineFolds == \A ln, s : FoldLeft(Edited, ln, s) = Edits!Folded(0, ln, s)
BY DEF Edits!Folded, EditedStep, FoldLeft, MapThenFoldSet, Max,
       Edits!FoldLeft, Edits!MapThenFoldSet, Edits!Max

\* What a byte makes of the line.
LEMMA EditedIs ==
  ASSUME NEW m \in Seq(Bytes), NEW b \in Bytes
  PROVE  /\ Edited(m, b) \in Seq(Bytes)
         /\ b \in Printable => Edited(m, b) = Append(m, b)
         /\ b \notin Printable /\ b # "bs" => Edited(m, b) = m
         /\ b = "bs" /\ m = <<>> => Edited(m, b) = m
         /\ b = "bs" /\ m # <<>> =>
              /\ Len(Edited(m, b)) = Len(m) - 1
              /\ \A k \in 1 .. Len(m) - 1 : Edited(m, b)[k] = m[k]
<1>0. "bs" \notin Printable
  BY DEF Printable, Letters
<1>1. CASE b \in Printable
  <2>1. Edited(m, b) = Append(m, b)
    BY <1>0, <1>1 DEF Edited
  <2> QED
    BY <1>0, <1>1, <2>1, AppendProperties
<1>2. CASE b \notin Printable /\ b # "bs"
  BY <1>2 DEF Edited
<1>3. CASE b = "bs" /\ m = <<>>
  BY <1>0, <1>3 DEF Edited
<1>4. CASE b = "bs" /\ m # <<>>
  <2> DEFINE n == Len(m) - 1
             f == SubSeq(m, 1, n)
  <2>1. Len(m) \in Nat \ {0} /\ n \in Nat
    BY <1>4, EmptySeq
  <2>2. Edited(m, b) = f
    BY <1>0, <1>4 DEF Edited, Front
  <2>3. \A i \in 1 .. n : m[i] \in Bytes
    BY <2>1, ElementOfSeq
  <2>4. n - 1 + 1 = n /\ 1 \in Int /\ n \in Int
    BY <2>1
  <2>5. /\ f \in Seq(Bytes) /\ Len(f) = n
        /\ \A k \in 1 .. n : f[k] = m[k]
    <3> HIDE DEF n
    <3>1. /\ f \in Seq(Bytes) /\ Len(f) = IF 1 <= n THEN n - 1 + 1 ELSE 0
          /\ \A k \in 1 .. n - 1 + 1 : f[k] = m[1 + k - 1]
      BY <2>3, <2>4, SubSeqProperties
    <3>2. \A k \in 1 .. n : 1 + k - 1 = k
      BY <2>1
    <3>3. Len(f) = n
      BY <2>1, <2>4, <3>1
    <3> QED
      BY <2>4, <3>1, <3>2, <3>3
  <2> HIDE DEF f, n
  <2> QED
    BY <1>0, <1>4, <2>2, <2>5 DEF n
<1> QED
  BY <1>1, <1>2, <1>3, <1>4

\* One byte more at the end.
LEMMA OneByte ==
  ASSUME NEW s \in Seq(Bytes), NEW b \in Bytes
  PROVE  /\ s \o <<b>> \in Seq(Bytes) /\ Len(s) \in Nat
         /\ Len(s \o <<b>>) = Len(s) + 1
         /\ \A i \in 1 .. Len(s) : (s \o <<b>>)[i] = s[i]
         /\ (s \o <<b>>)[Len(s) + 1] = b
<1>1. s \o <<b>> = Append(s, b)
  BY AppendIsConcat
<1> QED
  BY <1>1, AppendProperties, LenProperties

\* It is one erasure more or one character more, and a byte survives it if
\* there is a character left for it to erase.
LEMMA SurvivesOne ==
  ASSUME NEW s \in Seq(Bytes), NEW b \in Bytes,
         NEW t, t = s \o <<b>>, NEW n, n = Len(s)
  PROVE  /\ \A i \in 1 .. n :
              /\ Cardinality(Erasures(t, i, n + 1))
                   = Cardinality(Erasures(s, i, n)) + (IF b = "bs" THEN 1 ELSE 0)
              /\ Cardinality(Characters(t, i, n + 1))
                   = Cardinality(Characters(s, i, n)) + (IF b \in Printable THEN 1 ELSE 0)
              /\ Survives(t, i) <=>
                   /\ Survives(s, i)
                   /\ Cardinality(Erasures(t, i, n + 1))
                        <= Cardinality(Characters(t, i, n + 1))
         /\ Survives(t, n + 1) <=> b \in Printable
<1>1. /\ t \in Seq(Bytes) /\ n \in Nat /\ Len(t) = n + 1
      /\ (\A i \in 1 .. n : t[i] = s[i]) /\ t[n + 1] = b
  BY OneByte
<1>2. ASSUME NEW i \in 1 .. n, NEW j \in i .. n
      PROVE  Erasures(t, i, j) = Erasures(s, i, j) /\ Characters(t, i, j) = Characters(s, i, j)
  <2>1. \A k \in i + 1 .. j : k \in 1 .. n
    BY <1>1
  <2>2. \A k \in i + 1 .. j : t[k] = s[k]
    BY <1>1, <2>1
  <2> QED
    BY <2>2 DEF Erasures, Characters
<1>3. ASSUME NEW i \in 1 .. n
      PROVE  /\ Cardinality(Erasures(t, i, n + 1))
                  = Cardinality(Erasures(s, i, n)) + (IF b = "bs" THEN 1 ELSE 0)
             /\ Cardinality(Characters(t, i, n + 1))
                  = Cardinality(Characters(s, i, n)) + (IF b \in Printable THEN 1 ELSE 0)
  <2> DEFINE m == n + 1
             er == Erasures(s, i, n)
             ch == Characters(s, i, n)
  <2>0. n \in i .. n /\ m \in Nat
    BY <1>1
  <2>1. er \subseteq 1 .. n /\ ch \subseteq 1 .. n
    BY <1>1 DEF Erasures, Characters
  <2>2. m \notin er /\ m \notin ch
    BY <1>1, <2>1
  <2>3. \A k : k \in i + 1 .. m <=> k \in i + 1 .. n \/ k = m
    BY <1>1
  <2>4. Erasures(t, i, m) = IF b = "bs" THEN er \cup {m} ELSE er
    <3>1. er = Erasures(t, i, n)
      BY <1>2, <2>0
    <3>2. t[m] = b
      BY <1>1
    <3> HIDE DEF er, m
    <3> QED
      BY <2>3, <3>1, <3>2 DEF Erasures
  <2>5. Characters(t, i, m) = IF b \in Printable THEN ch \cup {m} ELSE ch
    <3>1. ch = Characters(t, i, n)
      BY <1>2, <2>0
    <3>2. t[m] = b
      BY <1>1
    <3> HIDE DEF ch, m
    <3> QED
      BY <2>3, <3>1, <3>2 DEF Characters
  <2>6. /\ IsFiniteSet(er) /\ IsFiniteSet(ch)
        /\ Cardinality(er) \in Nat /\ Cardinality(ch) \in Nat
    BY <1>1, <2>1, FiniteBelow
  <2> HIDE DEF er, ch, m
  <2>7. Cardinality(er \cup {m}) = Cardinality(er) + 1
        /\ Cardinality(ch \cup {m}) = Cardinality(ch) + 1
    BY <2>2, <2>6, FS_AddElement
  <2> QED
    BY <2>4, <2>5, <2>6, <2>7 DEF er, ch, m
<1>4. ASSUME NEW i \in 1 .. n
      PROVE  Survives(t, i) <=>
               /\ Survives(s, i)
               /\ Cardinality(Erasures(t, i, n + 1)) <= Cardinality(Characters(t, i, n + 1))
  <2> DEFINE Bound(u, j) == Cardinality(Erasures(u, i, j)) <= Cardinality(Characters(u, i, j))
  <2>1. Survives(t, i) <=> t[i] \in Printable /\ \A j \in i + 1 .. n + 1 : Bound(t, j)
    BY <1>1 DEF Survives, Erasures, Characters
  <2>2. Survives(s, i) <=> s[i] \in Printable /\ \A j \in i + 1 .. n : Bound(s, j)
    BY DEF Survives, Erasures, Characters
  <2>3. \A j \in i + 1 .. n : Bound(t, j) <=> Bound(s, j)
    <3>1. \A j \in i + 1 .. n : j \in i .. n
      BY <1>1
    <3> QED
      BY <1>2, <3>1
  <2>4. \A j : j \in i + 1 .. n + 1 <=> j \in i + 1 .. n \/ j = n + 1
    BY <1>1
  <2>5. t[i] = s[i]
    BY <1>1
  <2> HIDE DEF Bound
  <2>6. Survives(t, i) <=> Survives(s, i) /\ Bound(t, n + 1)
    BY <2>1, <2>2, <2>3, <2>4, <2>5
  <2> QED
    BY <2>6 DEF Bound
<1>5. Survives(t, n + 1) <=> b \in Printable
  <2>1. n + 1 + 1 .. n + 1 = {}
    BY <1>1
  <2> QED
    BY <1>1, <2>1 DEF Survives
<1> QED
  BY <1>3, <1>4, <1>5

\* The line edited from s holds the survivors in their order; and after each
\* of them are more characters than backspaces, by one for each later survivor.
EditInv(s, m) ==
  /\ m \in Seq(Bytes)
  /\ Len(m) = Cardinality(Survivors(s))
  /\ \A i \in Survivors(s) :
       /\ m[Cardinality(Upto(s, i))] = s[i]
       /\ Cardinality(Characters(s, i, Len(s)))
            = Cardinality(Erasures(s, i, Len(s))) + Cardinality(After(s, i))

LEMMA SurvivorsIn ==
  ASSUME NEW s \in Seq(Bytes)
  PROVE  /\ Survivors(s) \subseteq 1 .. Len(s)
         /\ IsFiniteSet(Survivors(s)) /\ Cardinality(Survivors(s)) \in Nat
         /\ \A i \in Survivors(s) :
              /\ IsFiniteSet(Upto(s, i)) /\ IsFiniteSet(After(s, i))
              /\ Cardinality(Upto(s, i)) \in 1 .. Cardinality(Survivors(s))
              /\ Cardinality(After(s, i)) \in Nat
<1>1. DOMAIN s = 1 .. Len(s) /\ Len(s) \in Nat
  BY LenProperties
<1>2. Survivors(s) \subseteq 1 .. Len(s)
  BY <1>1 DEF Survivors
<1>3. IsFiniteSet(Survivors(s)) /\ Cardinality(Survivors(s)) \in Nat
  BY <1>1, <1>2, FiniteBelow
<1>4. ASSUME NEW i \in Survivors(s)
      PROVE  /\ IsFiniteSet(Upto(s, i)) /\ IsFiniteSet(After(s, i))
             /\ Cardinality(Upto(s, i)) \in 1 .. Cardinality(Survivors(s))
             /\ Cardinality(After(s, i)) \in Nat
  <2>1. Upto(s, i) \subseteq Survivors(s) /\ After(s, i) \subseteq Survivors(s)
        /\ i \in Upto(s, i)
    BY <1>1, <1>2 DEF Upto, After
  <2>2. /\ IsFiniteSet(Upto(s, i)) /\ IsFiniteSet(After(s, i))
        /\ Cardinality(Upto(s, i)) \in Nat /\ Cardinality(After(s, i)) \in Nat
        /\ Cardinality(Upto(s, i)) <= Cardinality(Survivors(s))
    BY <1>3, <2>1, FS_Subset, FS_CardinalityType
  <2>3. Cardinality(Upto(s, i)) # 0
    BY <2>1, <2>2, FS_EmptySet
  <2> QED
    BY <1>3, <2>2, <2>3
<1> QED
  BY <1>2, <1>3, <1>4

\* Each byte is edited as the survivors say.
LEMMA EditKeeps ==
  ASSUME NEW s \in Seq(Bytes), NEW b \in Bytes, NEW m, EditInv(s, m)
  PROVE  EditInv(s \o <<b>>, Edited(m, b))
<1> DEFINE t == s \o <<b>>
           n == Len(s)
           z == n + 1
           K == Survivors(s)
           L == Survivors(t)
           e == Edited(m, b)
           Er(u, i, j) == Cardinality(Erasures(u, i, j))
           Ch(u, i, j) == Cardinality(Characters(u, i, j))
           Up(u, i) == Cardinality(Upto(u, i))
           Af(u, i) == Cardinality(After(u, i))
<1>1. /\ t \in Seq(Bytes) /\ n \in Nat /\ Len(t) = z /\ DOMAIN s = 1 .. n /\ DOMAIN t = 1 .. z
      /\ (\A i \in 1 .. n : t[i] = s[i]) /\ t[z] = b /\ z \in Nat
  BY OneByte, LenProperties
<1>2. /\ \A i \in 1 .. n :
           /\ Er(t, i, z) = Er(s, i, n) + (IF b = "bs" THEN 1 ELSE 0)
           /\ Ch(t, i, z) = Ch(s, i, n) + (IF b \in Printable THEN 1 ELSE 0)
           /\ Survives(t, i) <=> Survives(s, i) /\ Er(t, i, z) <= Ch(t, i, z)
      /\ Survives(t, z) <=> b \in Printable
  BY SurvivesOne
<1>3. /\ m \in Seq(Bytes) /\ Len(m) = Cardinality(K)
      /\ \A i \in K : m[Up(s, i)] = s[i] /\ Ch(s, i, n) = Er(s, i, n) + Af(s, i)
  BY DEF EditInv
<1>4. /\ K \subseteq 1 .. n /\ IsFiniteSet(K) /\ Cardinality(K) \in Nat
      /\ \A i \in K : /\ IsFiniteSet(Upto(s, i)) /\ IsFiniteSet(After(s, i))
                      /\ Up(s, i) \in 1 .. Cardinality(K) /\ Af(s, i) \in Nat
  BY SurvivorsIn
<1>5. \A i \in 1 .. n : Er(s, i, n) \in Nat
  <2> SUFFICES ASSUME NEW i \in 1 .. n PROVE Er(s, i, n) \in Nat
    OBVIOUS
  <2>1. Erasures(s, i, n) \subseteq 1 .. n
    BY <1>1 DEF Erasures
  <2> QED
    BY <1>1, <2>1, FiniteBelow
<1>6. /\ \A i : i \in K <=> i \in 1 .. n /\ Survives(s, i)
      /\ \A i : i \in L <=> i \in 1 .. z /\ Survives(t, i)
      /\ \A i : i \in 1 .. z <=> i \in 1 .. n \/ i = z
      /\ z \notin 1 .. n
  BY <1>1 DEF Survivors
<1>7. SUFFICES /\ e \in Seq(Bytes) /\ Len(e) = Cardinality(L)
               /\ \A i \in L : e[Up(t, i)] = t[i] /\ Ch(t, i, z) = Er(t, i, z) + Af(t, i)
  BY <1>1 DEF EditInv
<1>8. \A i : /\ Upto(t, i) = {j \in L : j <= i} /\ After(t, i) = {j \in L : j > i}
             /\ Upto(s, i) = {j \in K : j <= i} /\ After(s, i) = {j \in K : j > i}
  BY DEF Upto, After
<1>9. "bs" \notin Printable
  BY DEF Printable, Letters
<1>10. e \in Seq(Bytes)
  BY <1>3, EditedIs
<1> HIDE DEF t, n, z, K, L, e, Er, Ch, Up, Af
\* A character survives, and the others as before.
<1>11. CASE b \in Printable
  <2>1. \A i \in K : Er(t, i, z) = Er(s, i, n) /\ Ch(t, i, z) = Ch(s, i, n) + 1
    BY <1>2, <1>4, <1>5, <1>9, <1>11
  <2>2. \A i \in K : Er(t, i, z) <= Ch(t, i, z)
    BY <1>3, <1>4, <1>5, <2>1
  <2>3. L = K \cup {z}
    BY <1>2, <1>6, <1>11, <2>2
  <2>4. z \notin K /\ \A i \in K : i < z
    BY <1>1, <1>4, <1>6 DEF z
  <2>5. Cardinality(L) = Cardinality(K) + 1
    BY <1>4, <2>3, <2>4, FS_AddElement
  <2>6. e = Append(m, b) /\ Len(e) = Len(m) + 1
        /\ (\A k \in 1 .. Len(m) : e[k] = m[k]) /\ e[Len(m) + 1] = b
    <3>1. b \in Printable => Edited(m, b) = Append(m, b)
      BY <1>3, EditedIs
    <3>2. /\ Len(Append(m, b)) = Len(m) + 1
          /\ (\A k \in 1 .. Len(m) : Append(m, b)[k] = m[k])
          /\ Append(m, b)[Len(m) + 1] = b
      BY <1>3, AppendProperties
    <3> QED
      BY <1>11, <3>1, <3>2 DEF e
  <2>7. ASSUME NEW i \in K
        PROVE  e[Up(t, i)] = t[i] /\ Ch(t, i, z) = Er(t, i, z) + Af(t, i)
    <3>0. i \in Nat /\ i < z /\ ~(z <= i)
      BY <1>1, <1>4, <2>4
    <3>1. Upto(t, i) = Upto(s, i)
      <4>1. \A j : j \in L /\ j <= i <=> j \in K /\ j <= i
        BY <2>3, <3>0
      <4> QED
        BY <1>8, <4>1
    <3>2. After(t, i) = After(s, i) \cup {z} /\ z \notin After(s, i)
      BY <1>1, <1>4, <1>8, <2>3, <2>4
    <3>3. Af(t, i) = Af(s, i) + 1
      BY <1>4, <3>2, FS_AddElement DEF Af
    <3>4. Up(t, i) = Up(s, i) /\ Up(s, i) \in 1 .. Len(m)
      BY <1>3, <1>4, <3>1 DEF Up
    <3>5. e[Up(t, i)] = t[i]
      BY <1>1, <1>3, <1>4, <2>6, <3>4
    <3>6. Ch(t, i, z) = Er(t, i, z) + Af(t, i)
      <4>1. Er(s, i, n) \in Nat /\ Af(s, i) \in Nat
        BY <1>4, <1>5
      <4> QED
        BY <1>3, <2>1, <3>3, <4>1
    <3> QED
      BY <3>5, <3>6
  <2>8. e[Up(t, z)] = t[z] /\ Ch(t, z, z) = Er(t, z, z) + Af(t, z)
    <3>0. \A j \in L : j <= z /\ ~(j > z)
      <4>1. \A j \in 1 .. z : j <= z /\ ~(j > z)
        BY <1>1
      <4> QED
        BY <1>6, <4>1
    <3>1. Upto(t, z) = L
      BY <1>8, <3>0
    <3>2. After(t, z) = {}
      BY <1>8, <3>0
    <3>3. Erasures(t, z, z) = {} /\ Characters(t, z, z) = {}
      BY <1>1 DEF Erasures, Characters
    <3>4. Af(t, z) = 0 /\ Ch(t, z, z) = 0 /\ Er(t, z, z) = 0
      BY <3>2, <3>3, FS_EmptySet DEF Af, Ch, Er
    <3>5. Up(t, z) = Len(m) + 1
      BY <1>3, <2>5, <3>1 DEF Up
    <3> QED
      BY <1>1, <2>6, <3>4, <3>5
  <2> QED
    BY <1>3, <1>10, <2>3, <2>5, <2>6, <2>7, <2>8
\* A byte that is neither changes nothing.
<1>12. CASE b \notin Printable /\ b # "bs"
  <2>1. \A i \in K : Er(t, i, z) = Er(s, i, n) /\ Ch(t, i, z) = Ch(s, i, n)
    <3>1. \A i \in K : i \in 1 .. n /\ Er(s, i, n) \in Nat /\ Ch(s, i, n) \in Nat
      BY <1>3, <1>4, <1>5
    <3> QED
      BY <1>2, <1>12, <3>1
  <2>2. \A i \in K : Er(t, i, z) <= Ch(t, i, z)
    BY <1>3, <1>4, <1>5, <2>1
  <2>3. L = K
    BY <1>2, <1>6, <1>12, <2>2
  <2>4. e = m
    BY <1>3, <1>12, EditedIs DEF e
  <2>5. \A i : Up(t, i) = Up(s, i) /\ Af(t, i) = Af(s, i)
    BY <1>8, <2>3 DEF Up, Af
  <2> QED
    BY <1>1, <1>3, <1>4, <1>10, <2>1, <2>3, <2>4, <2>5
\* A backspace takes the last survivor, if there is any.
<1>13. CASE b = "bs"
  <2>1. \A i \in K : Er(t, i, z) = Er(s, i, n) + 1 /\ Ch(t, i, z) = Ch(s, i, n)
    <3>1. \A i \in K : i \in 1 .. n /\ Er(s, i, n) \in Nat /\ Ch(s, i, n) \in Nat
      BY <1>3, <1>4, <1>5
    <3> QED
      BY <1>2, <1>9, <1>13, <3>1
  <2>2. \A i : i \in L <=> i \in K /\ Af(s, i) # 0
    <3>1. \A i : i \in L <=> i \in K /\ Er(t, i, z) <= Ch(t, i, z)
      BY <1>2, <1>4, <1>6, <1>9, <1>13
    <3>2. \A i \in K : Er(t, i, z) <= Ch(t, i, z) <=> Af(s, i) # 0
      BY <1>3, <1>4, <1>5, <2>1
    <3> QED
      BY <3>1, <3>2
  <2>3. CASE K = {}
    <3>1. L = {} /\ m = <<>>
      BY <1>3, <2>2, <2>3, FS_EmptySet, EmptySeq
    <3>2. e = m
      BY <1>3, <1>13, <3>1, EditedIs DEF e
    <3> QED
      BY <1>3, <1>10, <2>3, <3>1, <3>2
  <2>4. CASE K # {}
    <3>1. \E x \in K : \A y \in K : y <= x
      <4>1. Widths!Max(K) \in K /\ \A y \in K : Widths!Max(K) >= y
        BY <1>1, <1>4, <2>4, Widths!MaxOf
      <4> HIDE DEF Widths!Max
      <4>2. \A y \in K : y <= Widths!Max(K)
        BY <1>1, <1>4, <4>1
      <4> QED
        BY <4>1, <4>2
    <3>2. PICK x \in K : \A y \in K : y <= x
      BY <3>1
    <3>3. K \subseteq Nat
      BY <1>1, <1>4
    <3>4. \A i \in K : Af(s, i) # 0 <=> i # x
      <4>1. \A i \in K : Af(s, i) = 0 <=> After(s, i) = {}
        BY <1>4, FS_EmptySet DEF Af
      <4>2. \A i \in K : After(s, i) = {} <=> i = x
        <5>1. \A i \in K : i # x => i < x
          BY <3>2, <3>3
        <5>2. \A i \in K : ~(i > x)
          BY <3>2, <3>3
        <5>3. \A i \in K : i < x => x > i
          BY <3>2, <3>3
        <5> QED
          BY <1>8, <3>2, <5>1, <5>2, <5>3
      <4> QED
        BY <4>1, <4>2
    <3>5. L = K \ {x}
      BY <2>2, <3>4
    <3>6. Cardinality(L) = Cardinality(K) - 1
      BY <1>4, <3>2, <3>5, FS_RemoveElement
    <3>7. m # <<>> /\ Len(m) \in Nat
      <4>1. Cardinality(K) # 0
        BY <1>4, <2>4, FS_EmptySet
      <4> QED
        BY <1>3, <1>4, <4>1
    <3>8. Len(e) = Len(m) - 1 /\ \A k \in 1 .. Len(m) - 1 : e[k] = m[k]
      BY <1>3, <1>13, <3>7, EditedIs DEF e
    <3>9. ASSUME NEW i \in L
          PROVE  e[Up(t, i)] = t[i] /\ Ch(t, i, z) = Er(t, i, z) + Af(t, i)
      <4>1. i \in K /\ i # x /\ i < x /\ i \in 1 .. n
        BY <1>4, <3>2, <3>3, <3>5
      <4>2. Upto(t, i) = Upto(s, i) /\ Upto(s, i) \subseteq L
        <5>1. ~(x <= i)
          BY <3>3, <4>1
        <5>2. \A j : j \in L /\ j <= i <=> j \in K /\ j <= i
          BY <3>5, <5>1
        <5> QED
          BY <1>8, <5>2
      <4>3. After(t, i) = After(s, i) \ {x} /\ x \in After(s, i)
        BY <1>8, <3>2, <3>3, <3>5, <4>1
      <4>4. Af(t, i) = Af(s, i) - 1
        <5> DEFINE A == After(s, i)
        <5>1. IsFiniteSet(A) /\ x \in A
          BY <1>4, <4>1, <4>3
        <5> HIDE DEF A
        <5>2. Cardinality(A \ {x}) = Cardinality(A) - 1
          BY <5>1, FS_RemoveElement
        <5>3. Af(t, i) = Cardinality(A \ {x}) /\ Af(s, i) = Cardinality(A)
          BY <4>3 DEF A, Af
        <5> QED
          BY <5>2, <5>3
      <4>5. Up(t, i) = Up(s, i) /\ Up(s, i) \in 1 .. Len(m) - 1
        <5>1. IsFiniteSet(L)
          BY <1>4, <3>5, FS_RemoveElement
        <5>2. Up(s, i) <= Cardinality(L)
          BY <4>2, <5>1, FS_Subset DEF Up
        <5>3. Up(t, i) = Up(s, i) /\ Up(s, i) \in Nat /\ Up(s, i) >= 1
          BY <1>4, <4>1, <4>2 DEF Up
        <5> QED
          BY <1>3, <1>4, <3>6, <5>2, <5>3
      <4>6. e[Up(t, i)] = t[i]
        BY <1>1, <1>3, <3>8, <4>1, <4>5
      <4>7. Ch(t, i, z) = Er(t, i, z) + Af(t, i)
        <5>1. Er(s, i, n) \in Nat /\ Af(s, i) \in Nat
          BY <1>4, <1>5, <4>1
        <5> QED
          BY <1>3, <2>1, <4>1, <4>4, <5>1
      <4> QED
        BY <4>6, <4>7
    <3> QED
      BY <1>3, <1>10, <3>6, <3>8, <3>9
  <2> QED
    BY <2>3, <2>4
<1> QED
  BY <1>11, <1>12, <1>13

\* So is the whole of what was typed.
LEMMA EditIs == \A s \in Seq(Bytes) : EditInv(s, FoldLeft(Edited, <<>>, s))
<1> DEFINE G == {s \in Seq(Bytes) : EditInv(s, FoldLeft(Edited, <<>>, s))}
<1>1. <<>> \in G
  <2>1. FoldLeft(Edited, <<>>, <<>>) = <<>>
    BY LineFolds, Edits!FoldNone
  <2>2. Survivors(<<>>) = {} /\ <<>> \in Seq(Bytes) /\ Len(<<>>) = 0
    BY EmptySeq DEF Survivors
  <2> QED
    BY <2>1, <2>2, FS_EmptySet DEF EditInv
<1>2. ASSUME NEW s \in Seq(Bytes), NEW b \in Bytes, s \in G PROVE s \o <<b>> \in G
  <2>1. FoldLeft(Edited, <<>>, s \o <<b>>) = Edited(FoldLeft(Edited, <<>>, s), b)
    <3>1. Edits!Folded(0, <<>>, s \o <<b>>) = EditedStep(0, Edits!Folded(0, <<>>, s), b)
      BY Edits!FoldAppend
    <3> QED
      BY <3>1, LineFolds DEF EditedStep
  <2>2. s \o <<b>> \in Seq(Bytes)
    BY OneByte
  <2> QED
    BY <1>2, <2>1, <2>2, EditKeeps
<1>3. \A s \in Seq(Bytes), b \in Bytes : s \in G => s \o <<b>> \in G
  BY <1>2
<1> HIDE DEF G
<1>4. \A s \in Seq(Bytes) : s \in G
  BY <1>1, <1>3, Widths!SeqInduct
<1> QED
  BY <1>4 DEF G

\* The first newline, or none.
LEMMA NewlineIs ==
  ASSUME NEW s \in Seq(Bytes)
  PROVE  \/ NewlineIn(s) = 0 /\ \A i \in 1 .. Len(s) : s[i] # "newline"
         \/ /\ NewlineIn(s) \in 1 .. Len(s) /\ s[NewlineIn(s)] = "newline"
            /\ \A i \in 1 .. NewlineIn(s) - 1 : s[i] # "newline"
<1> DEFINE I == {i \in 1 .. Len(s) : s[i] = "newline"}
<1>1. NewlineIn(s) = IF I # {} THEN Min(I) ELSE 0
  BY DEF NewlineIn, SelectInSeq
<1>2. CASE I = {}
  BY <1>1, <1>2
<1>3. CASE I # {}
  <2>1. I \subseteq Nat
    OBVIOUS
  <2>2. \E x \in I : \A y \in I : x <= y
    <3> HIDE DEF I
    <3> QED
      BY <1>3, <2>1, Widths!LeastMember
  <2>3. Min(I) \in I /\ \A y \in I : Min(I) <= y
    <3> HIDE DEF I
    <3> QED
      BY <2>2 DEF Min
  <2>4. NewlineIn(s) = Min(I)
    BY <1>1, <1>3
  <2>5. NewlineIn(s) \in I /\ \A y \in I : NewlineIn(s) <= y
    <3> HIDE DEF I
    <3> QED
      BY <2>3, <2>4
  <2>6. Len(s) \in Nat
    BY LenProperties
  <2> QED
    BY <2>5, <2>6
<1> QED
  BY <1>2, <1>3

LEMMA NoNewline == NewlineIn(<<>>) = 0
<1> DEFINE s == <<>>
<1>1. s \in Seq(Bytes) /\ Len(s) = 0
  BY EmptySeq
<1> HIDE DEF s
<1>2. NewlineIn(s) \in 0 .. Len(s)
  BY <1>1, NewlineNat
<1>3. NewlineIn(s) = 0
  BY <1>1, <1>2
<1> QED
  BY <1>3 DEF s

\* And where it is determines it.
LEMMA NewlineAt ==
  ASSUME NEW s \in Seq(Bytes), NEW n \in 1 .. Len(s), s[n] = "newline",
         \A i \in 1 .. n - 1 : s[i] # "newline"
  PROVE  NewlineIn(s) = n
<1>1. Len(s) \in Nat
  BY LenProperties
<1> QED
  BY <1>1, NewlineIs

\* The beginning of two sequences, up to within the second.
LEMMA FirstAndSome ==
  ASSUME NEW a \in Seq(Bytes), NEW g \in Seq(Bytes), NEW k \in 0 .. Len(g)
  PROVE  SubSeq(a \o g, 1, Len(a) + k) = a \o SubSeq(g, 1, k)
<1> DEFINE n == Len(a)
           s == a \o g
           x == SubSeq(s, 1, n + k)
           h == SubSeq(g, 1, k)
           y == a \o h
<1>1. n \in Nat /\ Len(g) \in Nat /\ k \in Nat /\ k <= Len(g)
  BY LenProperties
<1>2. /\ s \in Seq(Bytes) /\ Len(s) = n + Len(g)
      /\ \A i \in 1 .. n + Len(g) : s[i] = IF i <= n THEN a[i] ELSE g[i - n]
  BY ConcatProperties
<1>3. \A i \in 1 .. n + k : s[i] \in Bytes
  <2> HIDE DEF s, n
  <2>1. \A i \in 1 .. n + k : i \in 1 .. Len(s)
    BY <1>1, <1>2
  <2> QED
    BY <1>2, <2>1, ElementOfSeq
<1>4. \A i \in 1 .. k : g[i] \in Bytes
  <2>1. \A i \in 1 .. k : i \in 1 .. Len(g)
    BY <1>1
  <2> QED
    BY <2>1, ElementOfSeq
<1> HIDE DEF s, n
<1>5. x \in Seq(Bytes) /\ Len(x) = n + k /\ \A i \in 1 .. n + k : x[i] = s[i]
  <2> DEFINE m == n + k
  <2>1. m \in Int /\ 1 \in Int /\ (IF 1 <= m THEN m - 1 + 1 ELSE 0) = m /\ m - 1 + 1 = m
        /\ \A i \in 1 .. m : 1 + i - 1 = i
    BY <1>1
  <2> HIDE DEF m
  <2>2. /\ SubSeq(s, 1, m) \in Seq(Bytes)
        /\ Len(SubSeq(s, 1, m)) = IF 1 <= m THEN m - 1 + 1 ELSE 0
        /\ \A i \in 1 .. m - 1 + 1 : SubSeq(s, 1, m)[i] = s[1 + i - 1]
    <3>1. \A i \in 1 .. m : s[i] \in Bytes
      BY <1>3 DEF m
    <3> QED
      BY <2>1, <3>1, SubSeqProperties
  <2> QED
    BY <2>1, <2>2 DEF m
<1>6. h \in Seq(Bytes) /\ Len(h) = k /\ \A i \in 1 .. k : h[i] = g[i]
  <2>1. k \in Int /\ 1 \in Int /\ (IF 1 <= k THEN k - 1 + 1 ELSE 0) = k /\ k - 1 + 1 = k
        /\ \A i \in 1 .. k : 1 + i - 1 = i
    BY <1>1
  <2>2. /\ SubSeq(g, 1, k) \in Seq(Bytes)
        /\ Len(SubSeq(g, 1, k)) = IF 1 <= k THEN k - 1 + 1 ELSE 0
        /\ \A i \in 1 .. k - 1 + 1 : SubSeq(g, 1, k)[i] = g[1 + i - 1]
    BY <1>4, <2>1, SubSeqProperties
  <2> QED
    BY <2>1, <2>2
<1> HIDE DEF h, x
<1>7. /\ y \in Seq(Bytes) /\ Len(y) = n + k
      /\ \A i \in 1 .. n + k : y[i] = IF i <= n THEN a[i] ELSE h[i - n]
  BY <1>6, ConcatProperties DEF n
<1> HIDE DEF y
<1>8. \A i \in 1 .. Len(x) : x[i] = y[i]
  <2>1. ASSUME NEW i \in 1 .. n + k PROVE s[i] = y[i]
    <3>1. i \in 1 .. n + Len(g) /\ (i > n => i - n \in 1 .. k)
      BY <1>1
    <3>2. i <= n => s[i] = a[i] /\ y[i] = a[i]
      BY <1>2, <1>7, <3>1
    <3>3. ~(i <= n) => s[i] = g[i - n] /\ y[i] = h[i - n] /\ i > n
      BY <1>1, <1>2, <1>7, <3>1
    <3>4. ~(i <= n) => h[i - n] = g[i - n]
      BY <1>6, <3>1, <3>3
    <3> QED
      BY <3>2, <3>3, <3>4
  <2> QED
    BY <1>5, <2>1
<1>9. x = y
  BY <1>5, <1>7, <1>8, SeqEqual
<1> QED
  BY <1>9 DEF x, y, h, s, n

\* What was read since the line was asked for.
Since == SubSeq(typed, start + 1, cut)

LineInv ==
  /\ CutInv /\ start \in Nat /\ start <= cut
  /\ at = "password" =>
       /\ NewlineIn(Since) = 0
       /\ line = IF piped THEN Since ELSE FoldLeft(Edited, <<>>, Since)
  /\ at = "died" => piped /\ HasHigh(LineTyped)
  /\ at = "entered" =>
       line = IF piped THEN LineTyped ELSE FoldLeft(Edited, <<>>, LineTyped)

LEMMA SinceBytes ==
  ASSUME CutInv, start \in Nat, start <= cut
  PROVE  Since \in Seq(Bytes)
<1> DEFINE g == cut - start
<1>1. g \in Nat /\ start + g = cut /\ start + g <= Len(typed)
  <2>1. Len(typed) \in Nat
    BY DEF CutInv
  <2> QED
    BY <2>1 DEF CutInv
<1> HIDE DEF g
<1>2. SubSeq(typed, start + 1, start + g) \in Seq(Bytes)
  BY <1>1, BytesOfSub DEF CutInv
<1> QED
  BY <1>1, <1>2 DEF Since

\* A read puts what it gave at the end.
LEMMA SinceReads ==
  ASSUME LineInv, NEW n \in Nat, Read(n), typed' = typed, start' = start
  PROVE  /\ Got(n) \in Seq(Bytes) /\ Len(Got(n)) = Given(n)
         /\ Since' = Since \o Got(n)
         /\ CutInv' /\ start' \in Nat /\ start' <= cut'
<1>1. Got(n) \in Seq(Bytes) /\ Len(Got(n)) = Given(n)
  BY GotBytes DEF LineInv
<1>2. CutInv' /\ cut <= cut' /\ cut' = cut + Given(n)
  BY ReadKeeps DEF LineInv, Read
<1> DEFINE m == start + 1
           e == cut + Given(n)
<1>3. /\ Len(typed) \in Nat /\ m \in 1 .. Len(typed) + 1 /\ cut \in m - 1 .. Len(typed)
      /\ e \in cut .. Len(typed) /\ start <= cut'
  <2>1. /\ typed \in Seq(Bytes) /\ Len(typed) \in Nat /\ cut \in Nat /\ cut' \in Nat
        /\ cut' <= Len(typed) /\ start \in Nat /\ start <= cut
    <3>1. /\ typed' \in Seq(Bytes) /\ cut' \in Nat /\ fill' \in Nat
          /\ cut' <= fill' /\ fill' <= Len(typed')
      BY <1>2 DEF CutInv
    <3>2. typed \in Seq(Bytes) /\ cut \in Nat /\ start \in Nat /\ start <= cut
      BY DEF LineInv, CutInv
    <3>3. Len(typed) \in Nat
      BY <3>2, LenProperties
    <3> QED
      BY <3>1, <3>2, <3>3
  <2> QED
    BY <1>2, <2>1
<1> HIDE DEF m, e
<1>4. SubSeq(typed, m, cut) \o SubSeq(typed, cut + 1, e) = SubSeq(typed, m, e)
  BY <1>3, ConcatAdjacentSubSeq DEF LineInv, CutInv
<1> QED
  BY <1>1, <1>2, <1>3, <1>4 DEF Since, Got, m, e, LineInv

\* A line goes on with bytes without a newline, and ends with the first one.
LEMMA LineGoesOn ==
  ASSUME LineInv, NEW g \in Seq(Bytes), Since' = Since \o g, NewlineIn(Since) = 0
  PROVE  /\ NewlineIn(g) = 0 => NewlineIn(Since') = 0
         /\ NewlineIn(g) # 0 => LineTyped' = Since \o SubSeq(g, 1, NewlineIn(g) - 1)
<1> DEFINE a == Since
           k == NewlineIn(g)
           s == a \o g
<1>1. a \in Seq(Bytes) /\ NewlineIn(a) = 0
  BY SinceBytes DEF LineInv
<1> HIDE DEF a
<1>2. /\ s \in Seq(Bytes) /\ Len(s) = Len(a) + Len(g) /\ Len(a) \in Nat /\ Len(g) \in Nat
      /\ \A i \in 1 .. Len(a) + Len(g) :
           s[i] = IF i <= Len(a) THEN a[i] ELSE g[i - Len(a)]
  BY <1>1, ConcatProperties, LenProperties
<1>3. \A i \in 1 .. Len(a) : a[i] # "newline"
  BY <1>1, <1>2, NewlineIs
<1>4. Since' = s
  BY DEF a
<1>5. LineTyped' = IF NewlineIn(s) = 0 THEN s ELSE SubSeq(s, 1, NewlineIn(s) - 1)
  <2>1. LineTyped' = IF NewlineIn(Since') = 0 THEN Since'
                     ELSE SubSeq(Since', 1, NewlineIn(Since') - 1)
    BY DEF LineTyped, Since
  <2> QED
    BY <1>4, <2>1
<1>6. CASE k = 0
  <2>1. \A i \in 1 .. Len(g) : g[i] # "newline"
    BY <1>2, <1>6, NewlineIs
  <2>2. \A i \in 1 .. Len(s) : s[i] # "newline"
    <3>1. ASSUME NEW i \in 1 .. Len(s) PROVE s[i] # "newline"
      <4>1. i \in 1 .. Len(a) + Len(g) /\ (i > Len(a) => i - Len(a) \in 1 .. Len(g))
            /\ (i <= Len(a) => i \in 1 .. Len(a)) /\ (i <= Len(a) \/ i > Len(a))
        BY <1>2
      <4> QED
        BY <1>2, <1>3, <2>1, <4>1
    <3> QED
      BY <3>1
  <2> HIDE DEF s
  <2>3. NewlineIn(s) = 0
    BY <1>2, <2>2, NewlineIs
  <2> QED
    BY <1>4, <1>6, <2>3
<1>7. CASE k # 0
  <2>1. k \in 1 .. Len(g) /\ g[k] = "newline" /\ \A i \in 1 .. k - 1 : g[i] # "newline"
    BY <1>7, NewlineIs
  <2> DEFINE n == Len(a) + k
  <2> HIDE DEF k
  <2>2. n \in 1 .. Len(s) /\ n \in 1 .. Len(a) + Len(g) /\ ~(n <= Len(a)) /\ n - Len(a) = k
    BY <1>2, <2>1
  <2>3. s[n] = "newline"
    <3> HIDE DEF n, s
    <3> QED
      BY <1>2, <2>1, <2>2
  <2>4. ASSUME NEW i \in 1 .. n - 1 PROVE s[i] # "newline"
    <3>1. i \in 1 .. Len(a) + Len(g) /\ (i > Len(a) => i - Len(a) \in 1 .. k - 1)
          /\ (i <= Len(a) => i \in 1 .. Len(a)) /\ (i <= Len(a) \/ i > Len(a))
      BY <1>2, <2>1
    <3> QED
      BY <1>2, <1>3, <2>1, <3>1
  <2> HIDE DEF n
  <2>5. NewlineIn(s) = n
    <3> HIDE DEF s
    <3> QED
      BY <1>2, <2>2, <2>3, <2>4, NewlineAt
  <2>6. n # 0 /\ n - 1 = Len(a) + (k - 1) /\ k - 1 \in 0 .. Len(g)
    BY <1>2, <2>1 DEF n
  <2>7. SubSeq(s, 1, Len(a) + (k - 1)) = a \o SubSeq(g, 1, k - 1)
    BY <1>1, <2>6, FirstAndSome
  <2> QED
    BY <1>5, <1>7, <2>5, <2>6, <2>7 DEF a, k
<1> QED
  BY <1>6, <1>7

\* A terminal's line is edited on from where the chunk before left it.
LEMMA EditedOn ==
  ASSUME NEW a \in Seq(Bytes), NEW g \in Seq(Bytes)
  PROVE  /\ FoldLeft(Edited, FoldLeft(Edited, <<>>, a), g) = FoldLeft(Edited, <<>>, a \o g)
         /\ a \o g \in Seq(Bytes)
<1>1. Edits!Folded(0, <<>>, a \o g) = Edits!Folded(0, Edits!Folded(0, <<>>, a), g)
  BY Edits!FoldConcat
<1> QED
  BY <1>1, LineFolds, ConcatProperties

\* Where no line is asked for or taken.
LEMMA OtherPlaces ==
  ASSUME LineInv, CutInv', start' = start, cut <= cut',
         at' \notin {"password", "entered", "died"}
  PROVE  LineInv'
<1>1. start' \in Nat /\ start' <= cut'
  BY DEF LineInv, CutInv
<1> QED
  BY <1>1 DEF LineInv

LEMMA LineStep == LineInv /\ [Next]_vars => LineInv'
<1> SUFFICES ASSUME LineInv, [Next]_vars PROVE LineInv'
  OBVIOUS
<1>0. CutInv /\ CutInv' /\ Since \in Seq(Bytes) /\ UNCHANGED fixed
  BY CutStep, FixedStep, SinceBytes DEF LineInv
<1> USE DEF LineKeeps, stdinVars
<1>1. CASE ReadTerminal
  <2> DEFINE g == Got(Chunk)
             k == NewlineIn(g)
             h == IF k = 0 THEN g ELSE SubSeq(g, 1, k - 1)
             ln == FoldLeft(Edited, <<>>, Since)
  <2>1. /\ at = "password" /\ ~piped /\ Read(Chunk) /\ typed' = typed /\ start' = start
        /\ line' = FoldLeft(Edited, line, h) /\ piped' = piped
        /\ at' = IF k > 0 THEN "entered" ELSE "password"
    BY <1>1 DEF ReadTerminal, fixed
  <2>2. /\ g \in Seq(Bytes) /\ Since' = Since \o g
        /\ CutInv' /\ start' \in Nat /\ start' <= cut'
    BY <2>1, ChunkAssumption, SinceReads
  <2>3. line = ln /\ NewlineIn(Since) = 0
    BY <2>1 DEF LineInv
  <2>4. k \in 0 .. Len(g) /\ Len(g) \in Nat
    BY <2>2, NewlineNat, LenProperties
  <2> HIDE DEF g
  <2>5. CASE k = 0
    <3>1. NewlineIn(Since') = 0
      BY <2>2, <2>3, <2>5, LineGoesOn
    <3>2. line' = FoldLeft(Edited, <<>>, Since')
      BY <1>0, <2>1, <2>2, <2>3, <2>5, EditedOn
    <3>3. at' = "password"
      BY <2>1, <2>5
    <3> QED
      BY <2>1, <2>2, <3>1, <3>2, <3>3 DEF LineInv
  <2>6. CASE k # 0
    <3>1. LineTyped' = Since \o SubSeq(g, 1, k - 1)
      BY <2>2, <2>3, <2>6, LineGoesOn
    <3>2. SubSeq(g, 1, k - 1) \in Seq(Bytes)
      <4> DEFINE c == 0
                 e == k - 1
      <4>1. c \in Nat /\ e \in Nat /\ c + e <= Len(g) /\ c + 1 = 1 /\ c + e = k - 1
        BY <2>4, <2>6
      <4> HIDE DEF c, e
      <4>2. SubSeq(g, c + 1, c + e) \in Seq(Bytes)
        BY <2>2, <4>1, BytesOfSub
      <4> QED
        BY <4>1, <4>2
    <3>3. line' = FoldLeft(Edited, <<>>, LineTyped')
      BY <1>0, <2>1, <2>3, <2>6, <3>1, <3>2, EditedOn
    <3>4. at' = "entered"
      BY <2>1, <2>4, <2>6
    <3> QED
      BY <2>1, <2>2, <3>3, <3>4 DEF LineInv
  <2> QED
    BY <2>5, <2>6
<1>2. CASE ReadPipe
  <2> DEFINE g == Got(Here)
             k == NewlineIn(g)
  <2>1. at = "password" /\ piped /\ typed' = typed /\ start' = start /\ piped' = piped
    BY <1>2 DEF ReadPipe, fixed
  <2>2. line = Since /\ NewlineIn(Since) = 0
    BY <2>1 DEF LineInv
  <2>3. Here \in Nat /\ g \in Seq(Bytes) /\ Len(g) = Here /\ k \in 0 .. Here
    BY <1>0, GotBytes, NewlineNat DEF Given
  <2>4. CASE k = 0
    <3>1. Read(Here) /\ line' = line \o g /\ at' = at
      BY <1>2, <2>4 DEF ReadPipe
    <3>2. Since' = Since \o g /\ CutInv' /\ start' \in Nat /\ start' <= cut'
      BY <2>1, <2>3, <3>1, SinceReads
    <3>3. NewlineIn(Since') = 0
      BY <2>2, <2>3, <2>4, <3>2, LineGoesOn
    <3> QED
      BY <2>1, <2>2, <3>1, <3>2, <3>3 DEF LineInv
  <2>5. CASE k # 0
    <3> DEFINE r == Got(k)
               h == Got(k - 1)
    <3>1. Read(k) /\ Decoded(line \o h)
      BY <1>2, <2>5 DEF ReadPipe
    <3>2. k \in Nat /\ k - 1 \in Nat /\ k \in 1 .. Here /\ Given(k) = k /\ Given(k - 1) = k - 1
      BY <2>3, <2>5 DEF Given
    <3>3. /\ r \in Seq(Bytes) /\ Len(r) = k /\ Since' = Since \o r
          /\ CutInv' /\ start' \in Nat /\ start' <= cut'
      BY <2>1, <3>1, <3>2, SinceReads
    <3>4. /\ typed \in Seq(Bytes) /\ cut \in Nat /\ Len(typed) \in Nat
          /\ cut + Here <= Len(typed)
      BY <1>0 DEF CutInv, Here, Buffered, Queued
    <3>5. ASSUME NEW n \in Nat, n <= Here
          PROVE  \A i \in 1 .. n : Got(n)[i] = typed[cut + i]
      <4>1. Given(n) = n
        BY <2>3, <3>5 DEF Given
      <4>2. \A i \in cut + 1 .. cut + n : typed[i] \in Bytes
        <5>1. \A i \in cut + 1 .. cut + n : i \in 1 .. Len(typed)
          BY <2>3, <3>4, <3>5
        <5> QED
          BY <3>4, <5>1, ElementOfSeq
      <4> DEFINE a == cut + 1
                 b == cut + n
      <4>3. a \in Int /\ b \in Int /\ b - a + 1 = n /\ \A i \in 1 .. n : a + i - 1 = cut + i
        BY <3>4, <3>5
      <4> HIDE DEF a, b
      <4>4. \A i \in 1 .. b - a + 1 : SubSeq(typed, a, b)[i] = typed[a + i - 1]
        <5>1. \A i \in a .. b : typed[i] \in Bytes
          BY <4>2 DEF a, b
        <5> QED
          BY <4>3, <5>1, SubSeqProperties
      <4>5. \A i \in 1 .. n : SubSeq(typed, a, b)[i] = typed[cut + i]
        BY <4>3, <4>4
      <4> QED
        BY <4>1, <4>5 DEF Got, a, b
    <3>6. /\ \A i \in 1 .. Here : g[i] = typed[cut + i]
          /\ \A i \in 1 .. k : r[i] = typed[cut + i]
          /\ \A i \in 1 .. k - 1 : h[i] = typed[cut + i]
      <4>1. /\ Here <= Here /\ k <= Here /\ k - 1 <= Here
        BY <2>3, <3>2
      <4> HIDE DEF k
      <4> QED
        BY <2>3, <3>2, <3>5, <4>1
    <3>7. g[k] = "newline" /\ \A i \in 1 .. k - 1 : g[i] # "newline"
      BY <2>3, <2>5, NewlineIs
    <3>8. NewlineIn(r) = k
      <4>1. r[k] = "newline" /\ k \in 1 .. k /\ \A i \in 1 .. k - 1 : r[i] # "newline"
        <5>1. \A i \in 1 .. k - 1 : i \in 1 .. k /\ i \in 1 .. Here
          BY <2>3, <3>2
        <5> HIDE DEF k, r, g
        <5> QED
          BY <3>2, <3>6, <3>7, <5>1
      <4> HIDE DEF r, k
      <4> QED
        BY <3>3, <4>1, NewlineAt
    <3>9. SubSeq(r, 1, k - 1) = h
      <4>1. h \in Seq(Bytes) /\ Len(h) = k - 1
        BY <1>0, <3>2, GotBytes
      <4> HIDE DEF k, r, h
      <4>2. /\ SubSeq(r, 1, k - 1) \in Seq(Bytes) /\ Len(SubSeq(r, 1, k - 1)) = k - 1
            /\ \A i \in 1 .. k - 1 : SubSeq(r, 1, k - 1)[i] = r[i]
        <5> DEFINE e == k - 1
        <5>1. e \in Int /\ 1 \in Int /\ (IF 1 <= e THEN e - 1 + 1 ELSE 0) = e /\ e - 1 + 1 = e
              /\ \A i \in 1 .. e : 1 + i - 1 = i
          BY <3>2
        <5>2. \A i \in 1 .. e : r[i] \in Bytes
          <6>1. \A i \in 1 .. e : i \in 1 .. Len(r)
            BY <3>2, <3>3
          <6> QED
            BY <3>3, <6>1, ElementOfSeq
        <5> HIDE DEF e
        <5>3. /\ SubSeq(r, 1, e) \in Seq(Bytes)
              /\ Len(SubSeq(r, 1, e)) = IF 1 <= e THEN e - 1 + 1 ELSE 0
              /\ \A i \in 1 .. e - 1 + 1 : SubSeq(r, 1, e)[i] = r[1 + i - 1]
          BY <5>1, <5>2, SubSeqProperties
        <5> QED
          BY <5>1, <5>3 DEF e
      <4>3. \A i \in 1 .. k - 1 : r[i] = h[i]
        <5>1. \A i \in 1 .. k - 1 : i \in 1 .. k
          BY <3>2
        <5> QED
          BY <3>6, <5>1
      <4>4. \A i \in 1 .. Len(h) : SubSeq(r, 1, k - 1)[i] = h[i]
        BY <4>1, <4>2, <4>3
      <4> QED
        BY <4>1, <4>2, <4>4, SeqEqual
    <3>10. LineTyped' = Since \o h
      <4>1. NewlineIn(r) # 0
        BY <2>5, <3>8
      <4>2. LineTyped' = Since \o SubSeq(r, 1, NewlineIn(r) - 1)
        <5> HIDE DEF r
        <5> QED
          BY <2>2, <3>3, <4>1, LineGoesOn
      <4> QED
        BY <3>8, <3>9, <4>2
    <3> HIDE DEF h
    <3>11. Decoded(LineTyped')
      BY <2>1, <2>2, <3>1, <3>10
    <3> QED
      BY <2>1, <3>3, <3>11 DEF LineInv, Decoded, HasHigh
  <2> QED
    BY <2>4, <2>5
<1>3. CASE PasswordEnds
  <2>1. /\ at = "password" /\ typed' = typed /\ start' = start
        /\ cut' = cut /\ piped' = piped
        /\ IF piped THEN Decoded(line) ELSE at' = "entered" /\ line' = line
    BY <1>3 DEF PasswordEnds, EndOfFile, fixed
  <2>2. Since' = Since /\ NewlineIn(Since) = 0
    BY <2>1 DEF Since, LineInv
  <2>3. LineTyped' = Since
    BY <2>2 DEF LineTyped, Since
  <2>4. line = IF piped THEN Since ELSE FoldLeft(Edited, <<>>, Since)
    BY <2>1 DEF LineInv
  <2>5. CASE piped
    <3>1. Decoded(LineTyped')
      BY <2>1, <2>3, <2>4, <2>5
    <3> QED
      BY <1>0, <2>1, <2>5, <3>1 DEF LineInv, Decoded, HasHigh
  <2>6. CASE ~piped
    BY <1>0, <2>1, <2>3, <2>4, <2>6 DEF LineInv
  <2> QED
    BY <2>5, <2>6
<1>4. CASE Reprompt
  <2>1. /\ at' = "password" /\ line' = <<>> /\ start' = cut /\ cut' = cut /\ typed' = typed
        /\ ~piped /\ piped' = piped
    BY <1>4 DEF Reprompt, NoRead, fixed
  <2>2. cut \in Nat
    BY <1>0 DEF CutInv
  <2>3. Since' = <<>>
    <3>1. cut < cut + 1 /\ cut + 1 \in Int /\ cut \in Int
      BY <2>2
    <3>2. SubSeq(typed, cut + 1, cut) = <<>>
      BY <3>1, SubSeqEmpty
    <3> QED
      BY <2>1, <3>2 DEF Since
  <2>4. NewlineIn(<<>>) = 0
    BY NoNewline
  <2>5. FoldLeft(Edited, <<>>, <<>>) = <<>>
    BY LineFolds, Edits!FoldNone
  <2>6. start' \in Nat /\ start' <= cut'
    BY <2>1, <2>2
  <2> QED
    BY <1>0, <2>1, <2>3, <2>4, <2>5, <2>6 DEF LineInv
<1>5. CASE Accept
  BY <1>0, <1>5 DEF Accept, LineInv
<1>6. CASE OpenShow \/ DrawHint \/ NavStart \/ ConfirmStart
  <2>1. at' \notin {"password", "entered", "died"} /\ start' = start /\ cut' = cut
    BY <1>6
    DEF OpenShow, DrawHint, NavStart, ConfirmStart, GoNext, Turn, Draw, NoRead, ScreenKeeps
  <2> QED
    BY <1>0, <2>1, OtherPlaces DEF CutInv
<1>7. CASE NavEnds \/ NavEscEnds \/ ConfirmEnds
  <2>1. at' \notin {"password", "entered", "died"} /\ start' = start /\ cut' = cut
    BY <1>7
    DEF NavEnds, NavEscEnds, ConfirmEnds, GoNext, Turn, Draw, Cancel, EndOfFile, ScreenKeeps
  <2> QED
    BY <1>0, <2>1, OtherPlaces DEF CutInv
<1>8. CASE NavKey \/ NavEsc \/ ConfirmKey
  <2>1. at' \notin {"password", "entered", "died"} /\ start' = start
    BY <1>8
    DEF NavKey, NavEsc, ConfirmKey, GoNext, GoPrev, Turn, Draw, AskLetter, Cancel, ScreenKeeps
  <2>2. typed' = typed /\ (Read(1) \/ Read(2))
    BY <1>8
    DEF NavKey, NavEsc, ConfirmKey, GoNext, GoPrev, Turn, AskLetter, Cancel, ScreenKeeps
  <2>3. cut <= cut'
    BY <1>0, <2>2, ReadKeeps
  <2> QED
    BY <1>0, <2>1, <2>3, OtherPlaces
<1>9. CASE HangUp \/ UNCHANGED vars
  <2>1. /\ at' = at /\ typed' = typed /\ start' = start /\ cut' = cut /\ line' = line
        /\ piped' = piped
    BY <1>9 DEF HangUp, vars, fixed
  <2>2. Since' = Since /\ LineTyped' = LineTyped
    BY <2>1 DEF Since, LineTyped
  <2> QED
    BY <1>0, <2>1, <2>2 DEF LineInv
<1>10. ASSUME NEW burst \in Bursts, Arrives(burst) PROVE LineInv'
  <2>1. /\ at' = at /\ typed' = typed \o burst /\ start' = start /\ cut' = cut /\ line' = line
        /\ piped' = piped
    BY <1>10 DEF Arrives, fixed
  <2>2. /\ typed \in Seq(Bytes) /\ burst \in Seq(Bytes) /\ cut \in Nat /\ Len(typed) \in Nat
        /\ cut <= Len(typed) /\ start \in Nat /\ start <= cut
    <3>1. typed \in Seq(Bytes) /\ burst \in Seq(Bytes) /\ Len(typed) \in Nat
      BY <1>0, BurstsAssumption, LenProperties DEF CutInv
    <3> QED
      BY <1>0, <3>1 DEF CutInv, LineInv
  <2>3. SubSeq(typed \o burst, start + 1, cut) = SubSeq(typed, start + 1, cut)
    <3>1. CASE start = cut
      <4>1. cut < start + 1 /\ start + 1 \in Int /\ cut \in Int
        BY <2>2, <3>1
      <4> QED
        BY <4>1, SubSeqEmpty
    <3>2. CASE start # cut
      <4> DEFINE m == start + 1
      <4>1. m \in 1 .. Len(typed) /\ cut \in 1 .. Len(typed)
        BY <2>2, <3>2
      <4> HIDE DEF m
      <4>2. SubSeq(typed \o burst, m, cut) = SubSeq(typed, m, cut)
        BY <2>2, <4>1, SubSeqOfConcat1
      <4> QED
        BY <4>2 DEF m
    <3> QED
      BY <3>1, <3>2
  <2>4. Since' = Since
    BY <2>1, <2>3 DEF Since
  <2>5. LineTyped' = LineTyped
    <3>1. LineTyped = IF NewlineIn(Since) = 0 THEN Since ELSE SubSeq(Since, 1, NewlineIn(Since) - 1)
      BY DEF LineTyped, Since
    <3>2. LineTyped' = IF NewlineIn(Since') = 0 THEN Since'
                       ELSE SubSeq(Since', 1, NewlineIn(Since') - 1)
      BY DEF LineTyped, Since
    <3> QED
      BY <2>4, <3>1, <3>2
  <2> QED
    BY <1>0, <2>1, <2>4, <2>5 DEF LineInv
<1> QED
  BY <1>1, <1>2, <1>3, <1>4, <1>5, <1>6, <1>7, <1>8, <1>9, <1>10
  DEF Next, Program, Enter, Show, Confirm, Person

LEMMA LineAlways == Spec => []LineInv
<1>1. Init => LineInv
  <2> SUFFICES ASSUME Init PROVE LineInv
    OBVIOUS
  <2>1. typed = <<>> /\ cut = 0 /\ fill = 0 /\ start = 0 /\ at = "password" /\ line = <<>>
    BY DEF Init
  <2>2. CutInv
    BY <2>1 DEF CutInv
  <2>3. Since = <<>>
    <3>1. SubSeq(<<>>, 1, 0) = <<>>
      BY SubSeqEmpty
    <3> QED
      BY <2>1, <3>1 DEF Since
  <2>4. NewlineIn(<<>>) = 0
    BY NoNewline
  <2>5. FoldLeft(Edited, <<>>, <<>>) = <<>>
    BY LineFolds, Edits!FoldNone
  <2> QED
    BY <2>1, <2>2, <2>3, <2>4, <2>5 DEF LineInv
<1> QED
  BY <1>1, LineStep, PTL DEF Spec

LEMMA LineTypedBytes == LineInv => LineTyped \in Seq(Bytes)
<1> SUFFICES ASSUME LineInv PROVE LineTyped \in Seq(Bytes)
  OBVIOUS
<1> DEFINE a == Since
           k == NewlineIn(a)
<1>1. a \in Seq(Bytes) /\ k \in 0 .. Len(a) /\ Len(a) \in Nat
  BY SinceBytes, NewlineNat, LenProperties DEF LineInv
<1>2. LineTyped = IF k = 0 THEN a ELSE SubSeq(a, 1, k - 1)
  BY DEF LineTyped, Since
<1> HIDE DEF a, k
<1>3. CASE k # 0
  <2> DEFINE c == 0
             e == k - 1
  <2>1. c \in Nat /\ e \in Nat /\ c + e <= Len(a) /\ c + 1 = 1 /\ c + e = k - 1
    BY <1>1, <1>3
  <2> HIDE DEF c, e
  <2>2. SubSeq(a, c + 1, c + e) \in Seq(Bytes)
    BY <1>1, <2>1, BytesOfSub
  <2> QED
    BY <1>2, <1>3, <2>1, <2>2
<1> QED
  BY <1>1, <1>2, <1>3

\* The password line is what was typed since it was asked for, without what a
\* backspace takes back and without what follows the newline, however many
\* bytes a read gives; a pipe's may be none at all, but then it held a byte
\* that may be no UTF-8 (read_password).
THEOREM LineAsEditedHolds == Spec => []LineAsEdited
<1>1. LineInv => LineAsEdited
  <2> SUFFICES ASSUME LineInv PROVE LineAsEdited
    OBVIOUS
  <2> DEFINE s == LineTyped
  <2>1. s \in Seq(Bytes)
    BY LineTypedBytes
  <2>2. at = "entered" => line = IF piped THEN s ELSE FoldLeft(Edited, <<>>, s)
    BY DEF LineInv
  <2>3. EditInv(s, FoldLeft(Edited, <<>>, s))
    BY <2>1, EditIs
  <2>d. at = "died" => piped /\ HasHigh(s)
    BY DEF LineInv
  <2> HIDE DEF s
  <2>4. at = "entered" /\ ~piped =>
                  /\ Len(line) = Cardinality(Survivors(s))
                  /\ \A i \in Survivors(s) : line[Cardinality(Upto(s, i))] = s[i]
    BY <2>2, <2>3 DEF EditInv
  <2> QED
    BY <2>2, <2>4, <2>d DEF LineAsEdited, Upto, s
<1> QED
  BY <1>1, LineAlways, PTL

-----------------------------------------------------------------------------
(* Types.                                                                  *)

\* A line is edited into bytes, whatever comes.
LEMMA EditedBytes ==
  ASSUME NEW ln \in Seq(Bytes)
  PROVE  \A s \in Seq(Bytes) : FoldLeft(Edited, ln, s) \in Seq(Bytes)
<1> DEFINE G == {s \in Seq(Bytes) : FoldLeft(Edited, ln, s) \in Seq(Bytes)}
<1>1. <<>> \in G
  BY EmptySeq, LineFolds, Edits!FoldNone
<1>2. ASSUME NEW s \in Seq(Bytes), NEW b \in Bytes, s \in G PROVE s \o <<b>> \in G
  <2>1. Edits!Folded(0, ln, s \o <<b>>) = EditedStep(0, Edits!Folded(0, ln, s), b)
    BY Edits!FoldAppend
  <2>2. FoldLeft(Edited, ln, s \o <<b>>) = Edited(FoldLeft(Edited, ln, s), b)
    BY <2>1, LineFolds DEF EditedStep
  <2>3. FoldLeft(Edited, ln, s) \in Seq(Bytes)
    BY <1>2
  <2> QED
    BY <2>2, <2>3, OneByte, EditedIs
<1>3. \A s \in Seq(Bytes), b \in Bytes : s \in G => s \o <<b>> \in G
  BY <1>2
<1> HIDE DEF G
<1>4. \A s \in Seq(Bytes) : s \in G
  BY <1>1, <1>3, Widths!SeqInduct
<1> QED
  BY <1>4 DEF G

Places == {"password", "entered", "died", "open", "hint", "nav", "wait", "esc",
           "confirm", "ask", "left", "burning", "aborted"}

\* What the screens and the line are made of; the marks are LineInv's.
ReaderInv ==
  /\ TextInv /\ text \in Texts /\ piped \in BOOLEAN /\ own \in BOOLEAN /\ up \in BOOLEAN
  /\ LineInv /\ line \in Seq(Bytes)
  /\ at \in Places
  /\ page \in 0 .. Pages - 1
  /\ rows \in [1 .. Height -> Int]
  /\ target \in Targets \cup {"none"} /\ room \in 0 .. Room

\* What draw_page and the dialog draw.
LEMMA ScreensTyped ==
  ASSUME rows \in [1 .. Height -> Int], NEW p \in Int
  PROVE  /\ Drawn(p) \in [1 .. Height -> Int]
         /\ Overlaid \in [1 .. Height -> Int]
         /\ Hinted \in [1 .. Height -> Int]
<1>1. ASSUME NEW r \in 1 .. Height PROVE p * PerPage + r - BodyTop + 1 \in Int
  <2>1. PerPage \in Int /\ BodyTop \in Int /\ r \in Int
    BY BodyRows DEF BodyTop
  <2>2. p * PerPage \in Int
    BY <2>1
  <2> QED
    BY <2>1, <2>2
<1>2. Drawn(p) \in [1 .. Height -> Int]
  BY <1>1 DEF Drawn, Blank
<1>3. Overlaid \in [1 .. Height -> Int]
  BY DEF Overlaid, Dialog
<1>4. Hinted \in [1 .. Height -> Int]
  BY DEF Hinted, Hint
<1> QED
  BY <1>2, <1>3, <1>4

\* A step of the screens: a page of the text, rows, a place.
LEMMA DrawTyped ==
  ASSUME ReaderInv, NEW s \in [1 .. Height -> Int], NEW p \in Places, Draw(s, p)
  PROVE  at' \in Places /\ rows' \in [1 .. Height -> Int]
BY DEF Draw, ReaderInv, Places

LEMMA TurnTyped ==
  ASSUME ReaderInv, NEW p \in Int, Turn(p)
  PROVE  /\ at' \in Places /\ rows' \in [1 .. Height -> Int] /\ page' \in 0 .. Pages - 1
         /\ target' = target /\ room' = room /\ line' = line /\ up' = up
<1>1. rows \in [1 .. Height -> Int] /\ "hint" \in Places /\ page \in 0 .. Pages - 1
  BY DEF ReaderInv, Places
<1>2. Drawn(p) \in [1 .. Height -> Int]
  BY <1>1, ScreensTyped
<1>3. CASE p \in 0 .. Pages - 1
  <2>1. page' = p /\ Draw(Drawn(p), "hint")
    BY <1>3 DEF Turn
  <2> QED
    BY <1>1, <1>2, <1>3, <2>1, DrawTyped DEF Turn, ScreenKeeps, stdinVars
<1>4. CASE p \notin 0 .. Pages - 1
  BY <1>1, <1>4 DEF Turn, ScreenKeeps, stdinVars
<1> QED
  BY <1>3, <1>4

LEMMA ReaderStep == ReaderInv /\ [Next]_vars => ReaderInv'
<1> SUFFICES ASSUME ReaderInv, [Next]_vars PROVE ReaderInv'
  OBVIOUS
<1> DEFINE Screen == /\ at' \in Places
                     /\ rows' \in [1 .. Height -> Int] /\ page' \in 0 .. Pages - 1
                     /\ target' \in Targets \cup {"none"} /\ room' \in 0 .. Room
                     /\ line' \in Seq(Bytes) /\ up' \in BOOLEAN
<1>0. /\ LineInv /\ LineInv' /\ CutInv /\ UNCHANGED fixed /\ Pages' = Pages
      /\ rows \in [1 .. Height -> Int] /\ page \in 0 .. Pages - 1 /\ page \in Int
      /\ line \in Seq(Bytes) /\ at \in Places /\ up \in BOOLEAN
      /\ target \in Targets \cup {"none"} /\ room \in 0 .. Room
  <2>1. LineInv /\ LineInv' /\ UNCHANGED fixed
    BY LineStep, FixedStep DEF ReaderInv
  <2> QED
    BY <2>1 DEF ReaderInv, Pages, LineInv, fixed
<1>a. page + 1 \in Int /\ page - 1 \in Int
  BY <1>0
<1>b. SUFFICES Screen
  BY <1>0 DEF ReaderInv, TextInv, fixed
<1> HIDE DEF Screen
<1> USE DEF screenVars, stdinVars, LineKeeps, ScreenKeeps, NoRead
<1>1. CASE ReadTerminal
  <2> DEFINE g == Got(Chunk)
             k == NewlineIn(g)
             h == IF k = 0 THEN g ELSE SubSeq(g, 1, k - 1)
  <2>1. g \in Seq(Bytes) /\ k \in 0 .. Len(g) /\ Len(g) \in Nat
    BY <1>0, ChunkAssumption, GotBytes, NewlineNat, LenProperties
  <2>2. h \in Seq(Bytes)
    <3>1. CASE k # 0
      <4> DEFINE c == 0
                 e == k - 1
      <4> HIDE DEF k, g
      <4>1. c \in Nat /\ e \in Nat /\ c + e <= Len(g) /\ c + 1 = 1 /\ c + e = k - 1
        BY <2>1, <3>1
      <4> HIDE DEF c, e
      <4>2. SubSeq(g, c + 1, c + e) \in Seq(Bytes)
        BY <2>1, <4>1, BytesOfSub
      <4> QED
        BY <3>1, <4>1, <4>2
    <3> QED
      BY <2>1, <3>1
  <2>3. line' = FoldLeft(Edited, line, h) /\ at' \in {"entered", "password"}
        /\ UNCHANGED <<screenVars, stdinVars>>
    BY <1>1 DEF ReadTerminal
  <2> HIDE DEF g, k, h
  <2>4. line' \in Seq(Bytes)
    BY <1>0, <2>2, <2>3, EditedBytes
  <2> QED
    BY <1>0, <2>3, <2>4 DEF Screen, Places
<1>2. CASE ReadPipe
  <2> DEFINE n == NewlineIn(Got(Here))
  <2>1. Here \in Nat /\ Got(Here) \in Seq(Bytes)
    BY <1>0, GotBytes
  <2>2. n \in Nat /\ (n # 0 => n - 1 \in Nat)
    BY <2>1, NewlineNat
  <2>3. line' = <<>> \/ \E k \in Nat : line' = line \o Got(k)
    BY <1>2, <2>1, <2>2 DEF ReadPipe, Decoded
  <2>4. line' \in Seq(Bytes)
    <3>1. ASSUME NEW k \in Nat PROVE line \o Got(k) \in Seq(Bytes)
      <4>1. Got(k) \in Seq(Bytes)
        BY <1>0, GotBytes
      <4> QED
        BY <1>0, <4>1, ConcatProperties
    <3> QED
      BY <2>3, <3>1, EmptySeq
  <2> QED
    BY <1>0, <1>2, <2>4 DEF ReadPipe, Decoded, Screen, Places
<1>3. CASE PasswordEnds \/ Reprompt \/ Accept
  BY <1>0, <1>3, EmptySeq DEF PasswordEnds, Decoded, Reprompt, Accept, Screen, Places
<1>4. CASE OpenShow
  <2>1. Drawn(0) \in [1 .. Height -> Int]
    <3> DEFINE first == 0
    <3>1. first \in Int
      OBVIOUS
    <3> HIDE DEF first
    <3>2. Drawn(first) \in [1 .. Height -> Int]
      BY <1>0, <3>1, ScreensTyped
    <3> QED
      BY <3>2 DEF first
  <2>2. at' \in Places /\ rows' \in [1 .. Height -> Int]
    <3>1. "left" \in Places /\ "hint" \in Places
      BY DEF Places
    <3> QED
      BY <1>4, <2>1, <3>1, DrawTyped DEF OpenShow
  <2> QED
    BY <1>0, <1>4, <2>2 DEF OpenShow, Screen
<1>5. CASE DrawHint
  <2>1. Hinted \in [1 .. Height -> Int]
    BY <1>0, ScreensTyped
  <2>2. room' \in 0 .. Room
    BY <1>0, <1>5, RoomAssumption DEF DrawHint
  <2> QED
    BY <1>0, <1>5, <2>1, <2>2 DEF DrawHint, Screen, Places
<1>6. CASE NavStart
  <2>1. CASE up
    BY <1>0, <1>6, <2>1 DEF NavStart, Screen, Places
  <2>2. CASE ~up
    BY <1>0, <1>a, <1>6, <2>2, TurnTyped DEF NavStart, GoNext, Screen
  <2> QED
    BY <2>1, <2>2
<1>7. CASE NavEnds \/ NavEsc \/ NavEscEnds
  BY <1>0, <1>a, <1>7, TurnTyped DEF NavEnds, NavEsc, NavEscEnds, GoNext, GoPrev, Screen
<1>8. CASE NavKey
  <2>1. CASE GoNext \/ GoPrev
    BY <1>0, <1>a, <2>1, TurnTyped DEF GoNext, GoPrev, Screen
  <2>2. CASE AskLetter
    <3>1. Overlaid \in [1 .. Height -> Int] /\ "confirm" \in Places
      BY <1>0, ScreensTyped DEF Places
    <3>2. at' \in Places /\ rows' \in [1 .. Height -> Int]
      BY <2>2, <3>1, DrawTyped DEF AskLetter
    <3> QED
      BY <1>0, <2>2, <3>2 DEF AskLetter, Screen
  <2>3. CASE at' \in {"wait", "esc"} /\ UNCHANGED screenVars /\ ScreenKeeps
    BY <1>0, <2>3 DEF Screen, Places
  <2> QED
    BY <1>8, <2>1, <2>2, <2>3 DEF NavKey
<1>9. CASE ConfirmStart
  BY <1>0, <1>9 DEF ConfirmStart, Screen, Places
<1>10. CASE ConfirmKey \/ ConfirmEnds
  <2>1. CASE Cancel
    <3>1. Drawn(page) \in [1 .. Height -> Int] /\ "hint" \in Places
      BY <1>0, ScreensTyped DEF Places
    <3>2. at' \in Places /\ rows' \in [1 .. Height -> Int]
      BY <2>1, <3>1, DrawTyped DEF Cancel
    <3> QED
      BY <1>0, <2>1, <3>2 DEF Cancel, Screen
  <2>2. CASE at' = "burning" /\ UNCHANGED screenVars /\ ScreenKeeps
    BY <1>0, <2>2 DEF Screen, Places
  <2> QED
    BY <1>10, <2>1, <2>2 DEF ConfirmKey, ConfirmEnds
<1>11. CASE HangUp \/ (\E burst \in Bursts : Arrives(burst)) \/ UNCHANGED vars
  <2>1. /\ at' = at /\ UNCHANGED screenVars /\ line' = line /\ up' \in BOOLEAN
    BY <1>0, <1>11 DEF HangUp, Arrives, vars
  <2> QED
    BY <1>0, <2>1 DEF Screen
<1> QED
  BY <1>1, <1>2, <1>3, <1>4, <1>5, <1>6, <1>7, <1>8, <1>9, <1>10, <1>11
  DEF Next, Program, Enter, Show, Confirm, Person

\* Every variable keeps its type: among others, the page shown is one of the
\* text's, and the program never reads past what was typed.
THEOREM ReaderTypes == Spec => []TypeOK
<1>1. Init /\ LineInv => ReaderInv
  <2> SUFFICES ASSUME Init, LineInv PROVE ReaderInv
    OBVIOUS
  <2>1. TextInv /\ text \in Texts
    BY TextsAssumption DEF Init, TextInv, Lines, Cells
  <2>2. page \in 0 .. Pages - 1
    <3>1. content \in Seq(Chunks)
      BY <2>1, WrappedKeeps DEF TextInv
    <3>2. Pages \in Nat \ {0}
      BY <3>1, PagesPartition
    <3> QED
      BY <3>2 DEF Init
  <2>3. rows \in [1 .. Height -> Int]
    BY DEF Init, Blank, Frame
  <2>4. line \in Seq(Bytes) /\ room \in 0 .. Room
    BY EmptySeq, RoomAssumption DEF Init
  <2> QED
    BY <2>1, <2>2, <2>3, <2>4 DEF Init, ReaderInv, Places
<1>2. ReaderInv => TypeOK
  <2> SUFFICES ASSUME ReaderInv PROVE TypeOK
    OBVIOUS
  <2>1. content \in Seq(Seq({1, 2}))
    <3>1. content \in Seq(Chunks)
      BY WrappedKeeps DEF ReaderInv, TextInv
    <3> QED
      BY <3>1, ChunksAreLines DEF Lines, Cells
  <2> QED
    BY <2>1 DEF ReaderInv, LineInv, CutInv, Places, TypeOK
<1> QED
  BY <1>1, <1>2, ReaderStep, LineAlways, PTL DEF Spec
-----------------------------------------------------------------------------
(* Keeper's screens.                                                       *)

\* A pipe gets one page, and neither keys nor a dialog.
PipeInv == piped => at \in {"password", "entered", "died", "open", "left"}

\* Where a screen may go: a pipe's past its page, a terminal's nowhere once it
\* is closed, else on within a page or a dialog, or from one to the other.
Paging == {"open", "hint", "nav", "wait"}
Asking == {"confirm", "ask"}
Moves ==
  \/ at' = at
  \/ piped /\ at = "open" /\ at' = "left"
  \/ ~piped /\ ~up /\ at' \in {"left", "aborted"}
  \/ ~piped /\ \/ {at, at'} \subseteq Paging \/ {at, at'} \subseteq Asking
               \/ at = "wait" /\ at' \in {"esc", "confirm"}
               \/ at = "esc" /\ at' = "hint"
               \/ at \in Asking /\ at' \in {"burning", "hint"}

\* Every step of the program or the person behind the password is one of
\* these moves (show, nav_wait, confirm_burn).
LEMMA MoveStep ==
  ASSUME PipeInv, [Next]_vars, at \notin {"password", "entered"}
  PROVE  Moves /\ piped' = piped
<1>1. piped' = piped
  BY FixedStep DEF fixed
<1>2. Moves
  <2> USE DEF PipeInv, Moves, Paging, Asking, Draw, Mute
  <2>1. CASE Enter
    BY <2>1 DEF Enter, ReadTerminal, ReadPipe, Decoded, PasswordEnds, Reprompt, Accept
  <2>2. CASE OpenShow
    BY <2>2 DEF OpenShow
  <2>3. CASE DrawHint
    BY <2>3 DEF DrawHint
  <2>4. CASE NavStart \/ NavEnds
    BY <2>4 DEF NavStart, NavEnds, GoNext, Turn
  <2>5. CASE NavKey
    <3>1. CASE Key \in {"space", "newline"}
      BY <2>5, <3>1 DEF NavKey, GoNext, Turn
    <3>2. CASE Key = "p"
      BY <2>5, <3>2 DEF NavKey, GoPrev, Turn
    <3>3. CASE Key = "q"
      BY <2>5, <3>3 DEF NavKey, AskLetter
    <3>4. CASE Key = "esc"
      BY <2>5, <3>4 DEF NavKey
    <3>5. CASE Key \notin {"space", "newline", "p", "q", "esc"}
      BY <2>5, <3>5 DEF NavKey
    <3> QED
      BY <3>1, <3>2, <3>3, <3>4, <3>5
  <2>6. CASE NavEsc \/ NavEscEnds
    BY <2>6 DEF NavEsc, NavEscEnds, GoNext, GoPrev, Turn
  <2>7. CASE Confirm
    BY <2>7 DEF Confirm, ConfirmStart, ConfirmKey, ConfirmEnds, Cancel
  <2>8. CASE Person \/ UNCHANGED vars
    BY <2>8 DEF Person, HangUp, Arrives, vars
  <2> QED
    BY <2>1, <2>2, <2>3, <2>4, <2>5, <2>6, <2>7, <2>8 DEF Next, Program, Show
<1> QED
  BY <1>1, <1>2

\* A pipe keeps to its places.
LEMMA PipeStep == PipeInv /\ [Next]_vars => PipeInv'
<1> SUFFICES ASSUME PipeInv, [Next]_vars PROVE PipeInv'
  OBVIOUS
<1>1. CASE at \in {"password", "entered"}
  <2>1. at' \in {"password", "entered", "died", "open"}
    <3>1. CASE Enter
      BY <1>1, <3>1 DEF Enter, ReadTerminal, ReadPipe, Decoded, PasswordEnds, Reprompt, Accept
    <3>2. CASE Person \/ UNCHANGED vars
      BY <1>1, <3>2 DEF Person, HangUp, Arrives, vars
    <3>3. ~(Show \/ Confirm)
      BY <1>1 DEF Show, Confirm, OpenShow, DrawHint, NavStart, NavKey, NavEnds, NavEsc,
         NavEscEnds, ConfirmStart, ConfirmKey, ConfirmEnds
    <3> QED
      BY <3>1, <3>2, <3>3 DEF Next, Program
  <2> QED
    BY <2>1 DEF PipeInv
<1>2. CASE at \notin {"password", "entered"}
  BY <1>2, MoveStep DEF PipeInv, Moves, Paging, Asking
<1> QED
  BY <1>1, <1>2

\* Each of these moves is Keeper's, for the text and for a refusal.
LEMMA MoveIsKeepers ==
  ASSUME at \notin {"password", "entered"}, Moves, piped' = piped,
         NEW refusal \in BOOLEAN
  PROVE  \/ Whole(refusal)!ShowPiped \/ Whole(refusal)!KeyStep
         \/ UNCHANGED Whole(refusal)!vars
         \/ ~piped /\ ~up /\ at' \in {"left", "aborted"}
<1> USE DEF Whole!ScreenKeeps, Whole!Untouched, Whole!Goto, Whole!Exit, Whole!Beaten, Whole!NoBeat, Whole!petVars
<1>1. CASE at' = at \/ {at, at'} \subseteq Paging \/ {at, at'} \subseteq Asking
  BY <1>1 DEF Paging, Asking, Whole!vars, Whole!watchVars, Whole!mainVars
<1>2. CASE piped /\ at = "open" /\ at' = "left"
  BY <1>2 DEF Whole!ShowPiped
<1>3. CASE ~piped /\ at = "wait" /\ at' = "esc"
  BY <1>3 DEF Whole!KeyStep, Whole!PressEsc
<1>4. CASE ~piped /\ at = "wait" /\ at' = "confirm"
  BY <1>4 DEF Whole!KeyStep, Whole!PressQ
<1>5. CASE at = "esc" /\ at' = "hint"
  BY <1>5 DEF Whole!KeyStep, Whole!FollowEsc
<1>6. CASE at \in Asking /\ at' = "hint"
  BY <1>6 DEF Asking, Whole!KeyStep, Whole!Cancel
<1>7. CASE at \in Asking /\ at' = "burning"
  BY <1>7 DEF Asking, Whole!KeyStep, Whole!Confirm
<1> QED
  BY <1>1, <1>2, <1>3, <1>4, <1>5, <1>6, <1>7 DEF Moves

\* Behind the password, whatever is typed, ahead or not, and whenever the
\* terminal is closed, each step is one of Keeper's screens, or the end of a
\* run whose terminal is gone (show, nav_wait, confirm_burn).
THEOREM KeepsScreensHolds == Spec => KeepsScreens
<1>1. Init => PipeInv
  BY DEF Init, PipeInv
<1>2. ASSUME PipeInv, [Next]_vars, at \notin {"password", "entered"}
      PROVE  \A refusal \in BOOLEAN :
               \/ Whole(refusal)!ShowPiped \/ Whole(refusal)!KeyStep
               \/ UNCHANGED Whole(refusal)!vars
               \/ ~piped /\ ~up /\ at' \in {"left", "aborted"}
  BY <1>2, MoveStep, MoveIsKeepers
<1> QED
  BY <1>1, <1>2, PipeStep, PTL DEF Spec, KeepsScreens
=============================================================================
