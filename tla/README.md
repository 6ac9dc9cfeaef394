# hello_old in TLA+

hello_old seals a text into an executable and gives it up once: after a date,
to someone with the password, on a machine nobody tampers with; then it burns
the text and itself. This directory holds the TLA+ specifications of that
program, the TLC configurations that check them, and theorems about them that
TLAPS proves. Paths like `main.rs:809` are below `src/src/`.

## 1. The system

| Part | Where | State it keeps | What it does | What makes it correct |
|---|---|---|---|---|
| main thread | `main.rs` 336-827 | place in `main()`, the key and content buffers, the file on disk | checks, password, VM, watchdog, NTP, layers, screens, burning | text only after the hour and with everything it needs; burned in order; ends |
| watchdog | `watchdog.rs` | `RUNNING`, the feed, two hashes | every 400 ms: heartbeat, tracer, executable, key page; SIGKILL | prompt; no false alarm; never faults on the page it reads |
| time gate | `ntp.rs`, `main.rs` 220-231, 495-597 | a results vector behind a mutex, one thread a host | ask five hosts, take the middle one by drift, else a custom host | not early; honest servers suffice; ends |
| clock anchor | `harden.rs` 42-75 | two clock readings | compares wall and monotonic clock twice | a stepped wall clock is refused |
| secure buffers | `main.rs` 69-131 | pages and their protection | mlock, guard pages, protect, zeroize, unmap | nobody reads a page taken away; wiped at the end |
| screens | `tui.rs` 260-558, 812-950 | page, raw mode | show, keys, burn dialog, animation | feed while waiting; a pipe never blocks |
| password entry | `pass.rs` | termios, a line | read a line without echo | any typed line comes out as edited |
| calendar | `main.rs` 149-176 | none | dates of days, times of seconds | every day has its Gregorian date |
| RustyVM | `rustyvm.rs`, `build.rs` 221-271 | registers, stack, scratch memory | unmasks the 64-byte key from KM | the built program computes the sealed key; others are rejected |
| layers | `main.rs` 606-803, `crypto.rs`, `build.rs` | wrapped shards, signatures | six shards to one content key, two signatures | what the build sealed opens; damage does not, but for FrodoKEM's ciphertext |
| Serpent-SIV | `serpent_siv.rs` | none | deterministic authenticated encryption | decrypt inverts encrypt; damage is refused |
| seccomp, signals, injection check | `seccomp.rs`, `signal.rs`, `harden.rs` 1-40 | kernel state | installed once | the filter kills exactly the listed calls |

The main thread and the watchdog share four things: the static `RUNNING`, the
feed (an `Instant` behind a mutex), the key page (through a raw pointer) and the
process, which either can end. The query threads share a results vector with
main, which never joins them. Person, network, tamperer and scheduler are the
environment.

What is hard here: `stop()` does not join the watchdog while main goes on to
take away the page it reads; every wait on a person or the network must feed
the watchdog or be short; several ways to die lie between unsealing, locking,
wiping and deleting; and answers about time come late, not at all, or false.
Keys
reach the program through two queues, the kernel's and the buffer of stdin, and
`poll()` sees only the first. What the build seals, a second copy of the same
key derivation and of Serpent-SIV must open. The hazards, line by line, are in
`PROJECT.json`.

## 2. The modules

| Module | Models | Size |
|---|---|---|
| `Envelope` | the abstract promise: opened once, only after the hour; the sealed copy burned only once read and out of reach | 4 actions |
| `Watchdog` | the watchdog thread statement by statement, `/proc` reads that fail, the tamperer, the thread's clock | 5 steps of the thread, 4 of the tamperer |
| `Keeper` (extends `Watchdog`) | `main()` from start to exit beside that thread: one action per stretch of main between two points where another thread, a key or a refusal can come in | 31 steps of main |
| `TimeGate` | the query threads, `sync_all`, the consensus, the custom host, the anchor, the gate | 10 actions |
| `RustyVM`, `VmProgram` | the interpreter, one action per kind of instruction, with its rejections and panics; the program `gen_vm_program` writes, or any | 11 kinds of instruction |
| `Reader` (values for TLC: `MCReader`) | the password line, `wrap_line`, the pages of `show`, `nav_wait`, the burn dialog, over one buffered stdin that may be closed | 15 steps of main, 2 of the person |
| `Siv` | `serpent_siv.rs`: S2V, padding, counter, both directions | operators |
| `Filter` | the BPF program of `seccomp.rs` and how the kernel runs it | operators |
| `Layers` (extends `Siv`, `Filter`; values: `MCLayers`) | what `build.rs` seals and what `main()` makes of it from the installed filter to the text, with any few blobs damaged | 10 actions |
| `Calendar` | `civil_from_days`, `format_unix`, and the Gregorian rules | operators |
| `KeeperSafety`, `KeeperPromise` | theorems about `Keeper` and their proofs | |
| `GateProofs`, `VmSafety`, `ReaderProofs`, `LayersProofs`, `CalendarProofs` | theorems about `TimeGate`, `VmProgram`, `Reader`, `Layers`, `Calendar` and their proofs | |
| `Induction` | what the proofs use of data: induction over numbers and sequences, recursive functions over numbers, and what `FoldLeft` and `FlattenSeq` of the community modules do at each element | |

How the state corresponds.

`Keeper`: `main` names the place in `main()`; `key` is the key page with what
it holds and its protection (`SecBuf::lock_ro`, `lock_none`, `drop`); `content`
is the buffer of the text; `dog`, `nap` and `lag` are the watchdog thread's next
statement, what is left of its sleep and how long it has been due; `quiet` is
the feed's age; `proc` and `cause` record how the process ended. `refusing`
tells a refusal from the text, since both use the same screens. `tty`, `bad`
(which sealed blob is damaged) and `spare` (`NO_SELF_DESTRUCT`) are chosen by
`Init` and never change. `hour`, `typed`, `traced`, `forged` are history. Data is
abstracted to what the properties tell apart: a password is right, wrong or
empty; a key page is secret, half right (the part nothing uses is damaged),
wrong, forged or zeroed; a blob is as sealed or damaged.

`Keeper` takes the outcome of the time gate as before or after the hour;
`TimeGate` says how far that can be from the truth. In `TimeGate` times are
integers: ticks for clocks and half ticks for what a query returns, so that the
mean of two readings is exact. A timestamp wraps at `Era`, as 32 bits of
seconds do. Servers outside `Honest` answer anything in `Lies`. The sorted list
of `consensus` is never built: the chosen answer is the one with as many of the
accepted ones before it as `len() / 2` counts.

`RustyVM` keeps the part of the stack below `sp`, since the code never reads a
cell above it before writing it. Words are numbers below `2^Width`. A program
is a sequence of instructions with their operands, `Cut` standing for operand
bytes missing at its end (`Pow2`, and `Power` in `Layers`, are recursive functions where `^` would do,
since the prover knows nothing of `^`); `VmProgram` runs either a generated one or whatever
instruction comes next, which covers programs of every length.

`Reader` keeps all that was ever typed in one sequence with two marks: `cut`,
how much of it the program has read, and `fill`, how much the standard library's
buffer has taken from the kernel. `up` tells whether the other end of stdin is
open, `own` whether stdout is that same terminal (printing to a closed one
panics). A line of text is the sequence of its characters' widths, `content` the
chunks that `wrap_line` makes of it, `rows` what each row of the screen shows:
the number of a chunk, the hint, the dialog, the frame, or nothing. The hint and
the lines of the dialog's box are not wrapped by the code; where the terminal
is too narrow for them it goes on in the next row (`RowsOf`), and a row that
holds any of them counts as theirs. A byte that may not be UTF-8 is `"high"`; a
pipe's line with one is taken or not, since the widths of its characters are not
told apart, and not taken means death. `room`
counts the hints that still fit into stdout's buffer before a refused write is
noticed. Past the right password history is dropped: what was read is cut from
`typed`.

`Layers` takes primitives as ideal. A 32-byte secret is a formal sum over GF(2)
of the secrets it was made from, so that `xor6` and `ct_eq` are computed and not
assumed; a wrapped blob opens under the key made with the same label from the
same master key. `bad` holds the damaged blobs; what a damaged one does follows
its primitive: an AEAD and RSA-OAEP refuse, Kyber and McEliece give another
secret, a damaged public key parses or does not. FrodoKEM's shared secret would
change too, but layer 5 takes the decoded message (`main.rs:686-688`; the build
seals that, `build.rs:490-495`), which rounding recovers from small damage:
there a damaged ciphertext is refused, gives another shard, or the same one
(`Yields`), so that it may open. This rests on how FrodoKEM decapsulates; the
crate is not in the tree. In `Siv` a
byte is a formal sum too, a CMAC a new unknown for each input; the counter is
counted digit by digit. `Layers` instantiates `Keeper` with a refinement mapping
(`K`): its places are those of `Keeper`'s `gate`, `layers` and `show`.

Time passes by `Tick`. A thread that is due runs within `Slack` ticks, `main`
works at most `WorkMax` ticks at a place or in a turn of a loop that beats, a
person holds a blocking read or a loop busy at most `Patience`, a custom query
lasts at most `QueryMax`, burning lasts at least `BurnMin`. These bounds are
assumptions about the machine and the person, stated as constants; properties
that need a relation between them state it (`LongBurn`, `Answered`). In the code
`Poll` is 400 ms, staleness 61 s, and the sleeps of `burn_with_progress` alone
add up to several seconds, so `LongBurn` leaves the scheduler over four seconds.

## 3. What is checked

Every run is a `.cfg` beside the modules; the root module is the one it names.

| Run | Shows | Bounds | Distinct states |
|---|---|---|---|
| `whole_run` (`Keeper`, `MCRun.cfg`) | `TypeOK`, `NoFault`, `NeverStale`, `Gentle`, `RevealNeedsAll`, `BurnOrder`, `ExitWipes`, and that the run implements `Envelope` (`KeepsPromise`) | all passwords, all damaged blobs, pipe and terminal; sleep 1, stale 4, slack 1, burn 3 | 34 539 |
| `tampered` (`Keeper`, `MCTamper.cfg`) | `PromptDetection`; `KeepsPromise` under tampering | tracer, key and executable; sleep 2, burn 4 | 1.36 million |
| `run_ends` (`Keeper`, `MCLive.cfg`) | `PipedRunEnds`, `BurningEnds` under `FairSpec` | failing reads, altered executable, damaged blobs | 130 406 |
| `gate` (`TimeGate`, `MCGate.cfg`) | `HonestMajorityRules`, `NeverFarEarly`, `HonestTimeAccepted`, `SyncEnds`, `TypeOK` | two honest servers and a liar, clock right or one tick ahead, one step of 1 or 3 ticks | 1.5 million |
| `vm` (`VmProgram`, `MCVm.cfg`) | `SealedKeyRebuilt`, `OverflowForeseen`, `TypeOK` | words of 3 bits, bytes of 2, a stack of 3, keys of 2 bytes, all materials, one to three fillers a byte; and every program | 509 440 |
| `reader` (`MCReader`, `MCReader.cfg`) | `LineAsEdited`, `TextKept`, `CleanScreen`, `BurnNeedsLetter`, `KernelDrained`, `HangUpEnds`, `KeepsScreens`, `TypeOK` | 13 rows of 3 columns, hint and box of two rows, a text of eight chunks and an empty one, nine bursts of up to three bytes, four bytes typed, reads of two, one hint of buffer | 899 077 |
| `seal` (`MCLayers`, `MCLayers.cfg`) | `SealOpens`, `ShardsBind`, `TextFits`, `BarredAsListed`, `AlteredSivRefused`, `TagsDiffer`, `CountersCount`, `KeepsUnseal` (a refinement of `Keeper`'s steps), `TypeOK` | blocks of 3 bytes of 4 values, nine texts around one and two blocks, all counters, every set of up to three damaged blobs, calls 1 to 330, pages of 6 | 106 704 |

The bounds are the least for which the cases happen. In `Keeper` a sleep of one
tick and a slack of one let the watchdog be anywhere in its round at every step
of main; a stale age of 4 is the least for which `Answered` holds with a
patience of 1; a burn of 3 is the least for which `LongBurn` holds (and 4 with a
sleep of 2). In `TimeGate` three servers are the least for which a majority is
not unanimity; a step of 1 is within `JumpLimit` and 3 beyond it, a lie of 4
agrees with the wall clock after the latter. `Horizon` ends the model's time
and lies past the deadline of every start. `PromptDetection` is checked in a run
without failing reads because it does not hold otherwise: a `/proc/self/status`
that cannot be read counts as no tracer. In `vm` a word of 3 bits and a byte of
2 differ, so that a cut to a byte shows; a stack of 3 is the least on which the
generated program is accepted.

In `reader` the hint of several pages and the last line of the box are wider
than the terminal and take two rows each, as on a narrow terminal; thirteen rows
are the least on which such a box lies within the body. They hold seven chunks,
and the text has eight: one full page and one line more.
Its second line has a wide character that straddles the last column. Reads of
two bytes break a burst in the middle, with one byte of it left in the buffer. A
terminal is not closed before the password is accepted. In `seal` a run is
tried either with a counter, or with a system call, or with damage, never with
two of them; the three are read at different places. Payloads in the program
are never shorter than a block (the metadata alone are longer), those of the
model are, so that the padding of `s2v` is exercised too.

Deadlock is checked in the runs of `Keeper`, which stutters once the process has
ended (`Finished`). It is not in those of `TimeGate`, which stops at `open` or
`refused`, and at `Horizon`, in that of `VmProgram`, which stops when the
interpreter returns or aborts, in those of `Reader`, which stop when the screens
are left, and in that of `Layers`, which stops at the text or a death.

The most telling properties:

- `NoFault`: main takes the key page away without waiting for the watchdog; the
  burning animation is what keeps the two apart.
- `Gentle`: nobody who tampers with nothing dies, with two exceptions that the
  property names: an owner who lets a blocking prompt go stale (the finding
  `slow_owner`), and a wrong password from a pipe, which self-destructs
  (`main.rs:409`) though `README.en.md:154` says a wrong one re-prompts.
- `KeepsPromise`: a refinement. `page` is "the process runs and `content` holds
  the text", `read` is "`content` has held it".
- `HonestMajorityRules`: the consensus is the median of the absolute drifts
  (`main.rs:229`) and not of five servers' times, as `README.en.md:80` says; still
  an honest majority bounds what liars can gain.
- `NeverFarEarly`: whatever servers say, and even if the wall clock is stepped
  in between, the gate opens no earlier than the drift limit (plus the anchor's
  tolerance) before the clock the run started with. That is all it shows: the
  local clock, which the README of the program does not trust, is the bound. It
  is also what bounds a lone liar's answer, which the code takes for a consensus.
- `SealedKeyRebuilt`: what the build writes and what the run interprets agree
  for every key, material and filler; `OverflowForeseen`: of the checks the VM
  makes too late, the one for overflow rejects a cell early and so is in time.
- `BurnNeedsLetter`: however keys arrive, nothing burns without `q` and the
  letter asked for, unless the terminal is closed after `q`. A letter typed ahead
  counts, though the dialog it answers has not been seen. And a hangup between
  the dialog and `confirm_burn`'s own `is_terminal` confirms (the comment at
  `tui.rs:856` says a closed stdin does not, the one at 848 that it does).
- `HangUpEnds`: a closed terminal stops `nav_wait` from waiting, so `show` turns
  pages in a loop; what ends it is that its own output is refused and `print!`
  panics. The process aborts, and no buffer is wiped (`README.en.md:156` speaks
  of signal immunity). With stdout elsewhere the loop goes on for ever.
- `KeepsScreens`: `Reader` implements the steps of `Keeper` that stand for its
  screens, `ShowPiped` and `KeyStep`, for the text and for a refusal: a pipe goes
  past its one page and meets no dialog, a terminal reaches the burning by the
  dialog alone. What `Keeper` leaves out is only that a closed terminal ends the
  run, after one page or by a panic. The mapping fixes clocks, checks and the
  watchdog, which `Reader` does not have: it is the order of the screens that is
  refined, not their beats.
- `LineAsEdited`: the line on a terminal is what was typed, as edited; a pipe's
  is taken as it is, or, where it may be no UTF-8, not at all, upon which the run
  dies (`pass.rs:54`, `main.rs:386`).
- `CleanScreen`: screens are drawn over each other and never cleared as a whole;
  where the dialog's box lies within the body nothing of another page or of a
  cancelled dialog is left. With the code's box of 32 columns and six lines that
  is so from 12 rows on if the terminal has 32 columns, from 13 if it has 17; a
  hint of more than one row goes on below the body and is the only thing there
  beside the frame. Elsewhere the remains of the dialog stay.
- `ShardsBind`: two of the six shards are hashes of one public key, and damage
  might cancel out in the xor; past the comparison it never has, and every shard
  is the sealed one. What they came from is whole, but for `CT_FRODO`, whose
  damage may be rounded away, and which neither signature covers
  (`main.rs:738-744`).
- `KeepsUnseal`: `Layers` implements the two steps of `Keeper` that stand for
  it, so what `Keeper` says of a damaged blob is what the layers do.
- `RevealNeedsAll`: the text took the password, the hour and every blob, the
  half of `KM` that nothing uses and `CT_FRODO` excepted.

### Where documentation and code part

Each is a run expected to find a counterexample.

| Run | The text | The code |
|---|---|---|
| `slow_owner` | only tampering triggers self-destruct (`README.en.md:154`) | the custom NTP prompt (`main.rs:511`) blocks without a beat; a minute of thought is death |
| `piped_end` | buffers zeroized, the binary deletes itself on exit (`README.en.md:75`) | on a pipe `exit(0)` skips both (`main.rs:825`) |
| `gate_era` | a message travelling across decades (`README.en.md:11`) | from 2036 every honest NTP timestamp is out of the limit (`ntp.rs:38`) |
| `keys_heard` | space turns the page, q opens the dialog (`tui.rs:397`) | `poll()` on the descriptor does not see keys already in stdin's buffer (`tui.rs:413`): they wait for another key |
| `last_line` | "so the story stays readable on screen" (`tui.rs:361`) | the hint is written over the last line of a full page (`tui.rs:322`) |

Others were met and have no run: `tui.rs:913` says that a cancel returns
cleanly, and on a low terminal narrower than the box (24 columns and 12 rows,
say) the box, which is not cut to the width, ends below the body, where a page
never clears it; `main.rs:611` says the wrapping keys come from
`k1||k2`, and nothing comes from `k2`; `README.en.md:158` says that keys live for
milliseconds, and copies in `verify_msg` and the key objects (`main.rs:740`) stay
while the text is read; Dilithium's secret key is sealed and never opened, and
`PAYLOAD` is used for its length only; `s2v` adds a header before it doubles,
where RFC 5297 doubles first.

### Fairness

`FairSpec` of `Keeper` asks weak fairness of main's own steps, of its beats, of
reads on a pipe (a pipe has data or is closed), of the watchdog and of time: the
kernel runs both threads and clocks advance. It asks nothing of a person at a
terminal, so a reading that nobody ends never ends, and no liveness is claimed
for it. `FairSpec` of `TimeGate` asks it of time and the main thread and not of
queries, which may hang in a name lookup; `SyncEnds` holds all the same.
`FairSpec` of `Reader` asks it of the program; nobody has to type.

## 4. What is proved

TLAPS checks the following for all values of the constants that satisfy the
`ASSUME`s of the modules: naturals for times and sizes; for `Mischief`, `Words`
and `Blemishes` subsets of the listed values; for `TimeGate` any finite set of
servers, any of them honest; for `Reader` any texts, bursts and targets over
the listed bytes and any terminal of at least seven rows and two columns on
which hint and box do not scroll the screen (`FitsAssumption`); for `VmProgram` any
widths of word and byte, length of key and number of fillers; for `Layers` any
metadata and texts of bytes, block and page sizes, and numbers of calls.

| Theorem | Module | States |
|---|---|---|
| `TypeCorrect` | `KeeperSafety` | `Spec => []TypeOK` |
| `NoFaultHolds` | `KeeperSafety` | `Spec => []NoFault` |
| `NeverStaleHolds` | `KeeperSafety` | `Spec => []NeverStale` |
| `PromptDetectionHolds` | `KeeperSafety` | `Spec => []PromptDetection` |
| `RevealNeedsAllHolds` | `KeeperPromise` | `Spec => []RevealNeedsAll` |
| `BurnOrderHolds` | `KeeperPromise` | `Spec => []BurnOrder` |
| `ExitWipesHolds` | `KeeperPromise` | `Spec => []ExitWipes` |
| `GentleHolds` | `KeeperPromise` | `Spec => []Gentle` |
| `RunKeepsPromise` | `KeeperPromise` | `Spec => KeepsPromise`, the refinement of `Envelope` |
| `GateTypes` | `GateProofs` | `Spec => []TypeOK` of `TimeGate` |
| `NeverFarEarlyHolds` | `GateProofs` | `Spec => NeverFarEarly` |
| `HonestTimeAcceptedHolds` | `GateProofs` | `Unwrapped`: `Spec => HonestTimeAccepted` |
| `HonestMajorityHolds` | `GateProofs` | `Unwrapped`: `Spec => []HonestMajorityRules` |
| `ReaderTypes` | `ReaderProofs` | `Spec => []TypeOK` of `Reader` |
| `BurnNeedsLetterHolds` | `ReaderProofs` | `Spec => []BurnNeedsLetter` of `Reader` |
| `CleanScreenHolds` | `ReaderProofs` | `Spec => []CleanScreen` of `Reader` |
| `KeepsScreensHolds` | `ReaderProofs` | `Spec => KeepsScreens`: `Reader` refines the screens of `Keeper` |
| `TextKeptHolds` | `ReaderProofs` | `Spec => []TextKept` of `Reader` |
| `LineAsEditedHolds` | `ReaderProofs` | `Spec => []LineAsEdited` of `Reader` |
| `LayersTypes` | `LayersProofs` | `Spec => []TypeOK` of `Layers` |
| `SealOpensHolds` | `LayersProofs` | `Spec => []SealOpens` |
| `ShardsBindHolds` | `LayersProofs` | `Spec => []ShardsBind` |
| `TextFitsHolds` | `LayersProofs` | `Spec => []TextFits` |
| `BarredAsListedHolds` | `LayersProofs` | `Spec => []BarredAsListed` |
| `AlteredSivRefusedHolds` | `LayersProofs` | `Spec => []AlteredSivRefused` |
| `TagsDifferHolds` | `LayersProofs` | `Spec => []TagsDiffer` |
| `CountersCountHolds` | `LayersProofs` | `CountersEnough`: `Spec => []CountersCount` |
| `KeepsUnsealHolds` | `LayersProofs` | `Spec => KeepsUnseal`, the refinement of `Keeper`'s steps |
| `VmTypes` | `VmSafety` | `Spec => []TypeOK` of `VmProgram` |
| `OverflowForeseenHolds` | `VmSafety` | `Spec => []OverflowForeseen` of `VmProgram` |
| `SealedKeyRebuiltHolds` | `VmSafety` | `RoomForTwo`: `Spec => []SealedKeyRebuilt` of `VmProgram` |
| `EpochDay` | `CalendarProofs` | day 0 is 1 January 1970 |
| `CivilFollows` | `CalendarProofs` | the day after any day has the next Gregorian date |
| `TimesFollow` | `CalendarProofs` | the next second has the next time |

`Unwrapped` says that no time of the model reaches the end of the NTP era; the
run `gate_era` shows what becomes of `HonestTimeAccepted` without it.
`RoomForTwo` says that the VM's stack has at least three cells (the code's has
16): two for the sealed program, and one because the check rejects a full one.
`CountersEnough` says that no text has more blocks than there are counters
(2^128 in the code).

None of the invariants is inductive as it stands. The strengthenings are:

- `ClockInv` (for `NoFault`): while main burns and the thread is alive, the
  time burned plus the rest of the thread's round never exceeds a sleep and the
  slack, so with `LongBurn` the thread is gone before the burning is over. The
  rest shrinks with each tick as the burn grows; a new round needs `running`,
  which is false by then.
- `BeatInv` (for `NeverStale`): the heartbeat is no older than what the places
  since the last beat could take (`Before`) plus the time at this one. It needs
  `ClockInv`, for the places after the burning do not beat.
- `LookInv` (for `PromptDetection`): the ticks since the tampering began plus
  those until the thread next looks are bounded; a tick moves one from the
  second to the first, a look at what is tampered with ends the process.
- `PathInv` and `EndInv` (for the others of `Keeper`): which checks lie behind
  each place, and what the ending has done to buffers and file at each place.
- `PeaceInv` (for `Gentle`): while nobody tampers and `/proc` can be read, what
  the watchdog compares stays what it was when it was started, the key page that
  of the VM until main burns; each check then has no reason to end the process
  but staleness, which `BeatInv` leaves to a prompt that blocks.
- `TypeInv` (for `GateTypes`): while hosts are asked there are as many answers
  as threads that are done, so never more than hosts.
- `EarlyInv` (for `NeverFarEarly`): half the difference between an answer's time
  and its drift is the wall clock it was measured with, and that one was the
  anchor's or the stepped one, not later than now.
- `HonestInv` (for the two others of the gate): without a step, the first
  reading was taken at the sending, an honest transmit time lies between both
  readings, and so an honest drift is at most twice the clock's offset and the
  time the answer took. An answer like that is within the limit, or:
- `MajorityInv`: were the verdict's drift larger than an honest one, all honest
  answers would stand before the middle, which are at most half.
- `RoomInv` (for `OverflowForeseen`): between turns, an accepted program has room
  for one more cell, because the turn before ended with the overflow check.
- `ProgInv` (for `VmTypes`): a sealed program is made of instructions the build
  writes, whose operands are words.
- `SealInv` (for `SealedKeyRebuilt`): a sealed program is at some instruction of
  some byte of the key. That says what is on the stack (`Loaded`), and the bytes
  before it have been rebuilt. Where the instructions of a byte begin is the
  length of the flattened blocks before (`ProgramSays`); that a word masked
  twice is itself rests on the bits of a number telling it (`BitsTell`), by
  induction over the width.
- `CutInv` and `BurnInv` (for `BurnNeedsLetter`): the two marks in what was typed
  stay in order, and where the dialog is met its `q` has been read.
- `ScreenInv` (for `CleanScreen`): from the drawing of a page until its keys are
  read the body shows that page, the rows from its last one on the hint once
  there is one, and outside both is the frame; a dialog lies within the body and
  is drawn over again.
- `PipeInv` (for `KeepsScreens`): a pipe is at the password, at its one page or
  past it, never at the hint, a key or the dialog.
- `LineInv` (for `LineAsEdited`): while a password is typed, the line is what
  editing makes of all that was read since it was asked for, wherever the reads
  cut it, and on a pipe all that was read. That editing keeps what a person meant (`EditInv`) goes by induction
  over the bytes: it needs how far each survivor's characters are ahead of the
  backspaces that follow it.
- `TextInv` (for `TextKept`): `content` is the text wrapped; what wrapping keeps
  is proved of a line by induction over its characters, of a text over its
  lines. `ReaderInv` adds the types of the screen.
- `LayInv` (for `SealOpens`, `ShardsBind`, `TextFits`, `BarredAsListed`): which
  blobs have been seen to be whole at each place (`Checked`), what the content
  key and the sum of the shards are from then on (`DekKnown`), what the two
  signatures bind (`SignedKnown`), and that no run dies without a damaged blob or
  a barred call (`EndsFor`). `AsInv` puts it in `Keeper`'s words for the
  refinement. What the filter returns (`FilterSays`) goes by induction over the
  list, instruction by instruction.

Induction over data is done over sets: `NatInductIn` and `SeqInduct` of module
`Induction` take the set of those numbers or sequences that have the property,
where the library's theorems take an operator. What a fold or `FlattenSeq` does
at each element (`FoldAppend`, `FlattenAppend`, `FlattenAt`) is proved there from
the community modules' definitions, for an operator that is a constant of the
module; those who fold instantiate it with theirs.

The calendar needs no invariant: a day is split into era, century, and spans of
1460 days, the correction `doe / 1460` is eliminated by bounding the quotient,
and years and months are compared by where they begin.

`CountersCount` needs no invariant but the types: what the lowest digits of a
counter stand for grows by one with `Inc`, or falls from the largest to nought
where all of them carry (`IncCounts`, by induction over the digits); so after k
blocks it is k more, or k more less the period (`OrdinalCounts`), and two blocks
never meet the same.

Model-checked only: the liveness properties (`PipedRunEnds`, `BurningEnds`,
`SyncEnds`, `KernelDrained`, `HangUpEnds`), which with fairness and `ENABLED` are
out of the prover's reach. Every invariant and action property of a passing run
is stated by a theorem.

## 5. What is not modelled

- The primitives of vendored crates; they are ideal in `Layers` and `Siv`.
- Drawing, wording, `parse_meta`, animations but for their length and beats,
  resized windows, escape sequences in the text, and what invalid UTF-8 is
  shown as.
- The kernel's line editing between the prompts, and `poll()` failing.
- Key generation and the output of `build.rs` beyond what it seals; Argon2 and
  the password's check are one outcome in `Keeper`.
- `check_injection`'s reading of `/proc/self/maps`, and the signals that are
  ignored: a check that may refuse, and no state.
- A process stopped and continued, or blocked on a full pipe, is outside the
  scheduling bounds of `Keeper`. `tty` does not change within a run of `Keeper`;
  hangups are modelled in `Reader`, after the password.
- Two steps of the wall clock that cancel between the two looks of
  `ClockAnchor::sane` go unnoticed by the code; the model steps it at most once.
- Copies of secrets on the heap: `Keeper` follows the two `SecBuf`s.
- stdin's buffer of 8 KiB is never filled in `Reader`. Its `newline` stands for
  `\n` and, on a terminal, `\r`; that a pipe's line loses its trailing `\r`s is
  left out.
- A terminal so narrow or low that hint or box reach past its last row scrolls.
- What a failed `remove_file` leaves behind: `KeepsPromise` and `BurnOrder` say
  when the file may go, and nothing says that it must.

## 6. Plan

Done: `Envelope`, `Watchdog`, `Keeper`, `TimeGate`, `RustyVM`, `VmProgram`,
`Reader`, `Siv`, `Filter`, `Layers`, `Calendar`, and the theorems above.

Left, in order of weight:

1. Time in `Reader`: that its steps beat as `Keeper`'s `Tick` supposes, and a
   hangup in `Keeper`, where `ExitWipes` stops short of it.
2. `check_injection` over small maps, with the static and the dynamic build.

Composition: `Keeper` is the whole. `Layers` refines its `PassGate` and
`Unseal` (`KeepsUnseal`), `Reader` its `ShowPiped` and `KeyStep`
(`KeepsScreens`). `TimeGate` details its `SyncAll` and `PassGate`, and is joined
to it by the abstraction described in section 2, by no refinement.
