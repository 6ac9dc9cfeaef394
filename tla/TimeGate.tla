------------------------------ MODULE TimeGate ------------------------------
(***************************************************************************)
(* How a run decides that the hour has come: the NTP queries of            *)
(* src/ntp.rs on their threads, the consensus of src/main.rs over what     *)
(* they bring in time, the custom host asked when they bring nothing, the  *)
(* clock anchor of src/harden.rs, and the comparison with the opening.     *)
(*                                                                         *)
(* Time is counted in whole ticks; now is the true time, and what          *)
(* CLOCK_MONOTONIC counts.  The wall clock is off by a number of ticks,    *)
(* and may be stepped.  A reply takes the mean of two readings of the wall *)
(* clock, so what a query returns is counted in half ticks.                *)
(***************************************************************************)
EXTENDS Integers, Sequences, FiniteSets

CONSTANTS
  Servers,     \* the hosts that may be asked
  Honest,      \* those among them that tell the true time
  Lies,        \* by how much the others may be off
  Limit,       \* CLOCK_DRIFT_LIMIT_SECONDS
  JumpLimit,   \* how far the wall clock may leave the anchor (2 s)
  Deadline,    \* how long sync_all waits (4 s)
  Timeout,     \* how long a query waits for its reply (3 s)
  Era,         \* how many ticks an NTP timestamp counts before it wraps
  EraOffset,   \* how many of them had passed at time 0
  Opening,     \* OPEN_TIMESTAMP_UNIX_SECONDS
  Starts,      \* when a run may start
  Offsets,     \* how far off the wall clock may then be
  Steps,       \* by how much it may be stepped, once
  Horizon      \* when the model's time ends

ASSUME HonestAssumption == IsFiniteSet(Servers) /\ Honest \subseteq Servers
ASSUME NumbersAssumption ==
  /\ {Limit, JumpLimit, Deadline, Timeout, EraOffset, Opening, Horizon}
       \subseteq Nat
  /\ Era \in Nat \ {0}
  /\ Starts \subseteq Nat
  /\ Lies \subseteq Int /\ Offsets \subseteq Int /\ Steps \subseteq Int

VARIABLES
  now,      \* the true time
  off,      \* the wall clock minus the true time
  stepped,  \* history: has the wall clock been stepped?
  place,    \* where main() is
  anchor,   \* the offset the ClockAnchor remembers: wall0 - mono0
  asked,    \* the hosts being asked
  began,    \* when they were
  query,    \* the query of each host
  results,  \* what queries have returned, in order
  verdict   \* ntp_now and ntp_drift, in half ticks

clockVars == <<off, stepped>>
vars == <<now, clockVars, place, anchor, asked, began, query, results, verdict>>

Wall == now + off

\* A query whose times mean nothing: not begun, or over.
Past(how) == [st |-> how, sentAt |-> 0, t1 |-> 0, tx |-> 0]
Idle == Past("idle")
Reading == [n : Int, d : Int]
Result == [host : Servers, n : Int, d : Int]

TypeOK ==
  /\ now \in Nat /\ began \in Nat
  /\ off \in Int /\ anchor \in Int
  /\ stepped \in BOOLEAN
  /\ place \in {"anchor", "sync", "custom", "gate", "open", "refused"}
  /\ asked \subseteq Servers
  /\ query \in [Servers -> [st : {"idle", "sent", "replied", "done", "failed"},
                            sentAt : Nat, t1 : Int, tx : Int]]
  /\ results \in Seq(Result) /\ Len(results) <= Cardinality(asked)
  /\ verdict \in Reading

Init ==
  /\ now \in Starts
  /\ off \in Offsets
  /\ stepped = FALSE
  /\ place = "anchor" /\ anchor = 0
  /\ asked = {} /\ began = 0
  /\ query = [s \in Servers |-> Idle]
  /\ results = <<>>
  /\ verdict = [n |-> 0, d |-> 0]

-----------------------------------------------------------------------------
(* A query, on a thread of its own.                                        *)

\* The transmit timestamp has 32 bits of seconds: it starts anew every Era.
Wrapped(t) == (t + EraOffset) % Era

\* Mutant of Timestamp: the seconds are read as a signed number.
TimestampSigned(t) ==
  (IF 2 * Wrapped(t) < Era THEN Wrapped(t) ELSE Wrapped(t) - Era) - EraOffset

Timestamp(t) == Wrapped(t) - EraOffset

\* What server s may take the time to be.
Clock(s) == IF s \in Honest THEN {now} ELSE {now + lie : lie \in Lies}

Running == place \in {"sync", "custom"}

\* t1 is read and the packet sent.
Send(s) ==
  /\ Running /\ s \in asked /\ query[s].st = "idle"
  /\ query' = [query EXCEPT ![s] = [st |-> "sent", sentAt |-> now,
                                    t1 |-> Wall, tx |-> 0]]
  /\ UNCHANGED <<now, clockVars, place, anchor, asked, began, results, verdict>>

\* The server answers, or its answer starts on its way.
Reply(s) ==
  /\ query[s].st = "sent"
  /\ \E t \in Clock(s) :
       query' = [query EXCEPT ![s].st = "replied", ![s].tx = Timestamp(t)]
  /\ UNCHANGED <<now, clockVars, place, anchor, asked, began, results, verdict>>

\* server_now = tx + (t2 - t1) / 2 and drift = server_now - t2, in half ticks.
Measured(tx, t1, t2) ==
  [n |-> 2 * tx + (t2 - t1), d |-> 2 * tx + (t2 - t1) - 2 * t2]

\* The answer arrives within the receive timeout, and the thread pushes what
\* it makes of it.  Pushed after sync_all has returned, it is lost.
Receive(s) ==
  /\ Running /\ query[s].st = "replied"
  /\ now <= query[s].sentAt + Timeout
  /\ LET m == Measured(query[s].tx, query[s].t1, Wall)
     IN  results' = Append(results, [host |-> s, n |-> m.n, d |-> m.d])
  /\ query' = [query EXCEPT ![s] = Past("done")]
  /\ UNCHANGED <<now, clockVars, place, anchor, asked, began, verdict>>

\* No socket, no address, a short packet, or no answer in time.
Fail(s) ==
  /\ Running /\ s \in asked
  /\ query[s].st \in {"idle", "sent", "replied"}
  /\ query' = [query EXCEPT ![s] = Past("failed")]
  /\ UNCHANGED <<now, clockVars, place, anchor, asked, began, results, verdict>>

Finished == \A s \in asked : query[s].st \in {"done", "failed"}

-----------------------------------------------------------------------------
(* The main thread.                                                        *)

Abs(x) == IF x < 0 THEN -x ELSE x

InLimit(r) == Abs(r.d) < 2 * Limit

\* The places of the answers that count.
Accepted(rs) == {i \in DOMAIN rs : InLimit(rs[i])}

\* Those in good that stand before the i-th of rs when they are sorted
\* by the size of the drift; the sort is stable.
Before(rs, good, i) ==
  {j \in good :
     \/ Abs(rs[j].d) < Abs(rs[i].d)
     \/ Abs(rs[j].d) = Abs(rs[i].d) /\ j < i}

\* Mutant of Middle: the one that differs most.
MiddleLast(good) == Cardinality(good) - 1

\* The place of the consensus among them.
Middle(good) == Cardinality(good) \div 2

\* Mutant of Ask: what other hosts answered is kept.
AskOnTop(hs) ==
  /\ asked' = hs /\ began' = now
  /\ query' = [s \in Servers |-> Idle]
  /\ UNCHANGED results

\* Ask the hosts hs.
Ask(hs) ==
  /\ asked' = hs /\ began' = now
  /\ query' = [s \in Servers |-> Idle]
  /\ results' = <<>>

\* ClockAnchor::new(), then sync_all spawns a thread per host.
Anchor ==
  /\ place = "anchor"
  /\ anchor' = off
  /\ place' = "sync" /\ Ask(Servers)
  /\ UNCHANGED <<now, clockVars, verdict>>

\* The consensus is the one in the middle of those within the limit, and what
\* the threads still bring is lost; if there is none, a person names a host.
Decide ==
  LET good == Accepted(results)
  IN  \/ \E i \in good :
           /\ Cardinality(Before(results, good, i)) = Middle(good)
           /\ verdict' = [n |-> results[i].n, d |-> results[i].d]
           /\ place' = "gate"
           /\ UNCHANGED <<asked, began, results>>
           /\ query' = [h \in Servers |-> Idle]
      \/ /\ good = {}
         /\ place' = "custom"
         /\ \E s \in Servers : Ask({s})
         /\ UNCHANGED verdict

\* Mutant of SyncDone: sync_all joins its threads, however long they take.
SyncJoins ==
  /\ place = "sync" /\ Finished
  /\ Decide
  /\ UNCHANGED <<now, clockVars, anchor>>

\* sync_all returns when its threads have finished, or at its deadline.
SyncDone ==
  /\ place = "sync"
  /\ Finished \/ now >= began + Deadline
  /\ Decide
  /\ UNCHANGED <<now, clockVars, anchor>>

\* The custom host's answer must be within the limit too.
CustomDone ==
  /\ place = "custom" /\ Finished
  /\ IF Accepted(results) # {}
       THEN /\ verdict' = [n |-> results[1].n, d |-> results[1].d]
            /\ place' = "gate"
       ELSE place' = "refused" /\ UNCHANGED verdict
  /\ UNCHANGED <<now, clockVars, anchor, asked, began, query, results>>

\* Mutant of Sane: the anchor is not looked at again.
SaneAlways == TRUE

\* anchor.sane(): the wall clock still is where it was, give or take.
Sane == Abs(off - anchor) < JumpLimit

\* Past the second look at the anchor, the whole ticks of ntp_now decide.
Gate ==
  /\ place = "gate"
  /\ place' = IF Sane /\ verdict.n \div 2 >= Opening THEN "open" ELSE "refused"
  /\ UNCHANGED <<now, clockVars, anchor, asked, began, query, results, verdict>>

-----------------------------------------------------------------------------
(* The clocks.                                                             *)

\* A query is not waited for beyond its timeout, nor sync_all beyond its
\* deadline; a packet may be as late as it likes.
Overdue ==
  \/ place = "sync" /\ now >= began + Deadline
  \/ place = "custom" /\ \E s \in asked :
       query[s].st \in {"sent", "replied"} /\ now >= query[s].sentAt + Timeout

Tick ==
  /\ Running \/ place = "gate"
  /\ ~Overdue /\ now < Horizon
  /\ now' = now + 1
  /\ UNCHANGED <<clockVars, place, anchor, asked, began, query, results, verdict>>

\* The wall clock is set, once in a run.
Step ==
  /\ ~stepped /\ place \notin {"open", "refused"}
  /\ \E j \in Steps : off' = off + j
  /\ stepped' = TRUE
  /\ UNCHANGED <<now, place, anchor, asked, began, query, results, verdict>>

Thread(s) == Send(s) \/ Reply(s) \/ Receive(s) \/ Fail(s)

Next ==
  \/ \E s \in Servers : Thread(s)
  \/ Anchor \/ SyncDone \/ CustomDone \/ Gate
  \/ Tick \/ Step

Spec == Init /\ [][Next]_vars

\* The main thread runs and time passes; no server need ever answer.
FairSpec ==
  Spec /\ WF_vars(Tick) /\ WF_vars(Anchor \/ SyncDone \/ CustomDone \/ Gate)

-----------------------------------------------------------------------------
(* Properties.                                                             *)

\* However the servers lie, and whatever becomes of the wall clock meanwhile,
\* the envelope does not open more than the drift limit, and what the anchor
\* tolerates, before the clock the run began with strikes the hour: an answer
\* counts only near the wall clock, and a wall clock that left the anchor is
\* refused (consensus, ClockAnchor::sane).
NeverFarEarly ==
  [][place = "gate" /\ place' = "open" =>
       Opening < now + anchor + Limit + IF stepped THEN JumpLimit ELSE 0]_vars

HonestAmong(rs) == {i \in DOMAIN rs : rs[i].host \in Honest}

\* As long as the honest servers are more than half of those that count, the
\* others cannot open the envelope early, though the consensus is a median of
\* drifts and not of times: its drift is at most that of an honest server,
\* which is the offset of the wall clock and half a round trip.
HonestMajorityRules ==
  /\ place = "open" /\ ~stepped
  /\ 2 * Cardinality(HonestAmong(results) \cap Accepted(results))
       > Cardinality(Accepted(results))
  => 2 * Opening <= 2 * now + 4 * Abs(off) + Timeout

\* Nobody whose clock is right is turned away from servers that are: when the
\* consensus fails, no honest server has answered a run whose wall clock is
\* within the limit less half a round trip (query, consensus).
HonestTimeAccepted ==
  [][/\ place = "sync" /\ place' = "custom" /\ ~stepped
     /\ 2 * Abs(off) + Timeout < 2 * Limit
     => HonestAmong(results) = {}]_vars

\* sync_all returns, though a query never does: threads are not joined.
SyncEnds == place = "sync" ~> place # "sync"
=============================================================================
