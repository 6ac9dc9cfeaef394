----------------------------- MODULE GateProofs -----------------------------
(***************************************************************************)
(* Proofs about TimeGate: its types, that the gate never opens far before  *)
(* the hour (NeverFarEarly), that honest time is accepted and an honest    *)
(* majority cannot be outvoted (HonestTimeAccepted, HonestMajorityRules).  *)
(* The last two need timestamps that do not wrap.                          *)
(***************************************************************************)
EXTENDS TimeGate, FiniteSetTheorems, TLAPS

-----------------------------------------------------------------------------
(* Types.                                                                  *)

Done == {s \in asked : query[s].st = "done"}

\* While hosts are being asked, each answer in results is that of one which
\* is done; so there are no more answers than hosts.
TypeInv ==
  /\ now \in Nat /\ began \in Nat
  /\ off \in Int /\ anchor \in Int
  /\ stepped \in BOOLEAN
  /\ place \in {"anchor", "sync", "custom", "gate", "open", "refused"}
  /\ asked \subseteq Servers
  /\ query \in [Servers -> [st : {"idle", "sent", "replied", "done", "failed"},
                            sentAt : Nat, t1 : Int, tx : Int]]
  /\ results \in Seq(Result) /\ verdict \in Reading
  /\ \A s \in Servers : query[s].st # "idle" => s \in asked
  /\ Running => Len(results) = Cardinality(Done)
  /\ Len(results) <= Cardinality(asked)
  /\ place = "custom" => \E s \in Servers : asked = {s}

\* Finite sets of hosts.
LEMMA AskedFinite ==
  ASSUME asked \subseteq Servers
  PROVE  /\ IsFiniteSet(asked) /\ IsFiniteSet(Done)
         /\ Cardinality(asked) \in Nat /\ Cardinality(Done) \in Nat
         /\ Cardinality(Done) <= Cardinality(asked)
<1>1. IsFiniteSet(asked)
  BY FS_Subset, HonestAssumption
<1>2. Done \in SUBSET asked
  BY DEF Done
<1> QED
  BY <1>1, <1>2, FS_Subset, FS_CardinalityType

\* A server's clock, and what its timestamp says, are whole numbers.
LEMMA TimestampInt ==
  ASSUME NEW t \in Int
  PROVE  Timestamp(t) \in Int
BY NumbersAssumption DEF Timestamp, Wrapped

LEMMA ClockInt ==
  ASSUME now \in Nat, NEW s, NEW t \in Clock(s)
  PROVE  t \in Int
BY NumbersAssumption DEF Clock

\* A sequence longer by one.
LEMMA Longer ==
  ASSUME NEW S, NEW q \in Seq(S), NEW e \in S
  PROVE  /\ Append(q, e) \in Seq(S)
         /\ Len(Append(q, e)) = Len(q) + 1
         /\ \A i \in DOMAIN Append(q, e) :
              \/ i = Len(q) + 1 /\ Append(q, e)[i] = e
              \/ i \in DOMAIN q /\ Append(q, e)[i] = q[i]
OBVIOUS

\* Asking new hosts starts anew.
LEMMA AskTypes ==
  ASSUME NEW hs \in SUBSET Servers, now \in Nat, Ask(hs)
  PROVE  /\ asked' = hs /\ began' \in Nat
         /\ query' \in [Servers -> [st : {"idle", "sent", "replied", "done", "failed"},
                                    sentAt : Nat, t1 : Int, tx : Int]]
         /\ \A s \in Servers : query'[s] = Idle
         /\ results' = <<>> /\ results' \in Seq(Result) /\ Len(results') = 0
         /\ Cardinality(Done') = 0
         /\ Cardinality(asked') \in Nat
<1>1. Idle \in [st : {"idle", "sent", "replied", "done", "failed"},
                sentAt : Nat, t1 : Int, tx : Int] /\ Idle.st = "idle"
  BY DEF Idle, Past
<1>2. Done' = {}
  BY <1>1 DEF Ask, Done
<1>3. Cardinality(hs) \in Nat
  BY FS_Subset, FS_CardinalityType, HonestAssumption
<1> QED
  BY <1>1, <1>2, <1>3, FS_EmptySet DEF Ask

\* What an answer holds.
LEMMA AnswerTypes ==
  ASSUME results \in Seq(Result), NEW i \in DOMAIN results
  PROVE  /\ results[i].host \in Servers
         /\ results[i].n \in Int /\ results[i].d \in Int
<1>1. results[i] \in Result
  OBVIOUS
<1> QED
  BY <1>1 DEF Result

LEMMA TypeInit == Init => TypeInv
<1> SUFFICES ASSUME Init PROVE TypeInv
  OBVIOUS
<1>1. Idle \in [st : {"idle", "sent", "replied", "done", "failed"},
                sentAt : Nat, t1 : Int, tx : Int] /\ Idle.st = "idle"
  BY DEF Idle, Past
<1>2. Cardinality(asked) = 0
  BY FS_EmptySet DEF Init
<1>3. now \in Nat /\ off \in Int /\ anchor \in Int /\ began \in Nat
  BY NumbersAssumption DEF Init
<1>4. /\ results \in Seq(Result) /\ Len(results) = 0
      /\ verdict \in Reading
      /\ query = [s \in Servers |-> Idle] /\ asked = {} /\ place = "anchor"
      /\ stepped = FALSE
  BY DEF Init, Reading
<1>5. query \in [Servers -> [st : {"idle", "sent", "replied", "done", "failed"},
                            sentAt : Nat, t1 : Int, tx : Int]]
  BY <1>1, <1>4
<1>6. \A s \in Servers : query[s].st = "idle"
  BY <1>1, <1>4
<1>7. stepped \in BOOLEAN
  BY DEF Init
<1>8. asked \subseteq Servers /\ ~Running /\ place = "anchor"
      /\ Len(results) <= Cardinality(asked)
  BY <1>2, <1>4 DEF Running
<1>9. results \in Seq(Result) /\ verdict \in Reading
  BY <1>4
<1> QED
  BY <1>3, <1>5, <1>6, <1>7, <1>8, <1>9 DEF TypeInv

LEMMA TypeStep == TypeInv /\ [Next]_vars => TypeInv'
<1> SUFFICES ASSUME TypeInv, [Next]_vars PROVE TypeInv'
  OBVIOUS
<1> USE DEF TypeInv
<1>0. Cardinality(Done) \in Nat /\ Cardinality(asked) \in Nat
      /\ IsFiniteSet(Done) /\ IsFiniteSet(asked)
  BY AskedFinite
<1>1. ASSUME NEW s \in Servers, Send(s) PROVE TypeInv'
  <2>1. Wall \in Int
    BY DEF Wall
  <2>2. Done' = Done
    BY <1>1 DEF Send, Done
  <2> QED
    BY <1>1, <2>1, <2>2 DEF Send, clockVars, Running
<1>2. ASSUME NEW s \in Servers, Reply(s) PROVE TypeInv'
  <2>1. PICK t \in Clock(s) :
          query' = [query EXCEPT ![s].st = "replied", ![s].tx = Timestamp(t)]
    BY <1>2 DEF Reply
  <2>2. Timestamp(t) \in Int
    BY ClockInt, TimestampInt
  <2>3. Done' = Done
    BY <1>2, <2>1 DEF Reply, Done
  <2>4. query' \in [Servers -> [st : {"idle", "sent", "replied", "done", "failed"},
                                sentAt : Nat, t1 : Int, tx : Int]]
    BY <2>1, <2>2
  <2>5. \A z \in Servers : query'[z].st # "idle" => query[z].st # "idle"
    BY <1>2, <2>1 DEF Reply
  <2> QED
    BY <1>2, <2>3, <2>4, <2>5 DEF Reply, clockVars, Running
<1>3. ASSUME NEW s \in Servers, Receive(s) PROVE TypeInv'
  <2> DEFINE m == Measured(query[s].tx, query[s].t1, Wall)
             r == [host |-> s, n |-> m.n, d |-> m.d]
  <2>1. r \in Result
    BY DEF Measured, Wall, Result
  <2>2. results' = Append(results, r)
    BY <1>3 DEF Receive
  <2>3. results' \in Seq(Result) /\ Len(results') = Len(results) + 1
    BY <2>1, <2>2, Longer
  <2>4. Done' = Done \cup {s} /\ s \notin Done
    BY <1>3 DEF Receive, Done, Past
  <2>5. Cardinality(Done') = Cardinality(Done) + 1
    BY <1>0, <2>4, FS_AddElement
  <2>6. Past("done") \in [st : {"idle", "sent", "replied", "done", "failed"},
                          sentAt : Nat, t1 : Int, tx : Int]
    BY DEF Past
  <2>7. asked' = asked /\ s \in asked /\ Running /\ Running'
    BY <1>3 DEF Receive, Running
  <2>8. Cardinality(Done') <= Cardinality(asked)
    <3>1. Done' \in SUBSET asked
      BY <2>4, <2>7 DEF Done
    <3> QED
      BY <1>0, <3>1, FS_Subset
  <2> QED
    BY <1>3, <2>3, <2>5, <2>6, <2>7, <2>8 DEF Receive, clockVars, Running
<1>4. ASSUME NEW s \in Servers, Fail(s) PROVE TypeInv'
  <2>1. Past("failed") \in [st : {"idle", "sent", "replied", "done", "failed"},
                            sentAt : Nat, t1 : Int, tx : Int]
        /\ Past("failed").st = "failed"
    BY DEF Past
  <2>2. Done' = Done
    BY <1>4, <2>1 DEF Fail, Done
  <2> QED
    BY <1>4, <2>1, <2>2 DEF Fail, clockVars, Running
<1>5. ASSUME Anchor PROVE TypeInv'
  <2>1. Ask(Servers)
    BY <1>5 DEF Anchor
  <2> QED
    BY <1>5, <2>1, AskTypes DEF Anchor, clockVars, Running, Idle, Past
<1>6. ASSUME SyncDone PROVE TypeInv'
  <2>1. CASE \E i \in Accepted(results) :
               /\ verdict' = [n |-> results[i].n, d |-> results[i].d]
               /\ place' = "gate" /\ UNCHANGED <<asked, began, results>>
               /\ query' = [h \in Servers |-> Idle]
    <3>1. verdict' \in Reading
      <4>1. PICK i \in Accepted(results) :
              verdict' = [n |-> results[i].n, d |-> results[i].d]
        BY <2>1
      <4> QED
        BY <4>1, AnswerTypes DEF Accepted, Reading
    <3>2. Idle \in [st : {"idle", "sent", "replied", "done", "failed"},
                    sentAt : Nat, t1 : Int, tx : Int] /\ Idle.st = "idle"
      BY DEF Idle, Past
    <3> QED
      BY <1>6, <2>1, <3>1, <3>2 DEF SyncDone, clockVars, Running
  <2>2. CASE \E s \in Servers : Ask({s}) /\ place' = "custom" /\ UNCHANGED verdict
    <3>1. PICK s \in Servers : Ask({s})
      BY <2>2
    <3> QED
      BY <1>6, <2>2, <3>1, AskTypes DEF SyncDone, clockVars, Running, Idle, Past
  <2> QED
    BY <1>6, <2>1, <2>2 DEF SyncDone, Decide
<1>7. ASSUME CustomDone PROVE TypeInv'
  <2>1. CASE Accepted(results) # {}
    <3>1. 1 \in DOMAIN results
      BY <2>1 DEF Accepted
    <3>2. verdict' \in Reading
      BY <1>7, <2>1, <3>1, AnswerTypes DEF CustomDone, Reading
    <3> QED
      BY <1>7, <2>1, <3>2 DEF CustomDone, clockVars, Running, Done
  <2>2. CASE Accepted(results) = {}
    BY <1>7, <2>2 DEF CustomDone, clockVars, Running, Done
  <2> QED
    BY <2>1, <2>2
<1>8. CASE Gate
  BY <1>8 DEF Gate, clockVars, Running, Done
<1>9. CASE Tick
  BY <1>9 DEF Tick, clockVars, Running, Done
<1>10. CASE Step
  BY <1>10, NumbersAssumption DEF Step, Running, Done
<1>11. CASE UNCHANGED vars
  BY <1>11 DEF vars, clockVars, Running, Done
<1> QED
  BY <1>1, <1>2, <1>3, <1>4, <1>5, <1>6, <1>7, <1>8, <1>9, <1>10, <1>11
     DEF Next, Thread

LEMMA TypeInvHolds == Spec => []TypeInv
BY TypeInit, TypeStep, PTL DEF Spec

\* Type correctness of the time gate: among others, no host's answer is
\* counted twice.
THEOREM GateTypes == Spec => []TypeOK
<1>1. TypeInv => TypeOK
  BY DEF TypeInv, TypeOK
<1> QED
  BY <1>1, TypeInvHolds, PTL

-----------------------------------------------------------------------------
(* Never far before the hour.                                              *)

\* The wall clock that an answer was measured with, half of n - d, was the one
\* of the anchor or, once it has been stepped, the one there is now.
Near(n, d) ==
  \/ n - d <= 2 * (now + anchor)
  \/ stepped /\ n - d <= 2 * (now + off)

EarlyInv ==
  /\ place # "anchor" /\ ~stepped => off = anchor
  /\ \A i \in DOMAIN results : Near(results[i].n, results[i].d)
  /\ place = "gate" => Near(verdict.n, verdict.d) /\ InLimit(verdict)

LEMMA Later ==
  ASSUME NEW a \in Int, NEW b \in Int, NEW c \in Int, NEW e \in Int,
         a <= b, e <= 2 * (a + c)
  PROVE  e <= 2 * (b + c)
OBVIOUS

\* What was near stays near, as time passes and when the clock is stepped.
LEMMA StillNear ==
  ASSUME now \in Nat, now' \in Nat, now <= now',
         off \in Int, off' \in Int, anchor \in Int, anchor' = anchor,
         stepped => stepped' /\ off' = off,
         NEW n \in Int, NEW d \in Int, Near(n, d)
  PROVE  Near(n, d)'
<1>0. n - d \in Int /\ now \in Int /\ now' \in Int
  OBVIOUS
<1>1. n - d <= 2 * (now + anchor) => n - d <= 2 * (now' + anchor')
  BY <1>0, Later
<1>2. off' = off /\ n - d <= 2 * (now + off) => n - d <= 2 * (now' + off')
  BY <1>0, Later
<1> QED
  BY <1>1, <1>2, Zenon DEF Near

\* A measurement tells the wall clock it was made with.
LEMMA MeasuredWall ==
  ASSUME NEW tx \in Int, NEW t1 \in Int, NEW t2 \in Int
  PROVE  /\ Measured(tx, t1, t2).n \in Int /\ Measured(tx, t1, t2).d \in Int
         /\ Measured(tx, t1, t2).n - Measured(tx, t1, t2).d = 2 * t2
         /\ Measured(tx, t1, t2).d = 2 * tx - t1 - t2
BY DEF Measured

\* The last answer is the one received, and the others are those before.
LEMMA Received ==
  ASSUME TypeInv, NEW s \in Servers, Receive(s)
  PROVE  LET m == Measured(query[s].tx, query[s].t1, Wall)
         IN  \A i \in DOMAIN results' :
               \/ results'[i] = [host |-> s, n |-> m.n, d |-> m.d]
               \/ i \in DOMAIN results /\ results'[i] = results[i]
<1> DEFINE m == Measured(query[s].tx, query[s].t1, Wall)
           r == [host |-> s, n |-> m.n, d |-> m.d]
<1>1. r \in Result
  BY DEF TypeInv, Measured, Wall, Result
<1>2. results' = Append(results, r)
  BY DEF Receive
<1> QED
  BY <1>1, <1>2, Longer DEF TypeInv

\* The i-th answer is the one in the middle of those that count.
Median(i) ==
  /\ i \in Accepted(results)
  /\ Cardinality(Before(results, Accepted(results), i))
       = Middle(Accepted(results))

\* Whoever decides for the gate does so on the answer in the middle.
LEMMA Decided ==
  ASSUME TypeInv, SyncDone \/ CustomDone, place' = "gate"
  PROVE  /\ results' = results
         /\ \E i \in Accepted(results) :
              Median(i) /\ verdict' = [n |-> results[i].n, d |-> results[i].d]
<1>1. CASE SyncDone
  BY <1>1 DEF SyncDone, Decide, Median
<1>2. CASE CustomDone
  <2>1. Accepted(results) # {} /\ results' = results
        /\ verdict' = [n |-> results[1].n, d |-> results[1].d]
    BY <1>2 DEF CustomDone
  <2>2. PICK s : asked = {s}
    BY <1>2 DEF CustomDone, TypeInv
  <2>3. Len(results) <= 1
    BY <2>2, FS_Singleton DEF TypeInv
  <2>4. DOMAIN results \subseteq {1}
    BY <2>3 DEF TypeInv
  <2>5. Accepted(results) = {1}
    BY <2>1, <2>4 DEF Accepted
  <2>6. Before(results, Accepted(results), 1) = {}
    <3>1. 1 \in DOMAIN results /\ results[1].d \in Int
      BY <2>5, AnswerTypes DEF Accepted, TypeInv
    <3> QED
      BY <2>5, <3>1 DEF Before, Abs
  <2>7. Cardinality({}) = 0 /\ Cardinality({1}) = 1
    BY FS_EmptySet, FS_Singleton
  <2>8. Middle(Accepted(results)) = 0
    BY <2>5, <2>7 DEF Middle
  <2> QED
    BY <2>1, <2>5, <2>6, <2>7, <2>8 DEF Median
<1> QED
  BY <1>1, <1>2

LEMMA EarlyInit == Init => EarlyInv
BY DEF Init, EarlyInv

LEMMA EarlyStep == TypeInv /\ TypeInv' /\ EarlyInv /\ [Next]_vars => EarlyInv'
<1> SUFFICES ASSUME TypeInv, TypeInv', EarlyInv, [Next]_vars PROVE EarlyInv'
  OBVIOUS
<1>0. /\ now \in Nat /\ now' \in Nat /\ off \in Int /\ off' \in Int
      /\ anchor \in Int /\ anchor' \in Int
      /\ verdict.n \in Int /\ verdict.d \in Int
      /\ \A i \in DOMAIN results : results[i].n \in Int /\ results[i].d \in Int
  BY AnswerTypes DEF TypeInv, Reading
\* Steps that leave the anchor, the answers and the verdict as they are.
<1>1. ASSUME now' = now \/ now' = now + 1, anchor' = anchor,
             stepped => stepped' /\ off' = off,
             ~stepped' => ~stepped /\ off' = off,
             UNCHANGED <<place, results, verdict>>
      PROVE  EarlyInv'
  <2>1. \A i \in DOMAIN results : Near(results[i].n, results[i].d)'
    BY <1>0, <1>1, StillNear DEF EarlyInv
  <2>2. place = "gate" => Near(verdict.n, verdict.d)'
    BY <1>0, <1>1, StillNear DEF EarlyInv
  <2> QED
    BY <1>1, <2>1, <2>2 DEF EarlyInv, InLimit
<1>2. ASSUME NEW s \in Servers, Receive(s) PROVE EarlyInv'
  <2> DEFINE m == Measured(query[s].tx, query[s].t1, Wall)
  <2>1. /\ UNCHANGED <<now, off, stepped, place, anchor, verdict>>
        /\ place # "anchor" /\ place # "gate"
    BY <1>2 DEF Receive, Running, clockVars
  <2>2. query[s].tx \in Int /\ query[s].t1 \in Int /\ Wall \in Int
    BY <1>0 DEF TypeInv, Wall
  <2>3. m.n - m.d = 2 * (now + off)
    BY <2>2, MeasuredWall DEF Wall
  <2>4. Near(m.n, m.d)
    <3>1. m.n - m.d <= 2 * (now + off)
      BY <1>0, <2>3
    <3>2. CASE stepped
      BY <3>1, <3>2, Zenon DEF Near
    <3>3. CASE ~stepped
      <4>1. off = anchor
        BY <2>1, <3>3 DEF EarlyInv
      <4> QED
        BY <3>1, <4>1, Zenon DEF Near
    <3> QED
      BY <3>2, <3>3
  <2>5. \A i \in DOMAIN results' : Near(results'[i].n, results'[i].d)
    BY <1>2, <2>4, Received DEF EarlyInv
  <2> QED
    BY <2>1, <2>5 DEF EarlyInv, Near
<1>3. ASSUME Anchor PROVE EarlyInv'
  <2>1. anchor' = off' /\ place' = "sync" /\ results' = <<>>
    BY <1>3 DEF Anchor, clockVars, Ask
  <2> QED
    BY <2>1 DEF EarlyInv
<1>4. ASSUME SyncDone \/ CustomDone PROVE EarlyInv'
  <2>1. UNCHANGED <<now, off, stepped, anchor>> /\ place # "anchor"
    BY <1>4 DEF SyncDone, CustomDone, clockVars
  <2>2. CASE place' = "gate"
    <3>1. PICK i \in Accepted(results) :
            verdict' = [n |-> results[i].n, d |-> results[i].d]
      BY <1>4, <2>2, Decided
    <3>2. results' = results
      BY <1>4, <2>2, Decided
    <3>3. Near(verdict'.n, verdict'.d) /\ InLimit(verdict')
      BY <3>1 DEF Accepted, EarlyInv, InLimit
    <3> QED
      BY <2>1, <2>2, <3>2, <3>3 DEF EarlyInv, Near, InLimit
  <2>3. CASE place' # "gate"
    <3>1. results' = results \/ results' = <<>>
      BY <1>4, <2>3 DEF SyncDone, CustomDone, Decide, Ask
    <3> QED
      BY <2>1, <2>3, <3>1 DEF EarlyInv, Near
  <2> QED
    BY <2>2, <2>3
<1>5. ASSUME NEW s \in Servers, Send(s) \/ Reply(s) \/ Fail(s) PROVE EarlyInv'
  BY <1>1, <1>5 DEF Send, Reply, Fail, clockVars
<1>6. ASSUME Gate PROVE EarlyInv'
  BY <1>6 DEF Gate, EarlyInv, clockVars, Near
<1>7. ASSUME Tick PROVE EarlyInv'
  BY <1>1, <1>7 DEF Tick, clockVars
<1>8. ASSUME Step PROVE EarlyInv'
  BY <1>1, <1>8 DEF Step
<1>9. ASSUME UNCHANGED vars PROVE EarlyInv'
  BY <1>1, <1>9 DEF vars, clockVars
<1> QED
  BY <1>2, <1>3, <1>4, <1>5, <1>6, <1>7, <1>8, <1>9 DEF Next, Thread

LEMMA EarlyInvHolds == Spec => []EarlyInv
BY TypeInvHolds, EarlyInit, EarlyStep, PTL DEF Spec

\* The envelope does not open further before the hour than the drift limit and
\* what the anchor tolerates, by the clock the run began with, whatever hosts
\* answer and whenever the wall clock is stepped (consensus, sane).
THEOREM NeverFarEarlyHolds == Spec => NeverFarEarly
<1> DEFINE NotFar ==
      place = "gate" /\ place' = "open" =>
        Opening < now + anchor + Limit + IF stepped THEN JumpLimit ELSE 0
<1>1. TypeInv /\ EarlyInv /\ [Next]_vars => [NotFar]_vars
  <2> SUFFICES ASSUME TypeInv, EarlyInv, Next, place = "gate", place' = "open"
               PROVE  Opening < now + anchor + Limit + IF stepped THEN JumpLimit ELSE 0
    OBVIOUS
  <2>1. Gate
    BY DEF Next, Thread, Send, Reply, Receive, Fail, Running, Anchor, SyncDone,
           CustomDone, Tick, Step
  <2>2. Sane /\ verdict.n \div 2 >= Opening
    BY <2>1 DEF Gate
  <2>3. /\ now \in Nat /\ off \in Int /\ anchor \in Int
        /\ verdict.n \in Int /\ verdict.d \in Int
        /\ Opening \in Nat /\ Limit \in Nat /\ JumpLimit \in Nat
    BY NumbersAssumption DEF TypeInv, Reading
  <2>4. verdict.n >= 2 * Opening
    BY <2>2, <2>3
  <2>5. verdict.d < 2 * Limit /\ off - anchor < JumpLimit
    BY <2>2, <2>3 DEF EarlyInv, InLimit, Sane, Abs
  <2>6. Near(verdict.n, verdict.d)
    BY DEF EarlyInv
  <2>7. CASE verdict.n - verdict.d <= 2 * (now + anchor)
    BY <2>3, <2>4, <2>5, <2>7
  <2>8. CASE stepped /\ verdict.n - verdict.d <= 2 * (now + off)
    BY <2>3, <2>4, <2>5, <2>8
  <2> QED
    BY <2>6, <2>7, <2>8 DEF Near
<1> QED
  BY <1>1, TypeInvHolds, EarlyInvHolds, PTL DEF Spec, NeverFarEarly

-----------------------------------------------------------------------------
(* What honest hosts answer.                                               *)

\* No time of the model is one whose timestamp wraps (see the run gate_era).
Unwrapped ==
  Horizon + EraOffset < Era /\ \A t \in Starts : t <= Horizon

\* As long as the wall clock is not stepped, what an honest host answers is off
\* by the wall clock's offset, on either of two readings, and half the time the
\* answer took.
HonestInv ==
  /\ now <= Horizon
  /\ ~stepped =>
       /\ \A s \in Servers : query[s].st \in {"sent", "replied"} =>
            query[s].t1 = query[s].sentAt + off /\ query[s].sentAt <= now
       /\ \A s \in Honest : query[s].st = "replied" =>
            query[s].sentAt <= query[s].tx /\ query[s].tx <= now
       /\ \A i \in HonestAmong(results) :
            Abs(results[i].d) <= 2 * Abs(off) + Timeout

LEMMA NoWrap ==
  ASSUME Unwrapped, NEW t \in Nat, t <= Horizon
  PROVE  Timestamp(t) = t
<1>1. t + EraOffset \in 0 .. Era - 1 /\ Era \in Nat /\ EraOffset \in Nat
  BY NumbersAssumption DEF Unwrapped
<1>2. (t + EraOffset) % Era = t + EraOffset
  BY <1>1
<1> QED
  BY <1>1, <1>2 DEF Timestamp, Wrapped

\* The drift of an answer whose transmit time tx lies between two readings of
\* a clock that is off by o.
LEMMA DriftBound ==
  ASSUME NEW sent \in Int, NEW tx \in Int, NEW rcvd \in Int, NEW o \in Int,
         NEW w \in Int,
         sent <= tx, tx <= rcvd, rcvd <= sent + w
  PROVE  Abs(2 * tx - (sent + o) - (rcvd + o)) <= 2 * Abs(o) + w
BY DEF Abs

LEMMA HonestInit == Unwrapped /\ Init => HonestInv
<1> SUFFICES ASSUME Unwrapped, Init PROVE HonestInv
  OBVIOUS
<1>1. Idle.st = "idle"
  BY DEF Idle, Past
<1>2. \A s \in Servers : query[s].st = "idle"
  BY <1>1 DEF Init
<1>3. now <= Horizon /\ results = <<>>
  BY DEF Init, Unwrapped
<1> QED
  BY <1>2, <1>3, HonestAssumption DEF HonestInv, HonestAmong

LEMMA HonestStep ==
  Unwrapped /\ TypeInv /\ TypeInv' /\ HonestInv /\ [Next]_vars => HonestInv'
<1> SUFFICES ASSUME Unwrapped, TypeInv, TypeInv', HonestInv, [Next]_vars
             PROVE  HonestInv'
  OBVIOUS
<1>0. /\ now \in Nat /\ now' \in Nat /\ off \in Int
      /\ \A s \in Servers : /\ query[s].sentAt \in Nat
                            /\ query[s].t1 \in Int /\ query[s].tx \in Int
      /\ Horizon \in Nat /\ Timeout \in Nat
  BY NumbersAssumption DEF TypeInv
\* Steps that leave queries and answers as they are.
<1>1. ASSUME now <= now', now' <= Horizon, UNCHANGED <<off, query, results>>,
             stepped => stepped'
      PROVE  HonestInv'
  <2>1. CASE stepped'
    BY <1>1, <2>1 DEF HonestInv
  <2>2. CASE ~stepped' /\ ~stepped
    BY <1>0, <1>1, <2>2, HonestAssumption DEF HonestInv, HonestAmong
  <2> QED
    BY <1>1, <2>1, <2>2
\* Steps that begin to ask other hosts, or none.
<1>2. ASSUME UNCHANGED <<now, off, stepped>>,
             \A s \in Servers : query'[s] = Idle,
             results' = results \/ results' = <<>>
      PROVE  HonestInv'
  <2>1. \A s \in Servers : query'[s].st = "idle"
    BY <1>2 DEF Idle, Past
  <2>2. HonestAmong(results)' = HonestAmong(results) \/ HonestAmong(results)' = {}
    BY <1>2 DEF HonestAmong
  <2>3. CASE stepped
    BY <1>2, <2>3 DEF HonestInv
  <2>4. CASE ~stepped
    <3>1. \A i \in HonestAmong(results)' : Abs(results'[i].d) <= 2 * Abs(off) + Timeout
      BY <1>2, <2>2, <2>4 DEF HonestInv, HonestAmong
    <3> QED
      BY <1>2, <2>1, <3>1, HonestAssumption DEF HonestInv, HonestAmong
  <2> QED
    BY <2>3, <2>4
<1>3. ASSUME NEW s \in Servers, Send(s) PROVE HonestInv'
  <2>1. /\ UNCHANGED <<now, off, stepped, results>>
        /\ query' = [query EXCEPT ![s] = [st |-> "sent", sentAt |-> now,
                                          t1 |-> now + off, tx |-> 0]]
    BY <1>3 DEF Send, clockVars, Wall
  <2>2. CASE stepped
    BY <2>1, <2>2 DEF HonestInv
  <2>3. CASE ~stepped
    <3>1. \A z \in Servers \ {s} : query'[z] = query[z]
      BY <2>1 DEF TypeInv
    <3>2. /\ query'[s].st = "sent" /\ query'[s].sentAt = now
          /\ query'[s].t1 = now + off
      BY <2>1 DEF TypeInv
    <3> QED
      BY <1>0, <2>1, <2>3, <3>1, <3>2, HonestAssumption DEF HonestInv, HonestAmong
  <2> QED
    BY <2>2, <2>3
<1>4. ASSUME NEW s \in Servers, Reply(s) PROVE HonestInv'
  <2>1. PICK t \in Clock(s) :
          query' = [query EXCEPT ![s].st = "replied", ![s].tx = Timestamp(t)]
    BY <1>4 DEF Reply
  <2>2. UNCHANGED <<now, off, stepped, results>> /\ query[s].st = "sent"
    BY <1>4 DEF Reply, clockVars
  <2>3. CASE stepped
    BY <2>2, <2>3 DEF HonestInv
  <2>4. CASE ~stepped
    <3>1. \A z \in Servers \ {s} : query'[z] = query[z]
      BY <2>1 DEF TypeInv
    <3>2. /\ query'[s].st = "replied" /\ query'[s].sentAt = query[s].sentAt
          /\ query'[s].t1 = query[s].t1 /\ query'[s].tx = Timestamp(t)
      BY <2>1 DEF TypeInv
    <3>3. query[s].t1 = query[s].sentAt + off /\ query[s].sentAt <= now
      BY <2>2, <2>4 DEF HonestInv
    <3>4. s \in Honest => Timestamp(t) = now
      <4>1. s \in Honest => t = now
        BY <2>1 DEF Clock
      <4> QED
        BY <1>0, <4>1, NoWrap DEF HonestInv
    <3> QED
      BY <1>0, <2>2, <2>4, <3>1, <3>2, <3>3, <3>4, HonestAssumption
         DEF HonestInv, HonestAmong
  <2> QED
    BY <2>3, <2>4
<1>5. ASSUME NEW s \in Servers, Receive(s) PROVE HonestInv'
  <2> DEFINE m == Measured(query[s].tx, query[s].t1, Wall)
  <2>1. /\ UNCHANGED <<now, off, stepped>>
        /\ query' = [query EXCEPT ![s] = Past("done")]
        /\ query[s].st = "replied" /\ now <= query[s].sentAt + Timeout
    BY <1>5 DEF Receive, clockVars
  <2>2. CASE stepped
    BY <2>1, <2>2 DEF HonestInv
  <2>3. CASE ~stepped
    <3>1. \A z \in Servers \ {s} : query'[z] = query[z]
      BY <2>1 DEF TypeInv
    <3>2. query'[s].st = "done"
      BY <2>1 DEF TypeInv, Past
    <3>3. s \in Honest => Abs(m.d) <= 2 * Abs(off) + Timeout
      <4>1. query[s].t1 = query[s].sentAt + off /\ Wall = now + off
        BY <2>1, <2>3 DEF HonestInv, Wall
      <4>2. m.d = 2 * query[s].tx - (query[s].sentAt + off) - (now + off)
        <5>1. query[s].tx \in Int /\ query[s].t1 \in Int /\ Wall \in Int
          BY <1>0 DEF Wall
        <5>2. m.d = 2 * query[s].tx - query[s].t1 - Wall
          BY <5>1, MeasuredWall
        <5> QED
          BY <4>1, <5>2
      <4>3. s \in Honest => query[s].sentAt <= query[s].tx /\ query[s].tx <= now
        BY <2>1, <2>3 DEF HonestInv
      <4> QED
        BY <1>0, <2>1, <4>2, <4>3, DriftBound
    <3>4. \A i \in HonestAmong(results') :
            Abs(results'[i].d) <= 2 * Abs(off) + Timeout
      <4> SUFFICES ASSUME NEW i \in HonestAmong(results')
                   PROVE  Abs(results'[i].d) <= 2 * Abs(off) + Timeout
        OBVIOUS
      <4>1. CASE results'[i] = [host |-> s, n |-> m.n, d |-> m.d]
        BY <3>3, <4>1 DEF HonestAmong
      <4>2. CASE i \in DOMAIN results /\ results'[i] = results[i]
        BY <2>3, <4>2 DEF HonestAmong, HonestInv
      <4> QED
        BY <1>5, <4>1, <4>2, Received DEF HonestAmong
    <3> QED
      BY <1>0, <2>1, <2>3, <3>1, <3>2, <3>4, HonestAssumption
         DEF HonestInv, HonestAmong
  <2> QED
    BY <2>2, <2>3
<1>6. ASSUME NEW s \in Servers, Fail(s) PROVE HonestInv'
  <2>1. /\ UNCHANGED <<now, off, stepped, results>>
        /\ query' = [query EXCEPT ![s] = Past("failed")]
    BY <1>6 DEF Fail, clockVars
  <2>2. CASE stepped
    BY <2>1, <2>2 DEF HonestInv
  <2>3. CASE ~stepped
    <3>1. \A z \in Servers \ {s} : query'[z] = query[z]
      BY <2>1 DEF TypeInv
    <3>2. query'[s].st = "failed"
      BY <2>1 DEF TypeInv, Past
    <3> QED
      BY <1>0, <2>1, <2>3, <3>1, <3>2, HonestAssumption DEF HonestInv, HonestAmong
  <2> QED
    BY <2>2, <2>3
<1>7. ASSUME Anchor PROVE HonestInv'
  <2>1. Ask(Servers) /\ UNCHANGED <<now, off, stepped>>
    BY <1>7 DEF Anchor, clockVars
  <2> QED
    BY <1>2, <2>1 DEF Ask
<1>8. ASSUME SyncDone PROVE HonestInv'
  <2>1. UNCHANGED <<now, off, stepped>>
    BY <1>8 DEF SyncDone, clockVars
  <2>2. /\ \A s \in Servers : query'[s] = Idle
        /\ results' = results \/ results' = <<>>
    BY <1>8 DEF SyncDone, Decide, Ask
  <2> QED
    BY <1>2, <2>1, <2>2
<1>9. ASSUME CustomDone \/ Gate \/ UNCHANGED vars PROVE HonestInv'
  BY <1>0, <1>1, <1>9 DEF CustomDone, Gate, vars, clockVars, HonestInv
<1>10. ASSUME Tick PROVE HonestInv'
  BY <1>0, <1>1, <1>10 DEF Tick, clockVars, HonestInv
<1>11. ASSUME Step PROVE HonestInv'
  BY <1>11 DEF Step, HonestInv
<1> QED
  BY <1>3, <1>4, <1>5, <1>6, <1>7, <1>8, <1>9, <1>10, <1>11 DEF Next, Thread

\* Without wrapping, an honest answer is off by no more than the wall clock is,
\* twice, and half its round trip.
LEMMA HonestInvHolds ==
  ASSUME Unwrapped
  PROVE  Spec => []HonestInv
<1>1. Init => HonestInv
  BY HonestInit
<1>2. TypeInv /\ TypeInv' /\ HonestInv /\ [Next]_vars => HonestInv'
  BY HonestStep
<1> QED
  BY <1>1, <1>2, TypeInvHolds, PTL DEF Spec

\* A run whose wall clock is within the limit, less half a round trip, fails to
\* find a consensus only if no honest host has answered (consensus).
THEOREM HonestTimeAcceptedHolds ==
  ASSUME Unwrapped
  PROVE  Spec => HonestTimeAccepted
<1> DEFINE Turned ==
      /\ place = "sync" /\ place' = "custom" /\ ~stepped
      /\ 2 * Abs(off) + Timeout < 2 * Limit
      => HonestAmong(results) = {}
<1>1. TypeInv /\ HonestInv /\ [Next]_vars => [Turned]_vars
  <2> SUFFICES ASSUME TypeInv, HonestInv, Next,
                      place = "sync", place' = "custom", ~stepped,
                      2 * Abs(off) + Timeout < 2 * Limit,
                      NEW i \in HonestAmong(results)
               PROVE  FALSE
    OBVIOUS
  <2>1. SyncDone
    BY DEF Next, Thread, Send, Reply, Receive, Fail, Running, Anchor,
           CustomDone, Gate, Tick, Step
  <2>2. Accepted(results) = {}
    BY <2>1 DEF SyncDone, Decide
  <2>3. i \in DOMAIN results /\ results[i].d \in Int
    BY AnswerTypes DEF HonestAmong, TypeInv
  <2>4. Abs(results[i].d) <= 2 * Abs(off) + Timeout
    BY DEF HonestInv
  <2>5. InLimit(results[i])
    <3>1. /\ Abs(results[i].d) \in Int /\ Abs(off) \in Int
          /\ Timeout \in Nat /\ Limit \in Nat
      BY <2>3, NumbersAssumption DEF TypeInv, Abs
    <3> QED
      BY <2>4, <3>1 DEF InLimit
  <2> QED
    BY <2>2, <2>3, <2>5 DEF Accepted
<1> QED
  BY <1>1, TypeInvHolds, HonestInvHolds, PTL DEF Spec, HonestTimeAccepted

-----------------------------------------------------------------------------
(* An honest majority.                                                     *)

Outnumber ==
  2 * Cardinality(HonestAmong(results) \cap Accepted(results))
    > Cardinality(Accepted(results))

\* The bounds that hold of the verdict from the decision on.
MajorityInv ==
  place \in {"gate", "open"} /\ ~stepped =>
    /\ verdict.n - verdict.d <= 2 * (now + off)
    /\ Outnumber => Abs(verdict.d) <= 2 * Abs(off) + Timeout
    /\ place = "open" => verdict.n >= 2 * Opening

\* Half of the answers differ less than the one in the middle; were it off by
\* more than an honest one, all the honest ones would be among them.
LEMMA MedianHonest ==
  ASSUME TypeInv, HonestInv, ~stepped, Outnumber, NEW i, Median(i)
  PROVE  Abs(results[i].d) <= 2 * Abs(off) + Timeout
<1> DEFINE G == Accepted(results)
           H == HonestAmong(results) \cap G
           B == Before(results, G, i)
<1>1. SUFFICES ASSUME ~(Abs(results[i].d) <= 2 * Abs(off) + Timeout)
               PROVE  FALSE
  OBVIOUS
<1>2. /\ \A j \in G : Abs(results[j].d) \in Int
      /\ i \in G /\ Abs(off) \in Int /\ Timeout \in Nat
  BY AnswerTypes, NumbersAssumption DEF Accepted, Abs, Median, TypeInv
<1>3. H \subseteq B
  BY <1>1, <1>2 DEF HonestInv, Before
<1>4. IsFiniteSet(G)
  <2>1. DOMAIN results = 1 .. Len(results) /\ Len(results) \in Nat
    BY DEF TypeInv
  <2>2. IsFiniteSet(DOMAIN results)
    BY <2>1, FS_Interval
  <2> QED
    BY <2>2, FS_Subset DEF Accepted
<1>5. IsFiniteSet(B)
  <2>1. B \in SUBSET G
    BY DEF Before
  <2> QED
    BY <1>4, <2>1, FS_Subset
<1>6. Cardinality(H) <= Cardinality(B) /\ IsFiniteSet(H)
  BY <1>3, <1>5, FS_Subset
<1>7. Cardinality(H) \in Nat /\ Cardinality(B) \in Nat /\ Cardinality(G) \in Nat
  BY <1>4, <1>5, <1>6, FS_CardinalityType
<1>8. Cardinality(B) = Cardinality(G) \div 2
  BY DEF Median, Middle
<1>9. 2 * Cardinality(H) > Cardinality(G)
  BY DEF Outnumber
<1> QED
  BY <1>6, <1>7, <1>8, <1>9

LEMMA MajorityStep ==
  TypeInv /\ TypeInv' /\ EarlyInv /\ HonestInv /\ MajorityInv /\ [Next]_vars
    => MajorityInv'
<1> SUFFICES ASSUME TypeInv, TypeInv', EarlyInv, HonestInv, MajorityInv,
                    [Next]_vars, place' \in {"gate", "open"}, ~stepped'
             PROVE  /\ verdict'.n - verdict'.d <= 2 * (now' + off')
                    /\ Outnumber' => Abs(verdict'.d) <= 2 * Abs(off') + Timeout
                    /\ place' = "open" => verdict'.n >= 2 * Opening
  BY DEF MajorityInv
<1>0. /\ now \in Nat /\ now' \in Nat /\ off \in Int /\ Opening \in Nat
      /\ verdict.n \in Int /\ verdict.d \in Int
  BY NumbersAssumption DEF TypeInv, Reading
\* Steps that leave the verdict and what it rests on.
<1>1. ASSUME UNCHANGED <<off, stepped, place, results, verdict>>, now <= now'
      PROVE  MajorityInv'
  <2>1. /\ verdict.n - verdict.d <= 2 * (now + off)
        /\ Outnumber => Abs(verdict.d) <= 2 * Abs(off) + Timeout
        /\ place = "open" => verdict.n >= 2 * Opening
    BY <1>1, Zenon DEF MajorityInv
  <2>2. verdict'.n - verdict'.d <= 2 * (now' + off')
    BY <1>0, <1>1, <2>1
  <2>3. Outnumber' = Outnumber
    BY <1>1 DEF Outnumber
  <2> QED
    BY <1>1, <2>1, <2>2, <2>3, Zenon DEF MajorityInv
<1>2. ASSUME SyncDone \/ CustomDone
      PROVE  MajorityInv'
  <2>1. UNCHANGED <<now, off, stepped>> /\ place' = "gate" /\ place # "anchor"
    BY <1>2 DEF SyncDone, CustomDone, Decide, clockVars
  <2>2. PICK i \in Accepted(results) :
          Median(i) /\ verdict' = [n |-> results[i].n, d |-> results[i].d]
    BY <1>2, <2>1, Decided
  <2>3. results' = results
    BY <1>2, <2>1, Decided
  <2>4. verdict'.n = results[i].n /\ verdict'.d = results[i].d
    BY <2>2
  <2>5. results[i].n - results[i].d <= 2 * (now + off)
    <3>1. off = anchor
      BY <2>1 DEF EarlyInv
    <3>2. Near(results[i].n, results[i].d)
      BY DEF EarlyInv, Accepted
    <3> QED
      BY <2>1, <3>1, <3>2, Zenon DEF Near
  <2>6. Outnumber => Abs(results[i].d) <= 2 * Abs(off) + Timeout
    BY <2>1, <2>2, MedianHonest
  <2>7. Outnumber' = Outnumber
    BY <2>3 DEF Outnumber
  <2>8. Abs(verdict'.d) = Abs(results[i].d) /\ Abs(off') = Abs(off)
    BY <2>1, <2>4
  <2>9. place' # "open"
    BY <2>1
  <2> QED
    BY <2>1, <2>4, <2>5, <2>6, <2>7, <2>8, <2>9, Zenon DEF MajorityInv
<1>3. ASSUME Gate PROVE MajorityInv'
  <2>1. UNCHANGED <<now, off, stepped, results, verdict>> /\ place = "gate"
    BY <1>3 DEF Gate, clockVars
  <2>2. place' = "open" => verdict.n >= 2 * Opening
    <3>1. place' = "open" => verdict.n \div 2 >= Opening
      BY <1>3 DEF Gate
    <3> QED
      BY <1>0, <3>1
  <2>3. Outnumber' = Outnumber
    BY <2>1 DEF Outnumber
  <2>4. /\ verdict.n - verdict.d <= 2 * (now + off)
        /\ Outnumber => Abs(verdict.d) <= 2 * Abs(off) + Timeout
    BY <2>1, Zenon DEF MajorityInv
  <2> QED
    BY <2>1, <2>2, <2>3, <2>4, Zenon DEF MajorityInv
<1>4. CASE \E s \in Servers : Thread(s)
  <2>1. PICK s \in Servers : Thread(s)
    BY <1>4
  <2>2. Reply(s)
    BY <2>1 DEF Thread, Send, Receive, Fail, Running
  <2>3. UNCHANGED <<now, off, stepped, place, results, verdict>>
    BY <2>2 DEF Reply, clockVars
  <2> QED
    BY <1>0, <1>1, <2>3 DEF MajorityInv
<1>5. CASE Tick
  BY <1>0, <1>1, <1>5 DEF Tick, clockVars, MajorityInv
<1>6. CASE UNCHANGED vars
  BY <1>0, <1>1, <1>6 DEF vars, clockVars, MajorityInv
<1>7. CASE Anchor \/ Step
  BY <1>7 DEF Anchor, Step
<1> QED
  BY <1>2, <1>3, <1>4, <1>5, <1>6, <1>7 DEF Next, MajorityInv

\* With no step of the wall clock, hosts that lie cannot open the envelope
\* early as long as more than half of the answers that count are honest,
\* though the consensus is a median of drifts (consensus).
THEOREM HonestMajorityHolds ==
  ASSUME Unwrapped
  PROVE  Spec => []HonestMajorityRules
<1>1. Init => MajorityInv
  BY DEF Init, MajorityInv
<1>2. TypeInv /\ MajorityInv => HonestMajorityRules
  <2> SUFFICES ASSUME TypeInv, MajorityInv, place = "open", ~stepped, Outnumber
               PROVE  2 * Opening <= 2 * now + 4 * Abs(off) + Timeout
    BY DEF HonestMajorityRules, Outnumber
  <2>1. /\ verdict.n - verdict.d <= 2 * (now + off)
        /\ Abs(verdict.d) <= 2 * Abs(off) + Timeout
        /\ verdict.n >= 2 * Opening
    BY Zenon DEF MajorityInv
  <2>2. /\ now \in Nat /\ off \in Int /\ Opening \in Nat /\ Timeout \in Nat
        /\ verdict.n \in Int /\ verdict.d \in Int
    BY NumbersAssumption DEF TypeInv, Reading
  <2> QED
    BY <2>1, <2>2 DEF Abs
<1> QED
  BY <1>1, <1>2, MajorityStep, TypeInvHolds, EarlyInvHolds, HonestInvHolds, PTL
     DEF Spec
=============================================================================
