------------------------------ MODULE Envelope ------------------------------
(***************************************************************************)
(* What hello_old promises its owner, with nothing about how it keeps the  *)
(* promise: an envelope "that tears open only when the hour strikes" and   *)
(* is "read once, burned forever".                                         *)
(***************************************************************************)

VARIABLES
  hour,   \* has the opening time come?
  page,   \* can the text be read right now?
  read,   \* has the text been readable at least once?
  file    \* the sealed copy: "present", or "ash" once it is deleted

vars == <<hour, page, read, file>>

TypeOK ==
  /\ hour \in BOOLEAN
  /\ page \in BOOLEAN
  /\ read \in BOOLEAN
  /\ file \in {"present", "ash"}

Init ==
  /\ hour \in BOOLEAN
  /\ page = FALSE
  /\ read = FALSE
  /\ file = "present"

\* Time passes the opening timestamp.
Strike ==
  /\ ~hour
  /\ hour' = TRUE
  /\ UNCHANGED <<page, read, file>>

\* The text is laid open, once, and only after the hour.
Open ==
  /\ hour
  /\ ~read
  /\ page' = TRUE
  /\ read' = TRUE
  /\ UNCHANGED <<hour, file>>

\* The text is put out of reach, by the reader or by a sudden death.
Close ==
  /\ page
  /\ page' = FALSE
  /\ UNCHANGED <<hour, read, file>>

\* The sealed copy is destroyed, never while it is unread or still on show.
Burn ==
  /\ read /\ ~page
  /\ file = "present"
  /\ file' = "ash"
  /\ UNCHANGED <<hour, page, read>>

Next == Strike \/ Open \/ Close \/ Burn

Spec == Init /\ [][Next]_vars
=============================================================================
