--------------------------- MODULE AgentPresence ----------------------------
(***************************************************************************)
(* Who is online (internal/heartbeat, heartbeat_repo.go, identity_repo.go): *)
(* an agent process registers its identity and sends heartbeats, and the    *)
(* gateway marks those stale whose last one is too old.  Times are ages,    *)
(* and none counts beyond the threshold.  The agent gives the sender no way *)
(* to count its tasks, so the status it sends is always online.             *)
(***************************************************************************)
EXTENDS Naturals

CONSTANTS
  StaleThreshold,  \* the age at which a heartbeat is too old
  MaxStarts,       \* bound: how often the process is started
  MaxFaults        \* bound: failed statements

VARIABLES
  up,       \* the agent process runs: it is registering, waiting or sending
  starts,   \* how often it was started
  row,      \* agent_identities: the status, and the age of the last heartbeat
  stamp,    \* the age of the heartbeat being recorded
  faults    \* what has gone wrong so far

vars == <<up, starts, row, stamp, faults>>

Never == StaleThreshold + 2
Older(age) == IF age <= StaleThreshold THEN age + 1 ELSE age

Init ==
  /\ up = "down" /\ starts = 0
  /\ row = [status |-> "none", beat |-> Never]
  /\ stamp = 0 /\ faults = 0

Clock ==
  /\ row' = [row EXCEPT !.beat = Older(@)]
  /\ stamp' = Older(stamp)
  /\ UNCHANGED <<up, starts, faults>>

Start ==
  /\ up = "down" /\ starts < MaxStarts
  /\ up' = "registering" /\ starts' = starts + 1
  /\ UNCHANGED <<row, stamp, faults>>

\* Register: insert, or update the row that is there, last_heartbeat_at excepted.
\* A failure is logged; the first heartbeat is sent at once.
Register(ok) ==
  /\ up = "registering" /\ up' = "waiting"
  /\ IF ok THEN row' = [row EXCEPT !.status = "online"] /\ UNCHANGED faults
     ELSE UNCHANGED row /\ faults < MaxFaults /\ faults' = faults + 1
  /\ UNCHANGED <<starts, stamp>>

\* sendHeartbeat stamps a heartbeat, which RecordHeartbeat first inserts into a table
\* of its own.
RecordHeartbeat(ok) ==
  /\ up = "waiting" /\ stamp' = 0
  /\ IF ok THEN up' = "sending" /\ UNCHANGED faults
     ELSE UNCHANGED up /\ faults < MaxFaults /\ faults' = faults + 1
  /\ UNCHANGED <<starts, row>>

\* Mutant: only the time is updated.
BeatenTime == [row EXCEPT !.beat = stamp]

Beaten == [status |-> "online", beat |-> stamp]

\* Its second statement updates the identity, if there is one.
UpdateIdentity(ok) ==
  /\ up = "sending" /\ up' = "waiting"
  /\ IF ok THEN row' = (IF row.status = "none" THEN row ELSE Beaten) /\ UNCHANGED faults
     ELSE UNCHANGED row /\ faults < MaxFaults /\ faults' = faults + 1
  /\ UNCHANGED <<starts, stamp>>

Stop ==
  /\ up # "down" /\ up' = "down"
  /\ UNCHANGED <<starts, row, stamp, faults>>

TooOld == row.beat > StaleThreshold /\ row.beat # Never

\* A tick of RunStaleChecker; no time at all is not before any other.
MarkStale ==
  /\ row.status = "online" /\ TooOld
  /\ row' = [row EXCEPT !.status = "stale"]
  /\ UNCHANGED <<up, starts, stamp, faults>>

Sender == Register(TRUE) \/ RecordHeartbeat(TRUE) \/ UpdateIdentity(TRUE)

Next ==
  \/ Clock \/ Start \/ Stop \/ MarkStale \/ Sender
  \/ Register(FALSE) \/ RecordHeartbeat(FALSE) \/ UpdateIdentity(FALSE)

\* Time passes and both tickers fire.
Fairness == WF_vars(Clock) /\ WF_vars(Sender) /\ WF_vars(MarkStale)

Spec == Init /\ [][Next]_vars /\ Fairness

-----------------------------------------------------------------------------

TypeOK ==
  /\ up \in {"down", "registering", "waiting", "sending"} /\ starts \in 0..MaxStarts
  /\ row \in [status : {"none", "online", "stale"}, beat : 0..Never]
  /\ stamp \in 0..Never /\ faults \in 0..MaxFaults

\* An agent that has stopped for good is not listed as online for ever, if any of
\* its heartbeats reached its row; one that runs on, and could register, is shown
\* as online again and again, also after it was marked stale.
PresenceFollows ==
  /\ <>[](up = "down") => <>[](row.beat # Never => row.status = "stale")
  /\ <>[](up # "down") => []<>(row.status \in {"online", "none"})

=============================================================================
