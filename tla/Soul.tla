-------------------------------- MODULE Soul --------------------------------
(***************************************************************************)
(* The agent's soul (internal/soul, soul_repo.go): an append-only log of    *)
(* events, from which every process builds its copy when it starts and to   *)
(* which its reflection loop adds.  The first process to find the log empty *)
(* writes the core principles.  An event is abstracted to its kind and, for *)
(* a principle, its number; the version is its place, and is unique.        *)
(***************************************************************************)
EXTENDS Naturals, Sequences, SequencesExt

CONSTANTS
  Instances,   \* processes that share the log
  Principles,  \* how many core principles there are
  MaxEvents,   \* bound: the log is not made longer than this
  MaxFaults    \* bound: crashes and failed statements

VARIABLES
  log,      \* soul_events of the organisation, by version
  pc,       \* what each process is doing
  version,  \* the version LatestVersion led to, or the principle to be written
  soul,     \* the copy of each process: the versions it was built from, in order
  added,    \* ghost: the versions each process has added since it started
  raced,    \* ghost: the log was read or added to while principles were written
  faults    \* what has gone wrong so far

vars == <<log, pc, version, soul, added, raced, faults>>

Principle(n) == [kind |-> "principle", n |-> n]
Lesson == [kind |-> "lesson", n |-> 0]

\* The copy that is built from all events.
Materialize == [v \in DOMAIN log |-> v]

Seeding(i) == pc[i] = "seeding"
OtherSeeding(i) == \E j \in Instances \ {i} : Seeding(j)

Init ==
  /\ log = <<>>
  /\ pc = [i \in Instances |-> "starting"]
  /\ version = [i \in Instances |-> 0]
  /\ soul = [i \in Instances |-> <<>>]
  /\ added = [i \in Instances |-> {}]
  /\ raced = FALSE /\ faults = 0

\* Load: the events are listed, and the copy is built from them; an empty log is
\* given the principles first.
Load(i) ==
  /\ pc[i] = "starting"
  /\ IF log = <<>>
     THEN /\ pc' = [pc EXCEPT ![i] = "seeding"] /\ version' = [version EXCEPT ![i] = 1]
          /\ UNCHANGED soul
     ELSE /\ pc' = [pc EXCEPT ![i] = "running"] /\ soul' = [soul EXCEPT ![i] = Materialize]
          /\ UNCHANGED version
  /\ raced' = (raced \/ OtherSeeding(i))
  /\ UNCHANGED <<log, added, faults>>

\* AppendEvent: the unique index refuses a version that is there.
Free(i) == version[i] = Len(log) + 1

\* One principle; when it cannot be written Load returns the error, and the
\* process runs on without a soul.
seedCorePrinciples(i) ==
  /\ Seeding(i) /\ version[i] <= Principles
  /\ IF Free(i)
     THEN /\ log' = Append(log, Principle(version[i]))
          /\ version' = [version EXCEPT ![i] = @ + 1] /\ UNCHANGED pc
     ELSE pc' = [pc EXCEPT ![i] = "without"] /\ UNCHANGED <<log, version>>
  /\ UNCHANGED <<soul, added, raced, faults>>

\* All are written, and the events are listed again.
Relist(i) ==
  /\ Seeding(i) /\ version[i] > Principles
  /\ pc' = [pc EXCEPT ![i] = "running"]
  /\ soul' = [soul EXCEPT ![i] = Materialize]
  /\ UNCHANGED <<log, version, added, raced, faults>>

\* RunReflection has an event to add, and Evolve asks for the latest version.
LatestVersion(i) ==
  /\ pc[i] = "running" /\ Len(log) < MaxEvents
  /\ pc' = [pc EXCEPT ![i] = "evolving"]
  /\ version' = [version EXCEPT ![i] = Len(log) + 1]
  /\ UNCHANGED <<log, soul, added, raced, faults>>

\* Mutant: an event that was refused is applied to the copy.
EvolveAnyway(i) ==
  /\ pc[i] = "evolving" /\ pc' = [pc EXCEPT ![i] = "running"]
  /\ log' = IF Free(i) THEN Append(log, Lesson) ELSE log
  /\ soul' = [soul EXCEPT ![i] = Append(@, version[i])]
  /\ added' = IF Free(i) THEN [added EXCEPT ![i] = @ \cup {version[i]}] ELSE added
  /\ raced' = (raced \/ OtherSeeding(i))
  /\ UNCHANGED <<version, faults>>

\* The rest of Evolve: the event is appended and applied to the copy; refused, it
\* is dropped and RunReflection goes on with the next.
Evolve(i) ==
  /\ pc[i] = "evolving" /\ pc' = [pc EXCEPT ![i] = "running"]
  /\ IF Free(i)
     THEN /\ log' = Append(log, Lesson)
          /\ soul' = [soul EXCEPT ![i] = Append(@, version[i])]
          /\ added' = [added EXCEPT ![i] = @ \cup {version[i]}]
          /\ raced' = (raced \/ OtherSeeding(i))
     ELSE UNCHANGED <<log, soul, added, raced>>
  /\ UNCHANGED <<version, faults>>

\* A statement fails: no soul at start-up, an event dropped later on.
StatementFails(i) ==
  /\ pc[i] \in {"starting", "seeding", "running", "evolving"}
  /\ faults < MaxFaults /\ faults' = faults + 1
  /\ pc' = [pc EXCEPT ![i] = IF @ \in {"starting", "seeding"} THEN "without" ELSE "running"]
  /\ UNCHANGED <<log, version, soul, added, raced>>

\* The process stops and is started again.
Restart(i) ==
  /\ faults < MaxFaults /\ faults' = faults + 1
  /\ pc' = [pc EXCEPT ![i] = "starting"]
  /\ soul' = [soul EXCEPT ![i] = <<>>]
  /\ added' = [added EXCEPT ![i] = {}]
  /\ UNCHANGED <<log, version, raced>>

RunReflection(i) == LatestVersion(i) \/ Evolve(i)

Process(i) == Load(i) \/ seedCorePrinciples(i) \/ Relist(i) \/ RunReflection(i)

Next == \E i \in Instances : Process(i) \/ StatementFails(i) \/ Restart(i)

Spec == Init /\ [][Next]_vars

-----------------------------------------------------------------------------

TypeOK ==
  /\ log \in Seq([kind : {"principle", "lesson"}, n : 0..Principles]) /\ Len(log) <= MaxEvents + Principles
  /\ pc \in [Instances -> {"starting", "seeding", "running", "evolving", "without"}]
  /\ version \in [Instances -> Nat]
  /\ \A i \in Instances : soul[i] \in Seq(DOMAIN log) /\ added[i] \subseteq DOMAIN log
  /\ raced \in BOOLEAN /\ faults \in 0..MaxFaults

\* The copy a process keeps up to date by itself is one that Materialize could have
\* built: events of the log, each once and in the order of their versions; those it
\* has loaded, without a gap, and then exactly those that it has added.  It may lack
\* what others have added since.
SoulReplaysLog ==
  \A i \in Instances :
    /\ \A m, n \in DOMAIN soul[i] : m < n => soul[i][m] < soul[i][n]
    /\ ToSet(soul[i]) \subseteq DOMAIN log
    /\ added[i] \subseteq ToSet(soul[i])
    /\ \A m \in DOMAIN soul[i] : soul[i][m] \in added[i] \cup {m}

\* "Core principles are immutable and seeded on first run": who runs with a soul
\* has all of them and before anything else, unless writing them was cut short or
\* another process started or reflected meanwhile.
PrinciplesComplete ==
  faults = 0 /\ ~raced => \A i \in Instances : pc[i] \in {"running", "evolving"} =>
    Len(log) >= Principles /\ \A n \in 1..Principles : log[n] = Principle(n) /\ soul[i][n] = n

=============================================================================
