---------------------------- MODULE SkillPoller -----------------------------
(***************************************************************************)
(* Skill files (internal/skillloader/poller.go, loader.go): the poller of a *)
(* process scans the skill directories and keeps the active definitions up  *)
(* to date with the files, and after a scan that changed something hands    *)
(* them on to the agent of the process.  A definition is the content of its file; its key is  *)
(* the file name, so files of two directories may have the same one.        *)
(***************************************************************************)
EXTENDS Naturals, Sequences, SequencesExt

CONSTANTS
  Dirs,        \* the skill directories in order: the paths in each of them
  Key,         \* the skill key of each path, its file name without extension
  Contents,    \* what a valid file may hold
  MaxChanges,  \* bound: how often files are written or removed
  MaxFaults    \* bound: unreadable directories and files

VARIABLES
  disk,       \* what each file holds
  changes,    \* how often files have changed
  hashed,     \* fileStates: the content each known file had when it was hashed
  active,     \* activeSkills: the definition of each key
  prompt,     \* the skills the system prompt names
  handed,     \* the runbooks of a gateway, the skills in the heartbeat of an agent
  routed,     \* whether the agent of a gateway is behind the RoutingAgent
  scan,       \* where syncAll is
  torn,       \* ghost: the known files whose definition is not what was hashed
  faults      \* what has gone wrong so far

vars == <<disk, changes, hashed, active, prompt, handed, routed, scan, torn, faults>>
agent == <<prompt, handed, routed>>

Files == DOMAIN Key
Keys == {Key[f] : f \in Files}
Absent == "absent"
Invalid == "invalid"
Valid(f) == disk[f] \in Contents
Idle == [dir |-> 0, todo |-> <<>>, seen |-> {}, hash |-> Absent, changed |-> FALSE]
Nothing == [k \in Keys |-> Absent]

Init ==
  /\ disk = [f \in Files |-> Absent] /\ changes = 0
  /\ hashed = [f \in Files |-> Absent]
  /\ active = Nothing /\ prompt = Nothing /\ handed = Nothing /\ routed = FALSE
  /\ scan = Idle /\ torn = {} /\ faults = 0

\* Somebody writes, breaks or removes a file.
WriteFile(f, content) ==
  /\ changes < MaxChanges /\ changes' = changes + 1
  /\ disk[f] # content /\ disk' = [disk EXCEPT ![f] = content]
  /\ UNCHANGED <<hashed, active, agent, scan, torn, faults>>

\* The next directory of syncAll; one that cannot be read is passed over.
ReadDir(ok) ==
  /\ scan.todo = <<>> /\ scan.dir < Len(Dirs)
  /\ LET d == scan.dir + 1
         entries == IF ok THEN SelectSeq(Dirs[d], LAMBDA f : disk[f] # Absent) ELSE <<>> IN
       scan' = [scan EXCEPT !.dir = d, !.todo = entries, !.seen = @ \cup ToSet(entries)]
  /\ IF ok THEN UNCHANGED faults ELSE faults < MaxFaults /\ faults' = faults + 1
  /\ UNCHANGED <<disk, changes, hashed, active, agent, torn>>


Unchanged(f) == hashed[f] = disk[f]

\* The file is hashed, and passed over when that fails or nothing has changed.
hashFile(ok) ==
  /\ scan.todo # <<>> /\ scan.hash = Absent
  /\ LET f == Head(scan.todo) IN
       scan' = IF ~ok \/ disk[f] = Absent \/ Unchanged(f)
               THEN [scan EXCEPT !.todo = Tail(@)] ELSE [scan EXCEPT !.hash = disk[f]]
  /\ IF ok THEN UNCHANGED faults ELSE faults < MaxFaults /\ faults' = faults + 1
  /\ UNCHANGED <<disk, changes, hashed, active, agent, torn>>

\* ParseFile opens the file once more.  A file that cannot be used leaves all as
\* it was, and is tried again by the next scan.
ParseFile ==
  /\ scan.hash # Absent
  /\ LET f == Head(scan.todo) IN
       IF Valid(f)
       THEN /\ hashed' = [hashed EXCEPT ![f] = scan.hash]
            /\ active' = [active EXCEPT ![Key[f]] = disk[f]]
            /\ torn' = IF disk[f] = scan.hash THEN torn \ {f} ELSE torn \cup {f}
            /\ scan' = [scan EXCEPT !.todo = Tail(@), !.hash = Absent, !.changed = TRUE]
       ELSE /\ scan' = [scan EXCEPT !.todo = Tail(@), !.hash = Absent]
            /\ UNCHANGED <<hashed, active, torn>>
  /\ UNCHANGED <<disk, changes, agent, faults>>

Gone == {f \in Files \ scan.seen : hashed[f] # Absent}

\* A gateway puts the RoutingAgent in the place of its agent while the poller, which
\* was started before, is running.
Route ==
  /\ ~routed /\ routed' = TRUE
  /\ UNCHANGED <<disk, changes, hashed, active, prompt, handed, scan, torn, faults>>

\* onReload: a summary of no skills at all is not handed on, and nothing is to an agent
\* that is no longer the Orchestrator it is asserted to be.
onReload(skills) ==
  /\ prompt' = IF routed \/ skills = Nothing THEN prompt ELSE skills
  /\ handed' = IF routed THEN handed ELSE skills

\* The end of syncAll: the files that were not seen are forgotten, and with each
\* its key, whichever file the active definition is from.
RemoveUnseen ==
  /\ scan.dir = Len(Dirs) /\ scan.todo = <<>>
  /\ hashed' = [f \in Files |-> IF f \in Gone THEN Absent ELSE hashed[f]]
  /\ active' = [k \in Keys |-> IF \E f \in Gone : Key[f] = k THEN Absent ELSE active[k]]
  /\ torn' = torn \ Gone
  /\ IF scan.changed \/ Gone # {} THEN onReload(active') ELSE UNCHANGED <<prompt, handed>>
  /\ scan' = Idle
  /\ UNCHANGED <<disk, changes, routed, faults>>

syncAll == ReadDir(TRUE) \/ hashFile(TRUE) \/ ParseFile \/ RemoveUnseen

Next ==
  \/ \E f \in Files, content \in Contents \cup {Absent, Invalid} : WriteFile(f, content)
  \/ syncAll \/ ReadDir(FALSE) \/ hashFile(FALSE) \/ Route

\* The ticker of Run keeps firing.
Spec == Init /\ [][Next]_vars /\ WF_vars(syncAll)

-----------------------------------------------------------------------------

TypeOK ==
  /\ disk \in [Files -> Contents \cup {Absent, Invalid}] /\ changes \in 0..MaxChanges
  /\ hashed \in [Files -> Contents \cup {Absent, Invalid}]
  /\ {active, prompt, handed} \subseteq [Keys -> Contents \cup {Absent}] /\ routed \in BOOLEAN
  /\ torn \subseteq Files /\ faults \in 0..MaxFaults

\* No other path has the key of f.
OwnKey(f) == \A g \in Files \ {f} : Key[g] # Key[f]

\* A valid file's definition is the active one, and a file that was removed has
\* none; an invalid file leaves either.
Followed(f) == (Valid(f) => active[Key[f]] = disk[f]) /\ (disk[f] = Absent => active[Key[f]] = Absent)

\* "Detects new files, modified files (hash change), and removed files": once
\* nobody changes the files, the active skills are those of the files.  Not so where
\* files share a key, and where a file was hashed before and parsed after a change
\* that was then undone.
ActiveFollowsFiles == \A f \in Files : OwnKey(f) /\ f \notin torn => Followed(f)

\* What is handed on follows the active skills as long as the agent of the process is
\* not behind the RoutingAgent: in an agent process always, in a gateway until its
\* gateways are built.  The prompt keeps the last skill when that one is gone.
AgentFollowsActive == ~routed => handed = active /\ (active # Nothing => prompt = active)

SkillsFollowFiles == <>[](ActiveFollowsFiles /\ AgentFollowsActive)

=============================================================================
