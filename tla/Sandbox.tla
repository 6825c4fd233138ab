------------------------------ MODULE Sandbox ------------------------------
(***************************************************************************)
(* One command in a sandbox (internal/sandbox/process.go, docker.go):       *)
(* Execute starts it under a deadline, a goroutine of os/exec copies its    *)
(* output through limitedWriter, Wait brings the two together, and the      *)
(* error of Run is turned into a result.                                    *)
(*                                                                          *)
(* The command is more than the process that was started.  A "process"      *)
(* command may leave processes behind, in its group, that keep the pipe     *)
(* of its output open or do not.  A "docker" command is the docker client;  *)
(* its container is made by the daemon, some time after the client asked    *)
(* for it.  Standard output stands for both streams: each has a writer and  *)
(* a goroutine of its own, and they are alike.                              *)
(***************************************************************************)
EXTENDS Integers

CONSTANTS
  Kinds,      \* the sandboxes looked at, of "process" and "docker"
  Cap,        \* maxOutputBytes
  MaxOutput   \* bound: what a command writes

VARIABLES
  kind,
  stage,      \* where Execute is
  done,       \* whether its context is: the timeout, or the caller's
  leader,     \* the process that was started
  code,       \* its exit status, 1 for any that is not 0
  spawned,    \* the process left behind, or the container
  asked,      \* whether the daemon was asked for the container
  written,    \* bytes the command has written
  piped,      \* of these, the ones not read
  captured,   \* bytes in stdoutBuf
  copier,     \* the copying goroutine
  cancelled,  \* whether cmd.Cancel was called
  runErr,     \* the error of cmd.Run
  tmpDir,     \* whether the directory of the command exists
  result      \* what Execute returns

vars == <<kind, stage, done, leader, code, spawned, asked, written, piped, captured,
          copier, cancelled, runErr, tmpDir, result>>

output == <<written, piped, captured, copier>>
processes == <<leader, code, spawned, asked>>

Smaller(a, b) == IF a < b THEN a ELSE b

TypeOK ==
  /\ kind \in Kinds
  /\ stage \in {"called", "starting", "running", "waiting", "removing", "returning", "ended"}
  /\ leader \in {"none", "running", "exited"} /\ code \in {0, 1}
  /\ spawned \in {"none", "holding", "detached", "gone"}
  /\ piped \in 0..written /\ written \in 0..MaxOutput /\ captured \in 0..written
  /\ copier \in {"copying", "ended", "short"}
  /\ runErr \in {"nil", "start", "exit", "ctx", "short"}
  /\ result \in {"none", "result", "timed out", "failed"}
  /\ {done, asked, cancelled, tmpDir} \subseteq BOOLEAN

Init ==
  /\ kind \in Kinds /\ stage = "called" /\ done = FALSE
  /\ leader = "none" /\ code = 0 /\ spawned = "none" /\ asked = FALSE
  /\ written = 0 /\ piped = 0 /\ captured = 0 /\ copier = "copying"
  /\ cancelled = FALSE /\ runErr = "nil" /\ tmpDir = FALSE /\ result = "none"

-----------------------------------------------------------------------------
(* The command. *)

Alive == spawned \in {"holding", "detached"}
Holds == leader = "running" \/ spawned = "holding"

\* Bytes are written.  Once the goroutine is gone the pipe is closed: a writer is
\* killed, or goes on without being read.
Produce ==
  /\ stage \in {"running", "waiting"} /\ Holds /\ copier = "copying" /\ written < MaxOutput
  /\ written' = written + 1 /\ piped' = piped + 1
  /\ UNCHANGED <<kind, stage, done, processes, captured, copier, cancelled, runErr, tmpDir, result>>

\* The command starts a process that outlives it.
Fork(how) ==
  /\ kind = "process" /\ leader = "running" /\ spawned = "none"
  /\ spawned' = how
  /\ UNCHANGED <<kind, stage, done, leader, code, asked, output, cancelled, runErr, tmpDir, result>>

\* The client asks for the container; the daemon makes it.
Ask ==
  /\ kind = "docker" /\ leader = "running" /\ ~asked
  /\ asked' = TRUE
  /\ UNCHANGED <<kind, stage, done, leader, code, spawned, output, cancelled, runErr, tmpDir, result>>

Create ==
  /\ asked /\ spawned = "none"
  /\ spawned' = "detached"
  /\ UNCHANGED <<kind, stage, done, leader, code, asked, output, cancelled, runErr, tmpDir, result>>

\* What was left behind ends by itself; --rm removes a container then.
SpawnedEnds ==
  /\ Alive
  /\ spawned' = "gone"
  /\ UNCHANGED <<kind, stage, done, leader, code, asked, output, cancelled, runErr, tmpDir, result>>

\* The command ends.  A docker client waits for its container.
Exit(status) ==
  /\ leader = "running"
  /\ kind = "docker" => IF asked THEN spawned = "gone" ELSE status = 1
  /\ leader' = "exited" /\ code' = status
  /\ UNCHANGED <<kind, stage, done, spawned, asked, output, cancelled, runErr, tmpDir, result>>

-----------------------------------------------------------------------------
(* limitedWriter. *)

\* What is kept of a write of n bytes, and the count that is returned.
Write(n) ==
  LET remaining == Cap - captured
      kept == Smaller(n, remaining)
  IN IF remaining <= 0 THEN [kept |-> 0, n |-> n] ELSE [kept |-> kept, n |-> kept]

\* io.Copy: a count that is not that of the bytes given ends it with ErrShortWrite.
Copy(n) ==
  /\ stage \in {"running", "waiting"} /\ copier = "copying" /\ n \in 1..piped
  /\ captured' = captured + Write(n).kept
  /\ piped' = piped - n
  /\ copier' = IF Write(n).n = n THEN "copying" ELSE "short"
  /\ UNCHANGED <<kind, stage, done, processes, written, cancelled, runErr, tmpDir, result>>

\* The end of the output: nobody has the pipe open for writing.
EOF ==
  /\ stage \in {"running", "waiting"} /\ copier = "copying" /\ piped = 0 /\ ~Holds
  /\ copier' = "ended"
  /\ UNCHANGED <<kind, stage, done, processes, written, piped, captured, cancelled, runErr, tmpDir,
                 result>>

-----------------------------------------------------------------------------
(* Execute. *)

Return(r) == stage' = "ended" /\ result' = r

\* An empty command, no directory or no name for the container: nothing was started.
Execute ==
  /\ stage = "called"
  /\ \/ Return("failed") /\ UNCHANGED tmpDir
     \/ stage' = "starting" /\ tmpDir' = (kind = "process") /\ UNCHANGED result
  /\ UNCHANGED <<kind, done, processes, output, cancelled, runErr>>

AfterRun == IF kind = "docker" THEN "removing" ELSE "returning"

\* cmd.Start: it fails, or a context that is over keeps it from starting anything.
Start ==
  /\ stage = "starting"
  /\ \/ /\ stage' = AfterRun /\ runErr' = "start"
        /\ UNCHANGED leader
     \/ /\ ~done
        /\ stage' = "running" /\ leader' = "running"
        /\ UNCHANGED runErr
  /\ UNCHANGED <<kind, done, code, spawned, asked, output, cancelled, tmpDir, result>>

\* The timeout passes, or the caller gives up.
Deadline ==
  /\ stage # "ended" /\ ~done
  /\ done' = TRUE
  /\ UNCHANGED <<kind, stage, processes, output, cancelled, runErr, tmpDir, result>>

Killed(s) == IF s \in {"holding", "detached"} THEN "gone" ELSE s

\* Mutant: only the process that was started is killed.
CancelLeader ==
  /\ stage = "running" /\ done /\ ~cancelled
  /\ cancelled' = TRUE /\ leader' = "exited"
  /\ code' = IF leader = "running" THEN 1 ELSE code
  /\ UNCHANGED <<kind, stage, done, spawned, asked, output, runErr, tmpDir, result>>

\* The goroutine of os/exec that watches the context calls cmd.Cancel, which kills the
\* process group, or the docker client.  It watches until Wait has the exit status.  A
\* client that is known to have ended gives os.ErrProcessDone, which is no error of the
\* command: Wait goes on as if nobody had watched.
Cancel ==
  /\ stage = "running" /\ done /\ ~cancelled
  /\ \/ /\ cancelled' = TRUE /\ leader' = "exited"
        /\ code' = IF leader = "running" THEN 1 ELSE code
        /\ spawned' = IF kind = "process" THEN Killed(spawned) ELSE spawned
        /\ UNCHANGED stage
     \/ /\ kind = "docker" /\ leader = "exited"
        /\ stage' = "waiting"
        /\ UNCHANGED <<cancelled, leader, code, spawned>>
  /\ UNCHANGED <<kind, done, asked, output, runErr, tmpDir, result>>

\* Wait has the exit status, and the context is no longer watched.
Reap ==
  /\ stage = "running" /\ leader = "exited"
  /\ stage' = "waiting"
  /\ UNCHANGED <<kind, done, processes, output, cancelled, runErr, tmpDir, result>>

\* Wait returns once the output is copied: the exit status goes before the error of
\* the context, and that one before the error of the copy.
Wait ==
  /\ stage = "waiting" /\ copier # "copying"
  /\ stage' = AfterRun
  /\ runErr' = CASE code # 0 -> "exit"
                 [] code = 0 /\ cancelled -> "ctx"
                 [] code = 0 /\ ~cancelled /\ copier = "short" -> "short"
                 [] OTHER -> "nil"
  /\ UNCHANGED <<kind, done, processes, output, cancelled, tmpDir, result>>

\* docker rm -f, which may fail or find no container.
forceRemoveContainer ==
  /\ stage = "removing"
  /\ stage' = "returning"
  /\ spawned' \in {spawned, Killed(spawned)}
  /\ UNCHANGED <<kind, done, leader, code, asked, output, cancelled, runErr, tmpDir, result>>

\* What the error of Run means.
Interpret ==
  CASE runErr = "nil" -> "result"
    [] runErr # "nil" /\ done -> "timed out"
    [] runErr = "exit" /\ ~done -> "result"
    [] OTHER -> "failed"

\* The deferred removal of the directory may fail, which is logged.
Returns ==
  /\ stage = "returning"
  /\ Return(Interpret)
  /\ tmpDir' \in {FALSE, tmpDir}
  /\ UNCHANGED <<kind, done, processes, output, cancelled, runErr>>

Caller == Execute \/ Start \/ Wait \/ forceRemoveContainer \/ Returns
Watcher == Deadline \/ Cancel
Copier == EOF \/ \E n \in 1..MaxOutput : Copy(n)

Next ==
  \/ Produce \/ \E how \in {"holding", "detached"} : Fork(how)
  \/ Ask \/ Create \/ SpawnedEnds \/ \E status \in {0, 1} : Exit(status)
  \/ Caller \/ Watcher \/ Copier \/ Reap

\* Execute, the goroutine that watches its context, the copying one and the timer go on.
Fairness == WF_vars(Caller) /\ WF_vars(Watcher) /\ WF_vars(Copier) /\ WF_vars(Reap)

Spec == Init /\ [][Next]_vars /\ Fairness

-----------------------------------------------------------------------------

\* A command that was killed is never reported as one that ended, whatever status it
\* left; a reported one has its own status and, up to the limit, all of its output.
ResultIsTrue ==
  /\ captured <= Cap
  /\ result = "result" =>
       /\ ~cancelled /\ leader = "exited"
       /\ captured = Smaller(written, Cap)
       /\ code = 0 => runErr = "nil" /\ copier = "ended"

\* A "process" command that was killed leaves nothing running, whatever it had started
\* by then.  (A deadline that passes when the command itself has ended kills nothing.)
GroupIsKilled == kind = "process" /\ cancelled => leader = "exited" /\ ~Alive

\* Execute fails only for a command that was not started: what one writes beyond the
\* limit is dropped and no error, as the comment of limitedWriter has it.
CappedIsNoError == result = "failed" => leader = "none"

\* What Execute may wait for without a deadline: the output, which a process that the
\* command left behind has open.
Held == stage = "waiting" /\ spawned = "holding"

\* Execute ends, unless it is held there for ever.
ExecuteEnds == []<>~Held => <>[](stage = "ended")

=============================================================================
