---------------------------- MODULE ChatGateway ----------------------------
(***************************************************************************)
(* The gateways people talk to the agent through (internal/gateway/         *)
(* telegram, signal, slack, httpapi, cli).  They differ in how what was     *)
(* said reaches the process:                                                *)
(*   "poll"      Telegram long polling: an update is confirmed by the       *)
(*               offset of a later getUpdates;                              *)
(*   "hook"      Telegram webhook: posted again until it is answered;       *)
(*   "signal"    Signal: receiving a message removes it;                    *)
(*   "slack", "http"  one request, one answer;                              *)
(*   "terminal"  the CLI: the lines of standard input.                      *)
(* Behind them is one in-memory approval manager, which a restart empties.  *)
(***************************************************************************)
EXTENDS Integers, Sequences

CONSTANTS
  Transports,    \* the gateways looked at, of those above
  MaxUpdates,    \* bound: updates people send
  MaxApprovals,  \* bound: calls that ask for an approval
  MaxTries,      \* bound: posts of an update by Telegram
  MaxFaults      \* bound: crashes, shutdowns and answers lost

VARIABLES
  transport,
  up,         \* whether the process runs
  sent,       \* what people have sent, in order
  confirmed,  \* how many of these the platform has let go of
  answered,   \* the posted ones that were answered
  tries,      \* how often each was posted
  offset,     \* startPolling: the local variable
  batch,      \* the updates of a poll that are not through
  running,    \* the handlers at work: an update and how far it is
  prompt,     \* the approvals the CLI asks for
  approvals,  \* the status of each approval
  shown,      \* the approvals somebody has buttons for
  called,     \* how often each update was begun
  ended,      \* and how often one of these came to its end
  executed,   \* executions of each approved call
  faults

vars == <<transport, up, sent, confirmed, answered, tries, offset, batch, running,
          prompt, approvals, shown, called, ended, executed, faults>>

platform == <<sent, confirmed, answered, tries>>

Updates == 1..MaxUpdates
None == [u \in Updates |-> 0]
Larger(a, b) == IF a > b THEN a ELSE b

Init ==
  /\ transport \in Transports /\ up = TRUE
  /\ sent = <<>> /\ confirmed = 0 /\ answered = {} /\ tries = None
  /\ offset = 0 /\ batch = <<>> /\ running = {} /\ prompt = <<>>
  /\ approvals = <<>> /\ shown = {}
  /\ called = None /\ ended = None
  /\ executed = [a \in 1..MaxApprovals |-> 0] /\ faults = 0

Fault == faults < MaxFaults /\ faults' = faults + 1

\* A message, a decision on an approval that was shown, or anything from somebody
\* who is not on the allowlist or not mapped to a user.
Say(kind, id) ==
  /\ Len(sent) < MaxUpdates
  /\ IF kind \in {"approve", "deny"} THEN id \in shown ELSE id = 0
  /\ ~(transport = "terminal" /\ kind = "stranger")
  /\ sent' = Append(sent, [kind |-> kind, id |-> id])
  /\ UNCHANGED <<transport, up, confirmed, answered, tries, offset, batch, running,
                 prompt, approvals, shown, called, ended, executed, faults>>

-----------------------------------------------------------------------------
(* How an update reaches its handler. *)

Telegram == transport \in {"poll", "hook"}
Requested == transport \in {"slack", "http"}
Sequential == transport \in {"poll", "signal", "terminal"}

Idle == up /\ batch = <<>> /\ running = {}
From(n) == [k \in 1..(Len(sent) - n) |-> n + k]

\* Mutant: what is returned is confirmed at once.
getUpdatesTaking ==
  /\ transport = "poll" /\ Idle
  /\ confirmed' = Len(sent)
  /\ batch' = From(confirmed) /\ UNCHANGED faults
  /\ UNCHANGED <<transport, up, sent, answered, tries, offset, running, prompt,
                 approvals, shown, called, ended, executed>>

\* The offset lets go of the updates below it; the rest comes back, or the answer
\* is lost and the loop asks again.
getUpdates ==
  /\ transport = "poll" /\ Idle
  /\ confirmed' = Larger(confirmed, offset - 1)
  /\ \/ batch' = From(confirmed') /\ UNCHANGED faults
     \/ batch' = <<>> /\ Fault
  /\ UNCHANGED <<transport, up, sent, answered, tries, offset, running, prompt,
                 approvals, shown, called, ended, executed>>

\* Messages are gone from the Signal service once it has answered, also when the
\* answer does not arrive or cannot be decoded.
receiveMessages ==
  /\ transport = "signal" /\ Idle /\ confirmed < Len(sent)
  /\ confirmed' = Len(sent)
  /\ \/ batch' = From(confirmed) /\ UNCHANGED faults
     \/ batch' = <<>> /\ Fault
  /\ UNCHANGED <<transport, up, sent, answered, tries, offset, running, prompt,
                 approvals, shown, called, ended, executed>>

\* scanner.Scan: the next line.
Scan ==
  /\ transport = "terminal" /\ Idle /\ confirmed < Len(sent)
  /\ confirmed' = confirmed + 1 /\ batch' = <<confirmed + 1>>
  /\ UNCHANGED <<transport, up, sent, answered, tries, offset, running, prompt,
                 approvals, shown, called, ended, executed, faults>>

Begin(u, try) ==
  /\ running' = running \cup {[update |-> u, try |-> try, at |-> "begun"]}
  /\ called' = [called EXCEPT ![u] = @ + 1]

\* The loops handle one update after the other.
startPolling ==
  /\ up /\ batch # <<>> /\ running = {}
  /\ Begin(Head(batch), 1)
  /\ UNCHANGED <<transport, up, platform, offset, batch, prompt, approvals, shown,
                 ended, executed, faults>>

\* A server runs a handler for each request.  Telegram posts an update again when
\* it has waited too long; nothing tells the two apart.
handleWebhook(u) ==
  /\ up /\ u \in DOMAIN sent \ answered
  /\ \/ transport = "hook" /\ tries[u] < MaxTries
     \/ Requested /\ tries[u] = 0
  /\ tries' = [tries EXCEPT ![u] = @ + 1]
  /\ Begin(u, tries'[u])
  /\ UNCHANGED <<transport, up, sent, confirmed, answered, offset, batch, prompt,
                 approvals, shown, ended, executed, faults>>

-----------------------------------------------------------------------------
(* What handlers do. *)

\* The handler returns.  startPolling moves the offset past the update; an answer
\* to a post counts if it is in time.
End(h) ==
  /\ running' = running \ {h}
  /\ ended' = [ended EXCEPT ![h.update] = @ + 1]
  /\ batch' = IF Sequential THEN Tail(batch) ELSE batch
  /\ offset' = IF transport = "poll" THEN Larger(offset, h.update + 1) ELSE offset
  /\ \/ ~Sequential /\ answered' = answered \cup {h.update}
     \/ ~Requested /\ UNCHANGED answered

\* At the prompt of the CLI a line is the answer, and means no unless it is yes.
Asks(u) ==
  IF transport # "terminal" THEN sent[u].kind
  ELSE IF prompt = <<>> THEN "message"
  ELSE IF sent[u].kind = "approve" THEN "approve" ELSE "deny"

Of(u) == IF transport = "terminal" THEN Head(prompt) ELSE sent[u].id

Answered == prompt' = IF prompt = <<>> THEN prompt ELSE Tail(prompt)

\* Not on the allowlist, not mapped, not signed or over the rate limit.
Refuse(h) ==
  /\ h \in running /\ h.at = "begun"
  /\ End(h)
  /\ UNCHANGED <<transport, up, sent, confirmed, tries, prompt, approvals, shown, called,
                 executed, faults>>

\* The buttons are sent once; an error of that is logged.
sendApprovalKeyboard(a) == shown' \in {shown, shown \cup {a}}

\* agent.Process, and what it returns: an error or an answer, or an approval to
\* ask for.
Process(h, asks) ==
  /\ h \in running /\ h.at = "begun"
  /\ Asks(h.update) = "message"
  /\ IF asks
     THEN /\ Len(approvals) < MaxApprovals
          /\ approvals' = Append(approvals, "pending")
          /\ IF transport = "terminal"
             THEN prompt' = <<Len(approvals')>> ELSE UNCHANGED prompt
          /\ sendApprovalKeyboard(Len(approvals'))
     ELSE UNCHANGED <<approvals, prompt, shown>>
  /\ End(h)
  /\ UNCHANGED <<transport, up, sent, confirmed, tries, called, executed, faults>>

Deciding(h, decision) ==
  /\ h \in running /\ h.at = "begun"
  /\ Asks(h.update) = decision

Deny(h) ==
  /\ Deciding(h, "deny")
  /\ approvals' = [approvals EXCEPT ![Of(h.update)] = IF @ = "pending" THEN "denied" ELSE @]
  /\ End(h) /\ Answered
  /\ UNCHANGED <<transport, up, sent, confirmed, tries, shown, called, executed, faults>>

\* Approve takes a pending approval; else its error ends the handler.
Approve(h) ==
  /\ Deciding(h, "approve")
  /\ IF approvals[Of(h.update)] = "pending"
     THEN /\ approvals' = [approvals EXCEPT ![Of(h.update)] = "approved"]
          /\ running' = (running \ {h}) \cup {[h EXCEPT !.at = "approved"]}
          /\ UNCHANGED <<batch, offset, answered, ended, prompt>>
     ELSE End(h) /\ Answered /\ UNCHANGED approvals
  /\ UNCHANGED <<transport, up, sent, confirmed, tries, shown, called, executed, faults>>

\* ResumeWithApproval; the result is told to whoever asked, at best.
Resume(h) ==
  /\ h \in running /\ h.at = "approved"
  /\ executed' = [executed EXCEPT ![Of(h.update)] = @ + 1]
  /\ End(h) /\ Answered
  /\ UNCHANGED <<transport, up, sent, confirmed, tries, approvals, shown, called, faults>>

Talk(h) == \E asks \in BOOLEAN : Process(h, asks)
Decide(h) == Deny(h) \/ Approve(h) \/ Resume(h)

-----------------------------------------------------------------------------
(* The handlers.  Telegram and Slack do not count buttons against the rate  *)
(* limit.                                                                   *)

Kind(h) == sent[h.update].kind
Stranger(h) == Kind(h) = "stranger"

handleMessage(h) ==
  Telegram /\ Kind(h) \in {"message", "stranger"} /\ (Refuse(h) \/ Talk(h))
handleCallback(h) ==
  Telegram /\ Kind(h) # "message" /\ ((Stranger(h) /\ Refuse(h)) \/ Decide(h))

\* A decision is a message like any other until it is told apart.
processMessage(h) == transport = "signal" /\ (Refuse(h) \/ Talk(h))
handleApprovalCommand(h) == transport = "signal" /\ Decide(h)

handleSlashCommand(h) ==
  transport = "slack" /\ Kind(h) \in {"message", "stranger"} /\ (Refuse(h) \/ Talk(h))
handleInteraction(h) ==
  transport = "slack" /\ Kind(h) # "message" /\ ((Stranger(h) /\ Refuse(h)) \/ Decide(h))

handleQuery(h) ==
  transport = "http" /\ Kind(h) \in {"message", "stranger"} /\ (Refuse(h) \/ Talk(h))
handleApprove(h) == transport = "http" /\ Kind(h) # "message" /\ (Refuse(h) \/ Decide(h))

\* The CLI has one user, who is known; an error is shown, and the loop goes on.
ProcessLine(h) == transport = "terminal" /\ Talk(h)
handleApproval(h) == transport = "terminal" /\ Decide(h)

Handle(h) ==
  \/ handleMessage(h) \/ handleCallback(h) \/ processMessage(h) \/ handleApprovalCommand(h)
  \/ handleSlashCommand(h) \/ handleInteraction(h) \/ handleQuery(h) \/ handleApprove(h)
  \/ ProcessLine(h) \/ handleApproval(h)

\* The process stops, or a shutdown cancels the context of its handlers.  The
\* approvals were in memory, and so were the lines of the terminal.
Crash ==
  /\ up /\ Fault
  /\ up' = FALSE /\ offset' = 0 /\ batch' = <<>> /\ running' = {} /\ prompt' = <<>>
  /\ approvals' = [a \in DOMAIN approvals |->
                     IF approvals[a] = "denied" THEN "denied" ELSE "gone"]
  /\ UNCHANGED <<transport, platform, shown, called, ended, executed>>

Start ==
  /\ ~up /\ up' = TRUE
  /\ UNCHANGED <<transport, platform, offset, batch, running, prompt, approvals, shown,
                 called, ended, executed, faults>>

Next ==
  \/ \E kind \in {"message", "approve", "deny", "stranger"}, id \in {0} \cup shown :
       Say(kind, id)
  \/ getUpdates \/ receiveMessages \/ Scan \/ startPolling
  \/ \E u \in DOMAIN sent : handleWebhook(u)
  \/ \E h \in running : Handle(h)
  \/ Crash \/ Start

Spec == Init /\ [][Next]_vars

-----------------------------------------------------------------------------

\* Long polling skips nothing: an update Telegram has let go of came to the end of
\* a handler, whatever crashed and whichever answers were lost in between.
NothingSkipped ==
  transport = "poll" => \A u \in 1..confirmed : ended[u] > 0

\* An update is begun again only after a crash or, posted, by a retry: Signal, Slack,
\* the HTTP API and the CLI never take one twice.
RepeatsBounded ==
  \A u \in Updates :
    called[u] <= 1 + CASE transport = "poll" -> faults
                       [] transport = "hook" -> MaxTries - 1
                       [] OTHER -> 0

\* However buttons are pressed and posts repeated, an approval is executed once at
\* the most, and never when it was denied.
ButtonsActOnce ==
  \A a \in DOMAIN approvals :
    executed[a] <= IF approvals[a] \in {"pending", "denied"} THEN 0 ELSE 1

=============================================================================
