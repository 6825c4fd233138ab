------------------------------ MODULE Notifier ------------------------------
(***************************************************************************)
(* Notifications (internal/notification): the dispatcher takes a list of    *)
(* channels, looks each up, hands the message to the sender of its type     *)
(* and collects an error, or nil, for each channel.  A sender cuts a long   *)
(* message into parts and posts them one by one.  Its callers read the      *)
(* errors: a heartbeat task, its proactive alert, the send_notification     *)
(* tool and the channel test of the HTTP API.  Meanwhile the handlers of    *)
(* the API create, change and delete channels.                              *)
(***************************************************************************)
EXTENDS Integers, Sequences

CONSTANTS
  Channels,
  Unsent,      \* the channels of a type that has no sender
  Lists,       \* the lists of channels a caller may give
  Parts,       \* parts of a message
  MaxChanges,  \* bound: requests that change a channel
  MaxFaults    \* bound: failing lookups and posts

VARIABLES
  stored,    \* notification_channels: the status of each row
  edited,    \* handleChannelUpdate: the row it has read and will save
  changes,
  call,      \* who notifies, "none" when nobody does
  list,      \* the channels given
  todo,      \* those not reached
  posted,    \* parts of the message the current sender has posted
  errs,      \* the errors collected
  arrived,   \* parts that arrived, by channel, in the attempt made last
  complete,  \* attempts whose parts all arrived and were acknowledged
  audit,     \* audit entries "success" and "failure" of each channel
  report,    \* what the caller says of the channels
  faults

vars == <<stored, edited, changes, call, list, todo, posted, errs, arrived, complete, audit,
          report, faults>>

rows == <<stored, edited, changes>>
dispatch == <<call, list, todo, posted, errs, arrived, complete, audit, report, faults>>

Statuses == {"absent", "enabled", "disabled"}
Senders == {"task", "proactive", "tool", "test", "fallback"}
NoRow == [channel |-> "none"]
Nobody == [sent |-> {}, failed |-> {}, how |-> "none"]
Zero == [c \in Channels |-> 0]

TypeOK ==
  /\ stored \in [Channels -> Statuses] /\ changes \in 0..MaxChanges /\ faults \in 0..MaxFaults
  /\ call \in Senders \union {"none"} /\ list \in Seq(Channels) /\ todo \in Seq(Channels)
  /\ posted \in 0..Parts /\ DOMAIN errs \subseteq Channels
  /\ report.how \in {"none", "told", "refused", "panicked"}

Init ==
  /\ stored \in [Channels -> Statuses]
  /\ edited = NoRow /\ changes = 0
  /\ call = "none" /\ list = <<>> /\ todo = <<>> /\ posted = 0 /\ errs = <<>>
  /\ arrived = Zero /\ complete = Zero
  /\ audit = [c \in Channels |-> [success |-> 0, failure |-> 0]]
  /\ report = Nobody /\ faults = 0

-----------------------------------------------------------------------------
(* The channel handlers of the HTTP API. *)

Change == changes < MaxChanges /\ changes' = changes + 1

\* handleChannelCreate
Create(c, status) ==
  /\ Change /\ stored[c] = "absent" /\ status # "absent"
  /\ stored' = [stored EXCEPT ![c] = status]
  /\ UNCHANGED <<edited, dispatch>>

\* handleChannelUpdate reads the row, merges the request into it and saves all of it,
\* which puts back one that was deleted in between.
Read(c, status) ==
  /\ edited = NoRow /\ stored[c] # "absent" /\ status # "absent"
  /\ Change
  /\ edited' = [channel |-> c, status |-> status]
  /\ UNCHANGED <<stored, dispatch>>

Save ==
  /\ edited # NoRow
  /\ stored' = [stored EXCEPT ![edited.channel] = edited.status]
  /\ edited' = NoRow
  /\ UNCHANGED <<changes, dispatch>>

\* handleChannelDelete
Delete(c) ==
  /\ Change /\ stored[c] # "absent"
  /\ stored' = [stored EXCEPT ![c] = "absent"]
  /\ UNCHANGED <<edited, dispatch>>

-----------------------------------------------------------------------------
(* The dispatcher. *)

Fault == faults < MaxFaults /\ faults' = faults + 1
Audited(c, how) == [audit EXCEPT ![c][how] = @ + 1]
Collected(c, e) == [d \in DOMAIN errs \union {c} |-> IF d = c THEN e ELSE errs[d]]
Fallback == call = "fallback"

Begin(who, l) ==
  /\ call' = who /\ list' = l /\ todo' = l /\ posted' = 0 /\ errs' = <<>>
  /\ arrived' = Zero /\ complete' = Zero
  /\ audit' = [c \in Channels |-> [success |-> 0, failure |-> 0]]

\* A call.  The tool resolves every name first and gives up at one it cannot find;
\* the channel test has one channel.
Call(who, l) ==
  /\ call = "none" /\ report.how # "panicked"
  /\ who = "test" => Len(l) = 1
  /\ IF who = "tool" /\ \E c \in {l[k] : k \in DOMAIN l} : stored[c] = "absent"
       THEN report' = [Nobody EXCEPT !.how = "refused"]
            /\ UNCHANGED <<call, list, todo, posted, errs, arrived, complete, audit>>
       ELSE report' = Nobody /\ Begin(who, l)
  /\ UNCHANGED <<rows, faults>>

\* The channel at hand is done with: its error is kept; NotifyWithFallback keeps the
\* last one, and stops at the first success.
Done(c, e) ==
  /\ errs' = Collected(c, e)
  /\ posted' = 0
  /\ todo' = IF Fallback /\ e = "nil" THEN <<>> ELSE Tail(todo)

\* Notify audits a channel that could not be looked up or has no sender, not one that
\* is disabled; NotifyWithFallback audits successes only.
Refuse(c) ==
  /\ call # "none" /\ todo # <<>> /\ c = Head(todo) /\ posted = 0
  /\ \/ stored[c] = "absent" \/ c \in Unsent
     \/ stored[c] = "disabled"
     \/ faults < MaxFaults
  /\ faults' = IF stored[c] # "enabled" \/ c \in Unsent THEN faults ELSE faults + 1
  /\ audit' = IF Fallback \/ stored[c] = "disabled" THEN audit ELSE Audited(c, "failure")
  /\ Done(c, "error")
  /\ UNCHANGED <<rows, call, list, arrived, complete, report>>

\* The sender of the channel posts the first part.
SendMessage(c) ==
  /\ call # "none" /\ todo # <<>> /\ c = Head(todo) /\ posted = 0
  /\ stored[c] = "enabled" /\ c \notin Unsent
  /\ posted' = 1 /\ arrived' = [arrived EXCEPT ![c] = 1]
  /\ UNCHANGED <<rows, call, list, todo, errs, complete, audit, report, faults>>

\* Mutant: a part that failed is logged, and the next one posted.
SendGoesOn(c) ==
  /\ posted \in 1..Parts /\ todo # <<>> /\ c = Head(todo)
  /\ \/ /\ posted < Parts
        /\ posted' = posted + 1
        /\ \/ arrived' = [arrived EXCEPT ![c] = @ + 1] /\ UNCHANGED faults
           \/ Fault /\ UNCHANGED arrived
        /\ UNCHANGED <<todo, errs, complete, audit>>
     \/ /\ posted = Parts
        /\ complete' = [complete EXCEPT ![c] = @ + 1]
        /\ audit' = Audited(c, "success")
        /\ Done(c, "nil")
        /\ UNCHANGED <<arrived, faults>>
  /\ UNCHANGED <<rows, call, list, report>>

\* Send: the part posted last is acknowledged and the next posted, or Send returns nil;
\* or the post fails, though it may have arrived, and Send returns the error.
Send(c) ==
  /\ posted \in 1..Parts /\ todo # <<>> /\ c = Head(todo)
  /\ \/ /\ posted < Parts
        /\ posted' = posted + 1
        /\ arrived' = [arrived EXCEPT ![c] = @ + 1]
        /\ UNCHANGED <<todo, errs, complete, audit, faults>>
     \/ /\ posted = Parts
        /\ complete' = [complete EXCEPT ![c] = @ + 1]
        /\ audit' = Audited(c, "success")
        /\ Done(c, "nil")
        /\ UNCHANGED <<arrived, faults>>
     \/ /\ Fault
        /\ arrived' \in {arrived, [arrived EXCEPT ![c] = @ - 1]}
        /\ audit' = IF Fallback THEN audit ELSE Audited(c, "failure")
        /\ Done(c, "error")
        /\ UNCHANGED complete
  /\ UNCHANGED <<rows, call, list, report>>

-----------------------------------------------------------------------------
(* The callers. *)

Sent == {c \in DOMAIN errs : errs[c] = "nil"}
Failed == {c \in DOMAIN errs : errs[c] = "error"}

Finished == call # "none" /\ todo = <<>>

\* The task's notify, the tool and the channel test tell the channels that have an
\* error from those that have none; NotifyWithFallback has one answer for all.
Report ==
  /\ Finished /\ call # "proactive"
  /\ report' = [sent |-> Sent, how |-> "told",
                failed |-> IF Fallback /\ Sent # {} THEN {} ELSE Failed]
  /\ call' = "none"
  /\ UNCHANGED <<rows, list, todo, posted, errs, arrived, complete, audit, faults>>

\* HandleFailure asks for the text of every error there is, and the runner goes on to
\* notify the same channels of the result of the task.
HandleFailure ==
  /\ Finished /\ call = "proactive"
  /\ IF Sent # {}
       THEN /\ report' = [Nobody EXCEPT !.how = "panicked"] /\ call' = "none"
            /\ UNCHANGED <<list, todo, posted, errs, arrived, complete, audit>>
       ELSE report' = Nobody /\ Begin("task", list)
  /\ UNCHANGED <<rows, faults>>

Handlers ==
  \/ \E c \in Channels : (\E s \in Statuses : Create(c, s) \/ Read(c, s)) \/ Delete(c)
  \/ Save

Dispatcher ==
  \/ \E c \in Channels : Refuse(c) \/ SendMessage(c) \/ Send(c)
  \/ Report \/ HandleFailure

Next == Handlers \/ Dispatcher \/ \E who \in Senders, l \in Lists : Call(who, l)

Spec == Init /\ [][Next]_vars

-----------------------------------------------------------------------------

Reached == Len(list) - Len(todo)

\* A channel that is said to have the message was sent all parts of it, in the attempt
\* made last; what the audit log calls a success is one, whatever became of the row
\* since; no channel of the list is passed over; and a fallback delivers one message.
ReportIsTrue ==
  /\ \A c \in report.sent : arrived[c] = Parts /\ complete[c] > 0
  /\ \A c \in Channels : audit[c].success = complete[c]
  /\ call # "none" /\ ~Fallback => \A k \in 1..Reached : list[k] \in DOMAIN errs
  /\ Fallback => \A c, d \in Channels : complete[c] > 0 /\ complete[d] > 0 => c = d /\ complete[c] = 1

\* The error of a channel that has the message is nil, as the comment of Notify says,
\* and whoever reads the errors takes it so.
NilIsSuccess == report.how # "panicked"

=============================================================================
