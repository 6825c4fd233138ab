---------------------------- MODULE Conversation ----------------------------
(***************************************************************************)
(* One conversation (internal/agent): Orchestrator.Process loads its        *)
(* history, talks to the model with it, and appends what was said to the    *)
(* conversation store; ResumeWithApproval puts the result of an approved    *)
(* tool call where Process left a placeholder.  Requests of one             *)
(* conversation are not kept apart.  A message is abstracted to its kind,   *)
(* the request and the iteration it belongs to and, for tool results, what  *)
(* is known of each call.                                                   *)
(***************************************************************************)
EXTENDS Integers, FiniteSets, SequencesExt

CONSTANTS
  Requests,       \* 1..n, in the order in which they arrive
  Postgres,       \* the store: ConversationRepository, or the one in memory
  MaxHistory,     \* maxHistoryMessages
  MaxIterations,  \* maxIterations
  Outcomes,       \* what the tool calls of an answer may come to; <<>> is a plain answer
  Window,         \* how many messages ReplaceToolResult looks at in the database
  Summarizing,    \* summarizeOnTruncate
  MaxFaults       \* bound: failing statements and failing requests to the model

VARIABLES
  created,  \* whether the conversation exists
  store,    \* its messages by seq_num; several may have the same one
  req,      \* the requests
  resume,   \* the calls that were resumed
  mixed,    \* history: some append was based on a seq_num that was not the last
  torn,     \* history: results that were overwritten by a copy read earlier
  faults

vars == <<created, store, req, resume, mixed, torn, faults>>

Message(kind, r, i, calls) == [kind |-> kind, r |-> r, i |-> i, calls |-> calls]
User(r) == Message("user", r, 0, <<>>)
Summary == Message("summary", 0, 0, <<>>)

Role(m) == IF m.kind \in {"text", "use"} THEN "assistant" ELSE "user"
HasBlocks(m) == m.kind \in {"text", "use", "result"}
Is(m, k) == m.kind = "result" /\ m.r = k[1] /\ m.i = k[2]
Said(m, n) == m.kind = n.kind /\ m.r = n.r /\ m.i = n.i

Fault == faults < MaxFaults /\ faults' = faults + 1

Waiting == [stage |-> "idle", history |-> <<>>, start |-> 0, iter |-> 0,
            persistent |-> FALSE, seq |-> 0, new |-> <<>>]

Init ==
  /\ created = FALSE /\ store = <<>>
  /\ req = [r \in Requests |-> Waiting]
  /\ resume = [k \in {} |-> {}]
  /\ mixed = FALSE /\ torn = {}
  /\ faults = 0

-----------------------------------------------------------------------------
(* What the model is sent. *)

LastOf(s, n) == IF Len(s) > n THEN SubSeq(s, Len(s) - n + 1, Len(s)) ELSE s

\* Messages with the same seq_num come in any order.
Orders ==
  FoldLeft(LAMBDA orders, slot : {o \o s : o \in orders, s \in SetToSeqs(slot)}, {<<>>}, store)

LoadHistory == {LastOf(o, MaxHistory) : o \in Orders}

\* The threshold is 0.8 of the maximum, and 0.4 of it is kept.
KeepRecent == Max({(MaxHistory * 4) \div 10, 2})
summarizeHistory(h) ==
  IF Len(h) < (MaxHistory * 8) \div 10 \/ Len(h) - KeepRecent < 4 THEN h
  ELSE <<Summary>> \o LastOf(h, KeepRecent)

truncateHistory(h) ==
  LET kept == LastOf(h, MaxHistory) IN
    IF Len(h) > MaxHistory /\ Role(Head(kept)) = "assistant" THEN Tail(kept) ELSE kept

\* The model may fail to summarize.
Managed(h) == {truncateHistory(g) : g \in {h} \cup (IF Summarizing THEN {summarizeHistory(h)} ELSE {})}

\* Mutant: what is dropped from the front is not accounted for.
HistoryStartAsLoaded(start, dropped) == start

HistoryStart(start, dropped) == Max({start - dropped, 0})

\* The start of Process, with the history that was loaded.
Begin(r, h, persistent) ==
  \E managed \in Managed(Append(h, User(r))) :
    req' = [req EXCEPT ![r] =
      [stage |-> "llm", history |-> managed,
       start |-> HistoryStart(Len(h), Len(h) + 1 - Len(managed)),
       iter |-> 0, persistent |-> persistent, seq |-> 0, new |-> <<User(r)>>]]

Arrived(r) == req[r].stage = "idle" /\ \A q \in Requests : q < r => req[q].stage # "idle"

\* GetOrCreateConversation and LoadHistory.  In the database a conversation that
\* was not found is created by a statement of its own.
Process(r) ==
  /\ Arrived(r)
  /\ IF Postgres /\ ~created
     THEN req' = [req EXCEPT ![r].stage = "creating"] /\ UNCHANGED created
     ELSE created' = TRUE /\ \E h \in LoadHistory : Begin(r, h, TRUE)
  /\ UNCHANGED <<store, resume, mixed, torn, faults>>

\* When another request has created it meanwhile, the insertion fails, and the
\* request goes on without the conversation.
Create(r) ==
  /\ req[r].stage = "creating"
  /\ created' = TRUE
  /\ IF created THEN Begin(r, <<>>, FALSE) ELSE Begin(r, <<>>, TRUE)
  /\ UNCHANGED <<store, resume, mixed, torn, faults>>

LoadFails(r) ==
  /\ Postgres /\ Fault
  /\ Arrived(r) \/ req[r].stage = "creating"
  /\ Begin(r, <<>>, FALSE)
  /\ UNCHANGED <<created, store, resume, mixed, torn>>

-----------------------------------------------------------------------------
(* The loop. *)

\* Mutant: a call that waits for an approval is left without a result.
SaidUnanswered(r, i, calls) ==
  IF calls = <<>> THEN <<Message("text", r, i, <<>>)>>
  ELSE <<Message("use", r, i, <<>>)>>
       \o (IF Contains(calls, "pending") THEN <<>> ELSE <<Message("result", r, i, calls)>>)

\* What one iteration adds to the history.
SaidIn(r, i, calls) ==
  IF calls = <<>> THEN <<Message("text", r, i, <<>>)>>
  ELSE <<Message("use", r, i, <<>>), Message("result", r, i, calls)>>

\* An answer of the model, and the tool calls it asks for.  A call that waits for
\* an approval ends the request, with a placeholder as its result.
Answer(r, calls) ==
  /\ req[r].stage = "llm"
  /\ LET i == req[r].iter + 1
         said == SaidIn(r, i, calls)
         over == calls = <<>> \/ Contains(calls, "pending") \/ i = MaxIterations IN
       req' = [req EXCEPT ![r] = [@ EXCEPT !.history = @ \o said, !.new = @ \o said, !.iter = i,
                                           !.stage = IF over THEN "persist" ELSE "llm"]]
  /\ UNCHANGED <<created, store, resume, mixed, torn, faults>>

RequestFails(r) ==
  /\ req[r].stage = "llm" /\ Fault
  /\ req' = [req EXCEPT ![r].stage = "persist"]
  /\ UNCHANGED <<created, store, resume, mixed, torn>>

-----------------------------------------------------------------------------
(* persistNewMessages. *)

NewMessages(r) == SubSeq(req[r].history, req[r].start + 1, Len(req[r].history))

Ended(r, stored) ==
  req' = [req EXCEPT ![r] = [@ EXCEPT !.stage = "done", !.history = <<>>, !.start = 0,
                                      !.seq = 0, !.persistent = stored]]

\* AppendMessages in memory, and the query for the highest seq_num in the database.
persistNewMessages(r) ==
  /\ req[r].stage = "persist"
  /\ IF ~req[r].persistent THEN Ended(r, FALSE) /\ UNCHANGED store
     ELSE IF Postgres
     THEN req' = [req EXCEPT ![r] = [@ EXCEPT !.stage = "insert", !.seq = Len(store)]] /\ UNCHANGED store
     ELSE /\ store' = store \o [n \in DOMAIN NewMessages(r) |-> {NewMessages(r)[n]}]
          /\ Ended(r, TRUE)
  /\ UNCHANGED <<created, resume, mixed, torn, faults>>

\* The rest of the transaction: nothing keeps two of them from using the same
\* numbers.
Insert(r) ==
  /\ req[r].stage = "insert"
  /\ LET seq == req[r].seq
         msgs == NewMessages(r)
         At(n) == IF n > seq /\ n <= seq + Len(msgs) THEN {msgs[n - seq]} ELSE {} IN
       /\ store' = [n \in 1..Max({Len(store), seq + Len(msgs)}) |->
                      At(n) \cup (IF n <= Len(store) THEN store[n] ELSE {})]
       /\ mixed' = (mixed \/ seq # Len(store))
  /\ Ended(r, TRUE)
  /\ UNCHANGED <<created, resume, torn, faults>>

AppendFails(r) ==
  /\ req[r].stage = "insert" /\ Fault
  /\ Ended(r, FALSE)
  /\ UNCHANGED <<created, store, resume, mixed, torn>>

-----------------------------------------------------------------------------
(* ResumeWithApproval, once the call has been executed. *)

Pending(k) ==
  /\ k \notin DOMAIN resume
  /\ \E m \in ToSet(req[k[1]].new) : Is(m, k) /\ k[3] <= Len(m.calls) /\ m.calls[k[3]] = "pending"

CallIds == Requests \X (1..MaxIterations) \X (1..2)

Stored(k) == \E n \in DOMAIN store : \E m \in store[n] : Is(m, k)

\* More than a window of messages came after the result.
Buried(k) ==
  Postgres /\ \E n \in DOMAIN store : (\E m \in store[n] : Is(m, k))
    /\ Cardinality({<<j, m>> \in (n..Len(store)) \X (UNION {store[j] : j \in n..Len(store)}) :
                      m \in store[j] /\ HasBlocks(m)}) > Window

Recent(o) == IF Postgres THEN LastOf(SelectSeq(o, HasBlocks), Window) ELSE o

\* The copy of the message that the scan comes to, if it does.
Found(k) == {{m \in ToSet(Recent(o)) : Is(m, k)} : o \in Orders}

Shown(m, k) == IF Is(m, k) THEN [m EXCEPT !.calls[k[3]] = "shown"] ELSE m

\* ReplaceToolResult: in memory the result is changed in place, also in the
\* histories that other requests have loaded; in the database the message is read.
ReplaceToolResult(k) ==
  /\ Pending(k)
  /\ \E found \in Found(k) :
       /\ resume' = [j \in DOMAIN resume \cup {k} |-> IF j # k THEN resume[j] ELSE
                       [stage |-> IF Postgres /\ found # {} THEN "writing" ELSE "ended",
                        copy |-> IF Postgres THEN found ELSE {},
                        missed |-> ~Stored(k) \/ Buried(k)]]
       /\ IF ~Postgres /\ found # {}
          THEN /\ store' = [n \in DOMAIN store |-> {Shown(m, k) : m \in store[n]}]
               /\ req' = [r \in Requests |-> [req[r] EXCEPT !.history =
                            [n \in DOMAIN @ |-> IF r = k[1] THEN @[n] ELSE Shown(@[n], k)]]]
          ELSE UNCHANGED <<store, req>>
  /\ UNCHANGED <<created, mixed, torn, faults>>

\* The blocks of the message are written as they were read, but for this result.
UpdateBlocks(k) ==
  /\ k \in DOMAIN resume /\ resume[k].stage = "writing"
  /\ LET copy == CHOOSE m \in resume[k].copy : TRUE IN
       /\ store' = [n \in DOMAIN store |-> {IF Is(m, k) THEN Shown(copy, k) ELSE m : m \in store[n]}]
       /\ torn' = torn \cup {<<m.r, m.i>> : m \in {n \in UNION ToSet(store) : Is(n, k) /\ n # copy}}
  /\ resume' = [resume EXCEPT ![k] = [@ EXCEPT !.stage = "ended", !.copy = {}]]
  /\ UNCHANGED <<created, req, mixed, faults>>

UpdateFails(k) ==
  /\ k \in DOMAIN resume /\ resume[k].stage = "writing" /\ Fault
  /\ resume' = [resume EXCEPT ![k] = [@ EXCEPT !.stage = "ended", !.copy = {}, !.missed = TRUE]]
  /\ UNCHANGED <<created, store, req, mixed, torn>>

-----------------------------------------------------------------------------

Handle(r) ==
  \/ Process(r) \/ Create(r) \/ persistNewMessages(r) \/ Insert(r)
  \/ \E calls \in Outcomes : Answer(r, calls)

Next ==
  \/ \E r \in Requests : Handle(r) \/ LoadFails(r) \/ RequestFails(r) \/ AppendFails(r)
  \/ \E k \in CallIds : ReplaceToolResult(k) \/ UpdateBlocks(k) \/ UpdateFails(k)

Spec == Init /\ [][Next]_vars

-----------------------------------------------------------------------------

\* Process accounts for what summarizing and truncating drop: what was said in a
\* request is stored once, whole and in order, under consecutive numbers, however
\* the requests of the conversation overlap.
StoredOnce ==
  \A r \in Requests : req[r].stage = "done" /\ req[r].persistent =>
    LET new == req[r].new
        mine == {n \in DOMAIN store : \E m \in store[n] : m.r = r} IN
      /\ Cardinality(mine) = Len(new)
      /\ \A n \in DOMAIN new : \E m \in store[Min(mine) + n - 1] : Said(m, new[n])

\* A message that follows nothing, or the summary of what it followed.
AtCut(h, n) == n = 1 \/ h[n - 1] = Summary

\* The model is never sent a tool call without its results behind it, nor results
\* without their call before them, unless the call was cut off, or two requests
\* appended to the database at the same time.
CallsMeetResults ==
  ~mixed => \A r \in Requests : LET h == req[r].history IN
    \A n \in DOMAIN h :
      /\ h[n].kind = "use" => n < Len(h) /\ Is(h[n + 1], <<h[n].r, h[n].i>>)
      /\ h[n].kind = "result" => AtCut(h, n) \/ (h[n - 1].kind = "use" /\ Is(h[n], <<h[n - 1].r, h[n - 1].i>>))

\* The result of an approved call is in the conversation, unless the call was
\* resumed before its placeholder was stored, or after a window of messages had
\* buried it, or a statement failed, or two results of one message were written
\* at the same time.
ApprovedIsShown ==
  \A k \in DOMAIN resume :
    resume[k].stage = "ended" /\ ~resume[k].missed /\ <<k[1], k[2]>> \notin torn =>
      \E n \in DOMAIN store : \E m \in store[n] : Is(m, k) /\ m.calls[k[3]] = "shown"

=============================================================================
