----------------------------- MODULE ChatWorkflow -----------------------------
(***************************************************************************)
(* The AI workflow of chat_service: messages.create stores a user message  *)
(* together with an outbox row, senders (the handler itself and the        *)
(* background flusher) publish the row's task, the AI service, which is    *)
(* not part of the repository, answers on the result queue, and result     *)
(* consumers store the assistant message together with an inbox row.       *)
(*                                                                         *)
(* PostgreSQL transactions are the steps; a transaction that spans a call  *)
(* to the broker or that reads before it writes is split at those points.  *)
(* A prompt, its task, its workflow_run_id and its result are all told     *)
(* apart by the message that started them.                                 *)
(***************************************************************************)
EXTENDS Naturals

CONSTANTS
    Chats,          \* chats the users create
    Messages,       \* chat messages the users write
    ChatOf,         \* the chat each message is written to
    Prompts,        \* those of role user, with publishing enabled
    Unparsable,     \* prompts whose result body the AI garbles
    Handlers,       \* worker threads that run messages.create
    Flushers,       \* WorkflowOutboxFlusher threads
    Consumers,      \* WorkflowResultConsumer threads
    MaxAttempts,    \* ai_workflow_outbox_max_attempts
    DbMayFail,      \* PostgreSQL may fail under a result consumer
    MaxFaults,      \* bound: crashes, lost connections and repeated results
    NoMessage       \* what an idle thread works on

Senders == Handlers \union Flushers

ASSUME ChatWorkflowAssumption ==
    /\ ChatOf \in [Messages -> Chats]
    /\ Prompts \subseteq Messages
    /\ Unparsable \subseteq Prompts
    /\ MaxAttempts \in Nat \ {0}
    /\ DbMayFail \in BOOLEAN
    /\ MaxFaults \in Nat
    /\ NoMessage \notin Messages

VARIABLES
    chat,        \* chats: not created, live or deleted
    written,     \* messages users have written so far
    stored,      \* chat_messages rows of the users
    outbox,      \* ai_workflow_task_outbox rows
    published,   \* outbox rows with published_at set
    attempts,    \* outbox.attempts
    inbox,       \* ai_workflow_result_inbox rows
    answers,     \* assistant rows stored for each prompt
    step,        \* where each sender is with its current row
    row,         \* the outbox row each sender has locked
    batch,       \* the rows each sender has still to flush
    tasks,       \* ai.workflow.tasks: copies of each task
    results,     \* ai.workflow.results: copies of each result
    phase,       \* where each result consumer's loop is
    result,      \* the result each consumer processes
    held,        \* the broker still counts that delivery as unacked
    sent,        \* tasks the broker has accepted for each prompt
    returned,    \* prompts the AI has answered
    faults       \* crashes, lost connections and repeated results so far

rows == <<written, stored, outbox, published, attempts>>
inboxRows == <<inbox, answers>>
senders == <<step, row, batch>>
queues == <<tasks, results>>
consumers == <<phase, result, held>>
history == <<sent, returned>>
vars == <<chat, rows, inboxRows, senders, queues, consumers, history, faults>>

TypeOK ==
    /\ chat \in [Chats -> {"none", "live", "deleted"}]
    /\ written \subseteq Messages
    /\ stored \subseteq written
    /\ outbox \subseteq stored \intersect Prompts
    /\ published \subseteq outbox
    /\ attempts \in [Messages -> 0..MaxAttempts]
    /\ inbox \subseteq Prompts
    /\ answers \in [Messages -> Nat]
    /\ step \in [Senders -> {"idle", "publishing", "accepted"}]
    /\ row \in [Senders -> Messages \union {NoMessage}]
    /\ \A s \in Senders : step[s] # "idle" => row[s] \in outbox \ published
    /\ batch \in [Senders -> SUBSET Prompts]
    /\ tasks \in [Messages -> Nat]
    /\ results \in [Messages -> Nat]
    /\ phase \in [Consumers -> {"down", "idle", "received", "checked", "acking"}]
    /\ result \in [Consumers -> Messages \union {NoMessage}]
    /\ \A k \in Consumers : phase[k] \notin {"down", "idle"} => result[k] \in Prompts
    /\ held \in [Consumers -> BOOLEAN]
    /\ \A k \in Consumers : held[k] => phase[k] \notin {"down", "idle"}
    /\ sent \in [Messages -> Nat]
    /\ returned \subseteq Prompts
    /\ faults \in 0..MaxFaults

Init ==
    /\ chat = [c \in Chats |-> "none"]
    /\ written = {} /\ stored = {} /\ outbox = {} /\ published = {}
    /\ attempts = [m \in Messages |-> 0]
    /\ inbox = {}
    /\ answers = [m \in Messages |-> 0]
    /\ step = [s \in Senders |-> "idle"]
    /\ row = [s \in Senders |-> NoMessage]
    /\ batch = [s \in Senders |-> {}]
    /\ tasks = [m \in Messages |-> 0]
    /\ results = [m \in Messages |-> 0]
    /\ phase = [k \in Consumers |-> "down"]
    /\ result = [k \in Consumers |-> NoMessage]
    /\ held = [k \in Consumers |-> FALSE]
    /\ sent = [m \in Messages |-> 0]
    /\ returned = {}
    /\ faults = 0

Add(q, m) == [q EXCEPT ![m] = @ + 1]
TakeOff(q, m) == [q EXCEPT ![m] = @ - 1]

-----------------------------------------------------------------------------
(* Requests of the users *)

CreateChat(c) ==
    /\ chat[c] = "none"
    /\ chat' = [chat EXCEPT ![c] = "live"]
    /\ UNCHANGED <<rows, inboxRows, senders, queues, consumers, history, faults>>

\* handle_messages_create's transaction stores the message and, for a prompt,
\* its outbox row; the handler goes on to flush that row.
CreateMessage(h, m) ==
    /\ step[h] = "idle" /\ batch[h] = {}
    /\ m \notin written
    /\ chat[ChatOf[m]] = "live"
    /\ written' = written \union {m}
    /\ stored' = stored \union {m}
    /\ outbox' = outbox \union ({m} \intersect Prompts)
    /\ batch' = [batch EXCEPT ![h] = {m} \intersect Prompts]
    /\ UNCHANGED <<chat, published, attempts, inboxRows, step, row, queues,
                   consumers, history, faults>>

\* FOR UPDATE: a sender holds the row from its select to its commit.
Locked(m) == \E s \in Senders : step[s] # "idle" /\ row[s] = m

\* Mutant: the cascade does not wait for the row locks of the senders.
DeleteChatUnwaiting(c) ==
    LET kept == {m \in stored : ChatOf[m] # c} IN
    /\ chat[c] = "live"
    /\ chat' = [chat EXCEPT ![c] = "deleted"]
    /\ stored' = kept
    /\ outbox' = outbox \intersect kept
    /\ published' = published \intersect kept
    /\ inbox' = inbox \intersect kept
    /\ answers' = [m \in Messages |-> IF ChatOf[m] = c THEN 0 ELSE answers[m]]
    /\ UNCHANGED <<written, attempts, senders, queues, consumers, history, faults>>

\* delete from chats, and the foreign keys that cascade from it.  Deleting a
\* row waits for its lock.
DeleteChat(c) ==
    LET kept == {m \in stored : ChatOf[m] # c} IN
    /\ chat[c] = "live"
    /\ \A m \in stored \ kept : ~Locked(m)
    /\ chat' = [chat EXCEPT ![c] = "deleted"]
    /\ stored' = kept
    /\ outbox' = outbox \intersect kept
    /\ published' = published \intersect kept
    /\ inbox' = inbox \intersect kept
    /\ answers' = [m \in Messages |-> IF ChatOf[m] = c THEN 0 ELSE answers[m]]
    /\ UNCHANGED <<written, attempts, senders, queues, consumers, history, faults>>

-----------------------------------------------------------------------------
(* Flushing the outbox *)

Pending(m) == m \in outbox /\ m \notin published /\ attempts[m] < MaxAttempts

\* flush_pending_outbox reads the pending rows, in a transaction of its own.
Scan(f) ==
    /\ step[f] = "idle" /\ batch[f] = {}
    /\ \E m \in outbox : Pending(m)
    /\ batch' = [batch EXCEPT ![f] = {m \in outbox : Pending(m)}]
    /\ UNCHANGED <<chat, rows, inboxRows, step, row, queues, consumers, history, faults>>

\* The row is gone, or published or exhausted by now: flush_outbox_message
\* returns without publishing.
SkipRow(s, m) ==
    /\ step[s] = "idle" /\ m \in batch[s]
    /\ ~Locked(m)
    /\ ~Pending(m)
    /\ batch' = [batch EXCEPT ![s] = @ \ {m}]
    /\ UNCHANGED <<chat, rows, inboxRows, step, row, queues, consumers, history, faults>>

\* Mutant: select without for update.
LockRowShared(s, m) ==
    /\ step[s] = "idle" /\ m \in batch[s]
    /\ Pending(m)
    /\ step' = [step EXCEPT ![s] = "publishing"]
    /\ row' = [row EXCEPT ![s] = m]
    /\ batch' = [batch EXCEPT ![s] = @ \ {m}]
    /\ UNCHANGED <<chat, rows, inboxRows, queues, consumers, history, faults>>

\* Mutant: published_at, read by the scan, is not looked at again.
LockRowStale(s, m) ==
    /\ step[s] = "idle" /\ m \in batch[s]
    /\ ~Locked(m)
    /\ m \in outbox
    /\ step' = [step EXCEPT ![s] = "publishing"]
    /\ row' = [row EXCEPT ![s] = m]
    /\ batch' = [batch EXCEPT ![s] = @ \ {m}]
    /\ UNCHANGED <<chat, rows, inboxRows, queues, consumers, history, faults>>

\* The row is locked and still pending: its task is about to be published.
LockRow(s, m) ==
    /\ step[s] = "idle" /\ m \in batch[s]
    /\ ~Locked(m)
    /\ Pending(m)
    /\ step' = [step EXCEPT ![s] = "publishing"]
    /\ row' = [row EXCEPT ![s] = m]
    /\ batch' = [batch EXCEPT ![s] = @ \ {m}]
    /\ UNCHANGED <<chat, rows, inboxRows, queues, consumers, history, faults>>

\* The broker has the task; the sender may not know yet.
TaskAccepted(s) ==
    /\ step[s] = "publishing"
    /\ step' = [step EXCEPT ![s] = "accepted"]
    /\ tasks' = Add(tasks, row[s])
    /\ sent' = Add(sent, row[s])
    /\ UNCHANGED <<chat, rows, inboxRows, row, batch, results, consumers, returned,
                   faults>>

\* The row's transaction ends, with which the lock is released.
Unlock(s) ==
    /\ step' = [step EXCEPT ![s] = "idle"]
    /\ row' = [row EXCEPT ![s] = NoMessage]

CommitPublished(s) ==
    /\ step[s] = "accepted"
    /\ published' = published \union {row[s]}
    /\ Unlock(s)
    /\ UNCHANGED <<chat, written, stored, outbox, attempts, inboxRows, batch, queues,
                   consumers, history, faults>>

\* The publish raised: before the broker had the task, or after, when only
\* the confirmation was late.
CommitFailure(s) ==
    /\ step[s] \in {"publishing", "accepted"}
    /\ attempts' = Add(attempts, row[s])
    /\ Unlock(s)
    /\ UNCHANGED <<chat, written, stored, outbox, published, inboxRows, batch, queues,
                   consumers, history, faults>>

\* The process dies or PostgreSQL fails: the transaction is rolled back.
CrashSender(s) ==
    /\ step[s] # "idle" \/ batch[s] # {}
    /\ faults < MaxFaults
    /\ faults' = faults + 1
    /\ Unlock(s)
    /\ batch' = [batch EXCEPT ![s] = {}]
    /\ UNCHANGED <<chat, rows, inboxRows, queues, consumers, history>>

-----------------------------------------------------------------------------
(* The AI service: takes tasks, returns results, perhaps more than once *)

AiAnswers(m) ==
    /\ tasks[m] > 0
    /\ tasks' = TakeOff(tasks, m)
    /\ results' = Add(results, m)
    /\ returned' = returned \union {m}
    /\ UNCHANGED <<chat, rows, inboxRows, senders, consumers, sent, faults>>

AiRepeats(m) ==
    /\ m \in returned
    /\ faults < MaxFaults
    /\ faults' = faults + 1
    /\ results' = Add(results, m)
    /\ UNCHANGED <<chat, rows, inboxRows, senders, tasks, consumers, history>>

-----------------------------------------------------------------------------
(* Consuming results *)

Start(k) ==
    /\ phase[k] = "down"
    /\ phase' = [phase EXCEPT ![k] = "idle"]
    /\ UNCHANGED <<chat, rows, inboxRows, senders, queues, result, held, history, faults>>

Receive(k, m) ==
    /\ phase[k] = "idle"
    /\ results[m] > 0
    /\ results' = TakeOff(results, m)
    /\ phase' = [phase EXCEPT ![k] = "received"]
    /\ result' = [result EXCEPT ![k] = m]
    /\ held' = [held EXCEPT ![k] = TRUE]
    /\ UNCHANGED <<chat, rows, inboxRows, senders, tasks, history, faults>>

\* Where process_workflow_result_bytes leaves consumer k without a change to
\* the database.
MoveTo(k, p) ==
    /\ phase' = [phase EXCEPT ![k] = p]
    /\ UNCHANGED <<chat, rows, inboxRows, senders, queues, result, held, history, faults>>

\* The chat and its prompt are there, as two selects find them.
Addressable(m) == chat[ChatOf[m]] = "live" /\ m \in stored

\* An unparsable body, a missing chat or a missing prompt raise
\* WorkflowResultProcessingError, which the consumer swallows.
RejectResult(k) ==
    LET m == result[k] IN
    /\ phase[k] = "received"
    /\ m \in Unparsable \/ (m \notin inbox /\ ~Addressable(m))
    /\ MoveTo(k, "acking")

SkipDuplicate(k) ==
    /\ phase[k] = "received"
    /\ result[k] \in inbox \ Unparsable
    /\ MoveTo(k, "acking")

\* No inbox row, and chat and prompt exist: the inserts come next.
CheckResult(k) ==
    LET m == result[k] IN
    /\ phase[k] = "received"
    /\ m \notin inbox \union Unparsable
    /\ Addressable(m)
    /\ MoveTo(k, "checked")

\* Mutant: the inbox has no primary key on workflow_run_id.
StoreAnswerWithoutKey(k) ==
    LET m == result[k] IN
    /\ phase[k] = "checked"
    /\ Addressable(m)
    /\ answers' = Add(answers, m)
    /\ inbox' = inbox \union {m}
    /\ phase' = [phase EXCEPT ![k] = "acking"]
    /\ UNCHANGED <<chat, rows, senders, queues, result, held, history, faults>>

\* Mutant: chat_messages and the inbox have no foreign keys.
StoreAnswerUnchecked(k) ==
    LET m == result[k] IN
    /\ phase[k] = "checked"
    /\ m \notin inbox
    /\ answers' = Add(answers, m)
    /\ inbox' = inbox \union {m}
    /\ phase' = [phase EXCEPT ![k] = "acking"]
    /\ UNCHANGED <<chat, rows, senders, queues, result, held, history, faults>>

\* The assistant message and the inbox row are committed together.
StoreAnswer(k) ==
    LET m == result[k] IN
    /\ phase[k] = "checked"
    /\ m \notin inbox
    /\ Addressable(m)
    /\ answers' = Add(answers, m)
    /\ inbox' = inbox \union {m}
    /\ phase' = [phase EXCEPT ![k] = "acking"]
    /\ UNCHANGED <<chat, rows, senders, queues, result, held, history, faults>>

\* An exception leaves message.process(), which rejects the delivery without
\* requeueing; _run starts the loop again.
LoopFails(k) ==
    /\ phase' = [phase EXCEPT ![k] = "down"]
    /\ result' = [result EXCEPT ![k] = NoMessage]
    /\ held' = [held EXCEPT ![k] = FALSE]
    /\ UNCHANGED <<chat, rows, inboxRows, senders, queues, history, faults>>

\* Another consumer was first (the inbox's primary key), or the chat was
\* deleted after the check (the foreign keys).
StoreConflicts(k) ==
    /\ phase[k] = "checked"
    /\ result[k] \in inbox \/ ~Addressable(result[k])

\* The transaction is rolled back: its inserts conflict, or PostgreSQL fails
\* for a reason of its own.
StoreFails(k) ==
    /\ StoreConflicts(k) \/ (DbMayFail /\ phase[k] \in {"received", "checked"})
    /\ LoopFails(k)

Ack(k) ==
    /\ phase[k] = "acking"
    /\ held[k]
    /\ phase' = [phase EXCEPT ![k] = "idle"]
    /\ result' = [result EXCEPT ![k] = NoMessage]
    /\ held' = [held EXCEPT ![k] = FALSE]
    /\ UNCHANGED <<chat, rows, inboxRows, senders, queues, history, faults>>

AckFails(k) ==
    /\ phase[k] = "acking"
    /\ ~held[k]
    /\ LoopFails(k)

\* The broker gets back what consumer k holds.
Requeue(k) ==
    results' = IF held[k] THEN Add(results, result[k]) ELSE results

LoseConnection(k) ==
    /\ held[k]
    /\ faults < MaxFaults
    /\ faults' = faults + 1
    /\ Requeue(k)
    /\ held' = [held EXCEPT ![k] = FALSE]
    /\ UNCHANGED <<chat, rows, inboxRows, senders, tasks, phase, result, history>>

\* Mutant: the result queue is consumed with no_ack.
CrashConsumerWithAutoAck(k) ==
    /\ phase[k] # "down"
    /\ faults < MaxFaults
    /\ faults' = faults + 1
    /\ phase' = [phase EXCEPT ![k] = "down"]
    /\ result' = [result EXCEPT ![k] = NoMessage]
    /\ held' = [held EXCEPT ![k] = FALSE]
    /\ UNCHANGED <<chat, rows, inboxRows, senders, queues, history>>

CrashConsumer(k) ==
    /\ phase[k] # "down"
    /\ faults < MaxFaults
    /\ faults' = faults + 1
    /\ Requeue(k)
    /\ phase' = [phase EXCEPT ![k] = "down"]
    /\ result' = [result EXCEPT ![k] = NoMessage]
    /\ held' = [held EXCEPT ![k] = FALSE]
    /\ UNCHANGED <<chat, rows, inboxRows, senders, tasks, history>>

-----------------------------------------------------------------------------

Users ==
    \/ \E c \in Chats : CreateChat(c) \/ DeleteChat(c)
    \/ \E h \in Handlers, m \in Messages : CreateMessage(h, m)

\* Mutant: the flusher thread is never started.
FlushInHandlersOnly(s) ==
    \/ \E m \in batch[s] : SkipRow(s, m) \/ LockRow(s, m)
    \/ TaskAccepted(s) \/ CommitPublished(s) \/ CommitFailure(s)

Flush(s) ==
    \/ s \in Flushers /\ Scan(s)
    \/ \E m \in batch[s] : SkipRow(s, m) \/ LockRow(s, m)
    \/ TaskAccepted(s) \/ CommitPublished(s) \/ CommitFailure(s)

Ai(m) == AiAnswers(m) \/ AiRepeats(m)

Consume(k) ==
    \/ Start(k)
    \/ \E m \in Messages : Receive(k, m)
    \/ RejectResult(k) \/ SkipDuplicate(k) \/ CheckResult(k)
    \/ StoreAnswer(k) \/ StoreFails(k)
    \/ Ack(k) \/ AckFails(k)

Disturb ==
    \/ \E s \in Senders : CrashSender(s)
    \/ \E k \in Consumers : LoseConnection(k) \/ CrashConsumer(k)

Next ==
    \/ Users
    \/ \E s \in Senders : Flush(s)
    \/ \E m \in Messages : Ai(m)
    \/ \E k \in Consumers : Consume(k)
    \/ Disturb

Spec == Init /\ [][Next]_vars

\* The flusher wakes up every interval, publishes return or time out, loops
\* are started again, and the AI answers the tasks it takes.
Fairness ==
    /\ \A s \in Senders : WF_vars(Flush(s))
    /\ \A m \in Messages : WF_vars(AiAnswers(m))
    /\ \A k \in Consumers : WF_vars(Consume(k))

FairSpec == Spec /\ Fairness

-----------------------------------------------------------------------------
(* Properties *)

\* However often a task is published, answered or delivered, and whichever
\* consumers race over its results, a prompt has at most one assistant
\* message, and exactly one once its inbox row exists.
AnswersMatchInbox ==
    \A m \in Messages : answers[m] = IF m \in inbox THEN 1 ELSE 0

\* No assistant message or inbox row outlives its chat, though a chat may be
\* deleted between a consumer's check and its inserts.
NoOrphanAnswer ==
    \A m \in inbox : Addressable(m)

\* Senders racing over one row (the handler, the flushers of all replicas)
\* send a task once, plus once for each publish they saw fail and each crash,
\* and record as published only what the broker has accepted.
SendsAccounted ==
    \A m \in outbox :
        /\ m \in published => sent[m] > 0
        /\ sent[m] <= attempts[m] + 1 + faults

\* After published_at is set no sender sends the task again, not even one
\* that scanned the row, or waited for its lock, before that.
NeverResentOncePublished ==
    [][\A m \in published : m \in published' => sent'[m] = sent[m]]_vars

\* Consumer k has still to process its delivery of m.
Processing(k, m) == held[k] /\ result[k] = m /\ phase[k] \in {"received", "checked"}

\* As long as PostgreSQL does not fail, a result the AI returned for a stored
\* prompt is queued, with a consumer that will get it requeued if it dies, or
\* stored: rejecting without requeueing only ever drops what is not needed.
ResultNotLost ==
    DbMayFail \/
        \A m \in (returned \intersect stored) \ Unparsable :
            results[m] > 0 \/ m \in inbox \/ (\E k \in Consumers : Processing(k, m))

\* Every prompt is answered in the end, unless its chat is deleted or its
\* publish attempts run out; a handler that dies right after storing the
\* prompt is made up for by the flusher.
EventuallyAnswered ==
    \A m \in Prompts \ Unparsable :
        m \in stored ~> m \in inbox \/ m \notin stored \/ attempts[m] = MaxAttempts

=============================================================================
