---------------------------- MODULE MessageWorker ----------------------------
(***************************************************************************)
(* The message bus of libs/common/common/messaging.py: producers that      *)
(* publish background messages or make request-reply calls, and the        *)
(* MessageWorker processes that consume one service queue together with    *)
(* its .retry and .dead queues.  Redis holds the idempotency claims.       *)
(*                                                                         *)
(* A queue is the bag of envelope copies it holds; a copy is told apart by *)
(* its message_id and its retry.attempts.  Delivery order is left open,    *)
(* which covers FIFO with requeueing, several consumers and the TTL of the *)
(* retry queue.                                                            *)
(***************************************************************************)
EXTENDS Naturals

CONSTANTS
    Messages,        \* message_ids, each built once by build_envelope
    Requests,        \* those published by MessageBus.request (reply_to set)
    Malformed,       \* those whose body does not parse to an envelope
    Workers,         \* MessageWorker processes consuming the same queue
    MaxRetries,      \* max_retries of the worker
    GuardEnabled,    \* get_idempotency_guard() returned a guard
    RedisMayFail,    \* SET NX may raise while the guard is in use
    ClaimMayLapse,   \* a claim may reach its TTL while copies are around
    MaxFaults,       \* bound: crashes, lost connections and failed publishes
    NoCopy           \* what an idle worker holds

ASSUME MessageWorkerAssumption ==
    /\ Requests \subseteq Messages
    /\ Malformed \subseteq Messages
    /\ MaxRetries \in Nat
    /\ MaxFaults \in Nat
    /\ GuardEnabled \in BOOLEAN
    /\ RedisMayFail \in BOOLEAN
    /\ ClaimMayLapse \in BOOLEAN

Copy == [id : Messages, attempts : 0..MaxRetries]

ASSUME NoCopyAssumption == NoCopy \notin Copy

Background == Messages \ Requests

VARIABLES
    main, retry, dead,   \* the three queues: Copy -> number of such copies
    claimed,             \* message_ids with a live Redis key
    phase,               \* where each worker's loop is
    copy,                \* the copy each worker processes
    held,                \* the broker still counts that delivery as unacked
    reply,               \* the reply _handle_message computed
    call,                \* what the producer of each message has seen
    started,             \* times the handler was entered for a message
    succeeded,           \* messages whose handler returned normally
    fails,               \* error replies produced for a message
    rejected,            \* messages rejected because a publish failed
    faults               \* crashes, lost connections and failed publishes so far

queues == <<main, retry, dead>>
workers == <<phase, copy, held, reply>>
history == <<started, succeeded, fails>>
mishaps == <<rejected, faults>>
vars == <<queues, claimed, workers, call, history, mishaps>>

Phases == {"down", "idle", "received", "running", "settling", "acking"}
Replies == {"none", "ok", "error", "skipped"}
CallStates == {"none", "sent", "waiting", "ok", "error", "skipped", "timeout"}

TypeOK ==
    /\ main \in [Copy -> Nat]
    /\ retry \in [Copy -> Nat]
    /\ dead \in [Copy -> Nat]
    /\ claimed \subseteq Messages
    /\ phase \in [Workers -> Phases]
    /\ copy \in [Workers -> Copy \union {NoCopy}]
    /\ \A w \in Workers : phase[w] \notin {"down", "idle"} => copy[w] \in Copy
    /\ held \in [Workers -> BOOLEAN]
    /\ \A w \in Workers : held[w] => phase[w] \notin {"down", "idle"}
    /\ reply \in [Workers -> Replies]
    /\ call \in [Messages -> CallStates]
    /\ started \in [Messages -> Nat]
    /\ succeeded \subseteq Messages
    /\ fails \in [Messages -> Nat]
    /\ rejected \subseteq Messages
    /\ faults \in 0..MaxFaults

Init ==
    /\ main = [c \in Copy |-> 0]
    /\ retry = [c \in Copy |-> 0]
    /\ dead = [c \in Copy |-> 0]
    /\ claimed = {}
    /\ phase = [w \in Workers |-> "down"]
    /\ copy = [w \in Workers |-> NoCopy]
    /\ held = [w \in Workers |-> FALSE]
    /\ reply = [w \in Workers |-> "none"]
    /\ call = [m \in Messages |-> "none"]
    /\ started = [m \in Messages |-> 0]
    /\ succeeded = {}
    /\ fails = [m \in Messages |-> 0]
    /\ rejected = {}
    /\ faults = 0

Put(q, c) == [q EXCEPT ![c] = @ + 1]
Take(q, c) == [q EXCEPT ![c] = @ - 1]

FirstCopy(m) == [id |-> m, attempts |-> 0]
NextAttempt(c) == [id |-> c.id, attempts |-> c.attempts + 1]

\* Mutant: off by one in the comparison with max_retries.
ExhaustedEarly(c) == c.attempts + 1 >= MaxRetries

Exhausted(c) == c.attempts >= MaxRetries

-----------------------------------------------------------------------------
(* Producers *)

\* MessageBus.publish: fire and forget.
Publish(m) ==
    /\ m \in Background
    /\ call[m] = "none"
    /\ main' = Put(main, FirstCopy(m))
    /\ call' = [call EXCEPT ![m] = "sent"]
    /\ UNCHANGED <<retry, dead, claimed, workers, history, mishaps>>

\* MessageBus.request: publish with reply_to and wait for the answer.
Request(m) ==
    /\ m \in Requests
    /\ call[m] = "none"
    /\ main' = Put(main, FirstCopy(m))
    /\ call' = [call EXCEPT ![m] = "waiting"]
    /\ UNCHANGED <<retry, dead, claimed, workers, history, mishaps>>

\* wait_for gives up: the caller gets a 504 and its reply queue goes away.
RequestTimeout(m) ==
    /\ call[m] = "waiting"
    /\ call' = [call EXCEPT ![m] = "timeout"]
    /\ UNCHANGED <<queues, claimed, workers, history, mishaps>>

-----------------------------------------------------------------------------
(* The consuming loop *)

\* start(), and _run entering _consume_forever again after an exception.
Start(w) ==
    /\ phase[w] = "down"
    /\ phase' = [phase EXCEPT ![w] = "idle"]
    /\ UNCHANGED <<queues, claimed, copy, held, reply, call, history, mishaps>>

\* The broker hands over one message: prefetch_count is 1.
Deliver(w, c) ==
    /\ phase[w] = "idle"
    /\ main[c] > 0
    /\ main' = Take(main, c)
    /\ phase' = [phase EXCEPT ![w] = "received"]
    /\ copy' = [copy EXCEPT ![w] = c]
    /\ held' = [held EXCEPT ![w] = TRUE]
    /\ reply' = [reply EXCEPT ![w] = "none"]
    /\ UNCHANGED <<retry, dead, claimed, call, history, mishaps>>

\* _handle_message is left with reply r.
Answer(w, r) ==
    /\ phase' = [phase EXCEPT ![w] = "settling"]
    /\ reply' = [reply EXCEPT ![w] = r]
    /\ fails' = IF r = "error" THEN [fails EXCEPT ![copy[w].id] = @ + 1]
                               ELSE fails
    /\ UNCHANGED <<queues, copy, held, call, started, mishaps>>

\* json.loads or envelope.get raises before the claim: a 500 reply.
ParseFails(w) ==
    /\ phase[w] = "received"
    /\ copy[w].id \in Malformed
    /\ Answer(w, "error")
    /\ UNCHANGED <<claimed, succeeded>>

\* Mutant: claim sets the key without NX.
ClaimWithoutNX(w) ==
    /\ phase[w] = "received"
    /\ copy[w].id \notin Malformed
    /\ claimed' = IF GuardEnabled THEN claimed \union {copy[w].id} ELSE claimed
    /\ phase' = [phase EXCEPT ![w] = "running"]
    /\ started' = [started EXCEPT ![copy[w].id] = @ + 1]
    /\ UNCHANGED <<queues, copy, held, reply, call, succeeded, fails, mishaps>>

\* The message_id is new, or there is no guard: the handler is entered.
ClaimAndStart(w) ==
    LET m == copy[w].id IN
    /\ phase[w] = "received"
    /\ m \notin Malformed
    /\ GuardEnabled => m \notin claimed
    /\ claimed' = IF GuardEnabled THEN claimed \union {m} ELSE claimed
    /\ phase' = [phase EXCEPT ![w] = "running"]
    /\ started' = [started EXCEPT ![m] = @ + 1]
    /\ UNCHANGED <<queues, copy, held, reply, call, succeeded, fails, mishaps>>

\* The message_id was claimed before: duplicate_skipped, without the handler.
SkipDuplicate(w) ==
    /\ phase[w] = "received"
    /\ copy[w].id \notin Malformed
    /\ GuardEnabled
    /\ copy[w].id \in claimed
    /\ Answer(w, "skipped")
    /\ UNCHANGED <<claimed, succeeded>>

\* Redis raises in claim, before or after it applied the SET: a 500 reply.
ClaimRaises(w) ==
    /\ phase[w] = "received"
    /\ copy[w].id \notin Malformed
    /\ GuardEnabled
    /\ RedisMayFail
    /\ claimed' \in {claimed, claimed \union {copy[w].id}}
    /\ Answer(w, "error")
    /\ UNCHANGED succeeded

HandlerSucceeds(w) ==
    /\ phase[w] = "running"
    /\ succeeded' = succeeded \union {copy[w].id}
    /\ Answer(w, "ok")
    /\ UNCHANGED claimed

\* No handler for the type, MessageError, or any other exception.
HandlerFails(w) ==
    /\ phase[w] = "running"
    /\ Answer(w, "error")
    /\ UNCHANGED <<claimed, succeeded>>

-----------------------------------------------------------------------------
(* Settling a delivery: publish the follow-up, then acknowledge *)

Settled(w) ==
    /\ phase' = [phase EXCEPT ![w] = "acking"]
    /\ UNCHANGED <<claimed, copy, held, reply, history, mishaps>>

\* The reply reaches the caller unless it has stopped waiting.
SendReply(w) ==
    LET m == copy[w].id IN
    /\ phase[w] = "settling"
    /\ m \in Requests
    /\ call' = IF call[m] = "waiting" THEN [call EXCEPT ![m] = reply[w]]
                                      ELSE call
    /\ Settled(w)
    /\ UNCHANGED queues

\* Mutant: whatever is not a request is acknowledged, as if every reply were ok.
NothingEver(w) ==
    /\ phase[w] = "settling"
    /\ copy[w].id \in Background
    /\ Settled(w)
    /\ UNCHANGED <<queues, call>>

\* A background message with an ok reply needs no follow-up.
NothingToPublish(w) ==
    /\ phase[w] = "settling"
    /\ copy[w].id \in Background
    /\ reply[w] # "error"
    /\ Settled(w)
    /\ UNCHANGED <<queues, call>>

FailedBackground(w) ==
    /\ phase[w] = "settling"
    /\ copy[w].id \in Background
    /\ reply[w] = "error"

PublishRetry(w) ==
    /\ FailedBackground(w)
    /\ copy[w].id \notin Malformed
    /\ ~Exhausted(copy[w])
    /\ retry' = Put(retry, NextAttempt(copy[w]))
    /\ Settled(w)
    /\ UNCHANGED <<main, dead, call>>

PublishDeadLetter(w) ==
    /\ FailedBackground(w)
    /\ copy[w].id \notin Malformed
    /\ Exhausted(copy[w])
    /\ dead' = Put(dead, copy[w])
    /\ Settled(w)
    /\ UNCHANGED <<main, retry, call>>

\* Mutant: the loop leaves its connection open, and the delivery with it.
LoopFailsHolding(w) ==
    /\ phase' = [phase EXCEPT ![w] = "down"]
    /\ copy' = [copy EXCEPT ![w] = NoCopy]
    /\ UNCHANGED <<queues, claimed, held, reply, call, history>>

\* The loop ends with an exception; _run starts it again later.
LoopFails(w) ==
    /\ phase' = [phase EXCEPT ![w] = "down"]
    /\ copy' = [copy EXCEPT ![w] = NoCopy]
    /\ held' = [held EXCEPT ![w] = FALSE]
    /\ UNCHANGED <<queues, claimed, reply, call, history>>

\* _retry_or_dead_letter cannot parse the body either: process() rejects the
\* delivery without requeueing and the exception ends the loop.
RejectUnparsable(w) ==
    /\ FailedBackground(w)
    /\ copy[w].id \in Malformed
    /\ LoopFails(w)
    /\ UNCHANGED mishaps

\* A reply, a retry or a dead letter is to be published.
FollowUp(w) ==
    /\ phase[w] = "settling"
    /\ \/ copy[w].id \in Requests
       \/ reply[w] = "error" /\ copy[w].id \notin Malformed

\* That publish, or the declaration of the dead queue, raises while the
\* connection is alive: process() rejects the delivery without requeueing it,
\* and the main queue has no dead-letter exchange.  (A publish that arrived
\* although its confirmation raised ends like a publish and an Ack.)
PublishFails(w) ==
    /\ FollowUp(w)
    /\ held[w]
    /\ faults < MaxFaults
    /\ faults' = faults + 1
    /\ rejected' = rejected \union {copy[w].id}
    /\ LoopFails(w)

\* It raises because the connection is gone: the broker has the message back.
PublishDisconnected(w) ==
    /\ FollowUp(w)
    /\ ~held[w]
    /\ LoopFails(w)
    /\ UNCHANGED mishaps

Ack(w) ==
    /\ phase[w] = "acking"
    /\ held[w]
    /\ phase' = [phase EXCEPT ![w] = "idle"]
    /\ copy' = [copy EXCEPT ![w] = NoCopy]
    /\ held' = [held EXCEPT ![w] = FALSE]
    /\ UNCHANGED <<queues, claimed, reply, call, history, mishaps>>

\* The delivery tag belongs to a connection that is gone.
AckFails(w) ==
    /\ phase[w] = "acking"
    /\ ~held[w]
    /\ LoopFails(w)
    /\ UNCHANGED mishaps

-----------------------------------------------------------------------------
(* Broker, Redis and faults *)

\* Mutant: the retry queue is declared without x-message-ttl.
RetryWithoutTtl(c) ==
    /\ retry[c] > 0
    /\ main' = Put(main, c)
    /\ FALSE

\* The retry queue dead-letters an expired copy back to the main queue.
RetryExpires(c) ==
    /\ retry[c] > 0
    /\ retry' = Take(retry, c)
    /\ main' = Put(main, c)
    /\ UNCHANGED <<dead, claimed, workers, call, history, mishaps>>

ClaimLapses(m) ==
    /\ ClaimMayLapse
    /\ m \in claimed
    /\ claimed' = claimed \ {m}
    /\ UNCHANGED <<queues, workers, call, history, mishaps>>

\* The connection drops, or stop() closes it, while the handler thread is
\* still at work: the broker requeues the delivery, the thread goes on.
LoseConnection(w) ==
    /\ held[w]
    /\ faults < MaxFaults
    /\ faults' = faults + 1
    /\ main' = Put(main, copy[w])
    /\ held' = [held EXCEPT ![w] = FALSE]
    /\ UNCHANGED <<retry, dead, claimed, phase, copy, reply, call, history, rejected>>

\* Mutant: the queue is consumed with no_ack.
CrashWithAutoAck(w) ==
    /\ phase[w] # "down"
    /\ faults < MaxFaults
    /\ faults' = faults + 1
    /\ phase' = [phase EXCEPT ![w] = "down"]
    /\ copy' = [copy EXCEPT ![w] = NoCopy]
    /\ held' = [held EXCEPT ![w] = FALSE]
    /\ UNCHANGED <<queues, claimed, reply, call, history, rejected>>

\* The process dies; the broker requeues what it held.
Crash(w) ==
    /\ phase[w] # "down"
    /\ faults < MaxFaults
    /\ faults' = faults + 1
    /\ main' = IF held[w] THEN Put(main, copy[w]) ELSE main
    /\ phase' = [phase EXCEPT ![w] = "down"]
    /\ copy' = [copy EXCEPT ![w] = NoCopy]
    /\ held' = [held EXCEPT ![w] = FALSE]
    /\ UNCHANGED <<retry, dead, claimed, reply, call, history, rejected>>

-----------------------------------------------------------------------------

Handle(w) ==
    \/ ParseFails(w) \/ ClaimAndStart(w) \/ SkipDuplicate(w) \/ ClaimRaises(w)
    \/ HandlerSucceeds(w) \/ HandlerFails(w)

Settle(w) ==
    \/ SendReply(w) \/ NothingToPublish(w) \/ PublishRetry(w)
    \/ PublishDeadLetter(w) \/ RejectUnparsable(w) \/ PublishFails(w)
    \/ PublishDisconnected(w) \/ Ack(w) \/ AckFails(w)

Consume(w) == Start(w) \/ (\E c \in Copy : Deliver(w, c)) \/ Handle(w) \/ Settle(w)

Produce == \E m \in Messages : Publish(m) \/ Request(m)
Expire == \E c \in Copy : RetryExpires(c)
TimeOut == \E m \in Messages : RequestTimeout(m)
Disturb ==
    \/ \E m \in Messages : ClaimLapses(m)
    \/ \E w \in Workers : LoseConnection(w) \/ Crash(w)

Next == Produce \/ TimeOut \/ (\E w \in Workers : Consume(w)) \/ Expire \/ Disturb

Spec == Init /\ [][Next]_vars

\* Every handler returns, every exited loop is started again by _run (or the
\* process by its supervisor), the broker delivers and expires, and a caller's
\* wait_for fires.  Nothing is assumed of producers or faults.
Fairness ==
    /\ \A w \in Workers : WF_vars(Consume(w))
    /\ WF_vars(Expire)
    /\ WF_vars(TimeOut)

FairSpec == Spec /\ Fairness

-----------------------------------------------------------------------------
(* Properties *)

InQueue(q, m) == \E c \in Copy : c.id = m /\ q[c] > 0

HeldBy(w, m) == held[w] /\ copy[w].id = m

\* Somebody still has to act on m: a queue holds it, or a worker holds its
\* delivery and has not yet published the follow-up.
Pending(m) ==
    \/ InQueue(main, m)
    \/ InQueue(retry, m)
    \/ \E w \in Workers : HeldBy(w, m) /\ phase[w] # "acking"

\* The outcome of m is on record: the handler completed or m is dead-lettered.
Recorded(m) == m \in succeeded \/ InQueue(dead, m)

\* A parsable background message is forgotten in one way only, the failed
\* publish of its retry or dead letter: otherwise it is, from publish on,
\* pending or its outcome is recorded, and this already before the delivery is
\* acknowledged (_retry_or_dead_letter publishes inside message.process()).
NoSilentLoss ==
    \A m \in Background \ Malformed :
        call[m] = "sent" => Pending(m) \/ Recorded(m) \/ m \in rejected

\* With the guard, no crash, redelivery, reconnect or retry makes a handler
\* run twice for one message_id while its claim lives.
AtMostOnce == \A m \in Messages : started[m] <= 1

\* A dead letter has been failed on every attempt it was entitled to, whoever
\* processed the copies and however they were requeued in between.
DeadOnlyWhenExhausted ==
    \A c \in Copy : dead[c] > 0 => fails[c.id] >= MaxRetries + 1

\* Under a fair scheduler every parsable background message that was published
\* ends up completed, dead-lettered or rejected by a failed publish, in spite of
\* crashes, lost connections and copies in several places.
EventuallyRecorded ==
    \A m \in Background \ Malformed :
        call[m] = "sent" ~> Recorded(m) \/ m \in rejected

\* Under a fair scheduler the queues drain: no copy circulates for ever
\* between main and retry, and no worker keeps a delivery for ever.
EventuallyDrained ==
    <>[](\A m \in Messages :
            /\ ~InQueue(main, m) /\ ~InQueue(retry, m)
            /\ \A w \in Workers : ~HeldBy(w, m))

-----------------------------------------------------------------------------
(* What a producer of background tasks sees of this *)

TaskIds == Background \ Malformed

Outstanding(m) ==
    InQueue(main, m) \/ InQueue(retry, m) \/ (\E w \in Workers : HeldBy(w, m))

Task == INSTANCE BackgroundTask WITH
    Tasks <- TaskIds,
    submitted <- {m \in TaskIds : call[m] = "sent"},
    outstanding <- {m \in TaskIds : Outstanding(m)},
    recorded <- {m \in TaskIds : Recorded(m)},
    abandoned <- rejected \cap TaskIds

\* Without the guard, the worker, its queues and its faults implement the
\* promise of BackgroundTask step by step, a failed publish being the one step
\* in which it gives a task up.
ImplementsBackgroundTask == Task!Spec

=============================================================================
