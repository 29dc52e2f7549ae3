------------------------ MODULE ChatWorkflow_proofs ------------------------
(***************************************************************************)
(* What holds of ChatWorkflow for any chats, messages, threads and bounds. *)
(***************************************************************************)
EXTENDS ChatWorkflow, TLAPS

USE ChatWorkflowAssumption

-----------------------------------------------------------------------------
(* Type correctness, which rests on the row locks *)

\* A row is locked by one sender at a time, and only with attempts left.
LockInv ==
    /\ \A s, t \in Senders :
          s # t /\ step[s] # "idle" /\ step[t] # "idle" => row[s] # row[t]
    /\ \A s \in Senders : step[s] # "idle" => attempts[row[s]] < MaxAttempts

\* Only prompts have tasks and results, and only once they are written.
QueueInv ==
    \A m \in Messages :
        /\ tasks[m] > 0 \/ results[m] > 0 => m \in Prompts
        /\ tasks[m] > 0 \/ m \in returned => m \in written

Typed == TypeOK /\ LockInv /\ QueueInv

LEMMA TypedStep == Typed /\ [Next]_vars => Typed'
<1> SUFFICES ASSUME Typed, [Next]_vars
             PROVE  Typed'
  OBVIOUS
<1> USE DEF Typed, TypeOK, LockInv, QueueInv, rows, inboxRows, senders, queues, consumers,
            history
<1>1. ASSUME NEW c \in Chats, CreateChat(c)
      PROVE  Typed'
  BY <1>1 DEF CreateChat
<1>2. ASSUME NEW c \in Chats, DeleteChat(c)
      PROVE  Typed'
  <2> DEFINE kept == {m \in stored : ChatOf[m] # c}
  <2>1. \A s \in Senders : step[s] # "idle" => row[s] \in kept
    BY <1>2 DEF DeleteChat, Locked
  <2>2. answers' \in [Messages -> Nat]
    BY <1>2 DEF DeleteChat
  <2>3. QED
    BY <1>2, <2>1, <2>2 DEF DeleteChat
<1>3. ASSUME NEW h \in Handlers, NEW m \in Messages, CreateMessage(h, m)
      PROVE  Typed'
  <2>1. h \in Senders
    BY DEF Senders
  <2>2. QED
    BY <1>3, <2>1 DEF CreateMessage
<1>4. ASSUME NEW s \in Senders, Scan(s)
      PROVE  Typed'
  BY <1>4 DEF Scan
<1>5. ASSUME NEW s \in Senders, NEW m \in batch[s], SkipRow(s, m)
      PROVE  Typed'
  BY <1>5 DEF SkipRow
<1>6. ASSUME NEW s \in Senders, NEW m \in batch[s], LockRow(s, m)
      PROVE  Typed'
  BY <1>6 DEF LockRow, Locked, Pending
<1>7. ASSUME NEW s \in Senders, TaskAccepted(s)
      PROVE  Typed'
  <2>1. row[s] \in Prompts
    BY <1>7 DEF TaskAccepted
  <2>2. tasks' \in [Messages -> Nat] /\ sent' \in [Messages -> Nat]
    BY <1>7, <2>1 DEF TaskAccepted, Add
  <2>3. \A m \in Messages : m # row[s] => tasks'[m] = tasks[m]
    BY <1>7, <2>1 DEF TaskAccepted, Add
  <2>4. QED
    BY <1>7, <2>1, <2>2, <2>3 DEF TaskAccepted
<1>8. ASSUME NEW s \in Senders, CommitPublished(s)
      PROVE  Typed'
  BY <1>8 DEF CommitPublished, Unlock
<1>9. ASSUME NEW s \in Senders, CommitFailure(s)
      PROVE  Typed'
  <2>1. row[s] \in Messages /\ attempts[row[s]] < MaxAttempts
    BY <1>9 DEF CommitFailure
  <2>2. attempts' \in [Messages -> 0..MaxAttempts]
    BY <1>9, <2>1 DEF CommitFailure, Add
  <2>3. \A m \in Messages : m # row[s] => attempts'[m] = attempts[m]
    BY <1>9, <2>1 DEF CommitFailure, Add
  <2>4. QED
    BY <1>9, <2>1, <2>2, <2>3 DEF CommitFailure, Unlock
<1>10. ASSUME NEW s \in Senders, CrashSender(s)
       PROVE  Typed'
  BY <1>10 DEF CrashSender, Unlock
<1>11. ASSUME NEW m \in Messages, Ai(m)
       PROVE  Typed'
  <2>1. m \in Prompts
    BY <1>11 DEF Ai, AiAnswers, AiRepeats
  <2>2. tasks' \in [Messages -> Nat] /\ results' \in [Messages -> Nat]
    BY <1>11 DEF Ai, AiAnswers, AiRepeats, Add, TakeOff
  <2>3. \A n \in Messages : n # m => tasks'[n] = tasks[n] /\ results'[n] = results[n]
    BY <1>11 DEF Ai, AiAnswers, AiRepeats, Add, TakeOff
  <2>4. QED
    BY <1>11, <2>1, <2>2, <2>3 DEF Ai, AiAnswers, AiRepeats
<1>12. ASSUME NEW k \in Consumers, Start(k)
       PROVE  Typed'
  BY <1>12 DEF Start
<1>13. ASSUME NEW k \in Consumers, NEW m \in Messages, Receive(k, m)
       PROVE  Typed'
  <2>1. m \in Prompts
    BY <1>13 DEF Receive
  <2>2. results' \in [Messages -> Nat]
    BY <1>13 DEF Receive, TakeOff
  <2>3. \A n \in Messages : n # m => results'[n] = results[n]
    BY <1>13 DEF Receive, TakeOff
  <2>4. QED
    BY <1>13, <2>1, <2>2, <2>3 DEF Receive
<1>14. ASSUME NEW k \in Consumers, RejectResult(k) \/ SkipDuplicate(k) \/ CheckResult(k)
       PROVE  Typed'
  BY <1>14 DEF RejectResult, SkipDuplicate, CheckResult, MoveTo
<1>15. ASSUME NEW k \in Consumers, StoreAnswer(k)
       PROVE  Typed'
  <2>1. result[k] \in Prompts
    BY <1>15 DEF StoreAnswer
  <2>2. answers' \in [Messages -> Nat]
    BY <1>15, <2>1 DEF StoreAnswer, Add
  <2>3. QED
    BY <1>15, <2>1, <2>2 DEF StoreAnswer
<1>16. ASSUME NEW k \in Consumers, StoreFails(k) \/ AckFails(k) \/ Ack(k)
       PROVE  Typed'
  <2>1. CASE LoopFails(k)
    <3>1. \A j \in Consumers :
             \/ phase'[j] = phase[j] /\ result'[j] = result[j] /\ held'[j] = held[j]
             \/ phase'[j] = "down" /\ held'[j] = FALSE
      BY <2>1 DEF LoopFails
    <3>2. /\ phase' \in [Consumers -> {"down", "idle", "received", "checked", "acking"}]
          /\ result' \in [Consumers -> Messages \union {NoMessage}]
          /\ held' \in [Consumers -> BOOLEAN]
      BY <2>1 DEF LoopFails
    <3>3. QED
      BY <2>1, <3>1, <3>2 DEF LoopFails
  <2>2. CASE Ack(k)
    BY <2>2 DEF Ack
  <2>3. QED
    BY <1>16, <2>1, <2>2 DEF StoreFails, AckFails
<1>17. ASSUME NEW k \in Consumers, LoseConnection(k) \/ CrashConsumer(k)
       PROVE  Typed'
  <2>1. held[k] => result[k] \in Prompts
    OBVIOUS
  <2>2. results' \in [Messages -> Nat]
    BY <1>17, <2>1 DEF LoseConnection, CrashConsumer, Requeue, Add
  <2>3. \A n \in Messages : results'[n] > 0 => n \in Prompts
    BY <1>17, <2>1 DEF LoseConnection, CrashConsumer, Requeue, Add
  <2>4. faults' \in 0..MaxFaults
    BY <1>17 DEF LoseConnection, CrashConsumer
  <2>5. CASE LoseConnection(k)
    BY <2>5, <2>2, <2>3, <2>4 DEF LoseConnection
  <2>6. CASE CrashConsumer(k)
    BY <2>6, <2>2, <2>3, <2>4 DEF CrashConsumer
  <2>7. QED
    BY <1>17, <2>5, <2>6
<1>18. CASE UNCHANGED vars
  BY <1>18 DEF vars
<1>19. QED
  BY <1>1, <1>2, <1>3, <1>4, <1>5, <1>6, <1>7, <1>8, <1>9, <1>10, <1>11, <1>12,
     <1>13, <1>14, <1>15, <1>16, <1>17, <1>18
     DEF Next, Users, Flush, Consume, Disturb, Senders

LEMMA TypedInvariant == Spec => []Typed
<1>1. Init => Typed
  BY DEF Init, Typed, TypeOK, LockInv, QueueInv
<1>2. QED
  BY <1>1, TypedStep, PTL DEF Spec

\* Every reachable state is well typed: among others, a locked row exists and
\* is unpublished, and attempts never exceeds max_attempts.
THEOREM TypeCorrect == Spec => []TypeOK
<1>1. Typed => TypeOK
  BY DEF Typed
<1>2. QED
  BY <1>1, TypedInvariant, PTL

-----------------------------------------------------------------------------
(* The outbox *)

HandedOver(m) == \E s \in Senders : step[s] = "accepted" /\ row[s] = m

\* What is known of the sends of each row: they are covered by its failed
\* attempts and the crashes, but for one, which published_at or the lock of
\* the sender that has just been served stands for.
SendInv ==
    /\ \A m \in Messages \ written : sent[m] = 0
    /\ \A m \in outbox : sent[m] <= attempts[m] + 1 + faults
    /\ \A m \in outbox \ published :
          ~HandedOver(m) => sent[m] <= attempts[m] + faults
    /\ \A m \in outbox : m \in published \/ HandedOver(m) => sent[m] > 0

LEMMA SendInvStep == Typed /\ SendInv /\ [Next]_vars => SendInv'
<1> SUFFICES ASSUME Typed, SendInv, [Next]_vars
             PROVE  SendInv'
  OBVIOUS
<1> USE DEF SendInv, HandedOver, rows, inboxRows, senders, queues, consumers, history
<1>0. /\ sent \in [Messages -> Nat] /\ attempts \in [Messages -> Nat]
      /\ faults \in Nat
      /\ outbox \subseteq Messages /\ outbox \subseteq written
      /\ step \in [Senders -> {"idle", "publishing", "accepted"}]
      /\ row \in [Senders -> Messages \union {NoMessage}]
      /\ \A s \in Senders : step[s] # "idle" => row[s] \in outbox \ published
      /\ LockInv
  BY DEF Typed, TypeOK
<1>1. CASE UNCHANGED <<rows, senders, sent, faults>>
  BY <1>0, <1>1
<1>2. ASSUME NEW c \in Chats, DeleteChat(c)
      PROVE  SendInv'
  BY <1>0, <1>2 DEF DeleteChat
<1>3. ASSUME NEW h \in Handlers, NEW m \in Messages, CreateMessage(h, m)
      PROVE  SendInv'
  <2>1. sent[m] = 0 /\ m \notin outbox
    BY <1>0, <1>3 DEF CreateMessage
  <2>2. ~HandedOver(m)
    BY <1>0, <2>1
  <2>3. /\ written' = written \union {m}
        /\ UNCHANGED <<published, attempts, sent, faults, step, row>>
    BY <1>3 DEF CreateMessage
  <2>4. \A n \in outbox' : n \in outbox \/ n = m
    BY <1>3 DEF CreateMessage
  <2>5. \A n \in Messages : HandedOver(n)' <=> HandedOver(n)
    BY <2>3
  <2>6. 0 <= attempts[m] + 1 + faults /\ 0 <= attempts[m] + faults
    BY <1>0
  <2>7. m \notin published
    BY <2>1 DEF Typed, TypeOK
  <2>8. \A n \in outbox' : n \in published \/ HandedOver(n)' => sent[n] > 0
    BY <1>0, <2>1, <2>2, <2>4, <2>5, <2>7
  <2>9. \A n \in outbox' \ published : ~HandedOver(n)' => sent[n] <= attempts[n] + faults
    BY <1>0, <2>1, <2>4, <2>5, <2>6
  <2>10. \A n \in outbox' : sent[n] <= attempts[n] + 1 + faults
    BY <1>0, <2>1, <2>4, <2>6
  <2>11. QED
    BY <2>3, <2>8, <2>9, <2>10
<1>4. ASSUME NEW s \in Senders, Scan(s)
      PROVE  SendInv'
  BY <1>0, <1>4 DEF Scan
<1>5. ASSUME NEW s \in Senders, NEW m \in batch[s], SkipRow(s, m)
      PROVE  SendInv'
  BY <1>0, <1>5 DEF SkipRow
<1>6. ASSUME NEW s \in Senders, NEW m \in batch[s], LockRow(s, m)
      PROVE  SendInv'
  <2>1. \A n \in Messages : HandedOver(n)' <=> HandedOver(n)
    BY <1>0, <1>6 DEF LockRow
  <2>2. QED
    BY <1>0, <1>6, <2>1 DEF LockRow
<1>7. ASSUME NEW s \in Senders, TaskAccepted(s)
      PROVE  SendInv'
  <2>1. row[s] \in outbox \ published /\ ~HandedOver(row[s])
    BY <1>0, <1>7 DEF TaskAccepted, LockInv
  <2>2. sent'[row[s]] = sent[row[s]] + 1
    BY <1>0, <1>7, <2>1 DEF TaskAccepted, Add
  <2>3. \A n \in Messages : n # row[s] => sent'[n] = sent[n] /\ (HandedOver(n)' <=> HandedOver(n))
    BY <1>0, <1>7, <2>1 DEF TaskAccepted, Add
  <2>4. \A n \in Messages : n = row[s] => HandedOver(n)'
    BY <1>0, <1>7, <2>1 DEF TaskAccepted
  <2>5. sent[row[s]] <= attempts[row[s]] + faults
    BY <2>1
  <2>6. UNCHANGED <<rows, faults>> /\ row[s] \in Messages
    BY <1>0, <1>7, <2>1 DEF TaskAccepted
  <2>7. \A m \in Messages \ written : sent'[m] = 0
    BY <1>0, <2>1, <2>3
  <2>8. \A m \in outbox : sent'[m] <= attempts[m] + 1 + faults
    BY <1>0, <2>1, <2>2, <2>3, <2>5
  <2>9. \A m \in outbox \ published : ~HandedOver(m)' => sent'[m] <= attempts[m] + faults
    BY <1>0, <2>1, <2>3, <2>4
  <2>10. \A m \in outbox : m \in published \/ HandedOver(m)' => sent'[m] > 0
    BY <1>0, <2>1, <2>2, <2>3
  <2>11. QED
    BY <2>6, <2>7, <2>8, <2>9, <2>10
<1>8. ASSUME NEW s \in Senders, CommitPublished(s)
      PROVE  SendInv'
  <2>1. \A n \in Messages : n # row[s] => (HandedOver(n)' <=> HandedOver(n))
    BY <1>0, <1>8 DEF CommitPublished, Unlock
  <2>2. row[s] \in outbox /\ HandedOver(row[s])
    BY <1>0, <1>8 DEF CommitPublished
  <2>3. /\ published' = published \union {row[s]}
        /\ UNCHANGED <<written, outbox, attempts, sent, faults>>
    BY <1>8 DEF CommitPublished
  <2>4. row[s] \in Messages /\ sent[row[s]] > 0
    BY <1>0, <2>2
  <2>5. \A n \in outbox : n \in published' \/ HandedOver(n)' => sent[n] > 0
    <3> TAKE n \in outbox
    <3>1. CASE n = row[s]
      BY <2>4, <3>1
    <3>2. CASE n # row[s]
      BY <1>0, <2>1, <2>3, <3>2
    <3>3. QED
      BY <3>1, <3>2
  <2>6. \A n \in outbox \ published' : ~HandedOver(n)' => sent[n] <= attempts[n] + faults
    BY <1>0, <2>1, <2>3
  <2>7. QED
    BY <2>3, <2>5, <2>6
<1>9. ASSUME NEW s \in Senders, CommitFailure(s)
      PROVE  SendInv'
  <2>1. row[s] \in outbox \ published
    BY <1>0, <1>9 DEF CommitFailure
  <2>2. attempts'[row[s]] = attempts[row[s]] + 1
    BY <1>0, <1>9, <2>1 DEF CommitFailure, Add
  <2>3. \A n \in Messages :
           n # row[s] => attempts'[n] = attempts[n] /\ (HandedOver(n)' <=> HandedOver(n))
    BY <1>0, <1>9, <2>1 DEF CommitFailure, Unlock, Add
  <2>4. \A n \in Messages : n = row[s] => ~HandedOver(n)'
    BY <1>0, <1>9, <2>1 DEF CommitFailure, Unlock, LockInv
  <2>5. sent[row[s]] <= attempts[row[s]] + 1 + faults
    BY <2>1
  <2>6. UNCHANGED <<written, outbox, published, sent, faults>> /\ row[s] \in Messages
    BY <1>0, <1>9, <2>1 DEF CommitFailure
  <2>7. attempts' \in [Messages -> Nat]
    BY <1>0, <1>9, <2>6 DEF CommitFailure, Add
  <2>8. \A m \in outbox : sent[m] <= attempts'[m] + 1 + faults
    BY <1>0, <2>2, <2>3, <2>5, <2>6
  <2>9. \A m \in outbox \ published : ~HandedOver(m)' => sent[m] <= attempts'[m] + faults
    BY <1>0, <2>2, <2>3, <2>5, <2>6
  <2>10. \A m \in outbox : m \in published \/ HandedOver(m)' => sent[m] > 0
    BY <1>0, <2>3, <2>4
  <2>11. QED
    BY <2>6, <2>8, <2>9, <2>10
<1>10. ASSUME NEW s \in Senders, CrashSender(s)
       PROVE  SendInv'
  <2>1. \A n \in Messages : HandedOver(n)' => HandedOver(n)
    BY <1>0, <1>10 DEF CrashSender, Unlock
  <2>2. faults' = faults + 1
    BY <1>10 DEF CrashSender
  <2>3. \A m \in outbox : sent[m] <= attempts[m] + 1 + faults
    OBVIOUS
  <2>4. UNCHANGED <<rows, sent>>
    BY <1>10 DEF CrashSender
  <2>5. \A m \in outbox : sent[m] <= attempts[m] + faults'
    BY <1>0, <2>2, <2>3
  <2>6. \A m \in outbox : sent[m] <= attempts[m] + 1 + faults'
    BY <1>0, <2>2, <2>3
  <2>7. \A m \in outbox : m \in published \/ HandedOver(m)' => sent[m] > 0
    BY <1>0, <2>1
  <2>8. QED
    BY <2>4, <2>5, <2>6, <2>7
<1>11. CASE UNCHANGED <<rows, senders, sent>> /\ faults' = faults + 1
  BY <1>0, <1>11
<1>12. ASSUME NEW m \in Messages, Ai(m)
       PROVE  SendInv'
  BY <1>1, <1>11, <1>12 DEF Ai, AiAnswers, AiRepeats
<1>13. ASSUME NEW k \in Consumers, Consume(k)
       PROVE  SendInv'
  BY <1>1, <1>13 DEF Consume, Start, Receive, RejectResult, SkipDuplicate, CheckResult,
     MoveTo, StoreAnswer, StoreConflicts, StoreFails, Ack, AckFails, LoopFails
<1>14. ASSUME NEW k \in Consumers, LoseConnection(k) \/ CrashConsumer(k)
       PROVE  SendInv'
  BY <1>11, <1>14 DEF LoseConnection, CrashConsumer
<1>15. ASSUME NEW c \in Chats, CreateChat(c)
       PROVE  SendInv'
  BY <1>1, <1>15 DEF CreateChat
<1>16. CASE UNCHANGED vars
  BY <1>1, <1>16 DEF vars
<1>17. QED
  BY <1>2, <1>3, <1>4, <1>5, <1>6, <1>7, <1>8, <1>9, <1>10, <1>12, <1>13, <1>14,
     <1>15, <1>16 DEF Next, Users, Flush, Disturb

LEMMA SendInvariant == Spec => []SendInv
<1>1. Init => SendInv
  BY DEF Init, SendInv, HandedOver
<1>2. QED
  BY <1>1, TypedInvariant, SendInvStep, PTL DEF Spec

\* Whatever senders race over a row, its task is sent once, plus at most once
\* for each failed attempt and each crash; published_at is only set once the
\* broker has accepted it.
THEOREM SendsBounded == Spec => []SendsAccounted
<1>1. SendInv => SendsAccounted
  BY DEF SendInv, SendsAccounted
<1>2. QED
  BY <1>1, SendInvariant, PTL

\* A published row is not sent again: whoever sends holds the row's lock and
\* has seen it unpublished since taking it.
THEOREM NotResent == Spec => NeverResentOncePublished
<1>1. Typed /\ [Next]_vars =>
        [\A m \in published : m \in published' => sent'[m] = sent[m]]_vars
  <2> SUFFICES ASSUME Typed, Next, NEW m \in published
               PROVE  sent'[m] = sent[m]
    OBVIOUS
  <2>1. CASE UNCHANGED sent
    BY <2>1
  <2>2. ASSUME NEW s \in Senders, TaskAccepted(s)
        PROVE  sent'[m] = sent[m]
    BY <2>2 DEF TaskAccepted, Add, Typed, TypeOK
  <2>3. CASE Users
    BY <2>1, <2>3 DEF Users, CreateChat, DeleteChat, CreateMessage, history
  <2>4. ASSUME NEW s \in Senders, Flush(s)
        PROVE  sent'[m] = sent[m]
    BY <2>1, <2>2, <2>4 DEF Flush, Scan, SkipRow, LockRow, CommitPublished,
                            CommitFailure, history
  <2>5. ASSUME NEW n \in Messages, Ai(n)
        PROVE  sent'[m] = sent[m]
    BY <2>1, <2>5 DEF Ai, AiAnswers, AiRepeats, history
  <2>6. ASSUME NEW k \in Consumers, Consume(k)
        PROVE  sent'[m] = sent[m]
    BY <2>1, <2>6 DEF Consume, Start, Receive, RejectResult, SkipDuplicate, CheckResult,
       MoveTo, StoreAnswer, StoreConflicts, StoreFails, Ack, AckFails, LoopFails, history
  <2>7. CASE Disturb
    BY <2>1, <2>7 DEF Disturb, CrashSender, LoseConnection, CrashConsumer, history
  <2>8. QED
    BY <2>3, <2>4, <2>5, <2>6, <2>7 DEF Next
<1>2. QED
  BY <1>1, TypedInvariant, PTL DEF Spec, NeverResentOncePublished

-----------------------------------------------------------------------------
(* The inbox *)

\* Messages are deleted only with their chat.
StoredLive == \A m \in stored : chat[ChatOf[m]] = "live"

InboxInv == StoredLive /\ AnswersMatchInbox /\ NoOrphanAnswer

LEMMA InboxInvStep == Typed /\ InboxInv /\ [Next]_vars => InboxInv'
<1> SUFFICES ASSUME Typed, InboxInv, [Next]_vars
             PROVE  InboxInv'
  OBVIOUS
<1> USE DEF InboxInv, StoredLive, AnswersMatchInbox, NoOrphanAnswer, Addressable,
            rows, inboxRows, senders, queues, consumers, history
<1>0. /\ chat \in [Chats -> {"none", "live", "deleted"}]
      /\ stored \subseteq Messages /\ inbox \subseteq Messages
      /\ answers \in [Messages -> Nat]
      /\ \A k \in Consumers : phase[k] = "checked" => result[k] \in Messages
  BY DEF Typed, TypeOK
<1>1. CASE UNCHANGED <<chat, stored, inbox, answers>>
  BY <1>1
<1>2. ASSUME NEW c \in Chats, CreateChat(c)
      PROVE  InboxInv'
  BY <1>0, <1>2 DEF CreateChat
<1>3. ASSUME NEW c \in Chats, DeleteChat(c)
      PROVE  InboxInv'
  BY <1>0, <1>3 DEF DeleteChat
<1>4. ASSUME NEW h \in Handlers, NEW m \in Messages, CreateMessage(h, m)
      PROVE  InboxInv'
  BY <1>0, <1>4 DEF CreateMessage
<1>5. ASSUME NEW k \in Consumers, StoreAnswer(k)
      PROVE  InboxInv'
  <2>1. result[k] \in Messages /\ answers[result[k]] = 0
    BY <1>0, <1>5 DEF StoreAnswer
  <2>2. QED
    BY <1>0, <1>5, <2>1 DEF StoreAnswer, Add
<1>6. ASSUME NEW k \in Consumers, Consume(k), ~StoreAnswer(k)
      PROVE  InboxInv'
  BY <1>1, <1>6 DEF Consume, Start, Receive, RejectResult, SkipDuplicate, CheckResult,
     MoveTo, StoreConflicts, StoreFails, Ack, AckFails, LoopFails
<1>7. ASSUME NEW s \in Senders, Flush(s) \/ CrashSender(s)
      PROVE  InboxInv'
  BY <1>1, <1>7 DEF Flush, Scan, SkipRow, LockRow, TaskAccepted, CommitPublished,
     CommitFailure, CrashSender
<1>8. ASSUME NEW m \in Messages, Ai(m)
      PROVE  InboxInv'
  BY <1>1, <1>8 DEF Ai, AiAnswers, AiRepeats
<1>9. ASSUME NEW k \in Consumers, LoseConnection(k) \/ CrashConsumer(k)
      PROVE  InboxInv'
  BY <1>1, <1>9 DEF LoseConnection, CrashConsumer
<1>10. CASE UNCHANGED vars
  BY <1>1, <1>10 DEF vars
<1>11. QED
  BY <1>2, <1>3, <1>4, <1>5, <1>6, <1>7, <1>8, <1>9, <1>10 DEF Next, Users, Disturb

LEMMA InboxInvariant == Spec => []InboxInv
<1>1. Init => InboxInv
  BY DEF Init, InboxInv, StoredLive, AnswersMatchInbox, NoOrphanAnswer
<1>2. QED
  BY <1>1, TypedInvariant, InboxInvStep, PTL DEF Spec

\* However results are repeated and raced over, a prompt has one assistant
\* message, and its inbox row says so.
THEOREM OneAnswer == Spec => []AnswersMatchInbox
<1>1. InboxInv => AnswersMatchInbox
  BY DEF InboxInv
<1>2. QED
  BY <1>1, InboxInvariant, PTL

\* No answer outlives its chat.
THEOREM NoOrphans == Spec => []NoOrphanAnswer
<1>1. InboxInv => NoOrphanAnswer
  BY DEF InboxInv
<1>2. QED
  BY <1>1, InboxInvariant, PTL

-----------------------------------------------------------------------------
(* Results *)

AnswerKept(m) == results[m] > 0 \/ m \in inbox \/ \E k \in Consumers : Processing(k, m)

ResultInv == \A m \in (returned \intersect stored) \ Unparsable : AnswerKept(m)

LEMMA ResultInvStep ==
    ASSUME ~DbMayFail
    PROVE  Typed /\ InboxInv /\ ResultInv /\ [Next]_vars => ResultInv'
<1> SUFFICES ASSUME Typed, InboxInv, ResultInv, [Next]_vars,
                    NEW m \in Messages \ Unparsable,
                    m \in returned', m \in stored'
             PROVE  AnswerKept(m)'
  BY TypedStep DEF ResultInv, Typed, TypeOK
<1> USE DEF AnswerKept, Processing, rows, inboxRows, senders, queues, consumers, history
<1>0. /\ results \in [Messages -> Nat]
      /\ phase \in [Consumers -> {"down", "idle", "received", "checked", "acking"}]
      /\ result \in [Consumers -> Messages \union {NoMessage}]
      /\ held \in [Consumers -> BOOLEAN]
  BY DEF Typed, TypeOK
<1>1. m \in returned /\ m \in stored => AnswerKept(m)
  BY DEF ResultInv
<1>2. CASE UNCHANGED <<stored, returned, results, inbox, consumers>>
  BY <1>1, <1>2
<1>3. CASE Users
  <2>1. ASSUME NEW c \in Chats, CreateChat(c)
        PROVE  AnswerKept(m)'
    BY <1>2, <2>1 DEF CreateChat
  <2>2. ASSUME NEW c \in Chats, DeleteChat(c)
        PROVE  AnswerKept(m)'
    BY <1>1, <2>2 DEF DeleteChat
  <2>3. ASSUME NEW h \in Handlers, NEW n \in Messages, CreateMessage(h, n)
        PROVE  AnswerKept(m)'
    <3>1. /\ stored' = stored \union {n} /\ n \notin written
          /\ UNCHANGED <<returned, results, inbox, consumers>>
      BY <2>3 DEF CreateMessage
    <3>2. m # n
      BY <3>1 DEF Typed, QueueInv
    <3>3. QED
      BY <1>1, <3>1, <3>2
  <2>4. QED
    BY <1>3, <2>1, <2>2, <2>3 DEF Users
<1>4. ASSUME NEW s \in Senders, Flush(s) \/ CrashSender(s)
      PROVE  AnswerKept(m)'
  BY <1>2, <1>4 DEF Flush, Scan, SkipRow, LockRow, TaskAccepted, CommitPublished,
     CommitFailure, CrashSender
<1>5. ASSUME NEW n \in Messages, Ai(n)
      PROVE  AnswerKept(m)'
  <2>1. results'[n] > 0
    BY <1>0, <1>5 DEF Ai, AiAnswers, AiRepeats, Add
  <2>2. UNCHANGED <<stored, inbox, consumers>> /\ returned' \subseteq returned \union {n}
    BY <1>5 DEF Ai, AiAnswers, AiRepeats
  <2>3. CASE n = m
    BY <2>1, <2>3
  <2>4. CASE n # m
    <3>1. results[m] > 0 => results'[m] > 0
      BY <1>0, <1>5, <2>4 DEF Ai, AiAnswers, AiRepeats, Add
    <3>2. QED
      BY <1>1, <2>2, <2>4, <3>1
  <2>5. QED
    BY <2>3, <2>4
<1>6. ASSUME NEW k \in Consumers, Consume(k)
      PROVE  AnswerKept(m)'
  <2>0. AnswerKept(m) /\ UNCHANGED stored
    BY <1>1, <1>6 DEF Consume, Start, Receive, RejectResult, SkipDuplicate, CheckResult,
       MoveTo, StoreAnswer, StoreConflicts, StoreFails, Ack, AckFails, LoopFails
  <2>1. ASSUME UNCHANGED <<results, inbox>>,
               Processing(k, m) => m \in inbox \/ Processing(k, m)',
               \A j \in Consumers \ {k} :
                  phase'[j] = phase[j] /\ result'[j] = result[j] /\ held'[j] = held[j]
        PROVE  AnswerKept(m)'
    BY <2>0, <2>1
  <2>2. CASE Start(k)
    BY <1>0, <2>1, <2>2 DEF Start
  <2>3. ASSUME NEW n \in Messages, Receive(k, n)
        PROVE  AnswerKept(m)'
    <3>1. n = m => Processing(k, m)'
      BY <1>0, <2>3 DEF Receive
    <3>2. n # m => results'[m] = results[m]
      BY <1>0, <2>3 DEF Receive, TakeOff
    <3>3. \A j \in Consumers : Processing(j, m) => Processing(j, m)'
      BY <1>0, <2>3 DEF Receive
    <3>4. inbox' = inbox
      BY <2>3 DEF Receive
    <3>5. QED
      BY <2>0, <3>1, <3>2, <3>3, <3>4
  <2>4. CASE RejectResult(k) \/ SkipDuplicate(k) \/ CheckResult(k)
    <3>1. Processing(k, m) => m \in inbox \/ Processing(k, m)'
      BY <1>0, <2>0, <2>4 DEF RejectResult, SkipDuplicate, CheckResult, MoveTo,
                               InboxInv, StoredLive, Addressable
    <3>2. QED
      BY <1>0, <2>1, <2>4, <3>1 DEF RejectResult, SkipDuplicate, CheckResult, MoveTo
  <2>5. CASE StoreAnswer(k)
    <3>1. Processing(k, m) => m \in inbox'
      BY <2>5 DEF StoreAnswer
    <3>2. \A j \in Consumers \ {k} : Processing(j, m) => Processing(j, m)'
      BY <1>0, <2>5 DEF StoreAnswer
    <3>3. inbox \subseteq inbox' /\ UNCHANGED results
      BY <2>5 DEF StoreAnswer
    <3>4. QED
      BY <2>0, <3>1, <3>2, <3>3
  <2>6. CASE StoreFails(k)
    <3>1. Processing(k, m) => m \in inbox
      BY <2>0, <2>6 DEF StoreFails, StoreConflicts, InboxInv, StoredLive, Addressable
    <3>2. QED
      BY <1>0, <2>1, <2>6, <3>1 DEF StoreFails, LoopFails
  <2>7. CASE AckFails(k) \/ Ack(k)
    BY <1>0, <2>1, <2>7 DEF AckFails, Ack, LoopFails
  <2>8. QED
    BY <1>6, <2>2, <2>3, <2>4, <2>5, <2>6, <2>7 DEF Consume
<1>7. ASSUME NEW k \in Consumers, LoseConnection(k) \/ CrashConsumer(k)
      PROVE  AnswerKept(m)'
  <2>1. UNCHANGED <<stored, returned, inbox>>
    BY <1>7 DEF LoseConnection, CrashConsumer
  <2>2. results[m] > 0 => results'[m] > 0
    BY <1>0, <1>7 DEF LoseConnection, CrashConsumer, Requeue, Add
  <2>3. Processing(k, m) => results'[m] > 0
    BY <1>0, <1>7 DEF LoseConnection, CrashConsumer, Requeue, Add
  <2>4. \A j \in Consumers \ {k} : Processing(j, m) => Processing(j, m)'
    BY <1>0, <1>7 DEF LoseConnection, CrashConsumer
  <2>5. QED
    BY <1>1, <2>1, <2>2, <2>3, <2>4
<1>8. CASE UNCHANGED vars
  BY <1>2, <1>8 DEF vars
<1>9. QED
  BY <1>3, <1>4, <1>5, <1>6, <1>7, <1>8 DEF Next, Disturb

\* While PostgreSQL works, rejecting deliveries without requeueing loses no
\* result that a stored prompt still waits for.
THEOREM ResultsSurvive == Spec => []ResultNotLost
<1>1. CASE DbMayFail
  <2>1. ResultNotLost
    BY <1>1 DEF ResultNotLost
  <2>2. QED
    BY <2>1, PTL
<1>2. CASE ~DbMayFail
  <2>1. Init => ResultInv
    BY DEF Init, ResultInv
  <2>2. Typed /\ InboxInv /\ ResultInv /\ [Next]_vars => ResultInv'
    BY <1>2, ResultInvStep
  <2>3. ResultInv => ResultNotLost
    BY DEF ResultInv, ResultNotLost, AnswerKept
  <2>4. QED
    BY <2>1, <2>2, <2>3, TypedInvariant, InboxInvariant, PTL DEF Spec
<1>3. QED
  BY <1>1, <1>2


-----------------------------------------------------------------------------
(* From the prompt to its answer *)

\* The broker and the AI keep the tasks they accept, and every prompt has the
\* outbox row it was stored with.
SentKept == \A m \in Messages : sent[m] > 0 => tasks[m] > 0 \/ m \in returned
OutboxWhole == stored \intersect Prompts \subseteq outbox

LEMMA SentKeptStep == Typed /\ SentKept /\ OutboxWhole /\ [Next]_vars => SentKept' /\ OutboxWhole'
<1> SUFFICES ASSUME Typed, SentKept, OutboxWhole, [Next]_vars
             PROVE  SentKept' /\ OutboxWhole'
  OBVIOUS
<1> USE DEF SentKept, OutboxWhole, rows, inboxRows, senders, queues, consumers, history
<1>0. /\ tasks \in [Messages -> Nat] /\ sent \in [Messages -> Nat]
      /\ \A s \in Senders : step[s] # "idle" => row[s] \in Messages
  BY DEF Typed, TypeOK
<1>1. ASSUME UNCHANGED <<tasks, sent, returned, stored, outbox>>
      PROVE  SentKept' /\ OutboxWhole'
  BY <1>1
<1>2. CASE Users
  <2>1. UNCHANGED <<tasks, sent, returned>>
    BY <1>2 DEF Users, CreateChat, DeleteChat, CreateMessage
  <2>2. OutboxWhole'
    BY <1>2 DEF Users, CreateChat, DeleteChat, CreateMessage
  <2> QED BY <2>1, <2>2
<1>3. ASSUME NEW s \in Senders, TaskAccepted(s)
      PROVE  SentKept' /\ OutboxWhole'
  <2>1. /\ row[s] \in Messages /\ tasks' = Add(tasks, row[s]) /\ sent' = Add(sent, row[s])
        /\ UNCHANGED <<returned, stored, outbox>>
    BY <1>0, <1>3 DEF TaskAccepted
  <2>2. /\ tasks'[row[s]] > 0
        /\ \A m \in Messages \ {row[s]} : tasks'[m] = tasks[m] /\ sent'[m] = sent[m]
    BY <1>0, <2>1 DEF Add
  <2> QED BY <2>1, <2>2
<1>4. ASSUME NEW s \in Senders, Flush(s) \/ CrashSender(s)
      PROVE  SentKept' /\ OutboxWhole'
  BY <1>1, <1>3, <1>4 DEF Flush, Scan, SkipRow, LockRow, CommitPublished, CommitFailure, CrashSender
<1>5. ASSUME NEW n \in Messages, AiAnswers(n)
      PROVE  SentKept' /\ OutboxWhole'
  <2>1. \A m \in Messages \ {n} : tasks'[m] = tasks[m]
    BY <1>0, <1>5 DEF AiAnswers, TakeOff
  <2> QED BY <1>5, <2>1 DEF AiAnswers
<1>6. ASSUME NEW n \in Messages, AiRepeats(n)
      PROVE  SentKept' /\ OutboxWhole'
  BY <1>1, <1>6 DEF AiRepeats
<1>7. ASSUME NEW k \in Consumers, Consume(k)
      PROVE  SentKept' /\ OutboxWhole'
  BY <1>1, <1>7 DEF Consume, Start, Receive, RejectResult, SkipDuplicate, CheckResult, MoveTo,
     StoreAnswer, StoreConflicts, StoreFails, Ack, AckFails, LoopFails
<1>8. ASSUME NEW k \in Consumers, LoseConnection(k) \/ CrashConsumer(k)
      PROVE  SentKept' /\ OutboxWhole'
  BY <1>1, <1>8 DEF LoseConnection, CrashConsumer
<1>9. CASE UNCHANGED vars
  BY <1>1, <1>9 DEF vars
<1> QED BY <1>2, <1>4, <1>5, <1>6, <1>7, <1>8, <1>9 DEF Next, Ai, Disturb

\* Where a stored prompt is on its way from messages.create to its answer.
PromptIsAccounted ==
    \A m \in (stored \intersect Prompts) \ Unparsable :
        m \in outbox \ published \/ tasks[m] > 0 \/ AnswerKept(m)

\* While PostgreSQL works under the consumers and the AI's results parse, a
\* stored prompt is an unpublished row of the outbox, or a task the AI has not
\* answered, or its result is queued, at a consumer or stored: the outbox, the
\* two queues and the inbox hand it on without a gap, whichever threads and
\* connections die between any two of their steps.
THEOREM PromptsAreAccounted ==
    ASSUME ~DbMayFail
    PROVE  Spec => []PromptIsAccounted
<1>1. Init => SentKept /\ OutboxWhole /\ ResultInv
  BY DEF Init, SentKept, OutboxWhole, ResultInv
<1>2. Typed /\ InboxInv /\ ResultInv /\ [Next]_vars => ResultInv'
  BY ResultInvStep
<1>3. Typed /\ SendInv /\ SentKept /\ OutboxWhole /\ ResultInv => PromptIsAccounted
  BY DEF Typed, TypeOK, SendInv, SentKept, OutboxWhole, ResultInv, PromptIsAccounted
<1> QED BY <1>1, <1>2, <1>3, TypedInvariant, SendInvariant, InboxInvariant, SentKeptStep, PTL
        DEF Spec

=============================================================================
