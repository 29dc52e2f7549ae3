------------------------ MODULE MessageWorker_proofs ------------------------
(***************************************************************************)
(* What holds of MessageWorker for any set of messages and workers, any    *)
(* max_retries and any number of faults.                                   *)
(***************************************************************************)
EXTENDS MessageWorker, TLAPS

USE MessageWorkerAssumption, NoCopyAssumption

\* The copies that publishing and retrying create are copies of the queue.
LEMMA FirstCopyType == \A m \in Messages : FirstCopy(m) \in Copy
BY DEF FirstCopy, Copy

LEMMA NextAttemptType ==
    \A c \in Copy : ~Exhausted(c) => NextAttempt(c) \in Copy /\ NextAttempt(c).id = c.id
BY DEF NextAttempt, Exhausted, Copy

\* Putting a copy in a queue and taking one out keep it a bag of copies.
LEMMA PutType ==
    ASSUME NEW q \in [Copy -> Nat], NEW c \in Copy
    PROVE  /\ Put(q, c) \in [Copy -> Nat]
           /\ Put(q, c)[c] > 0
           /\ \A d \in Copy : q[d] > 0 => Put(q, c)[d] > 0
           /\ \A d \in Copy : d # c => Put(q, c)[d] = q[d]
BY DEF Put

LEMMA TakeType ==
    ASSUME NEW q \in [Copy -> Nat], NEW c \in Copy, q[c] > 0
    PROVE  /\ Take(q, c) \in [Copy -> Nat]
           /\ \A d \in Copy : d # c => Take(q, c)[d] = q[d]
           /\ \A d \in Copy : Take(q, c)[d] > 0 => q[d] > 0
BY DEF Take

\* Every reachable state is well typed; in particular a worker is only ever
\* credited with a delivery while it works on one.
THEOREM TypeCorrect == Spec => []TypeOK
<1>1. Init => TypeOK
  BY DEF Init, TypeOK, Phases, Replies, CallStates
<1>2. TypeOK /\ [Next]_vars => TypeOK'
  <2> SUFFICES ASSUME TypeOK, [Next]_vars
               PROVE  TypeOK'
    OBVIOUS
  <2> USE DEF TypeOK, Phases, Replies, CallStates, queues, workers, history, mishaps
  <2>1. ASSUME NEW m \in Messages, Publish(m) \/ Request(m)
        PROVE  TypeOK'
    <3>1. main' \in [Copy -> Nat]
      BY <2>1, FirstCopyType, PutType DEF Publish, Request
    <3>2. call' \in [Messages -> CallStates]
      BY <2>1 DEF Publish, Request
    <3>3. QED
      BY <2>1, <3>1, <3>2 DEF Publish, Request
  <2>2. ASSUME NEW m \in Messages, RequestTimeout(m)
        PROVE  TypeOK'
    BY <2>2 DEF RequestTimeout
  <2>3. ASSUME NEW w \in Workers, Start(w)
        PROVE  TypeOK'
    BY <2>3 DEF Start
  <2>4. ASSUME NEW w \in Workers, NEW c \in Copy, Deliver(w, c)
        PROVE  TypeOK'
    BY <2>4, TakeType DEF Deliver
  <2>5. ASSUME NEW w \in Workers, Handle(w)
        PROVE  TypeOK'
    <3>1. copy[w] \in Copy /\ copy[w].id \in Messages
      BY <2>5 DEF Handle, ParseFails, ClaimAndStart, SkipDuplicate, ClaimRaises,
                  HandlerSucceeds, HandlerFails, Copy
    <3>2. CASE ClaimAndStart(w)
      BY <3>1, <3>2 DEF ClaimAndStart
    <3>3. CASE ParseFails(w) \/ SkipDuplicate(w) \/ HandlerFails(w)
      BY <3>1, <3>3 DEF ParseFails, SkipDuplicate, HandlerFails, Answer
    <3>4. CASE ClaimRaises(w)
      BY <3>1, <3>4 DEF ClaimRaises, Answer
    <3>5. CASE HandlerSucceeds(w)
      BY <3>1, <3>5 DEF HandlerSucceeds, Answer
    <3>6. QED
      BY <2>5, <3>2, <3>3, <3>4, <3>5 DEF Handle
  <2>6. ASSUME NEW w \in Workers, Settle(w)
        PROVE  TypeOK'
    <3>1. copy[w] \in Copy /\ copy[w].id \in Messages
      BY <2>6 DEF Settle, SendReply, NothingToPublish, PublishRetry, FailedBackground, FollowUp,
                  PublishDeadLetter, RejectUnparsable, PublishFails, PublishDisconnected, Ack, AckFails, Copy
    <3>2. CASE SendReply(w) \/ NothingToPublish(w)
      BY <3>1, <3>2 DEF SendReply, NothingToPublish, Settled
    <3>3. CASE PublishRetry(w)
      BY <3>1, <3>3, NextAttemptType, PutType DEF PublishRetry, Settled
    <3>4. CASE PublishDeadLetter(w)
      BY <3>1, <3>4, PutType DEF PublishDeadLetter, Settled
    <3>5. CASE RejectUnparsable(w) \/ PublishDisconnected(w) \/ AckFails(w) \/ Ack(w)
      BY <3>1, <3>5 DEF RejectUnparsable, PublishDisconnected, AckFails, Ack, LoopFails
    <3>6. CASE PublishFails(w)
      BY <3>1, <3>6 DEF PublishFails, LoopFails
    <3>7. QED
      BY <2>6, <3>2, <3>3, <3>4, <3>5, <3>6 DEF Settle
  <2>7. ASSUME NEW c \in Copy, RetryExpires(c)
        PROVE  TypeOK'
    BY <2>7, PutType, TakeType DEF RetryExpires
  <2>8. ASSUME NEW m \in Messages, ClaimLapses(m)
        PROVE  TypeOK'
    BY <2>8 DEF ClaimLapses
  <2>9. ASSUME NEW w \in Workers, LoseConnection(w) \/ Crash(w)
        PROVE  TypeOK'
    <3>1. held[w] => copy[w] \in Copy
      OBVIOUS
    <3>2. main' \in [Copy -> Nat]
      BY <2>9, <3>1, PutType DEF LoseConnection, Crash
    <3>3. faults' \in 0..MaxFaults
      BY <2>9 DEF LoseConnection, Crash
    <3>4. QED
      BY <2>9, <3>2, <3>3 DEF LoseConnection, Crash
  <2>10. CASE UNCHANGED vars
    BY <2>10 DEF vars
  <2>11. QED
    BY <2>1, <2>2, <2>3, <2>4, <2>5, <2>6, <2>7, <2>8, <2>9, <2>10
       DEF Next, Produce, TimeOut, Consume, Expire, Disturb
<1>3. QED
  BY <1>1, <1>2, PTL DEF Spec

-----------------------------------------------------------------------------
(* At most once *)

\* A handler is entered only together with its claim, and claims stay.
ClaimInv ==
    \A m \in Messages :
        /\ started[m] <= 1
        /\ m \notin claimed => started[m] = 0

\* While Redis keeps the claims, no handler runs twice for one message_id.
THEOREM GuardedAtMostOnce ==
    ASSUME GuardEnabled, ~ClaimMayLapse
    PROVE  Spec => []AtMostOnce
<1>1. Init => ClaimInv
  <2> SUFFICES ASSUME Init, NEW m \in Messages
               PROVE  started[m] = 0 /\ started[m] <= 1
    BY DEF ClaimInv
  <2>1. started[m] = 0
    BY DEF Init
  <2>2. QED
    BY <2>1
<1>2. TypeOK /\ ClaimInv /\ [Next]_vars => ClaimInv'
  <2> SUFFICES ASSUME TypeOK, ClaimInv, [Next]_vars
               PROVE  ClaimInv'
    OBVIOUS
  <2>1. ASSUME NEW w \in Workers, ClaimAndStart(w)
        PROVE  ClaimInv'
    <3>1. copy[w].id \in Messages /\ started[copy[w].id] = 0
      BY <2>1 DEF ClaimAndStart, TypeOK, ClaimInv, Copy
    <3>2. QED
      BY <2>1, <3>1 DEF ClaimAndStart, TypeOK, ClaimInv
  <2>2. CASE /\ UNCHANGED started
             /\ claimed \subseteq claimed'
    BY <2>2 DEF ClaimInv
  <2>3. CASE \E m \in Messages : Publish(m) \/ Request(m) \/ RequestTimeout(m)
    BY <2>2, <2>3 DEF Publish, Request, RequestTimeout, history
  <2>4. ASSUME NEW w \in Workers,
               Start(w) \/ (\E c \in Copy : Deliver(w, c))
                 \/ (Handle(w) /\ ~ClaimAndStart(w))
        PROVE  ClaimInv'
    BY <2>2, <2>4 DEF Start, Deliver, Handle, ParseFails, SkipDuplicate, ClaimRaises,
                      HandlerSucceeds, HandlerFails, Answer, history
  <2>5. ASSUME NEW w \in Workers, Settle(w)
        PROVE  ClaimInv'
    BY <2>2, <2>5 DEF Settle, SendReply, NothingToPublish, PublishRetry, PublishDeadLetter,
                      RejectUnparsable, PublishFails, PublishDisconnected, Ack, AckFails, Settled, LoopFails,
                      history
  <2>6. CASE Expire \/ Disturb
    BY <2>2, <2>6 DEF Expire, Disturb, RetryExpires, ClaimLapses, LoseConnection, Crash,
                      history
  <2>7. CASE UNCHANGED vars
    BY <2>2, <2>7 DEF vars, history
  <2>8. QED
    BY <2>1, <2>3, <2>4, <2>5, <2>6, <2>7 DEF Next, Produce, TimeOut, Consume
<1>3. ClaimInv => AtMostOnce
  BY DEF ClaimInv, AtMostOnce
<1>4. QED
  BY <1>1, <1>2, <1>3, TypeCorrect, PTL DEF Spec

-----------------------------------------------------------------------------
(* Dead letters *)

Working(w) == phase[w] \notin {"down", "idle"}

\* The attempts written into a copy are error replies that did happen.
AttemptsInv ==
    /\ \A c \in Copy : main[c] > 0 \/ retry[c] > 0 => fails[c.id] >= c.attempts
    /\ \A w \in Workers : Working(w) => fails[copy[w].id] >= copy[w].attempts
    /\ \A w \in Workers :
          phase[w] = "settling" /\ reply[w] = "error"
             => fails[copy[w].id] >= copy[w].attempts + 1

\* Requeued or duplicated, a message is dead-lettered only after max_retries + 1
\* failed attempts, for every max_retries.
THEOREM DeadLettersExhausted == Spec => []DeadOnlyWhenExhausted
<1> DEFINE DInv == AttemptsInv /\ DeadOnlyWhenExhausted
<1>1. Init => DInv
  BY DEF Init, AttemptsInv, DeadOnlyWhenExhausted, Working
<1>2. TypeOK /\ DInv /\ [Next]_vars => DInv'
  <2> SUFFICES ASSUME TypeOK, AttemptsInv, DeadOnlyWhenExhausted, [Next]_vars
               PROVE  DInv'
    OBVIOUS
  <2> USE DEF AttemptsInv, DeadOnlyWhenExhausted, Working, queues, workers, history, mishaps
  <2>0. /\ \A c \in Copy : c.id \in Messages /\ c.attempts \in 0..MaxRetries
        /\ \A m \in Messages : fails[m] \in Nat
        /\ \A w \in Workers : Working(w) => copy[w] \in Copy
    BY DEF TypeOK, Copy
  <2>1. ASSUME NEW m \in Messages, Publish(m) \/ Request(m)
        PROVE  DInv'
    <3>1. FirstCopy(m) \in Copy /\ FirstCopy(m).id = m /\ FirstCopy(m).attempts = 0
      BY DEF FirstCopy, Copy
    <3>2. \A c \in Copy : c # FirstCopy(m) => main'[c] = main[c]
      BY <2>1, <3>1, PutType DEF Publish, Request, TypeOK
    <3>3. fails' = fails /\ retry' = retry /\ dead' = dead /\ UNCHANGED <<phase, copy, reply>>
      BY <2>1 DEF Publish, Request
    <3>4. \A c \in Copy : main'[c] > 0 \/ retry'[c] > 0 => fails'[c.id] >= c.attempts
      BY <2>0, <3>1, <3>2, <3>3
    <3>5. QED
      BY <3>3, <3>4
  <2>2. ASSUME NEW m \in Messages, RequestTimeout(m) \/ ClaimLapses(m)
        PROVE  DInv'
    BY <2>2 DEF RequestTimeout, ClaimLapses
  <2>3. ASSUME NEW w \in Workers, Start(w)
        PROVE  DInv'
    BY <2>3 DEF Start, TypeOK
  <2>4. ASSUME NEW w \in Workers, NEW c \in Copy, Deliver(w, c)
        PROVE  DInv'
    <3>1. main[c] > 0 /\ \A d \in Copy : main'[d] > 0 => main[d] > 0
      BY <2>4, TakeType DEF Deliver, TypeOK
    <3>2. QED
      BY <2>4, <3>1 DEF Deliver, TypeOK
  <2>5. ASSUME NEW w \in Workers, Handle(w)
        PROVE  DInv'
    <3>1. Working(w) /\ copy[w] \in Copy /\ copy[w].id \in Messages
      BY <2>0, <2>5 DEF Handle, ParseFails, ClaimAndStart, SkipDuplicate, ClaimRaises,
                        HandlerSucceeds, HandlerFails
    <3>2. CASE ClaimAndStart(w)
      BY <3>1, <3>2 DEF ClaimAndStart, TypeOK
    <3>3. CASE \E r \in Replies : Answer(w, r)
      <4>1. PICK r \in Replies : Answer(w, r)
        BY <3>3
      <4>2. /\ \A m \in Messages : fails'[m] \in Nat /\ fails'[m] >= fails[m]
            /\ r = "error" => fails'[copy[w].id] = fails[copy[w].id] + 1
        BY <2>0, <3>1, <4>1 DEF Answer, TypeOK
      <4>3. /\ \A c \in Copy : main'[c] > 0 \/ retry'[c] > 0 => fails'[c.id] >= c.attempts
            /\ \A c \in Copy : dead'[c] > 0 => fails'[c.id] >= MaxRetries + 1
        BY <2>0, <4>1, <4>2 DEF Answer
      <4>4. \A v \in Workers : Working(v)' => fails'[copy'[v].id] >= copy'[v].attempts
        BY <2>0, <3>1, <4>1, <4>2 DEF Answer, TypeOK
      <4>5. \A v \in Workers : phase'[v] = "settling" /\ reply'[v] = "error"
                  => fails'[copy'[v].id] >= copy'[v].attempts + 1
        BY <2>0, <3>1, <4>1, <4>2 DEF Answer, TypeOK
      <4>6. QED
        BY <4>3, <4>4, <4>5
    <3>4. QED
      BY <2>5, <3>2, <3>3 DEF Handle, ParseFails, SkipDuplicate, ClaimRaises,
                              HandlerSucceeds, HandlerFails, Replies
  <2>6. ASSUME NEW w \in Workers, Settle(w)
        PROVE  DInv'
    <3>1. Working(w) /\ copy[w] \in Copy
      BY <2>0, <2>6 DEF Settle, SendReply, NothingToPublish, PublishRetry, FailedBackground, FollowUp,
                        PublishDeadLetter, RejectUnparsable, PublishFails, PublishDisconnected, Ack, AckFails
    <3>2. CASE SendReply(w) \/ NothingToPublish(w)
      BY <3>2 DEF SendReply, NothingToPublish, Settled, TypeOK
    <3>3. CASE PublishRetry(w)
      <4>1. /\ NextAttempt(copy[w]) \in Copy
            /\ NextAttempt(copy[w]).id = copy[w].id
            /\ NextAttempt(copy[w]).attempts = copy[w].attempts + 1
            /\ fails[copy[w].id] >= copy[w].attempts + 1
        BY <3>1, <3>3, NextAttemptType DEF PublishRetry, FailedBackground, NextAttempt
      <4>2. \A c \in Copy : c # NextAttempt(copy[w]) => retry'[c] = retry[c]
        BY <3>3, <4>1, PutType DEF PublishRetry, TypeOK
      <4>3. QED
        <5>1. /\ UNCHANGED <<main, dead, copy, reply, fails>>
              /\ phase' = [phase EXCEPT ![w] = "acking"]
          BY <3>3 DEF PublishRetry, Settled
        <5>2. \A c \in Copy : main'[c] > 0 \/ retry'[c] > 0 => fails'[c.id] >= c.attempts
          BY <4>1, <4>2, <5>1
        <5>3. \A v \in Workers :
                 /\ phase'[v] \notin {"down", "idle"} => Working(v)
                 /\ phase'[v] = "settling" => phase[v] = "settling"
          BY <3>1, <5>1 DEF TypeOK
        <5>4. ASSUME NEW v \in Workers, phase'[v] \notin {"down", "idle"}
              PROVE  fails'[copy'[v].id] >= copy'[v].attempts
          <6>1. phase[v] \notin {"down", "idle"}
            BY <5>3, <5>4
          <6>2. fails[copy[v].id] >= copy[v].attempts
            BY <6>1
          <6>3. QED
            BY <5>1, <6>2
        <5>5. \A v \in Workers : phase'[v] = "settling" /\ reply'[v] = "error"
                    => fails'[copy'[v].id] >= copy'[v].attempts + 1
          BY <5>1, <5>3
        <5>6. \A c \in Copy : dead'[c] > 0 => fails'[c.id] >= MaxRetries + 1
          BY <5>1, <5>2
        <5>7. \A c \in Copy : main'[c] > 0 \/ retry'[c] > 0 => fails'[c.id] >= c.attempts
          BY <5>1, <5>2
        <5>8. QED
          BY <5>4, <5>5, <5>6, <5>7
    <3>4. CASE PublishDeadLetter(w)
      <4>1. fails[copy[w].id] >= MaxRetries + 1
        BY <2>0, <3>1, <3>4 DEF PublishDeadLetter, FailedBackground, Exhausted
      <4>2. \A c \in Copy : c # copy[w] => dead'[c] = dead[c]
        BY <3>1, <3>4, PutType DEF PublishDeadLetter, TypeOK
      <4>3. QED
        <5>1. /\ UNCHANGED <<main, retry, copy, reply, fails>>
              /\ phase' = [phase EXCEPT ![w] = "acking"]
          BY <3>4 DEF PublishDeadLetter, Settled
        <5>2. \A c \in Copy : dead'[c] > 0 => fails'[c.id] >= MaxRetries + 1
          BY <4>1, <4>2, <5>1
        <5>3. \A v \in Workers :
                 /\ phase'[v] \notin {"down", "idle"} => Working(v)
                 /\ phase'[v] = "settling" => phase[v] = "settling"
          BY <3>1, <5>1 DEF TypeOK
        <5>4. ASSUME NEW v \in Workers, phase'[v] \notin {"down", "idle"}
              PROVE  fails'[copy'[v].id] >= copy'[v].attempts
          <6>1. phase[v] \notin {"down", "idle"}
            BY <5>3, <5>4
          <6>2. fails[copy[v].id] >= copy[v].attempts
            BY <6>1
          <6>3. QED
            BY <5>1, <6>2
        <5>5. \A v \in Workers : phase'[v] = "settling" /\ reply'[v] = "error"
                    => fails'[copy'[v].id] >= copy'[v].attempts + 1
          BY <5>1, <5>3
        <5>6. \A c \in Copy : dead'[c] > 0 => fails'[c.id] >= MaxRetries + 1
          BY <5>1, <5>2
        <5>7. \A c \in Copy : main'[c] > 0 \/ retry'[c] > 0 => fails'[c.id] >= c.attempts
          BY <5>1, <5>2
        <5>8. QED
          BY <5>4, <5>5, <5>6, <5>7
    <3>5. CASE \/ RejectUnparsable(w) \/ PublishFails(w) \/ PublishDisconnected(w)
               \/ AckFails(w) \/ Ack(w)
      BY <3>5 DEF RejectUnparsable, PublishFails, PublishDisconnected, AckFails, Ack,
                  LoopFails, TypeOK
    <3>6. QED
      BY <2>6, <3>2, <3>3, <3>4, <3>5 DEF Settle
  <2>7. ASSUME NEW c \in Copy, RetryExpires(c)
        PROVE  DInv'
    <3> USE DEF TypeOK
    <3>1. /\ retry[c] > 0
          /\ \A d \in Copy : d # c => main'[d] = main[d]
          /\ \A d \in Copy : retry'[d] > 0 => retry[d] > 0
      <4>0. main \in [Copy -> Nat] /\ retry \in [Copy -> Nat]
        OBVIOUS
      <4> HIDE DEF TypeOK
      <4>1. retry[c] > 0 /\ main' = Put(main, c) /\ retry' = Take(retry, c)
        BY <2>7 DEF RetryExpires
      <4>2. \A d \in Copy : d # c => main'[d] = main[d]
        BY <4>0, <4>1, PutType
      <4>3. \A d \in Copy : retry'[d] > 0 => retry[d] > 0
        BY <4>0, <4>1, TakeType
      <4>4. QED
        BY <4>1, <4>2, <4>3
    <3>2. UNCHANGED <<dead, phase, copy, reply, fails>>
      BY <2>7 DEF RetryExpires
    <3>3. \A d \in Copy : main'[d] > 0 \/ retry'[d] > 0 => fails'[d.id] >= d.attempts
      BY <3>1, <3>2
    <3>4. QED
      BY <3>2, <3>3
  <2>8. ASSUME NEW w \in Workers, LoseConnection(w) \/ Crash(w)
        PROVE  DInv'
    <3>1. \A d \in Copy : main'[d] > 0 => main[d] > 0 \/ (held[w] /\ d = copy[w])
      BY <2>0, <2>8, PutType DEF LoseConnection, Crash, TypeOK
    <3>2. /\ UNCHANGED <<retry, dead, fails, reply>>
          /\ \A v \in Workers : Working(v)' => Working(v) /\ copy'[v] = copy[v]
          /\ \A v \in Workers : phase'[v] = "settling" => phase[v] = "settling"
      BY <2>8 DEF LoseConnection, Crash, TypeOK
    <3>3. held[w] => fails[copy[w].id] >= copy[w].attempts
      BY DEF TypeOK
    <3>4. QED
      BY <3>1, <3>2, <3>3
  <2>9. CASE UNCHANGED vars
    BY <2>9 DEF vars
  <2>10. QED
    BY <2>1, <2>2, <2>3, <2>4, <2>5, <2>6, <2>7, <2>8, <2>9
       DEF Next, Produce, TimeOut, Consume, Expire, Disturb
<1>3. QED
  BY <1>1, <1>2, TypeCorrect, PTL DEF Spec

-----------------------------------------------------------------------------
(* No silent loss *)

\* What a queue holds of message m after a copy came or went.
LEMMA InQueuePut ==
    ASSUME NEW q \in [Copy -> Nat], NEW c \in Copy, NEW m
    PROVE  /\ InQueue(q, m) => InQueue(Put(q, c), m)
           /\ InQueue(Put(q, c), c.id)
           /\ m # c.id => (InQueue(Put(q, c), m) <=> InQueue(q, m))
<1> DEFINE p == Put(q, c)
<1>1. /\ p[c] > 0
      /\ \A d \in Copy : q[d] > 0 => p[d] > 0
      /\ \A d \in Copy : d # c => p[d] = q[d]
  BY PutType
<1> HIDE DEF p
<1>2. (InQueue(q, m) => InQueue(p, m)) /\ InQueue(p, c.id)
  BY <1>1 DEF InQueue
<1>3. m # c.id => (InQueue(p, m) <=> InQueue(q, m))
  BY <1>1 DEF InQueue
<1>4. QED
  BY <1>2, <1>3 DEF p

LEMMA InQueueTake ==
    ASSUME NEW q \in [Copy -> Nat], NEW c \in Copy, q[c] > 0, NEW m
    PROVE  /\ InQueue(q, c.id)
           /\ InQueue(Take(q, c), m) => InQueue(q, m)
           /\ m # c.id => (InQueue(Take(q, c), m) <=> InQueue(q, m))
BY TakeType DEF InQueue

\* Without the guard a worker only settles what failed or what succeeded, so
\* an ok reply is enough to forget the message.
SettlingInv ==
    \A w \in Workers :
        phase[w] = "settling" => reply[w] = "error" \/ copy[w].id \in succeeded

LossInv == SettlingInv /\ NoSilentLoss

\* A message that was rejected stays so.
LEMMA RejectedStay ==
    ASSUME [Next]_vars
    PROVE  rejected \subseteq rejected'
<1> USE DEF mishaps
<1>1. CASE Produce \/ TimeOut \/ Expire \/ Disturb \/ UNCHANGED vars
  BY <1>1 DEF Produce, TimeOut, Expire, Disturb, Publish, Request, RequestTimeout,
              RetryExpires, ClaimLapses, LoseConnection, Crash, vars
<1>2. ASSUME NEW w \in Workers, Consume(w)
      PROVE  rejected \subseteq rejected'
  <2>1. CASE Start(w) \/ (\E c \in Copy : Deliver(w, c)) \/ Handle(w)
    BY <2>1 DEF Start, Deliver, Handle, ParseFails, ClaimAndStart, SkipDuplicate,
                ClaimRaises, HandlerSucceeds, HandlerFails, Answer
  <2>2. CASE Settle(w)
    BY <2>2 DEF Settle, SendReply, NothingToPublish, PublishRetry, PublishDeadLetter,
                RejectUnparsable, PublishFails, PublishDisconnected, Ack, AckFails,
                Settled
  <2>3. QED
    BY <1>2, <2>1, <2>2 DEF Consume
<1>3. QED
  BY <1>1, <1>2 DEF Next

\* The step that proves both no silent loss and the refinement below.
LEMMA LossInvStep ==
    ASSUME ~GuardEnabled, TypeOK, LossInv, [Next]_vars
    PROVE  LossInv'
<1> USE DEF queues, workers, history, mishaps
<1>1. SettlingInv'
  <2> SUFFICES ASSUME NEW v \in Workers, phase'[v] = "settling", reply'[v] # "error"
               PROVE  copy'[v].id \in succeeded'
    BY DEF SettlingInv
  <2>1. CASE phase[v] = "settling" /\ UNCHANGED <<reply, copy>> /\ succeeded \subseteq succeeded'
    BY <2>1 DEF LossInv, SettlingInv
  <2>2. ASSUME NEW w \in Workers, Handle(w)
        PROVE  copy'[v].id \in succeeded'
    BY <2>1, <2>2 DEF Handle, ParseFails, ClaimAndStart, SkipDuplicate, ClaimRaises,
                      HandlerSucceeds, HandlerFails, Answer, TypeOK, LossInv, SettlingInv
  <2>3. ASSUME NEW w \in Workers, Settle(w)
        PROVE  copy'[v].id \in succeeded'
    BY <2>3 DEF Settle, SendReply, NothingToPublish, PublishRetry, PublishDeadLetter,
                RejectUnparsable, PublishFails, PublishDisconnected, Ack, AckFails, Settled, LoopFails,
                TypeOK, LossInv, SettlingInv
  <2>4. ASSUME NEW w \in Workers, Start(w) \/ (\E c \in Copy : Deliver(w, c))
        PROVE  copy'[v].id \in succeeded'
    BY <2>4 DEF Start, Deliver, TypeOK, LossInv, SettlingInv
  <2>5. CASE Produce \/ TimeOut \/ Expire \/ UNCHANGED vars
    BY <2>1, <2>5 DEF Produce, TimeOut, Expire, Publish, Request, RequestTimeout,
                      RetryExpires, vars
  <2>6. CASE Disturb
    BY <2>6 DEF Disturb, ClaimLapses, LoseConnection, Crash, TypeOK, LossInv, SettlingInv
  <2>7. QED
    BY <2>2, <2>3, <2>4, <2>5, <2>6 DEF Next, Consume
<1>2. NoSilentLoss'
  <2> SUFFICES ASSUME NEW m \in Background \ Malformed, call'[m] = "sent",
                      m \notin rejected'
               PROVE  Pending(m)' \/ Recorded(m)'
    BY DEF NoSilentLoss
  <2> m \in Messages
    BY DEF Background
  <2>a. m \notin rejected
    BY RejectedStay
  <2>0. call[m] = "sent" => Pending(m) \/ Recorded(m)
    BY <2>a DEF LossInv, NoSilentLoss
  <2>1. ASSUME NEW n \in Messages, Publish(n) \/ Request(n)
        PROVE  Pending(m)' \/ Recorded(m)'
    <3>1. /\ main' = Put(main, FirstCopy(n)) /\ FirstCopy(n) \in Copy /\ FirstCopy(n).id = n
          /\ UNCHANGED <<retry, dead, held, phase, copy, succeeded>>
      BY <2>1, FirstCopyType DEF Publish, Request, FirstCopy
    <3>2. /\ InQueue(main, m) => InQueue(main', m)
          /\ InQueue(main', n)
      BY <3>1, InQueuePut DEF TypeOK
    <3>3. CASE m = n
      BY <3>2, <3>3 DEF Pending, InQueue
    <3>4. CASE m # n
      <4>1. call[m] = "sent"
        BY <2>1, <3>4 DEF Publish, Request, TypeOK
      <4>2. QED
        BY <2>0, <3>1, <3>2, <4>1 DEF Pending, Recorded, InQueue, HeldBy
    <3>5. QED
      BY <3>3, <3>4
  <2>2. ASSUME NEW n \in Messages, RequestTimeout(n) \/ ClaimLapses(n)
        PROVE  Pending(m)' \/ Recorded(m)'
    <3>1. call[m] = "sent"
      BY <2>2 DEF RequestTimeout, ClaimLapses, TypeOK
    <3>2. QED
      BY <2>0, <2>2, <3>1 DEF RequestTimeout, ClaimLapses, Pending, Recorded, InQueue, HeldBy
  <2>3. ASSUME NEW w \in Workers, Start(w)
        PROVE  Pending(m)' \/ Recorded(m)'
    BY <2>0, <2>3 DEF Start, Pending, Recorded, InQueue, HeldBy, TypeOK
  <2>4. ASSUME NEW w \in Workers, NEW c \in Copy, Deliver(w, c)
        PROVE  Pending(m)' \/ Recorded(m)'
    <3>1. /\ main[c] > 0 /\ main' = Take(main, c) /\ ~held[w]
          /\ held'[w] /\ copy'[w] = c /\ phase'[w] = "received"
          /\ \A v \in Workers \ {w} : /\ held'[v] = held[v] /\ copy'[v] = copy[v]
                                      /\ phase'[v] = phase[v]
          /\ UNCHANGED <<retry, dead, call, succeeded>>
      BY <2>4 DEF Deliver, TypeOK
    <3>2. m # c.id => (InQueue(main', m) <=> InQueue(main, m))
      BY <3>1, InQueueTake DEF TypeOK
    <3>3. CASE m = c.id
      BY <3>1, <3>3 DEF Pending, HeldBy
    <3>4. CASE m # c.id
      BY <2>0, <3>1, <3>2, <3>4 DEF Pending, Recorded, HeldBy, InQueue
    <3>5. QED
      BY <3>3, <3>4
  <2>5. ASSUME NEW w \in Workers, Handle(w)
        PROVE  Pending(m)' \/ Recorded(m)'
    <3>1. /\ UNCHANGED <<main, retry, dead, held, copy, call>>
          /\ succeeded \subseteq succeeded'
          /\ phase'[w] # "acking"
          /\ \A v \in Workers \ {w} : phase'[v] = phase[v]
      BY <2>5 DEF Handle, ParseFails, ClaimAndStart, SkipDuplicate, ClaimRaises,
                  HandlerSucceeds, HandlerFails, Answer, TypeOK
    <3>2. QED
      BY <2>0, <3>1 DEF Pending, Recorded, InQueue, HeldBy
  <2>6. ASSUME NEW w \in Workers, Settle(w)
        PROVE  Pending(m)' \/ Recorded(m)'
    <3>1. /\ call[m] = "sent" /\ copy[w] \in Copy
          /\ UNCHANGED <<main, succeeded>>
          /\ \A v \in Workers \ {w} : /\ held'[v] = held[v] /\ copy'[v] = copy[v]
                                      /\ phase'[v] = phase[v]
      BY <2>6 DEF Settle, SendReply, NothingToPublish, PublishRetry, FailedBackground, FollowUp,
                  PublishDeadLetter, RejectUnparsable, PublishFails, PublishDisconnected, Ack, AckFails,
                  Settled, LoopFails, TypeOK, Background
    <3>2. CASE SendReply(w)
      <4>1. m # copy[w].id
        BY <3>2 DEF SendReply, Background
      <4>2. QED
        BY <2>0, <3>1, <3>2, <4>1 DEF SendReply, Settled, Pending, Recorded, InQueue, HeldBy
    <3>3. CASE NothingToPublish(w)
      <4>1. copy[w].id \in succeeded
        BY <3>3 DEF NothingToPublish, LossInv, SettlingInv
      <4>2. QED
        BY <2>0, <3>1, <3>3, <4>1 DEF NothingToPublish, Settled, Pending, Recorded,
                                      InQueue, HeldBy
    <3>4. CASE PublishRetry(w)
      <4>1. /\ InQueue(retry', copy[w].id)
            /\ InQueue(retry, m) => InQueue(retry', m)
        BY <3>1, <3>4, NextAttemptType, InQueuePut DEF PublishRetry, TypeOK
      <4>2. QED
        BY <2>0, <3>1, <3>4, <4>1 DEF PublishRetry, Settled, Pending, Recorded, InQueue, HeldBy
    <3>5. CASE PublishDeadLetter(w)
      <4>1. /\ InQueue(dead', copy[w].id)
            /\ InQueue(dead, m) => InQueue(dead', m)
        BY <3>1, <3>5, InQueuePut DEF PublishDeadLetter, TypeOK
      <4>2. QED
        BY <2>0, <3>1, <3>5, <4>1 DEF PublishDeadLetter, Settled, Pending, Recorded,
                                      InQueue, HeldBy
    <3>6. CASE RejectUnparsable(w)
      <4>1. m # copy[w].id
        BY <3>6 DEF RejectUnparsable
      <4>2. QED
        BY <2>0, <3>1, <3>6, <4>1 DEF RejectUnparsable, LoopFails, Pending, Recorded,
                                      InQueue, HeldBy
    <3>7. CASE PublishDisconnected(w) \/ Ack(w) \/ AckFails(w)
      <4>1. /\ UNCHANGED <<retry, dead>>
            /\ ~held[w] \/ phase[w] = "acking"
        BY <3>7 DEF PublishDisconnected, Ack, AckFails, LoopFails
      <4>2. QED
        BY <2>0, <3>1, <4>1 DEF Pending, Recorded, InQueue, HeldBy
    <3>8. CASE PublishFails(w)
      <4>1. m # copy[w].id
        BY <3>8 DEF PublishFails
      <4>2. QED
        BY <2>0, <3>1, <3>8, <4>1 DEF PublishFails, LoopFails, Pending, Recorded,
                                      InQueue, HeldBy
    <3>9. QED
      BY <2>6, <3>2, <3>3, <3>4, <3>5, <3>6, <3>7, <3>8 DEF Settle
  <2>7. ASSUME NEW c \in Copy, RetryExpires(c)
        PROVE  Pending(m)' \/ Recorded(m)'
    <3>1. /\ retry[c] > 0 /\ retry' = Take(retry, c) /\ main' = Put(main, c)
          /\ UNCHANGED <<dead, held, copy, phase, call, succeeded>>
      BY <2>7 DEF RetryExpires
    <3>2. /\ InQueue(main', c.id)
          /\ InQueue(main, m) => InQueue(main', m)
      BY <3>1, InQueuePut DEF TypeOK
    <3>3. m # c.id => (InQueue(retry', m) <=> InQueue(retry, m))
      BY <3>1, InQueueTake DEF TypeOK
    <3>4. QED
      BY <2>0, <3>1, <3>2, <3>3 DEF Pending, Recorded, InQueue, HeldBy
  <2>8. ASSUME NEW w \in Workers, LoseConnection(w) \/ Crash(w)
        PROVE  Pending(m)' \/ Recorded(m)'
    <3>1. /\ UNCHANGED <<retry, dead, call, succeeded>>
          /\ held[w] => copy[w] \in Copy /\ main' = Put(main, copy[w])
          /\ ~held[w] => main' = main
          /\ \A v \in Workers \ {w} : /\ held'[v] = held[v] /\ copy'[v] = copy[v]
                                      /\ phase'[v] = phase[v]
      BY <2>8 DEF LoseConnection, Crash, TypeOK
    <3>2. /\ InQueue(main, m) => InQueue(main', m)
          /\ HeldBy(w, m) => InQueue(main', m)
      BY <3>1, InQueuePut DEF TypeOK, HeldBy
    <3>3. QED
      BY <2>0, <3>1, <3>2 DEF Pending, Recorded, InQueue, HeldBy
  <2>9. CASE UNCHANGED vars
    BY <2>0, <2>9 DEF vars, Pending, Recorded, InQueue, HeldBy
  <2>10. QED
    BY <2>1, <2>2, <2>3, <2>4, <2>5, <2>6, <2>7, <2>8, <2>9
       DEF Next, Produce, TimeOut, Consume, Expire, Disturb
<1>3. QED
  BY <1>1, <1>2 DEF LossInv

LEMMA LossInvariant ==
    ASSUME ~GuardEnabled
    PROVE  Spec => []LossInv
<1>1. Init => LossInv
  BY DEF Init, LossInv, SettlingInv, NoSilentLoss, Background
<1>2. TypeOK /\ LossInv /\ [Next]_vars => LossInv'
  BY LossInvStep
<1>3. QED
  BY <1>1, <1>2, TypeCorrect, PTL DEF Spec

\* Without the guard, no crash, lost connection or retry makes the bus forget a
\* parsable background message, for any number of workers, retries and faults:
\* only the failed publish of its own retry or dead letter does.
THEOREM UnguardedNoSilentLoss ==
    ASSUME ~GuardEnabled
    PROVE  Spec => []NoSilentLoss
<1>1. LossInv => NoSilentLoss
  BY DEF LossInv
<1>2. QED
  BY <1>1, LossInvariant, PTL

-----------------------------------------------------------------------------
(* Refinement *)

\* What queues and workers speak of was published.
Mentioned(m) == InQueue(main, m) \/ InQueue(retry, m) \/ InQueue(dead, m)
                  \/ (\E w \in Workers : phase[w] \notin {"down", "idle"} /\ copy[w].id = m)

\* A task some copy or some worker speaks of is in state "sent".
SentInv ==
    \A m \in TaskIds :
        /\ call[m] \in {"none", "sent"}
        /\ Mentioned(m) \/ m \in succeeded => call[m] = "sent"

LEMMA SentInvariant == Spec => []SentInv
<1>1. Init => SentInv
  <2> SUFFICES ASSUME Init, NEW m \in TaskIds
               PROVE  call[m] = "none" /\ ~Mentioned(m) /\ m \notin succeeded
    BY DEF SentInv
  <2>1. call[m] = "none" /\ m \notin succeeded
    BY DEF Init, TaskIds, Background
  <2>2. ~InQueue(main, m) /\ ~InQueue(retry, m) /\ ~InQueue(dead, m)
    BY DEF Init, InQueue
  <2>3. QED
    BY <2>1, <2>2 DEF Init, Mentioned
<1>2. TypeOK /\ SentInv /\ [Next]_vars => SentInv'
  <2> SUFFICES ASSUME TypeOK, SentInv, [Next]_vars, NEW m \in TaskIds
               PROVE  /\ call'[m] \in {"none", "sent"}
                      /\ Mentioned(m)' \/ m \in succeeded' => call'[m] = "sent"
    BY DEF SentInv
  <2> USE DEF queues, workers, history, mishaps
  <2> m \in Background /\ m \in Messages /\ m \notin Requests
    BY DEF TaskIds, Background
  <2>0. /\ call[m] \in {"none", "sent"}
        /\ Mentioned(m) \/ m \in succeeded => call[m] = "sent"
    BY DEF SentInv
  <2>1. ASSUME NEW n \in Messages, Publish(n) \/ Request(n)
        PROVE  /\ call'[m] \in {"none", "sent"}
               /\ Mentioned(m)' \/ m \in succeeded' => call'[m] = "sent"
    <3>1. /\ main' = Put(main, FirstCopy(n)) /\ FirstCopy(n) \in Copy /\ FirstCopy(n).id = n
          /\ UNCHANGED <<retry, dead, copy, phase, succeeded>>
      BY <2>1, FirstCopyType DEF Publish, Request, FirstCopy
    <3>2. CASE m = n
      BY <2>1, <3>2 DEF Publish, Request, TypeOK
    <3>3. CASE m # n
      <4>1. InQueue(main', m) <=> InQueue(main, m)
        BY <3>1, <3>3, InQueuePut DEF TypeOK
      <4>2. call'[m] = call[m]
        BY <2>1, <3>3 DEF Publish, Request, TypeOK
      <4>3. QED
        BY <2>0, <3>1, <4>1, <4>2 DEF Mentioned, InQueue
    <3>4. QED
      BY <3>2, <3>3
  <2>2. ASSUME NEW n \in Messages, RequestTimeout(n) \/ ClaimLapses(n)
        PROVE  /\ call'[m] \in {"none", "sent"}
               /\ Mentioned(m)' \/ m \in succeeded' => call'[m] = "sent"
    <3>1. call'[m] = call[m]
      BY <2>0, <2>2 DEF RequestTimeout, ClaimLapses, TypeOK
    <3>2. QED
      BY <2>0, <2>2, <3>1 DEF RequestTimeout, ClaimLapses, Mentioned, InQueue
  <2>3. ASSUME NEW w \in Workers, Start(w) \/ (\E c \in Copy : Deliver(w, c))
        PROVE  /\ call'[m] \in {"none", "sent"}
               /\ Mentioned(m)' \/ m \in succeeded' => call'[m] = "sent"
    <3>1. CASE Start(w)
      BY <2>0, <3>1 DEF Start, Mentioned, InQueue, TypeOK
    <3>2. ASSUME NEW c \in Copy, Deliver(w, c)
          PROVE  Mentioned(m)' => Mentioned(m)
      <4>1. /\ InQueue(main, c.id)
            /\ InQueue(main', m) => InQueue(main, m)
        BY <3>2, InQueueTake DEF Deliver, TypeOK
      <4>2. QED
        BY <3>2, <4>1 DEF Deliver, Mentioned, InQueue, TypeOK
    <3>3. QED
      BY <2>0, <2>3, <3>1, <3>2 DEF Deliver
  <2>4. ASSUME NEW w \in Workers, Handle(w)
        PROVE  /\ call'[m] \in {"none", "sent"}
               /\ Mentioned(m)' \/ m \in succeeded' => call'[m] = "sent"
    <3>1. /\ UNCHANGED <<main, retry, dead, copy, call>>
          /\ phase[w] \notin {"down", "idle"}
          /\ \A v \in Workers \ {w} : phase'[v] = phase[v]
          /\ succeeded' \subseteq succeeded \union {copy[w].id}
      BY <2>4 DEF Handle, ParseFails, ClaimAndStart, SkipDuplicate, ClaimRaises,
                  HandlerSucceeds, HandlerFails, Answer, TypeOK
    <3>2. QED
      BY <2>0, <3>1 DEF Mentioned, InQueue
  <2>5. ASSUME NEW w \in Workers, Settle(w)
        PROVE  /\ call'[m] \in {"none", "sent"}
               /\ Mentioned(m)' \/ m \in succeeded' => call'[m] = "sent"
    <3>1. /\ copy[w] \in Copy /\ phase[w] \notin {"down", "idle"}
          /\ UNCHANGED <<main, succeeded>>
          /\ copy'[w] = copy[w] \/ phase'[w] \in {"down", "idle"}
          /\ \A v \in Workers \ {w} : phase'[v] = phase[v] /\ copy'[v] = copy[v]
      BY <2>5 DEF Settle, SendReply, NothingToPublish, PublishRetry, FailedBackground, FollowUp,
                  PublishDeadLetter, RejectUnparsable, PublishFails, PublishDisconnected, Ack, AckFails,
                  Settled, LoopFails, TypeOK
    <3>2. call'[m] = call[m]
      BY <2>5 DEF Settle, SendReply, NothingToPublish, PublishRetry, PublishDeadLetter,
                  RejectUnparsable, PublishFails, PublishDisconnected, Ack, AckFails, LoopFails, TypeOK
    <3>3. CASE PublishRetry(w)
      <4>1. m # copy[w].id => (InQueue(retry', m) <=> InQueue(retry, m))
        BY <3>1, <3>3, NextAttemptType, InQueuePut DEF PublishRetry, TypeOK
      <4>2. dead' = dead
        BY <3>3 DEF PublishRetry
      <4>3. QED
        BY <2>0, <3>1, <3>2, <4>1, <4>2 DEF Mentioned, InQueue
    <3>4. CASE PublishDeadLetter(w)
      <4>1. m # copy[w].id => (InQueue(dead', m) <=> InQueue(dead, m))
        BY <3>1, <3>4, InQueuePut DEF PublishDeadLetter, TypeOK
      <4>2. retry' = retry
        BY <3>4 DEF PublishDeadLetter
      <4>3. QED
        BY <2>0, <3>1, <3>2, <4>1, <4>2 DEF Mentioned, InQueue
    <3>5. CASE UNCHANGED <<retry, dead>>
      BY <2>0, <3>1, <3>2, <3>5 DEF Mentioned, InQueue
    <3>6. QED
      BY <2>5, <3>3, <3>4, <3>5 DEF Settle, SendReply, NothingToPublish, RejectUnparsable,
                                    PublishFails, PublishDisconnected, Ack, AckFails, LoopFails
  <2>6. ASSUME NEW c \in Copy, RetryExpires(c)
        PROVE  /\ call'[m] \in {"none", "sent"}
               /\ Mentioned(m)' \/ m \in succeeded' => call'[m] = "sent"
    <3>1. /\ retry[c] > 0 /\ retry' = Take(retry, c) /\ main' = Put(main, c)
          /\ UNCHANGED <<dead, copy, phase, call, succeeded>>
      BY <2>6 DEF RetryExpires
    <3>2. /\ InQueue(retry, c.id)
          /\ InQueue(retry', m) => InQueue(retry, m)
      BY <3>1, InQueueTake DEF TypeOK
    <3>3. m # c.id => (InQueue(main', m) <=> InQueue(main, m))
      BY <3>1, InQueuePut DEF TypeOK
    <3>4. QED
      BY <2>0, <3>1, <3>2, <3>3 DEF Mentioned, InQueue
  <2>7. ASSUME NEW w \in Workers, LoseConnection(w) \/ Crash(w)
        PROVE  /\ call'[m] \in {"none", "sent"}
               /\ Mentioned(m)' \/ m \in succeeded' => call'[m] = "sent"
    <3>1. /\ UNCHANGED <<retry, dead, call, succeeded>>
          /\ held[w] => /\ copy[w] \in Copy /\ phase[w] \notin {"down", "idle"}
                        /\ main' = Put(main, copy[w])
          /\ ~held[w] => main' = main
          /\ \A v \in Workers : phase'[v] \notin {"down", "idle"}
                => phase[v] \notin {"down", "idle"} /\ copy'[v] = copy[v]
      BY <2>7 DEF LoseConnection, Crash, TypeOK
    <3>2. InQueue(main', m) => InQueue(main, m) \/ (held[w] /\ copy[w].id = m)
      BY <3>1, InQueuePut DEF TypeOK
    <3>3. QED
      BY <2>0, <3>1, <3>2 DEF Mentioned, InQueue
  <2>8. CASE UNCHANGED vars
    BY <2>0, <2>8 DEF vars, Mentioned, InQueue
  <2>9. QED
    BY <2>1, <2>2, <2>3, <2>4, <2>5, <2>6, <2>7, <2>8
       DEF Next, Produce, TimeOut, Consume, Expire, Disturb
<1>3. QED
  BY <1>1, <1>2, TypeCorrect, PTL DEF Spec

\* The four state functions the refinement mapping is made of.
SentTasks == {m \in TaskIds : call[m] = "sent"}
OutstandingTasks == {m \in TaskIds : Outstanding(m)}
RecordedTasks == {m \in TaskIds : Recorded(m)}
AbandonedTasks == rejected \cap TaskIds

LEMMA TaskStep ==
    ASSUME ~GuardEnabled, TypeOK, TypeOK', LossInv, LossInv', SentInv, [Next]_vars
    PROVE  [Task!Next]_(Task!vars)
<1> USE DEF queues, workers, history, mishaps
<1> SUFFICES \/ /\ UNCHANGED <<SentTasks, OutstandingTasks, RecordedTasks>>
                /\ UNCHANGED AbandonedTasks
             \/ \E m \in TaskIds :
                   \/ /\ m \notin SentTasks
                      /\ SentTasks' = SentTasks \union {m}
                      /\ OutstandingTasks' = OutstandingTasks \union {m}
                      /\ UNCHANGED <<RecordedTasks, AbandonedTasks>>
                   \/ /\ m \in SentTasks
                      /\ RecordedTasks' = RecordedTasks \union {m}
                      /\ UNCHANGED <<SentTasks, OutstandingTasks, AbandonedTasks>>
                   \/ /\ m \in OutstandingTasks
                      /\ AbandonedTasks' = AbandonedTasks \union {m}
                      /\ OutstandingTasks' \in {OutstandingTasks, OutstandingTasks \ {m}}
                      /\ UNCHANGED <<SentTasks, RecordedTasks>>
                   \/ /\ m \in OutstandingTasks
                      /\ m \in RecordedTasks \union AbandonedTasks
                      /\ OutstandingTasks' = OutstandingTasks \ {m}
                      /\ UNCHANGED <<SentTasks, RecordedTasks, AbandonedTasks>>
                   \/ /\ m \in RecordedTasks \union AbandonedTasks
                      /\ OutstandingTasks' = OutstandingTasks \union {m}
                      /\ UNCHANGED <<SentTasks, RecordedTasks, AbandonedTasks>>
  BY DEF Task!Next, Task!vars, Task!Submit, Task!Record, Task!Abandon, Task!Retire,
         Task!Revive, SentTasks, OutstandingTasks, RecordedTasks, AbandonedTasks
<1>0. TaskIds \subseteq Messages /\ TaskIds \cap Requests = {}
  BY DEF TaskIds, Background
<1> DEFINE SameSent == \A n \in TaskIds : call'[n] = "sent" <=> call[n] = "sent"
           SameOut(n) == Outstanding(n)' <=> Outstanding(n)
           SameRec(n) == Recorded(n)' <=> Recorded(n)
           Stutter == /\ SameSent
                      /\ \A n \in TaskIds : SameOut(n)
                      /\ \A n \in TaskIds : SameRec(n)
                      /\ rejected' = rejected
<1>a. Stutter => /\ UNCHANGED <<SentTasks, OutstandingTasks, RecordedTasks>>
                  /\ UNCHANGED AbandonedTasks
  BY DEF SentTasks, OutstandingTasks, RecordedTasks, AbandonedTasks
<1>1. ASSUME NEW m \in Messages, Publish(m) \/ Request(m)
      PROVE  \/ Stutter
             \/ /\ m \in TaskIds /\ m \notin SentTasks
                /\ SentTasks' = SentTasks \union {m}
                /\ OutstandingTasks' = OutstandingTasks \union {m}
                /\ UNCHANGED <<RecordedTasks, AbandonedTasks>>
  <2>1. /\ main' = Put(main, FirstCopy(m)) /\ FirstCopy(m) \in Copy /\ FirstCopy(m).id = m
        /\ UNCHANGED <<retry, dead, held, copy, succeeded, rejected>>
    BY <1>1, FirstCopyType DEF Publish, Request, FirstCopy
  <2>2. /\ InQueue(main', m)
        /\ \A n : n # m => (InQueue(main', n) <=> InQueue(main, n))
    BY <2>1, InQueuePut DEF TypeOK
  <2>3. \A n \in TaskIds : SameRec(n)
    BY <2>1 DEF Recorded, InQueue
  <2>4. \A n \in TaskIds : n # m => SameOut(n)
    BY <2>1, <2>2 DEF Outstanding, InQueue, HeldBy
  <2>5. CASE m \in TaskIds
    <3>1. Publish(m)
      BY <1>0, <1>1, <2>5 DEF Request
    <3>2. Outstanding(m)'
      BY <2>2 DEF Outstanding, InQueue
    <3>3. m \notin SentTasks /\ call'[m] = "sent"
      BY <1>0, <2>5, <3>1 DEF Publish, SentTasks, TypeOK
    <3>4. \A n \in TaskIds : n # m => call'[n] = call[n]
      BY <1>0, <3>1 DEF Publish, TypeOK
    <3>5. QED
      BY <2>1, <2>3, <2>4, <2>5, <3>2, <3>3, <3>4 DEF SentTasks, OutstandingTasks, RecordedTasks, AbandonedTasks
  <2>6. CASE m \notin TaskIds
    <3>1. SameSent
      BY <1>0, <1>1, <2>6 DEF Publish, Request, TypeOK
    <3>2. QED
      BY <2>1, <2>3, <2>4, <2>6, <3>1
  <2>7. QED
    BY <2>5, <2>6
<1>2. ASSUME NEW m \in Messages, RequestTimeout(m) \/ ClaimLapses(m)
      PROVE  Stutter
  <2>1. UNCHANGED <<main, retry, dead, held, copy, succeeded, rejected>>
    BY <1>2 DEF RequestTimeout, ClaimLapses
  <2>2. SameSent
    BY <1>0, <1>2 DEF RequestTimeout, ClaimLapses, TypeOK
  <2>3. QED
    BY <2>1, <2>2 DEF Outstanding, Recorded, InQueue, HeldBy
<1>3. ASSUME NEW w \in Workers, Start(w)
      PROVE  Stutter
  BY <1>3 DEF Start, Outstanding, Recorded, InQueue, HeldBy
<1>4. ASSUME NEW w \in Workers, NEW c \in Copy, Deliver(w, c)
      PROVE  Stutter
  <2>1. /\ main[c] > 0 /\ main' = Take(main, c) /\ ~held[w]
        /\ held'[w] /\ copy'[w] = c
        /\ \A v \in Workers \ {w} : held'[v] = held[v] /\ copy'[v] = copy[v]
        /\ UNCHANGED <<retry, dead, call, succeeded, rejected>>
    BY <1>4 DEF Deliver, TypeOK
  <2>2. /\ InQueue(main, c.id)
        /\ \A n : n # c.id => (InQueue(main', n) <=> InQueue(main, n))
    BY <2>1, InQueueTake DEF TypeOK
  <2>3. ASSUME NEW n \in TaskIds
        PROVE  SameOut(n)
    <3>1. CASE n = c.id
      BY <2>1, <2>2, <3>1 DEF Outstanding, HeldBy
    <3>2. CASE n # c.id
      BY <2>1, <2>2, <3>2 DEF Outstanding, InQueue, HeldBy
    <3>3. QED
      BY <3>1, <3>2
  <2>4. QED
    BY <2>1, <2>3 DEF Recorded, InQueue
<1>5. ASSUME NEW w \in Workers, Handle(w)
      PROVE  \/ Stutter
             \/ \E m \in TaskIds : /\ m \in SentTasks
                                   /\ RecordedTasks' = RecordedTasks \union {m}
                                   /\ UNCHANGED <<SentTasks, OutstandingTasks, AbandonedTasks>>
  <2>1. /\ UNCHANGED <<main, retry, dead, held, copy, call, rejected>>
        /\ succeeded' = succeeded \/ succeeded' = succeeded \union {copy[w].id}
        /\ phase[w] \notin {"down", "idle"}
    BY <1>5 DEF Handle, ParseFails, ClaimAndStart, SkipDuplicate, ClaimRaises,
                HandlerSucceeds, HandlerFails, Answer
  <2>2. SameSent /\ \A n \in TaskIds : SameOut(n)
    BY <2>1 DEF Outstanding, InQueue, HeldBy
  <2>3. \A n \in TaskIds : n # copy[w].id \/ succeeded' = succeeded => SameRec(n)
    BY <2>1 DEF Recorded, InQueue
  <2>4. CASE succeeded' = succeeded \/ copy[w].id \notin TaskIds
    BY <2>1, <2>2, <2>3, <2>4
  <2>5. CASE succeeded' # succeeded /\ copy[w].id \in TaskIds
    <3>1. PICK k \in TaskIds : k = copy[w].id
      BY <2>5
    <3>2. Recorded(k)'
      BY <2>1, <2>5, <3>1 DEF Recorded
    <3>3. k \in SentTasks
      BY <2>1, <3>1 DEF SentInv, Mentioned, SentTasks
    <3>4. RecordedTasks' = RecordedTasks \union {k}
      BY <2>3, <3>1, <3>2 DEF RecordedTasks
    <3>5. QED
      BY <2>1, <2>2, <3>3, <3>4 DEF SentTasks, OutstandingTasks, AbandonedTasks
  <2>6. QED
    BY <2>4, <2>5
<1>6. ASSUME NEW w \in Workers, Settle(w)
      PROVE  \/ Stutter
             \/ /\ UNCHANGED <<SentTasks, OutstandingTasks, RecordedTasks>>
                /\ UNCHANGED AbandonedTasks
             \/ \E m \in TaskIds :
                   \/ /\ m \in SentTasks
                      /\ RecordedTasks' = RecordedTasks \union {m}
                      /\ UNCHANGED <<SentTasks, OutstandingTasks, AbandonedTasks>>
                   \/ /\ m \in OutstandingTasks
                      /\ AbandonedTasks' = AbandonedTasks \union {m}
                      /\ OutstandingTasks' \in {OutstandingTasks, OutstandingTasks \ {m}}
                      /\ UNCHANGED <<SentTasks, RecordedTasks>>
                   \/ /\ m \in OutstandingTasks
                      /\ m \in RecordedTasks \union AbandonedTasks
                      /\ OutstandingTasks' = OutstandingTasks \ {m}
                      /\ UNCHANGED <<SentTasks, RecordedTasks, AbandonedTasks>>
                   \/ /\ m \in RecordedTasks \union AbandonedTasks
                      /\ OutstandingTasks' = OutstandingTasks \union {m}
                      /\ UNCHANGED <<SentTasks, RecordedTasks, AbandonedTasks>>
  <2>1. PICK k \in Messages : k = copy[w].id
    BY <1>6 DEF Settle, SendReply, NothingToPublish, PublishRetry, FailedBackground, FollowUp,
                PublishDeadLetter, RejectUnparsable, PublishFails, PublishDisconnected, Ack, AckFails,
                TypeOK, Copy
  <2>2. /\ copy[w] \in Copy /\ phase[w] \notin {"down", "idle"}
        /\ UNCHANGED <<main, succeeded>>
        /\ \A v \in Workers \ {w} : held'[v] = held[v] /\ copy'[v] = copy[v]
    BY <1>6 DEF Settle, SendReply, NothingToPublish, PublishRetry, FailedBackground, FollowUp,
                PublishDeadLetter, RejectUnparsable, PublishFails, PublishDisconnected, Ack, AckFails,
                Settled, LoopFails, TypeOK
  <2>3. SameSent
    BY <1>0, <1>6 DEF Settle, SendReply, NothingToPublish, PublishRetry, PublishDeadLetter,
                      RejectUnparsable, PublishFails, PublishDisconnected, Ack, AckFails, LoopFails, TypeOK
  <2>4. CASE SendReply(w) \/ NothingToPublish(w)
    <3>1. UNCHANGED <<retry, dead, held, copy, rejected>>
      BY <2>4 DEF SendReply, NothingToPublish, Settled
    <3>2. QED
      BY <2>2, <2>3, <3>1 DEF Outstanding, Recorded, InQueue, HeldBy
  <2>5. CASE PublishRetry(w)
    <3>1. /\ UNCHANGED <<dead, held, copy, rejected>>
          /\ InQueue(retry', k)
          /\ \A n : n # k => (InQueue(retry', n) <=> InQueue(retry, n))
      BY <2>1, <2>2, <2>5, NextAttemptType, InQueuePut DEF PublishRetry, Settled, TypeOK
    <3>2. \A n \in TaskIds : SameRec(n)
      BY <2>2, <3>1 DEF Recorded, InQueue
    <3>3. \A n \in TaskIds : n # k => SameOut(n)
      BY <2>2, <3>1 DEF Outstanding, InQueue, HeldBy
    <3>4. CASE k \in OutstandingTasks \/ k \notin TaskIds
      <4>1. Outstanding(k)'
        BY <3>1 DEF Outstanding, InQueue
      <4>2. Stutter
        BY <2>3, <3>1, <3>2, <3>3, <3>4, <4>1 DEF OutstandingTasks
      <4>3. QED
        BY <4>2
    <3>5. CASE k \in TaskIds /\ k \notin OutstandingTasks
      <4>1. Outstanding(k)'
        BY <3>1 DEF Outstanding, InQueue
      <4>2. call[k] = "sent" /\ ~Pending(k)
        BY <2>1, <2>2, <3>5 DEF SentInv, Mentioned, OutstandingTasks, Outstanding, Pending
      <4>3. k \in RecordedTasks \union AbandonedTasks
        BY <3>5, <4>2 DEF LossInv, NoSilentLoss, TaskIds, RecordedTasks, AbandonedTasks
      <4>4. OutstandingTasks' = OutstandingTasks \union {k}
        BY <3>3, <3>5, <4>1 DEF OutstandingTasks
      <4>5. QED
        BY <2>3, <3>1, <3>2, <3>5, <4>3, <4>4 DEF SentTasks, RecordedTasks, AbandonedTasks
    <3>6. QED
      BY <3>4, <3>5
  <2>6. CASE PublishDeadLetter(w)
    <3>1. /\ UNCHANGED <<retry, held, copy, rejected>>
          /\ InQueue(dead', k)
          /\ \A n : n # k => (InQueue(dead', n) <=> InQueue(dead, n))
      BY <2>1, <2>2, <2>6, InQueuePut DEF PublishDeadLetter, Settled, TypeOK
    <3>2. \A n \in TaskIds : SameOut(n)
      BY <2>2, <3>1 DEF Outstanding, InQueue, HeldBy
    <3>3. \A n \in TaskIds : n # k => SameRec(n)
      BY <2>2, <3>1 DEF Recorded, InQueue
    <3>4. k \in TaskIds
      BY <2>1, <2>6 DEF PublishDeadLetter, FailedBackground, TaskIds
    <3>5. Recorded(k)'
      BY <3>1 DEF Recorded, InQueue
    <3>6. k \in SentTasks
      BY <2>1, <2>2, <3>4 DEF SentInv, Mentioned, SentTasks
    <3>7. RecordedTasks' = RecordedTasks \union {k}
      BY <3>3, <3>4, <3>5 DEF RecordedTasks
    <3>8. QED
      BY <2>3, <3>1, <3>2, <3>4, <3>6, <3>7 DEF SentTasks, OutstandingTasks, AbandonedTasks
  <2>7. CASE RejectUnparsable(w) \/ PublishDisconnected(w) \/ AckFails(w)
    <3>1. /\ UNCHANGED <<retry, dead, rejected>> /\ ~held'[w]
          /\ held[w] => k \notin TaskIds
      BY <2>1, <2>7 DEF RejectUnparsable, PublishDisconnected, AckFails, LoopFails,
                        TaskIds, TypeOK
    <3>2. \A n \in TaskIds : SameOut(n)
      BY <2>1, <2>2, <3>1 DEF Outstanding, InQueue, HeldBy
    <3>3. QED
      BY <2>2, <2>3, <3>1, <3>2 DEF Recorded, InQueue
  <2>8. CASE Ack(w)
    <3>1. /\ UNCHANGED <<retry, dead, call, rejected>> /\ held[w] /\ ~held'[w]
      BY <2>8 DEF Ack, TypeOK
    <3>2. \A n \in TaskIds : SameRec(n)
      BY <2>2, <3>1 DEF Recorded, InQueue
    <3>3. \A n \in TaskIds : n # k => SameOut(n)
      BY <2>1, <2>2, <3>1 DEF Outstanding, InQueue, HeldBy
    <3>4. CASE k \notin TaskIds \/ Outstanding(k)'
      <4>1. Outstanding(k)
        BY <2>1, <3>1 DEF Outstanding, HeldBy
      <4>2. Stutter
        BY <2>3, <3>1, <3>2, <3>3, <3>4, <4>1
      <4>3. QED
        BY <4>2
    <3>5. CASE k \in TaskIds /\ ~Outstanding(k)'
      <4>1. k \in OutstandingTasks
        BY <2>1, <3>1, <3>5 DEF OutstandingTasks, Outstanding, HeldBy
      <4>2. call'[k] = "sent" /\ ~Pending(k)'
        BY <2>1, <2>2, <3>1, <3>5 DEF SentInv, Mentioned, Outstanding, Pending
      <4>3. Recorded(k)' \/ k \in rejected'
        BY <3>5, <4>2 DEF LossInv, NoSilentLoss, TaskIds
      <4>4. k \in RecordedTasks \union AbandonedTasks
        BY <3>1, <3>2, <3>5, <4>3 DEF RecordedTasks, AbandonedTasks
      <4>5. OutstandingTasks' = OutstandingTasks \ {k}
        BY <3>3, <3>5 DEF OutstandingTasks
      <4>6. QED
        BY <2>3, <3>1, <3>2, <3>5, <4>1, <4>4, <4>5 DEF SentTasks, RecordedTasks, AbandonedTasks
    <3>6. QED
      BY <3>4, <3>5
  <2>9. CASE PublishFails(w)
    <3>1. /\ UNCHANGED <<retry, dead, call>> /\ held[w] /\ ~held'[w]
          /\ rejected' = rejected \union {k}
      BY <2>1, <2>9 DEF PublishFails, LoopFails, TypeOK
    <3>2. \A n \in TaskIds : SameRec(n)
      BY <2>2, <3>1 DEF Recorded, InQueue
    <3>3. \A n \in TaskIds : n # k => SameOut(n)
      BY <2>1, <2>2, <3>1 DEF Outstanding, InQueue, HeldBy
    <3>4. Outstanding(k)
      BY <2>1, <3>1 DEF Outstanding, HeldBy
    <3>5. CASE k \in TaskIds
      <4>1. k \in OutstandingTasks
        BY <3>4, <3>5 DEF OutstandingTasks
      <4>2. AbandonedTasks' = AbandonedTasks \union {k}
        BY <3>1, <3>5 DEF AbandonedTasks
      <4>3. OutstandingTasks' \in {OutstandingTasks, OutstandingTasks \ {k}}
        BY <3>3, <3>4, <3>5 DEF OutstandingTasks
      <4>4. UNCHANGED <<SentTasks, RecordedTasks>>
        BY <2>3, <3>2 DEF SentTasks, RecordedTasks
      <4>5. QED
        BY <3>5, <4>1, <4>2, <4>3, <4>4
    <3>6. CASE k \notin TaskIds
      <4>1. /\ UNCHANGED <<SentTasks, OutstandingTasks, RecordedTasks>>
            /\ UNCHANGED AbandonedTasks
        BY <2>3, <3>1, <3>2, <3>3, <3>6 DEF SentTasks, OutstandingTasks, RecordedTasks,
                                            AbandonedTasks
      <4>2. QED
        BY <4>1
    <3>7. QED
      BY <3>5, <3>6
  <2>10. QED
    BY <1>6, <2>4, <2>5, <2>6, <2>7, <2>8, <2>9 DEF Settle
<1>7. ASSUME NEW c \in Copy, RetryExpires(c)
      PROVE  Stutter
  <2>1. /\ retry[c] > 0 /\ retry' = Take(retry, c) /\ main' = Put(main, c)
        /\ UNCHANGED <<dead, held, copy, call, succeeded, rejected>>
    BY <1>7 DEF RetryExpires
  <2>2. /\ InQueue(retry, c.id) /\ InQueue(main', c.id)
        /\ \A n : n # c.id => /\ InQueue(retry', n) <=> InQueue(retry, n)
                              /\ InQueue(main', n) <=> InQueue(main, n)
    BY <2>1, InQueueTake, InQueuePut DEF TypeOK
  <2>3. ASSUME NEW n \in TaskIds
        PROVE  SameOut(n)
    <3>1. CASE n = c.id
      BY <2>2, <3>1 DEF Outstanding, InQueue
    <3>2. CASE n # c.id
      BY <2>1, <2>2, <3>2 DEF Outstanding, InQueue, HeldBy
    <3>3. QED
      BY <3>1, <3>2
  <2>4. QED
    BY <2>1, <2>3 DEF Recorded, InQueue
<1>8. ASSUME NEW w \in Workers, LoseConnection(w) \/ Crash(w)
      PROVE  Stutter
  <2>1. /\ UNCHANGED <<retry, dead, call, succeeded, rejected>> /\ ~held'[w]
        /\ held[w] => copy[w] \in Copy /\ main' = Put(main, copy[w])
        /\ ~held[w] => main' = main
        /\ \A v \in Workers \ {w} : held'[v] = held[v] /\ copy'[v] = copy[v]
    BY <1>8 DEF LoseConnection, Crash, TypeOK
  <2>2. \A n : InQueue(main', n) <=> InQueue(main, n) \/ HeldBy(w, n)
    BY <2>1, InQueuePut DEF TypeOK, HeldBy
  <2>3. ASSUME NEW n \in TaskIds
        PROVE  SameOut(n)
    <3>1. InQueue(main', n) <=> InQueue(main, n) \/ HeldBy(w, n)
      BY <2>2
    <3>2. (\E v \in Workers : HeldBy(v, n)') <=> \E v \in Workers \ {w} : HeldBy(v, n)
      BY <2>1 DEF HeldBy
    <3>3. InQueue(retry', n) <=> InQueue(retry, n)
      BY <2>1
    <3>4. QED
      BY <3>1, <3>2, <3>3 DEF Outstanding, InQueue
  <2>4. QED
    BY <2>1, <2>3 DEF Recorded, InQueue
<1>9. CASE UNCHANGED vars
  <2>1. UNCHANGED <<main, retry, dead, held, copy, call, succeeded, rejected>>
    BY <1>9 DEF vars
  <2>2. Stutter
    BY <2>1 DEF Outstanding, Recorded, InQueue, HeldBy
  <2>3. QED
    BY <1>a, <2>2
<1>10. QED
  BY <1>a, <1>1, <1>2, <1>3, <1>4, <1>5, <1>6, <1>7, <1>8, <1>9
     DEF Next, Produce, TimeOut, Consume, Expire, Disturb

\* Without the guard the bus keeps the promise of BackgroundTask, for any
\* number of workers, retries and faults.
THEOREM UnguardedImplementsTask ==
    ASSUME ~GuardEnabled
    PROVE  Spec => ImplementsBackgroundTask
<1>1. Init => Task!Init
  <2> SUFFICES ASSUME Init, NEW m \in TaskIds
               PROVE  /\ call[m] # "sent" /\ ~Outstanding(m) /\ ~Recorded(m)
                      /\ rejected = {}
    BY DEF Task!Init, Init, TaskIds
  <2>1. ~InQueue(main, m) /\ ~InQueue(retry, m) /\ ~InQueue(dead, m)
    BY DEF Init, InQueue
  <2>2. QED
    BY <2>1 DEF Init, Outstanding, Recorded, HeldBy, TaskIds, Background
<1>2. /\ TypeOK /\ TypeOK' /\ LossInv /\ LossInv' /\ SentInv /\ [Next]_vars
      => [Task!Next]_(Task!vars)
  BY TaskStep
<1>3. QED
  BY <1>1, <1>2, TypeCorrect, LossInvariant, SentInvariant, PTL
     DEF Spec, ImplementsBackgroundTask, Task!Spec

=============================================================================
