-------------------------- MODULE FileImport_proofs --------------------------
(***************************************************************************)
(* Proofs about FileImport, for any files, jobs, threads and faults.       *)
(* TInv, the types and what they rest on, is inductive by itself; each of  *)
(* the other theorems adds one inductive invariant of its own to it.       *)
(***************************************************************************)
EXTENDS FileImport, FiniteSetTheorems, TLAPS

USE FileImportAssumption DEF jobs, uploads, messages, runners, ledgers, finance

-----------------------------------------------------------------------------
(* Types *)

\* What an upload and a runner hold on to exists; an idle finance worker has
\* no request.
Linked ==
    /\ \A u \in Uploaders : uphase[u] # "idle" => ufile[u] \in Files
    /\ \A u \in Uploaders : uphase[u] \in {"stored", "queued"} => ufile[u] \in files
    /\ \A u \in Uploaders : uphase[u] = "queued" =>
          ujob[u] \in Jobs /\ job[ujob[u]] # "none"
    /\ \A r \in Runners : rphase[r] # "idle" => job[rcopy[r].job] # "none"
    /\ \A r \in Runners : rheld[r] => rphase[r] # "idle"
    /\ \A g \in Ledgers : lphase[g] = "idle" => item[g] = Nothing

\* A runner has one request out while it waits, and none otherwise: on the
\* queue, or with a finance worker.
QueuedWaits == \A i \in Item :
    requests[i] > 0 /\ i.caller # Nobody => rphase[i.caller] = "waiting" /\ requests[i] = 1
TakenWaits == \A g \in Ledgers :
    item[g] # Nothing /\ item[g].caller # Nobody => rphase[item[g].caller] = "waiting"
OneQueued == \A i, k \in Item :
    requests[i] > 0 /\ requests[k] > 0 /\ i.caller = k.caller /\ i.caller # Nobody => i = k
OneTaken == \A g, h \in Ledgers :
    item[g] # Nothing /\ item[h] # Nothing /\ item[g].caller = item[h].caller
    /\ item[g].caller # Nobody => g = h
QueuedOrTaken == \A g \in Ledgers, i \in Item :
    requests[i] > 0 /\ item[g] # Nothing /\ item[g].caller = i.caller => i.caller = Nobody

Calls == QueuedWaits /\ TakenWaits /\ OneQueued /\ OneTaken /\ QueuedOrTaken

TInv == TypeOK /\ Linked /\ Calls

USE DEF TInv, TypeOK, JobsTyped, UploadsTyped, MessagesTyped, RunnersTyped, RequestsTyped,
        LedgersTyped, FinanceTyped, Linked, Final, RunnerPhases, LedgerPhases, Cards

\* FailJob gives its runner an outcome and a reply.
LEMMA FailJobTyped ==
  ASSUME TInv, NEW r \in Runners, FailJob(r)
  PROVE  /\ outcome' \in [Runners -> Final]
         /\ rreply' \in [Runners -> {"ok", "error"}]
         /\ outcome' = [outcome EXCEPT ![r] = "failed"]
<1>1. PICK a \in {"ok", "error"} : rreply' = [rreply EXCEPT ![r] = a]
  BY DEF FailJob
<1>2. rreply' \in [Runners -> {"ok", "error"}]
  BY <1>1
<1>3. outcome' = [outcome EXCEPT ![r] = "failed"]
  BY DEF FailJob
<1> QED BY <1>2, <1>3

\* Abandon leaves the request queue and the workers' requests well typed.
LEMMA AbandonTyped ==
  ASSUME TInv, NEW r \in Runners, Abandon(r)
  PROVE  /\ requests' \in [Item -> Nat]
         /\ item' \in [Ledgers -> Item \union {Nothing}]
         /\ \A g \in Ledgers : item[g] = Nothing <=> item'[g] = Nothing
         /\ \A g \in Ledgers : item[g] # Nothing =>
               item[g] \in Item /\ item'[g] \in Item /\ item'[g].row = item[g].row
<1>1. \A i \in Item, n \in Runners \union {Nobody} : [i EXCEPT !.caller = n] \in Item
  BY DEF Item
<1>2. requests' \in [Item -> Nat]
  <2>1. \A i \in Item : requests[i] \in Nat /\ requests[[i EXCEPT !.caller = r]] \in Nat
    BY <1>1
  <2>2. \A i \in Item : requests[i] + requests[[i EXCEPT !.caller = r]] \in Nat
    BY <2>1
  <2> QED BY <2>1, <2>2 DEF Abandon
<1>3. Nothing \notin Item
  OBVIOUS
<1>4. \A g \in Ledgers : item'[g] = IF item[g] # Nothing /\ item[g].caller = r
                                    THEN [item[g] EXCEPT !.caller = Nobody] ELSE item[g]
  BY DEF Abandon
<1>5. \A g \in Ledgers : item[g] # Nothing =>
         item[g] \in Item /\ item'[g] \in Item /\ item'[g].row = item[g].row
  <2> SUFFICES ASSUME NEW g \in Ledgers, item[g] # Nothing
               PROVE  item[g] \in Item /\ item'[g] \in Item /\ item'[g].row = item[g].row
    OBVIOUS
  <2>1. item[g] \in Item
    OBVIOUS
  <2>2. /\ [item[g] EXCEPT !.caller = Nobody] \in Item
        /\ [item[g] EXCEPT !.caller = Nobody].row = item[g].row
    BY <1>1, <2>1 DEF Item
  <2> QED BY <1>4, <2>1, <2>2
<1>6. item' \in [Ledgers -> Item \union {Nothing}]
  BY <1>4, <1>5, Zenon DEF Abandon
<1> QED BY <1>2, <1>3, <1>4, <1>5, <1>6

\* What is left of the calls when r's reply queue is gone.
LEMMA AbandonCalls ==
  ASSUME TInv, NEW r \in Runners, Abandon(r)
  PROVE  /\ \A i \in Item : i.caller # Nobody /\ requests'[i] > 0 =>
               i.caller # r /\ requests'[i] = requests[i]
         /\ \A g \in Ledgers : item'[g] # Nothing /\ item'[g].caller # Nobody =>
               item'[g] = item[g] /\ item[g].caller # r
<1>1. \A i \in Item : i.caller # Nobody =>
         requests'[i] = IF i.caller = r THEN 0 ELSE requests[i]
  BY DEF Abandon
<1>2. ASSUME NEW g \in Ledgers, item'[g] # Nothing, item'[g].caller # Nobody
      PROVE  item'[g] = item[g] /\ item[g].caller # r
  <2>1. item[g] \in Item
    BY <1>2, AbandonTyped
  <2>2. [item[g] EXCEPT !.caller = Nobody].caller = Nobody
    BY <2>1 DEF Item
  <2>3. item'[g] = IF item[g] # Nothing /\ item[g].caller = r
                  THEN [item[g] EXCEPT !.caller = Nobody] ELSE item[g]
    BY DEF Abandon
  <2> QED BY <1>2, <2>2, <2>3
<1> QED BY <1>1, <1>2

LEMMA InitTypes == Init => TInv
BY DEF Init, Calls, QueuedWaits, TakenWaits, OneQueued, OneTaken, QueuedOrTaken

LEMMA UploadTypes ==
  ASSUME TInv, NEW u \in Uploaders, NEW f \in Files, Upload(u, f)
  PROVE  TInv'
BY DEF Upload, Calls, QueuedWaits, TakenWaits, OneQueued, OneTaken, QueuedOrTaken, Copy, Item

LEMMA StoreFileTypes ==
  ASSUME TInv, NEW u \in Uploaders, StoreFile(u)
  PROVE  TInv'
BY DEF StoreFile, Calls, QueuedWaits, TakenWaits, OneQueued, OneTaken, QueuedOrTaken, Copy, Item

LEMMA FileExistsTypes ==
  ASSUME TInv, NEW u \in Uploaders, FileExists(u)
  PROVE  TInv'
BY DEF FileExists, Calls, QueuedWaits, TakenWaits, OneQueued, OneTaken, QueuedOrTaken, Copy, Item, EndUpload

LEMMA CreateJobTypes ==
  ASSUME TInv, NEW u \in Uploaders, NEW j \in Jobs, CreateJob(u, j)
  PROVE  TInv'
BY DEF CreateJob, Calls, QueuedWaits, TakenWaits, OneQueued, OneTaken, QueuedOrTaken, Copy, Item

LEMMA PublishRunTypes ==
  ASSUME TInv, NEW u \in Uploaders, PublishRun(u)
  PROVE  TInv'
<1>1. CASE runs' = Add(runs, [job |-> ujob[u], attempts |-> 0])
  <2>1. [job |-> ujob[u], attempts |-> 0] \in Copy
    BY DEF PublishRun, Copy
  <2>2. /\ runs' \in [Copy -> Nat]
        /\ \A c \in Copy : runs'[c] > 0 => runs[c] > 0 \/ c.job = ujob[u]
    BY <1>1, <2>1 DEF Add
  <2> QED BY <2>2 DEF PublishRun, EndUpload, Calls, QueuedWaits, TakenWaits, OneQueued, OneTaken, QueuedOrTaken
<1>2. CASE UNCHANGED runs
  BY <1>2 DEF PublishRun, EndUpload, Calls, QueuedWaits, TakenWaits, OneQueued, OneTaken, QueuedOrTaken
<1> QED BY <1>1, <1>2 DEF PublishRun

LEMMA CrashUploadTypes ==
  ASSUME TInv, NEW u \in Uploaders, CrashUpload(u)
  PROVE  TInv'
BY DEF CrashUpload, Calls, QueuedWaits, TakenWaits, OneQueued, OneTaken, QueuedOrTaken, Copy, Item, EndUpload

LEMMA DeliverRunTypes ==
  ASSUME TInv, NEW r \in Runners, NEW c \in Copy, DeliverRun(r, c)
  PROVE  TInv'
<1>1. /\ runs' \in [Copy -> Nat]
      /\ \A d \in Copy : runs'[d] > 0 => runs[d] > 0
  BY DEF DeliverRun, Remove
<1> QED BY <1>1 DEF DeliverRun, Calls, QueuedWaits, TakenWaits, OneQueued, OneTaken, QueuedOrTaken

LEMMA SkipRunTypes ==
  ASSUME TInv, NEW r \in Runners, SkipRun(r)
  PROVE  TInv'
BY DEF SkipRun, Calls, QueuedWaits, TakenWaits, OneQueued, OneTaken, QueuedOrTaken, Copy, Item, Return, RunnerTo

LEMMA ClaimRunTypes ==
  ASSUME TInv, NEW r \in Runners, ClaimRun(r)
  PROVE  TInv'
BY DEF ClaimRun, Calls, QueuedWaits, TakenWaits, OneQueued, OneTaken, QueuedOrTaken, Copy, Item, RunnerTo

LEMMA AcquireLockTypes ==
  ASSUME TInv, NEW r \in Runners, AcquireLock(r)
  PROVE  TInv'
BY DEF AcquireLock, Calls, QueuedWaits, TakenWaits, OneQueued, OneTaken, QueuedOrTaken, Copy, Item, RunnerTo

LEMMA LockTakenTypes ==
  ASSUME TInv, NEW r \in Runners, LockTaken(r)
  PROVE  TInv'
BY DEF LockTaken, Calls, QueuedWaits, TakenWaits, OneQueued, OneTaken, QueuedOrTaken, Copy, Item, Return, RunnerTo

LEMMA MarkRunningTypes ==
  ASSUME TInv, NEW r \in Runners, MarkRunning(r)
  PROVE  TInv'
BY DEF MarkRunning, Calls, QueuedWaits, TakenWaits, OneQueued, OneTaken, QueuedOrTaken, Copy, Item

LEMMA ParseFileTypes ==
  ASSUME TInv, NEW r \in Runners, ParseFile(r)
  PROVE  TInv'
BY DEF ParseFile, Calls, QueuedWaits, TakenWaits, OneQueued, OneTaken, QueuedOrTaken, Copy, Item, RunnerTo

LEMMA ParseFailsTypes ==
  ASSUME TInv, NEW r \in Runners, ParseFails(r)
  PROVE  TInv'
BY FailJobTyped DEF ParseFails, RunnerTo, Calls, QueuedWaits, TakenWaits, OneQueued, OneTaken, QueuedOrTaken, Copy, Item

LEMMA StartedEventFailsTypes ==
  ASSUME TInv, NEW r \in Runners, StartedEventFails(r)
  PROVE  TInv'
BY DEF StartedEventFails, Calls, QueuedWaits, TakenWaits, OneQueued, OneTaken, QueuedOrTaken, Copy, Item, RunnerTo

LEMMA SendRowTypes ==
  ASSUME TInv, NEW r \in Runners, NEW k \in Rows, SendRow(r, k)
  PROVE  TInv'
<1>1. [row |-> k, caller |-> r, claimed |-> FALSE] \in Item
  BY DEF Item
<1>2. requests' \in [Item -> Nat]
  BY <1>1 DEF SendRow, Add
<1>3. Calls'
  <2> DEFINE i0 == [row |-> k, caller |-> r, claimed |-> FALSE]
  <2>1. \A i \in Item : i.caller = r => requests[i] = 0
    <3>1. rphase[r] = "sending" /\ r # Nobody
      BY DEF SendRow
    <3> QED BY <3>1 DEF Calls, QueuedWaits
  <2>2. \A g \in Ledgers : item[g] # Nothing => item[g].caller # r
    BY DEF SendRow, Calls, QueuedWaits, TakenWaits, OneQueued, OneTaken, QueuedOrTaken
  <2>3. i0 \in Item /\ i0.caller = r
    BY <1>1
  <2>4. \A i \in Item : requests'[i] = IF i = i0 THEN requests[i] + 1 ELSE requests[i]
    BY <2>3 DEF SendRow, Add
  <2>5. \A s \in Runners : rphase'[s] = IF s = r THEN "waiting" ELSE rphase[s]
    BY DEF SendRow
  <2>6. \A i \in Item : i.caller \in Runners \union {Nobody}
    BY DEF Item
  <2>7. UNCHANGED item
    BY DEF SendRow
  <2> HIDE DEF i0
  <2>8. QueuedWaits'
    BY <2>1, <2>2, <2>3, <2>4, <2>5, <2>6, <2>7 DEF Calls, QueuedWaits, TakenWaits, OneQueued, OneTaken, QueuedOrTaken
  <2>9. TakenWaits'
    BY <2>1, <2>2, <2>3, <2>4, <2>5, <2>6, <2>7 DEF Calls, QueuedWaits, TakenWaits, OneQueued, OneTaken, QueuedOrTaken
  <2>10. OneQueued'
    BY <2>1, <2>2, <2>3, <2>4, <2>5, <2>6, <2>7 DEF Calls, QueuedWaits, TakenWaits, OneQueued, OneTaken, QueuedOrTaken
  <2>11. OneTaken'
    BY <2>1, <2>2, <2>3, <2>4, <2>5, <2>6, <2>7 DEF Calls, QueuedWaits, TakenWaits, OneQueued, OneTaken, QueuedOrTaken
  <2>12. QueuedOrTaken'
    BY <2>1, <2>2, <2>3, <2>4, <2>5, <2>6, <2>7 DEF Calls, QueuedWaits, TakenWaits, OneQueued, OneTaken, QueuedOrTaken
  <2> QED BY <2>8, <2>9, <2>10, <2>11, <2>12 DEF Calls
<1>4. TypeOK' /\ Linked'
  BY <1>2 DEF SendRow
<1> QED BY <1>3, <1>4

LEMMA RequestTimesOutTypes ==
  ASSUME TInv, NEW r \in Runners, RequestTimesOut(r)
  PROVE  TInv'
<1>1. RequestsTyped' /\ LedgersTyped' /\ FinanceTyped'
  BY AbandonTyped DEF RequestTimesOut
<1>2. RunnersTyped'
  BY FailJobTyped DEF RequestTimesOut
<1>3. Linked'
  BY AbandonTyped DEF RequestTimesOut
<1>4. Calls'
  <2>1. \A i \in Item : i.caller \in Runners \union {Nobody}
    BY DEF Item
  <2>2. \A s \in Runners : s # r => rphase'[s] = rphase[s]
    BY DEF RequestTimesOut
  <2>3. Abandon(r)
    BY DEF RequestTimesOut
  <2> QED BY <2>1, <2>2, <2>3, AbandonTyped, AbandonCalls DEF Calls, QueuedWaits, TakenWaits, OneQueued, OneTaken, QueuedOrTaken
<1>5. TypeOK'
  BY <1>1, <1>2 DEF RequestTimesOut
<1> QED BY <1>3, <1>4, <1>5

LEMMA EndParsedTypes ==
  ASSUME TInv, NEW r \in Runners, EndParsed(r)
  PROVE  TInv'
BY DEF EndParsed, Calls, QueuedWaits, TakenWaits, OneQueued, OneTaken, QueuedOrTaken, Copy, Item, RunnerTo, Parsed, Bump

LEMMA BusFailsTypes ==
  ASSUME TInv, NEW r \in Runners, BusFails(r)
  PROVE  TInv'
BY FailJobTyped DEF BusFails, RunnerTo, Calls, QueuedWaits, TakenWaits, OneQueued, OneTaken, QueuedOrTaken, Copy, Item

LEMMA CommitOutcomeTypes ==
  ASSUME TInv, NEW r \in Runners, CommitOutcome(r)
  PROVE  TInv'
BY DEF CommitOutcome, Calls, QueuedWaits, TakenWaits, OneQueued, OneTaken, QueuedOrTaken, Copy, Item

LEMMA ReleaseLockTypes ==
  ASSUME TInv, NEW r \in Runners, ReleaseLock(r)
  PROVE  TInv'
BY DEF ReleaseLock, Calls, QueuedWaits, TakenWaits, OneQueued, OneTaken, QueuedOrTaken, Copy, Item, RunnerTo

LEMMA SettleRunTypes ==
  ASSUME TInv, NEW r \in Runners, SettleRun(r)
  PROVE  TInv'
<1>1. MessagesTyped'
  <2>1. CASE UNCHANGED runs
    BY <2>1 DEF SettleRun
  <2>2. CASE ~UNCHANGED runs
    <3> DEFINE c == [rcopy[r] EXCEPT !.attempts = @ + 1]
    <3>1. c \in Copy /\ c.job = rcopy[r].job
      BY <2>2 DEF SettleRun, Copy
    <3>2. runs' = Add(runs, c)
      BY <2>2 DEF SettleRun
    <3> HIDE DEF c
    <3>3. /\ runs' \in [Copy -> Nat]
          /\ \A d \in Copy : runs'[d] > 0 => runs[d] > 0 \/ d = c
      BY <3>1, <3>2 DEF Add
    <3> QED BY <3>1, <3>3 DEF SettleRun
  <2> QED BY <2>1, <2>2
<1>2. Calls'
  BY DEF SettleRun, Calls, QueuedWaits, TakenWaits, OneQueued, OneTaken, QueuedOrTaken
<1>3. Linked'
  BY DEF SettleRun
<1> QED BY <1>1, <1>2, <1>3 DEF SettleRun

LEMMA AckRunTypes ==
  ASSUME TInv, NEW r \in Runners, AckRun(r)
  PROVE  TInv'
BY DEF AckRun, Calls, QueuedWaits, TakenWaits, OneQueued, OneTaken, QueuedOrTaken, Copy, Item, EndRun

LEMMA LoseRunnerTypes ==
  ASSUME TInv, NEW r \in Runners, LoseRunner(r)
  PROVE  TInv'
<1>1. rphase[r] # "idle"
  BY DEF LoseRunner
<1>2. /\ runs' \in [Copy -> Nat]
      /\ \A c \in Copy : runs'[c] > 0 => runs[c] > 0 \/ c = rcopy[r]
  BY <1>1 DEF LoseRunner, RequeueRun, Add
<1>3. Calls'
  BY DEF LoseRunner, Calls, QueuedWaits, TakenWaits, OneQueued, OneTaken, QueuedOrTaken
<1> QED BY <1>1, <1>2, <1>3 DEF LoseRunner

LEMMA CrashRunnerTypes ==
  ASSUME TInv, NEW r \in Runners, CrashRunner(r)
  PROVE  TInv'
<1>1. /\ runs' \in [Copy -> Nat]
      /\ \A c \in Copy : runs'[c] > 0 => runs[c] > 0 \/ c = rcopy[r]
  BY DEF CrashRunner, RequeueRun, Add
<1>2. MessagesTyped'
  BY <1>1 DEF CrashRunner
<1>3. RequestsTyped' /\ LedgersTyped' /\ FinanceTyped'
  BY AbandonTyped DEF CrashRunner
<1>4. RunnersTyped'
  BY DEF CrashRunner, EndRun
<1>5. Linked'
  BY AbandonTyped DEF CrashRunner, EndRun
<1>6. Calls'
  <2>1. \A i \in Item : i.caller \in Runners \union {Nobody}
    BY DEF Item
  <2>2. \A s \in Runners : s # r => rphase'[s] = rphase[s]
    BY DEF CrashRunner, EndRun
  <2>3. Abandon(r)
    BY DEF CrashRunner
  <2> QED BY <2>1, <2>2, <2>3, AbandonTyped, AbandonCalls DEF Calls, QueuedWaits, TakenWaits, OneQueued, OneTaken, QueuedOrTaken
<1>7. TypeOK'
  BY <1>2, <1>3, <1>4 DEF CrashRunner
<1> QED BY <1>5, <1>6, <1>7

LEMMA LockLapsesTypes ==
  ASSUME TInv, NEW j \in Jobs, LockLapses(j)
  PROVE  TInv'
BY DEF LockLapses, Calls, QueuedWaits, TakenWaits, OneQueued, OneTaken, QueuedOrTaken, Copy, Item

LEMMA TakeRequestTypes ==
  ASSUME TInv, NEW g \in Ledgers, NEW i \in Item, TakeRequest(g, i)
  PROVE  TInv'
<1>1. requests' \in [Item -> Nat]
  BY DEF TakeRequest, Remove
<1>2. Calls'
  <2>1. \A k \in Item : requests'[k] = IF k = i THEN requests[i] - 1 ELSE requests[k]
    BY DEF TakeRequest, Remove
  <2>2. \A h \in Ledgers : item'[h] = IF h = g THEN i ELSE item[h]
    BY DEF TakeRequest
  <2>3. requests[i] > 0 /\ UNCHANGED rphase
    BY DEF TakeRequest
  <2>4. QueuedWaits'
    BY <2>1, <2>2, <2>3 DEF Calls, QueuedWaits, TakenWaits, OneQueued, OneTaken, QueuedOrTaken
  <2>5. TakenWaits'
    BY <2>1, <2>2, <2>3 DEF Calls, QueuedWaits, TakenWaits, OneQueued, OneTaken, QueuedOrTaken
  <2>6. OneQueued'
    BY <2>1, <2>2, <2>3 DEF Calls, QueuedWaits, TakenWaits, OneQueued, OneTaken, QueuedOrTaken
  <2>7. OneTaken'
    BY <2>1, <2>2, <2>3 DEF Calls, QueuedWaits, TakenWaits, OneQueued, OneTaken, QueuedOrTaken
  <2>8. QueuedOrTaken'
    BY <2>1, <2>2, <2>3 DEF Calls, QueuedWaits, TakenWaits, OneQueued, OneTaken, QueuedOrTaken
  <2> QED BY <2>4, <2>5, <2>6, <2>7, <2>8 DEF Calls
<1>3. TypeOK' /\ Linked'
  BY <1>1 DEF TakeRequest
<1> QED BY <1>2, <1>3

LEMMA SkipRequestTypes ==
  ASSUME TInv, NEW g \in Ledgers, SkipRequest(g)
  PROVE  TInv'
BY DEF SkipRequest, Calls, QueuedWaits, TakenWaits, OneQueued, OneTaken, QueuedOrTaken, Copy, Item, LedgerTo

LEMMA PrepareRowTypes ==
  ASSUME TInv, NEW g \in Ledgers, PrepareRow(g)
  PROVE  TInv'
<1>1. \A b \in BOOLEAN : [item[g] EXCEPT !.claimed = b] \in Item
                     /\ [item[g] EXCEPT !.claimed = b].caller = item[g].caller
  BY DEF PrepareRow, Item
<1>2. TypeOK' /\ Linked'
  BY <1>1 DEF PrepareRow, LedgerTo
<1>3. Calls'
  <2> DEFINE x == [item[g] EXCEPT !.claimed = GuardEnabled]
  <2>1. \A h \in Ledgers : item'[h] = IF h = g THEN x ELSE item[h]
    BY DEF PrepareRow
  <2>2. x \in Item /\ x.caller = item[g].caller
    BY <1>1
  <2> HIDE DEF x
  <2>3. UNCHANGED <<requests, rphase>> /\ item[g] # Nothing
    BY DEF PrepareRow, LedgerTo
  <2>4. QueuedWaits'
    BY <2>1, <2>2, <2>3 DEF Calls, QueuedWaits, TakenWaits, OneQueued, OneTaken, QueuedOrTaken
  <2>5. TakenWaits'
    BY <2>1, <2>2, <2>3 DEF Calls, QueuedWaits, TakenWaits, OneQueued, OneTaken, QueuedOrTaken
  <2>6. OneQueued'
    BY <2>1, <2>2, <2>3 DEF Calls, QueuedWaits, TakenWaits, OneQueued, OneTaken, QueuedOrTaken
  <2>7. OneTaken'
    BY <2>1, <2>2, <2>3 DEF Calls, QueuedWaits, TakenWaits, OneQueued, OneTaken, QueuedOrTaken
  <2>8. QueuedOrTaken'
    BY <2>1, <2>2, <2>3 DEF Calls, QueuedWaits, TakenWaits, OneQueued, OneTaken, QueuedOrTaken
  <2> QED BY <2>4, <2>5, <2>6, <2>7, <2>8 DEF Calls
<1> QED BY <1>2, <1>3

LEMMA InsertRowTypes ==
  ASSUME TInv, NEW g \in Ledgers, InsertRow(g)
  PROVE  TInv'
BY DEF InsertRow, Calls, QueuedWaits, TakenWaits, OneQueued, OneTaken, QueuedOrTaken, Copy, Item, LedgerTo, Add

LEMMA BumpVersionTypes ==
  ASSUME TInv, NEW g \in Ledgers, BumpVersion(g)
  PROVE  TInv'
BY DEF BumpVersion, Calls, QueuedWaits, TakenWaits, OneQueued, OneTaken, QueuedOrTaken, Copy, Item, LedgerTo, Bump

LEMMA RejectRowTypes ==
  ASSUME TInv, NEW g \in Ledgers, RejectRow(g)
  PROVE  TInv'
BY DEF RejectRow, Calls, QueuedWaits, TakenWaits, OneQueued, OneTaken, QueuedOrTaken, Copy, Item, LedgerTo

LEMMA ReplyTypes ==
  ASSUME TInv, NEW g \in Ledgers, Reply(g)
  PROVE  TInv'
<1>1. item[g] \in Item /\ item[g].caller \in Runners \union {Nobody}
  BY DEF Reply, Item
<1>2. [item[g] EXCEPT !.caller = Nobody] \in Item
  BY <1>1 DEF Item
<1>3. RequestsTyped'
  BY <1>2 DEF Reply, Replied
<1>4. /\ rphase' \in [Runners -> RunnerPhases]
      /\ outcome' \in [Runners -> Final]
      /\ rreply' \in [Runners -> {"ok", "error"}]
      /\ \A r \in Runners : rphase'[r] = "idle" <=> rphase[r] = "idle"
  <2> item[g].caller # Nobody => rphase[item[g].caller] = "waiting"
    BY <1>1 DEF Calls, QueuedWaits, TakenWaits, OneQueued, OneTaken, QueuedOrTaken
  <2>1. CASE item[g].caller = Nobody
    BY <2>1 DEF Reply
  <2>2. CASE item[g].caller # Nobody /\ lreply[g] = "ok"
    BY <1>1, <2>2 DEF Reply
  <2>3. CASE item[g].caller # Nobody /\ lreply[g] = "error"
    BY <1>1, <2>3, FailJobTyped DEF Reply
  <2> QED BY <2>1, <2>2, <2>3
<1>5. Calls'
  <2> DEFINE x == [item[g] EXCEPT !.caller = Nobody]
  <2>1. \A h \in Ledgers : item'[h] = IF h = g THEN x ELSE item[h]
    BY DEF Reply, Replied
  <2>2. \A s \in Runners : s # item[g].caller => rphase'[s] = rphase[s]
    BY DEF Reply
  <2>3. x.caller = Nobody
    BY <1>1 DEF Item
  <2>4. UNCHANGED requests
    BY DEF Reply, Replied
  <2>5. \A i \in Item : i.caller \in Runners \union {Nobody}
    BY DEF Item
  <2> HIDE DEF x
  <2>6. QueuedWaits'
    BY <1>1, <2>1, <2>2, <2>3, <2>4, <2>5 DEF Calls, QueuedWaits, TakenWaits, OneQueued, OneTaken, QueuedOrTaken
  <2>7. TakenWaits'
    BY <1>1, <2>1, <2>2, <2>3, <2>4, <2>5 DEF Calls, QueuedWaits, TakenWaits, OneQueued, OneTaken, QueuedOrTaken
  <2>8. OneQueued'
    BY <1>1, <2>1, <2>2, <2>3, <2>4, <2>5 DEF Calls, QueuedWaits, TakenWaits, OneQueued, OneTaken, QueuedOrTaken
  <2>9. OneTaken'
    BY <1>1, <2>1, <2>2, <2>3, <2>4, <2>5 DEF Calls, QueuedWaits, TakenWaits, OneQueued, OneTaken, QueuedOrTaken
  <2>10. QueuedOrTaken'
    BY <1>1, <2>1, <2>2, <2>3, <2>4, <2>5 DEF Calls, QueuedWaits, TakenWaits, OneQueued, OneTaken, QueuedOrTaken
  <2> QED BY <2>6, <2>7, <2>8, <2>9, <2>10 DEF Calls
<1>6. LedgersTyped' /\ FinanceTyped' /\ JobsTyped' /\ UploadsTyped' /\ MessagesTyped'
      /\ (faults \in 0..MaxFaults)'
  BY DEF Reply, Replied
<1>7. RunnersTyped'
  BY <1>4 DEF Reply, Replied
<1>8. Linked'
  BY <1>2, <1>4 DEF Reply, Replied
<1> QED BY <1>3, <1>5, <1>6, <1>7, <1>8

LEMMA AckRequestTypes ==
  ASSUME TInv, NEW g \in Ledgers, AckRequest(g)
  PROVE  TInv'
BY DEF AckRequest, Calls, QueuedWaits, TakenWaits, OneQueued, OneTaken, QueuedOrTaken, Copy, Item, EndRequest

LEMMA CrashLedgerTypes ==
  ASSUME TInv, NEW g \in Ledgers, CrashLedger(g)
  PROVE  TInv'
<1>1. requests' \in [Item -> Nat]
  BY DEF CrashLedger, Add
<1>2. Calls'
  <2>1. item[g] \in Item /\ UNCHANGED rphase
    BY DEF CrashLedger, EndRequest
  <2>2. \A i \in Item : requests'[i] = IF i = item[g] THEN requests[i] + 1 ELSE requests[i]
    BY <2>1 DEF CrashLedger, Add
  <2>3. \A h \in Ledgers : item'[h] = IF h = g THEN Nothing ELSE item[h]
    BY DEF CrashLedger, EndRequest
  <2>4. QueuedWaits'
    BY <2>1, <2>2, <2>3 DEF Calls, QueuedWaits, TakenWaits, OneQueued, OneTaken, QueuedOrTaken
  <2>5. TakenWaits'
    BY <2>1, <2>2, <2>3 DEF Calls, QueuedWaits, TakenWaits, OneQueued, OneTaken, QueuedOrTaken
  <2>6. OneQueued'
    BY <2>1, <2>2, <2>3 DEF Calls, QueuedWaits, TakenWaits, OneQueued, OneTaken, QueuedOrTaken
  <2>7. OneTaken'
    BY <2>1, <2>2, <2>3 DEF Calls, QueuedWaits, TakenWaits, OneQueued, OneTaken, QueuedOrTaken
  <2>8. QueuedOrTaken'
    BY <2>1, <2>2, <2>3 DEF Calls, QueuedWaits, TakenWaits, OneQueued, OneTaken, QueuedOrTaken
  <2> QED BY <2>4, <2>5, <2>6, <2>7, <2>8 DEF Calls
<1>3. TypeOK' /\ Linked'
  BY <1>1 DEF CrashLedger, EndRequest
<1> QED BY <1>2, <1>3

LEMMA StepTypes == TInv /\ [Next]_vars => TInv'
<1> SUFFICES ASSUME TInv, [Next]_vars PROVE TInv'
  OBVIOUS
<1>1. CASE Uploads
  BY <1>1, UploadTypes, StoreFileTypes, FileExistsTypes, CreateJobTypes, PublishRunTypes DEF Uploads
<1>2. ASSUME NEW r \in Runners, Run(r) PROVE TInv'
  BY <1>2, DeliverRunTypes, SkipRunTypes, ClaimRunTypes, AcquireLockTypes,
     LockTakenTypes, MarkRunningTypes, ParseFileTypes, ParseFailsTypes,
     StartedEventFailsTypes, SendRowTypes, RequestTimesOutTypes, EndParsedTypes,
     BusFailsTypes, CommitOutcomeTypes, ReleaseLockTypes, SettleRunTypes, AckRunTypes
     DEF Run
<1>3. ASSUME NEW g \in Ledgers, Finance(g) PROVE TInv'
  BY <1>3, TakeRequestTypes, SkipRequestTypes, PrepareRowTypes, InsertRowTypes,
     BumpVersionTypes, RejectRowTypes, ReplyTypes, AckRequestTypes DEF Finance
<1>4. CASE Disturb
  BY <1>4, CrashUploadTypes, LoseRunnerTypes, CrashRunnerTypes, CrashLedgerTypes,
     LockLapsesTypes DEF Disturb
<1>5. CASE UNCHANGED vars
  BY <1>5 DEF vars, Calls, QueuedWaits, TakenWaits, OneQueued, OneTaken, QueuedOrTaken
<1> QED BY <1>1, <1>2, <1>3, <1>4, <1>5 DEF Next

LEMMA AlwaysTInv == Spec => []TInv
BY InitTypes, StepTypes, PTL DEF Spec

\* The state of an import is well typed: a job has a stored file, a message on
\* the queue has a job, and a busy thread works on a message.
THEOREM TypeCorrect == Spec => []TypeOK
<1>1. TInv => TypeOK
  OBVIOUS
<1> QED BY AlwaysTInv, <1>1, PTL

-----------------------------------------------------------------------------
(* The import lock *)

\* A reply moves the runner that waits for it, and no other.
LEMMA ReplyMoves ==
  ASSUME TInv, NEW g \in Ledgers, Reply(g), NEW r \in Runners
  PROVE  \/ rphase'[r] = rphase[r] /\ outcome'[r] = outcome[r]
         \/ /\ r = item[g].caller /\ rphase[r] = "waiting"
            /\ \/ lreply[g] = "ok" /\ rphase'[r] = "sending"
               \/ rphase'[r] = "finishing" /\ outcome'[r] = "failed"
<1>1. item[g] # Nothing /\ item[g].caller \in Runners \union {Nobody}
  BY DEF Reply, Item
<1>2. CASE item[g].caller = Nobody
  BY <1>2 DEF Reply
<1>3. CASE item[g].caller # Nobody /\ lreply[g] = "ok"
  <2>1. rphase[item[g].caller] = "waiting"
    BY <1>1, <1>3 DEF Calls, TakenWaits
  <2> QED BY <1>1, <1>3, <2>1 DEF Reply
<1>4. CASE item[g].caller # Nobody /\ lreply[g] = "error"
  <2>1. rphase[item[g].caller] = "waiting"
    BY <1>1, <1>4 DEF Calls, TakenWaits
  <2> QED BY <1>1, <1>4, <2>1 DEF Reply, FailJob
<1> QED BY <1>2, <1>3, <1>4

LockInv ==
    /\ \A r \in Runners : Importing(r) => rcopy[r].job \in lock
    /\ LockExclusive

LEMMA RunKeepsLock ==
  ASSUME ~RedisMayFail, TInv, LockInv, NEW r \in Runners, Run(r)
  PROVE  LockInv'
<1> USE DEF LockInv, LockExclusive, Importing
<1>1. ASSUME NEW c \in Copy, DeliverRun(r, c) PROVE LockInv'
  BY <1>1 DEF DeliverRun
<1>2. CASE SkipRun(r)
  BY <1>2 DEF SkipRun, Return, RunnerTo
<1>3. CASE ClaimRun(r)
  BY <1>3 DEF ClaimRun, RunnerTo
<1>4. CASE AcquireLock(r)
  BY <1>4 DEF AcquireLock, RunnerTo
<1>5. CASE LockTaken(r)
  BY <1>5 DEF LockTaken, Return, RunnerTo
<1>6. CASE MarkRunning(r)
  BY <1>6 DEF MarkRunning
<1>7. CASE ParseFile(r) \/ ParseFails(r)
  BY <1>7 DEF ParseFile, ParseFails, RunnerTo
<1>8. CASE StartedEventFails(r)
  BY <1>8 DEF StartedEventFails, RunnerTo
<1>9. ASSUME NEW k \in Rows, SendRow(r, k) PROVE LockInv'
  BY <1>9 DEF SendRow
<1>10. CASE RequestTimesOut(r)
  BY <1>10 DEF RequestTimesOut
<1>11. CASE EndParsed(r) \/ BusFails(r)
  BY <1>11 DEF EndParsed, BusFails, RunnerTo
<1>12. CASE CommitOutcome(r)
  BY <1>12 DEF CommitOutcome
<1>13. CASE ReleaseLock(r)
  BY <1>13 DEF ReleaseLock, RunnerTo
<1>14. CASE SettleRun(r)
  BY <1>14 DEF SettleRun
<1>15. CASE AckRun(r)
  BY <1>15 DEF AckRun, EndRun
<1> QED BY <1>1, <1>2, <1>3, <1>4, <1>5, <1>6, <1>7, <1>8, <1>9, <1>10, <1>11, <1>12,
           <1>13, <1>14, <1>15 DEF Run

LEMMA StepLock ==
  ASSUME ~RedisMayFail, ~LockMayLapse, TInv, LockInv, [Next]_vars
  PROVE  LockInv'
<1> USE DEF LockInv, LockExclusive, Importing
<1>1. CASE Uploads
  BY <1>1 DEF Uploads, Upload, StoreFile, FileExists, CreateJob, PublishRun, EndUpload
<1>2. ASSUME NEW r \in Runners, Run(r) PROVE LockInv'
  BY <1>2, RunKeepsLock
<1>3. ASSUME NEW g \in Ledgers, Finance(g) PROVE LockInv'
  <2>1. CASE Reply(g)
    <3>1. \A r \in Runners : Importing(r)' => Importing(r)
      BY <2>1, ReplyMoves
    <3> QED BY <2>1, <3>1 DEF Reply, Replied
  <2>2. CASE ~Reply(g)
    BY <1>3, <2>2 DEF Finance, TakeRequest, SkipRequest, PrepareRow, InsertRow, BumpVersion,
                      RejectRow, AckRequest, LedgerTo, EndRequest
  <2> QED BY <2>1, <2>2
<1>4. ASSUME NEW r \in Runners, LoseRunner(r) \/ CrashRunner(r) PROVE LockInv'
  BY <1>4 DEF LoseRunner, CrashRunner, EndRun
<1>5. CASE Disturb /\ ~(\E r \in Runners : LoseRunner(r) \/ CrashRunner(r))
  BY <1>5 DEF Disturb, CrashUpload, EndUpload, CrashLedger, EndRequest, LockLapses
<1>6. CASE UNCHANGED vars
  BY <1>6 DEF vars
<1> QED BY <1>1, <1>2, <1>3, <1>4, <1>5, <1>6 DEF Next, Disturb

\* ImportLock works: while Redis answers and no key reaches its TTL, at most one
\* runner is inside process_import_job for a job, whatever is redelivered.
THEOREM LockExcludes ==
  ASSUME ~RedisMayFail, ~LockMayLapse
  PROVE  Spec => []LockExclusive
<1>1. Init => LockInv
  BY DEF Init, LockInv, LockExclusive, Importing
<1>2. TInv /\ LockInv /\ [Next]_vars => LockInv'
  BY StepLock
<1>3. LockInv => LockExclusive
  BY DEF LockInv
<1> QED BY <1>1, <1>2, <1>3, AlwaysTInv, PTL DEF Spec

-----------------------------------------------------------------------------
(* The message guard *)

\* Runner r was let through by the guard and has not given the job its status.
Chosen(r) == rphase[r] \in {"claimed", "locked", "marked", "sending", "waiting", "finishing"}

OnceInv ==
    /\ \A r \in Runners : Chosen(r) =>
          rcopy[r].job \in claimed /\ job[rcopy[r].job] \notin Final
    /\ \A r, s \in Runners :
          Chosen(r) /\ Chosen(s) /\ rcopy[r].job = rcopy[s].job => r = s
    /\ \A j \in Jobs : job[j] \in Final => j \in claimed

FinalKept == \A j \in Jobs : job[j] \in Final => job'[j] = job[j]

LEMMA RunOnce ==
  ASSUME GuardEnabled, TInv, OnceInv, NEW r \in Runners, Run(r)
  PROVE  OnceInv' /\ FinalKept
<1> USE DEF OnceInv, FinalKept, Chosen
<1>1. ASSUME NEW c \in Copy, DeliverRun(r, c) PROVE OnceInv' /\ FinalKept
  BY <1>1 DEF DeliverRun
<1>2. CASE SkipRun(r) \/ LockTaken(r)
  BY <1>2 DEF SkipRun, LockTaken, Return, RunnerTo
<1>3. CASE ClaimRun(r)
  BY <1>3 DEF ClaimRun, RunnerTo, Copy
<1>4. CASE AcquireLock(r)
  BY <1>4 DEF AcquireLock, RunnerTo
<1>5. CASE MarkRunning(r)
  BY <1>5 DEF MarkRunning
<1>6. CASE ParseFile(r) \/ ParseFails(r)
  BY <1>6 DEF ParseFile, ParseFails, RunnerTo
<1>7. CASE StartedEventFails(r)
  BY <1>7 DEF StartedEventFails, RunnerTo
<1>8. ASSUME NEW k \in Rows, SendRow(r, k) PROVE OnceInv' /\ FinalKept
  BY <1>8 DEF SendRow
<1>9. CASE RequestTimesOut(r)
  BY <1>9 DEF RequestTimesOut
<1>10. CASE EndParsed(r) \/ BusFails(r)
  BY <1>10 DEF EndParsed, BusFails, RunnerTo
<1>11. CASE CommitOutcome(r)
  BY <1>11 DEF CommitOutcome
<1>12. CASE ReleaseLock(r)
  BY <1>12 DEF ReleaseLock, RunnerTo
<1>13. CASE SettleRun(r)
  BY <1>13 DEF SettleRun
<1>14. CASE AckRun(r)
  BY <1>14 DEF AckRun, EndRun
<1> QED BY <1>1, <1>2, <1>3, <1>4, <1>5, <1>6, <1>7, <1>8, <1>9, <1>10, <1>11, <1>12,
           <1>13, <1>14 DEF Run

LEMMA StepOnce ==
  ASSUME GuardEnabled, TInv, OnceInv, [Next]_vars
  PROVE  OnceInv' /\ FinalKept
<1> USE DEF OnceInv, FinalKept, Chosen
<1>1. CASE Uploads
  BY <1>1 DEF Uploads, Upload, StoreFile, FileExists, CreateJob, PublishRun, EndUpload
<1>2. ASSUME NEW r \in Runners, Run(r) PROVE OnceInv' /\ FinalKept
  BY <1>2, RunOnce
<1>3. ASSUME NEW g \in Ledgers, Finance(g) PROVE OnceInv' /\ FinalKept
  <2>1. CASE Reply(g)
    <3>1. \A r \in Runners : Chosen(r)' => Chosen(r)
      BY <2>1, ReplyMoves
    <3> QED BY <2>1, <3>1 DEF Reply, Replied
  <2>2. CASE ~Reply(g)
    BY <1>3, <2>2 DEF Finance, TakeRequest, SkipRequest, PrepareRow, InsertRow, BumpVersion,
                      RejectRow, AckRequest, LedgerTo, EndRequest
  <2> QED BY <2>1, <2>2
<1>4. ASSUME NEW r \in Runners, LoseRunner(r) \/ CrashRunner(r) PROVE OnceInv' /\ FinalKept
  BY <1>4 DEF LoseRunner, CrashRunner, EndRun
<1>5. CASE Disturb /\ ~(\E r \in Runners : LoseRunner(r) \/ CrashRunner(r))
  BY <1>5 DEF Disturb, CrashUpload, EndUpload, CrashLedger, EndRequest, LockLapses
<1>6. CASE UNCHANGED vars
  BY <1>6 DEF vars
<1> QED BY <1>1, <1>2, <1>3, <1>4, <1>5, <1>6 DEF Next, Disturb

\* With the message guard nothing takes a job out of its final status, whatever
\* is redelivered or retried, and also when the import lock fails.
THEOREM FinalStays ==
  ASSUME GuardEnabled
  PROVE  Spec => FinalStatusStable
<1>1. Init => OnceInv
  BY DEF Init, OnceInv, Chosen
<1>2. TInv /\ OnceInv /\ [Next]_vars => OnceInv'
  BY StepOnce
<1>3. TInv /\ OnceInv /\ [Next]_vars => [FinalKept]_vars
  BY StepOnce
<1> QED BY <1>1, <1>2, <1>3, AlwaysTInv, PTL DEF Spec, FinalStatusStable, FinalKept

-----------------------------------------------------------------------------
(* Accounts *)

\* The finance workers about to create an account of the card.
Creating(d) == {g \in Ledgers : lphase[g] = "prepared" /\ ~found[g] /\ CardOf[item[g].row] = d}

\* Every account of a card, there or about to be, is another worker's.
CardInv(d) == accounts[d] + Cardinality(Creating(d)) <= Cardinality(Ledgers)
AccountsInv == \A d \in Cards : CardInv(d)

LEMMA CreatingIsFinite ==
  ASSUME NEW d
  PROVE  /\ IsFiniteSet(Creating(d)) /\ Cardinality(Creating(d)) \in Nat
         /\ Cardinality(Creating(d)) <= Cardinality(Ledgers) /\ Cardinality(Ledgers) \in Nat
<1>1. Creating(d) \subseteq Ledgers
  BY DEF Creating
<1> QED BY <1>1, LedgersAssumption, FS_Subset, FS_CardinalityType

\* A step that creates no account of the card and prepares none.
LEMMA CardKept ==
  ASSUME TInv, TInv', NEW d \in Cards, CardInv(d), accounts'[d] = accounts[d], Creating(d)' \subseteq Creating(d)
  PROVE  CardInv(d)'
<1>1. Cardinality(Creating(d)') <= Cardinality(Creating(d)) /\ Cardinality(Creating(d)') \in Nat
  BY CreatingIsFinite, FS_Subset, FS_CardinalityType
<1>2. accounts[d] \in Nat
  OBVIOUS
<1> QED BY <1>1, <1>2, CreatingIsFinite DEF CardInv

\* No account is created and no worker newly prepares to.
LEMMA AccountsKept ==
  ASSUME TInv, TInv', AccountsInv, UNCHANGED accounts,
         \A g \in Ledgers : lphase'[g] = "prepared" =>
             lphase[g] = "prepared" /\ found'[g] = found[g] /\ item'[g].row = item[g].row
  PROVE  AccountsInv'
<1>1. ASSUME NEW d \in Cards PROVE Creating(d)' \subseteq Creating(d)
  BY DEF Creating
<1> QED BY <1>1, CardKept DEF AccountsInv

LEMMA PrepareKeepsAccounts ==
  ASSUME TInv, TInv', AccountsInv, NEW g \in Ledgers, PrepareRow(g)
  PROVE  AccountsInv'
<1>1. /\ item[g] \in Item /\ item'[g].row = item[g].row /\ UNCHANGED accounts
      /\ \A h \in Ledgers \ {g} : lphase'[h] = lphase[h] /\ found'[h] = found[h] /\ item'[h] = item[h]
  BY DEF PrepareRow, LedgerTo, Item
<1> DEFINE c == CardOf[item[g].row]
<1>2. c \in Cards
  BY <1>1 DEF Item
<1>3. found'[g] = (accounts[c] > 0)
  BY DEF PrepareRow
<1> HIDE DEF c
<1>4. ASSUME NEW d \in Cards PROVE CardInv(d)'
  <2>1. CASE accounts[d] = 0
    <3>1. Cardinality(Creating(d)') <= Cardinality(Ledgers) /\ Cardinality(Creating(d)') \in Nat
      <4>1. Creating(d)' \subseteq Ledgers
        BY DEF Creating
      <4> QED BY <4>1, LedgersAssumption, FS_Subset, FS_CardinalityType
    <3>2. accounts'[d] = 0
      BY <1>1, <2>1
    <3> QED BY <3>1, <3>2, CreatingIsFinite DEF CardInv
  <2>2. CASE accounts[d] # 0
    <3>1. accounts[d] \in Nat /\ accounts[d] > 0
      BY <2>2
    <3>2. ASSUME d = c PROVE found'[g]
      BY <1>3, <3>1, <3>2
    <3>3. CardOf[item'[g].row] = c
      BY <1>1 DEF c
    <3>4. g \notin Creating(d)'
      BY <3>2, <3>3 DEF Creating
    <3>5. Creating(d)' \subseteq Creating(d)
      BY <1>1, <3>4 DEF Creating
    <3> QED BY <1>1, <3>5, CardKept DEF AccountsInv
  <2> QED BY <2>1, <2>2
<1> QED BY <1>4 DEF AccountsInv

LEMMA InsertKeepsAccounts ==
  ASSUME TInv, TInv', AccountsInv, NEW g \in Ledgers, InsertRow(g)
  PROVE  AccountsInv'
<1>1. /\ item[g] \in Item /\ lphase[g] = "prepared" /\ lphase'[g] # "prepared"
      /\ \A h \in Ledgers \ {g} : lphase'[h] = lphase[h]
      /\ UNCHANGED <<item, found>>
  BY DEF InsertRow, LedgerTo
<1> DEFINE c == CardOf[item[g].row]
<1>2. c \in Cards
  BY <1>1 DEF Item
<1>3. accounts' = IF found[g] THEN accounts ELSE Add(accounts, c)
  BY DEF InsertRow
<1>4. ASSUME NEW d PROVE Creating(d)' \subseteq Creating(d) \ {g}
  BY <1>1 DEF Creating
<1>5. c = CardOf[item[g].row]
  OBVIOUS
<1> HIDE DEF c
<1>6. ASSUME NEW d \in Cards PROVE CardInv(d)'
  <2>1. CASE d = c /\ ~found[g]
    <3>1. g \in Creating(d)
      BY <1>1, <1>5, <2>1 DEF Creating
    <3>2. accounts'[d] = accounts[d] + 1 /\ accounts[d] \in Nat
      BY <1>2, <1>3, <2>1 DEF Add
    <3>3. Cardinality(Creating(d) \ {g}) = Cardinality(Creating(d)) - 1 /\ IsFiniteSet(Creating(d) \ {g})
      BY <3>1, CreatingIsFinite, FS_RemoveElement
    <3>4. /\ Cardinality(Creating(d)') <= Cardinality(Creating(d) \ {g})
          /\ Cardinality(Creating(d)') \in Nat
      BY <1>4, <3>3, FS_Subset, FS_CardinalityType
    <3>5. CardInv(d)
      BY DEF AccountsInv
    <3> QED BY <3>2, <3>3, <3>4, <3>5, CreatingIsFinite DEF CardInv
  <2>2. CASE ~(d = c /\ ~found[g])
    <3>1. accounts'[d] = accounts[d]
      BY <1>2, <1>3, <2>2 DEF Add
    <3> QED BY <1>4, <3>1, CardKept DEF AccountsInv
  <2> QED BY <2>1, <2>2
<1> QED BY <1>6 DEF AccountsInv

\* A worker lets go of its request.
LEMMA EndKeepsAccounts ==
  ASSUME TInv, TInv', AccountsInv, NEW g \in Ledgers, EndRequest(g)
  PROVE  AccountsInv'
<1>1. lphase'[g] = "idle" /\ UNCHANGED accounts
  BY DEF EndRequest
<1>2. \A h \in Ledgers \ {g} : lphase'[h] = lphase[h] /\ found'[h] = found[h] /\ item'[h] = item[h]
  BY DEF EndRequest
<1>3. ASSUME NEW h \in Ledgers, lphase'[h] = "prepared"
      PROVE  lphase[h] = "prepared" /\ found'[h] = found[h] /\ item'[h].row = item[h].row
  BY <1>1, <1>2, <1>3
<1> QED BY <1>1, <1>3, AccountsKept

LEMMA FinanceKeepsAccounts ==
  ASSUME TInv, TInv', AccountsInv, NEW g \in Ledgers, Finance(g)
  PROVE  AccountsInv'
<1>1. ASSUME NEW i \in Item, TakeRequest(g, i) PROVE AccountsInv'
  BY <1>1, AccountsKept DEF TakeRequest
<1>2. CASE SkipRequest(g) \/ BumpVersion(g) \/ RejectRow(g)
  BY <1>2, AccountsKept DEF SkipRequest, BumpVersion, RejectRow, LedgerTo
<1>5. CASE Reply(g)
  BY <1>5, AccountsKept DEF Reply, Replied
<1>6. CASE AckRequest(g)
  BY <1>6, EndKeepsAccounts DEF AckRequest
<1> QED BY <1>1, <1>2, <1>5, <1>6, PrepareKeepsAccounts, InsertKeepsAccounts DEF Finance

LEMMA StepAccounts ==
  ASSUME TInv, TInv', AccountsInv, [Next]_vars
  PROVE  AccountsInv'
<1>1. ASSUME NEW g \in Ledgers, Finance(g) PROVE AccountsInv'
  BY <1>1, FinanceKeepsAccounts
<1>2. ASSUME NEW g \in Ledgers, CrashLedger(g) PROVE AccountsInv'
  BY <1>2, EndKeepsAccounts DEF CrashLedger
<1>3. ASSUME NEW r \in Runners, Run(r) \/ CrashRunner(r) PROVE AccountsInv'
  <2>1. UNCHANGED <<accounts, lphase, found>>
    BY <1>3 DEF Run, DeliverRun, SkipRun, ClaimRun, AcquireLock, LockTaken, MarkRunning,
                ParseFile, ParseFails, StartedEventFails, SendRow, RequestTimesOut, EndParsed,
                BusFails, CommitOutcome, ReleaseLock, SettleRun, AckRun, EndRun, Return,
                RunnerTo, CrashRunner
  <2>2. \A g \in Ledgers : lphase[g] = "prepared" => item'[g].row = item[g].row
    <3>1. CASE RequestTimesOut(r) \/ CrashRunner(r)
      BY <3>1 DEF RequestTimesOut, CrashRunner, Abandon, Item
    <3>2. CASE ~(RequestTimesOut(r) \/ CrashRunner(r))
      BY <1>3, <3>2 DEF Run, DeliverRun, SkipRun, ClaimRun, AcquireLock, LockTaken,
                MarkRunning, ParseFile, ParseFails, StartedEventFails, SendRow, EndParsed,
                BusFails, CommitOutcome, ReleaseLock, SettleRun, AckRun, EndRun, Return,
                RunnerTo
    <3> QED BY <3>1, <3>2
  <2> QED BY <2>1, <2>2, AccountsKept
<1>4. CASE Uploads
  BY <1>4, AccountsKept DEF Uploads, Upload, StoreFile, FileExists, CreateJob, PublishRun, EndUpload, ledgers, finance
<1>5. ASSUME NEW r \in Runners, LoseRunner(r) PROVE AccountsInv'
  BY <1>5, AccountsKept DEF LoseRunner
<1>6. ASSUME NEW u \in Uploaders, CrashUpload(u) PROVE AccountsInv'
  BY <1>6, AccountsKept DEF CrashUpload, EndUpload
<1>7. ASSUME NEW j \in Jobs, LockLapses(j) PROVE AccountsInv'
  BY <1>7, AccountsKept DEF LockLapses
<1>8. CASE UNCHANGED vars
  BY <1>8, AccountsKept DEF vars
<1> QED BY <1>1, <1>2, <1>3, <1>4, <1>5, <1>6, <1>7, <1>8 DEF Next, Disturb

\* For any number of finance workers a card gets an account of each at most: only
\* look-ups from before its first account is committed create another. However
\* often its rows are sent, and wherever a worker dies, the later ones reuse it.
THEOREM AccountsPerWorker == Spec => []AccountsReused
<1>1. Init => AccountsInv
  <2>1. Init => \A d \in Cards : Creating(d) = {} /\ accounts[d] = 0
    BY DEF Init, Creating
  <2> QED BY <2>1, CreatingIsFinite, FS_EmptySet DEF AccountsInv, CardInv
<1>2. TInv /\ TInv' /\ AccountsInv /\ [Next]_vars => AccountsInv'
  BY StepAccounts
<1>3. TInv /\ AccountsInv => AccountsReused
  <2> SUFFICES ASSUME TInv, AccountsInv, NEW d \in Cards PROVE accounts[d] <= Cardinality(Ledgers)
    BY DEF AccountsReused
  <2>1. accounts[d] \in Nat /\ CardInv(d)
    BY DEF AccountsInv
  <2> QED BY <2>1, CreatingIsFinite DEF CardInv
<1> QED BY <1>1, <1>2, <1>3, AlwaysTInv, PTL DEF Spec

-----------------------------------------------------------------------------
(* What a completed job promises *)

RowsSentBy(r) == RowsOf[source[rcopy[r].job]]

\* The rows r has not yet to send are in the ledger, but for the one it waits
\* for; and that one is once its request is answered with ok.
ImportInv ==
    /\ \A g \in Ledgers : lphase[g] = "inserted" \/ (lphase[g] = "replying" /\ lreply[g] = "ok")
          => item[g].row \in ledger
    /\ \A r \in Runners : rphase[r] = "sending" => RowsSentBy(r) \subseteq ledger \union todo[r]
    /\ \A i \in Item : requests[i] > 0 /\ i.caller # Nobody =>
          RowsSentBy(i.caller) \subseteq ledger \union todo[i.caller] \union {i.row}
    /\ \A g \in Ledgers : item[g] # Nothing /\ item[g].caller # Nobody =>
          RowsSentBy(item[g].caller)
            \subseteq ledger \union todo[item[g].caller] \union {item[g].row}
    /\ \A r \in Runners : rphase[r] = "finishing" /\ outcome[r] # "failed" =>
          RowsSentBy(r) \subseteq ledger
    /\ CompletedMeansImported

LEMMA RunImports ==
  ASSUME TInv, ImportInv, NEW r \in Runners, Run(r)
  PROVE  ImportInv'
<1> USE DEF ImportInv, CompletedMeansImported, Imported, RowsSentBy
<1>0. \A i \in Item : i.caller \in Runners \union {Nobody} /\ i.row \in Rows
  BY DEF Item
<1>1. ASSUME NEW c \in Copy, DeliverRun(r, c) PROVE ImportInv'
  BY <1>0, <1>1 DEF DeliverRun, Calls, QueuedWaits, TakenWaits
<1>2. CASE SkipRun(r)
  BY <1>0, <1>2 DEF SkipRun, Return, RunnerTo
<1>3. CASE ClaimRun(r)
  BY <1>0, <1>3 DEF ClaimRun, RunnerTo
<1>4. CASE AcquireLock(r)
  BY <1>0, <1>4 DEF AcquireLock, RunnerTo
<1>5. CASE MarkRunning(r)
  BY <1>0, <1>5 DEF MarkRunning
<1>6. CASE ParseFile(r)
  BY <1>0, <1>6 DEF ParseFile, RunnerTo, Calls, QueuedWaits, TakenWaits
<1>7. CASE ParseFails(r) \/ BusFails(r)
  BY <1>0, <1>7, FailJobTyped DEF ParseFails, BusFails, RunnerTo
<1>8. CASE StartedEventFails(r)
  BY <1>0, <1>8 DEF StartedEventFails, RunnerTo
<1>9. ASSUME NEW k \in Rows, SendRow(r, k) PROVE ImportInv'
  BY <1>0, <1>9 DEF SendRow, Add, Calls, QueuedWaits, TakenWaits
<1>10. CASE RequestTimesOut(r)
  <2>1. Abandon(r) /\ FailJob(r)
    BY <1>10 DEF RequestTimesOut
  <2>2. /\ UNCHANGED <<job, source, rcopy, todo, lphase, lreply, ledger>>
        /\ rphase' = [rphase EXCEPT ![r] = "finishing"]
        /\ outcome' = [outcome EXCEPT ![r] = "failed"]
    BY <1>10, <2>1, FailJobTyped DEF RequestTimesOut
  <2>3. \A g \in Ledgers : item'[g] # Nothing => item'[g].row = item[g].row
    BY <2>1, AbandonTyped
  <2>4. \A g \in Ledgers : lphase[g] # "idle" => item'[g].row = item[g].row
    BY <2>1, AbandonTyped
  <2>5. /\ \A i \in Item : i.caller # Nobody /\ requests'[i] > 0 =>
              requests'[i] = requests[i]
        /\ \A g \in Ledgers : item'[g] # Nothing /\ item'[g].caller # Nobody =>
              item'[g] = item[g]
    BY <2>1, AbandonCalls
  <2>6. \A g \in Ledgers : lphase'[g] = "inserted" \/ (lphase'[g] = "replying" /\ lreply'[g] = "ok")
          => item'[g].row \in ledger'
    BY <2>2, <2>4
  <2> QED BY <1>0, <2>2, <2>3, <2>5, <2>6
<1>11. CASE EndParsed(r)
  BY <1>0, <1>11 DEF EndParsed, RunnerTo
<1>12. CASE CommitOutcome(r)
  BY <1>0, <1>12 DEF CommitOutcome, Copy
<1>13. CASE ReleaseLock(r)
  BY <1>0, <1>13 DEF ReleaseLock, RunnerTo
<1>14. CASE SettleRun(r)
  BY <1>0, <1>14 DEF SettleRun
<1>15. CASE AckRun(r)
  BY <1>0, <1>15 DEF AckRun, EndRun, Calls, QueuedWaits, TakenWaits
<1>16. CASE LockTaken(r)
  BY <1>0, <1>16 DEF LockTaken, Return, RunnerTo
<1> QED BY <1>1, <1>2, <1>3, <1>4, <1>5, <1>6, <1>7, <1>8, <1>9, <1>10, <1>11, <1>12,
           <1>13, <1>14, <1>15, <1>16 DEF Run

LEMMA FinanceImports ==
  ASSUME ~GuardEnabled, TInv, ImportInv, NEW g \in Ledgers, Finance(g)
  PROVE  ImportInv'
<1> USE DEF ImportInv, CompletedMeansImported, Imported, RowsSentBy
<1>0. \A i \in Item : i.caller \in Runners \union {Nobody} /\ i.row \in Rows
  BY DEF Item
<1>1. ASSUME NEW i \in Item, TakeRequest(g, i) PROVE ImportInv'
  BY <1>0, <1>1 DEF TakeRequest, Remove
<1>2. CASE SkipRequest(g)
  BY <1>2 DEF SkipRequest
<1>3. CASE PrepareRow(g)
  <2>1. /\ item'[g].caller = item[g].caller /\ item'[g].row = item[g].row
        /\ item[g] # Nothing
    BY <1>3 DEF PrepareRow, Item
  <2> QED BY <1>0, <1>3, <2>1 DEF PrepareRow, LedgerTo
<1>4. CASE InsertRow(g)
  BY <1>0, <1>4 DEF InsertRow, LedgerTo
<1>5. CASE BumpVersion(g)
  BY <1>0, <1>5 DEF BumpVersion, LedgerTo
<1>6. CASE RejectRow(g)
  <2>1. /\ item'[g].caller = item[g].caller /\ item'[g].row = item[g].row
        /\ item[g] # Nothing
    BY <1>6 DEF RejectRow, Item
  <2> QED BY <1>0, <1>6, <2>1 DEF RejectRow, LedgerTo
<1>7. CASE Reply(g)
  <2>1. item[g] \in Item /\ item'[g].caller = Nobody /\ item'[g].row = item[g].row
    BY <1>7 DEF Reply, Replied, Item
  <2>2. \A r \in Runners : rphase'[r] = "sending" =>
           RowsSentBy(r) \subseteq ledger \union todo[r]
    BY <1>7, <2>1, ReplyMoves DEF Reply
  <2>3. \A r \in Runners : rphase'[r] = "finishing" /\ outcome'[r] # "failed" =>
           RowsSentBy(r) \subseteq ledger
    BY <1>7, ReplyMoves
  <2> QED BY <1>0, <1>7, <2>1, <2>2, <2>3 DEF Reply, Replied
<1>8. CASE AckRequest(g)
  BY <1>0, <1>8 DEF AckRequest, EndRequest
<1> QED BY <1>1, <1>2, <1>3, <1>4, <1>5, <1>6, <1>7, <1>8 DEF Finance

LEMMA StepImports ==
  ASSUME ~GuardEnabled, TInv, ImportInv, [Next]_vars
  PROVE  ImportInv'
<1> USE DEF ImportInv, CompletedMeansImported, Imported, RowsSentBy
<1>0. \A i \in Item : i.caller \in Runners \union {Nobody} /\ i.row \in Rows
  BY DEF Item
<1>1. ASSUME NEW u \in Uploaders, NEW j \in Jobs, CreateJob(u, j) PROVE ImportInv'
  <2>1. \A r \in Runners : rphase[r] # "idle" => rcopy[r].job # j /\ rcopy[r].job \in Jobs
    BY <1>1 DEF CreateJob, Copy
  <2>2. \A r \in Runners : rphase[r] # "idle" =>
           source'[rcopy[r].job] = source[rcopy[r].job]
    BY <1>1, <2>1 DEF CreateJob
  <2> QED BY <1>0, <1>1, <2>2 DEF CreateJob, Calls, QueuedWaits, TakenWaits
<1>2. CASE Uploads /\ ~(\E u \in Uploaders, j \in Jobs : CreateJob(u, j))
  BY <1>2 DEF Uploads, Upload, StoreFile, FileExists, PublishRun, EndUpload
<1>3. ASSUME NEW r \in Runners, Run(r) PROVE ImportInv'
  BY <1>3, RunImports
<1>4. ASSUME NEW g \in Ledgers, Finance(g) PROVE ImportInv'
  BY <1>4, FinanceImports
<1>5. ASSUME NEW u \in Uploaders, CrashUpload(u) PROVE ImportInv'
  BY <1>5 DEF CrashUpload, EndUpload
<1>6. ASSUME NEW r \in Runners, LoseRunner(r) PROVE ImportInv'
  BY <1>6 DEF LoseRunner
<1>7. ASSUME NEW r \in Runners, CrashRunner(r) PROVE ImportInv'
  <2>1. Abandon(r) /\ EndRun(r)
    BY <1>7 DEF CrashRunner
  <2>2. UNCHANGED <<job, source, lphase, lreply, ledger>>
    BY <1>7 DEF CrashRunner
  <2>3. \A s \in Runners : s # r => /\ rphase'[s] = rphase[s] /\ rcopy'[s] = rcopy[s]
                                   /\ todo'[s] = todo[s] /\ outcome'[s] = outcome[s]
    BY <2>1 DEF EndRun
  <2>4. rphase'[r] = "idle"
    BY <2>1 DEF EndRun
  <2>5. \A g \in Ledgers : lphase[g] # "idle" => item'[g].row = item[g].row
    BY <2>1, AbandonTyped
  <2>6. /\ \A i \in Item : i.caller # Nobody /\ requests'[i] > 0 =>
              i.caller # r /\ requests'[i] = requests[i]
        /\ \A g \in Ledgers : item'[g] # Nothing /\ item'[g].caller # Nobody =>
              item'[g] = item[g] /\ item[g].caller # r
    BY <2>1, AbandonCalls
  <2>7. \A g \in Ledgers : lphase'[g] = "inserted" \/ (lphase'[g] = "replying" /\ lreply'[g] = "ok")
          => item'[g].row \in ledger'
    BY <2>2, <2>5
  <2> QED BY <1>0, <2>2, <2>3, <2>4, <2>6, <2>7
<1>8. ASSUME NEW g \in Ledgers, CrashLedger(g) PROVE ImportInv'
  BY <1>0, <1>8 DEF CrashLedger, EndRequest, Add
<1>9. ASSUME NEW j \in Jobs, LockLapses(j) PROVE ImportInv'
  BY <1>9 DEF LockLapses
<1>10. CASE UNCHANGED vars
  BY <1>10 DEF vars
<1> QED BY <1>1, <1>2, <1>3, <1>4, <1>5, <1>6, <1>7, <1>8, <1>9, <1>10 DEF Next, Disturb

LEMMA AlwaysImportInv ==
  ASSUME ~GuardEnabled
  PROVE  Spec => []ImportInv
<1>1. Init => ImportInv
  BY DEF Init, ImportInv, CompletedMeansImported, Imported, RowsSentBy
<1>2. TInv /\ ImportInv /\ [Next]_vars => ImportInv'
  BY StepImports
<1> QED BY <1>1, <1>2, AlwaysTInv, PTL DEF Spec

\* Without the message guard a completed job has all its rows in the ledger,
\* whatever times out, is redelivered, fails or dies, and also when two runners
\* import it at once.
THEOREM CompletedIsImported ==
  ASSUME ~GuardEnabled
  PROVE  Spec => []CompletedMeansImported
<1>1. ImportInv => CompletedMeansImported
  BY DEF ImportInv
<1> QED BY <1>1, AlwaysImportInv, PTL

VisibleInv ==
    /\ \A r \in Runners : rphase[r] = "finishing" /\ outcome[r] # "failed" =>
          RowsSentBy(r) \subseteq visible
    /\ CompletedIsVisible

LEMMA BumpShows ==
  ASSUME ~RedisMayFail, Bump(ledger)
  PROVE  visible' = ledger
BY Zenon DEF Bump

LEMMA RunShows ==
  ASSUME ~RedisMayFail, TInv, ImportInv, VisibleInv, NEW r \in Runners, Run(r)
  PROVE  VisibleInv'
<1> USE DEF VisibleInv, CompletedIsVisible, Imported, RowsSentBy
<1>1. ASSUME NEW c \in Copy, DeliverRun(r, c) PROVE VisibleInv'
  BY <1>1 DEF DeliverRun
<1>2. CASE SkipRun(r)
  BY <1>2 DEF SkipRun, Return, RunnerTo
<1>3. CASE LockTaken(r)
  BY <1>3 DEF LockTaken, Return, RunnerTo
<1>4. CASE ClaimRun(r)
  BY <1>4 DEF ClaimRun, RunnerTo
<1>5. CASE AcquireLock(r)
  BY <1>5 DEF AcquireLock, RunnerTo
<1>6. CASE MarkRunning(r)
  BY <1>6 DEF MarkRunning
<1>7. CASE ParseFile(r)
  BY <1>7 DEF ParseFile, RunnerTo
<1>8. CASE ParseFails(r) \/ BusFails(r)
  BY <1>8, FailJobTyped DEF ParseFails, BusFails, RunnerTo
<1>9. CASE StartedEventFails(r)
  BY <1>9 DEF StartedEventFails, RunnerTo
<1>10. ASSUME NEW k \in Rows, SendRow(r, k) PROVE VisibleInv'
  BY <1>10 DEF SendRow
<1>11. CASE RequestTimesOut(r)
  BY <1>11, FailJobTyped DEF RequestTimesOut
<1>12. CASE EndParsed(r)
  <2>1. RowsSentBy(r) \subseteq ledger
    BY <1>12 DEF EndParsed, ImportInv
  <2>2. visible' = ledger \/ (outcome'[r] = "failed" /\ UNCHANGED visible)
    <3> DEFINE s == Parsed(source[rcopy[r].job])
    <3>1. /\ outcome' = [outcome EXCEPT ![r] = s]
          /\ IF s = "failed" THEN UNCHANGED visible ELSE Bump(ledger)
      BY <1>12 DEF EndParsed
    <3>2. CASE s = "failed"
      BY <3>1, <3>2
    <3>3. CASE s # "failed"
      <4>1. Bump(ledger)
        BY <3>1, <3>3
      <4>2. visible' = ledger
        BY <4>1, BumpShows
      <4> QED BY <4>2
    <3> QED BY <3>2, <3>3
  <2> QED BY <1>12, <2>1, <2>2 DEF EndParsed, RunnerTo
<1>13. CASE CommitOutcome(r)
  BY <1>13 DEF CommitOutcome, Copy
<1>14. CASE ReleaseLock(r)
  BY <1>14 DEF ReleaseLock, RunnerTo
<1>15. CASE SettleRun(r)
  BY <1>15 DEF SettleRun
<1>16. CASE AckRun(r)
  BY <1>16 DEF AckRun, EndRun
<1> QED BY <1>1, <1>2, <1>3, <1>4, <1>5, <1>6, <1>7, <1>8, <1>9, <1>10, <1>11, <1>12,
           <1>13, <1>14, <1>15, <1>16 DEF Run

LEMMA StepShows ==
  ASSUME ~RedisMayFail, TInv, ImportInv, VisibleInv, [Next]_vars
  PROVE  VisibleInv'
<1> USE DEF VisibleInv, CompletedIsVisible, Imported, RowsSentBy
<1>1. ASSUME NEW u \in Uploaders, NEW j \in Jobs, CreateJob(u, j) PROVE VisibleInv'
  <2>1. \A r \in Runners : rphase[r] # "idle" => rcopy[r].job # j /\ rcopy[r].job \in Jobs
    BY <1>1 DEF CreateJob, Copy
  <2> QED BY <1>1, <2>1 DEF CreateJob
<1>2. CASE Uploads /\ ~(\E u \in Uploaders, j \in Jobs : CreateJob(u, j))
  BY <1>2 DEF Uploads, Upload, StoreFile, FileExists, PublishRun, EndUpload
<1>3. ASSUME NEW r \in Runners, Run(r) PROVE VisibleInv'
  BY <1>3, RunShows
<1>4. ASSUME NEW g \in Ledgers, Finance(g) PROVE VisibleInv'
  <2>1. CASE Reply(g)
    <3>1. \A r \in Runners : rphase'[r] = "finishing" /\ outcome'[r] # "failed" =>
             rphase[r] = "finishing" /\ outcome[r] # "failed"
      BY <2>1, ReplyMoves
    <3> QED BY <2>1, <3>1 DEF Reply, Replied
  <2>2. CASE BumpVersion(g)
    BY <2>2 DEF BumpVersion, Bump, LedgerTo
  <2>3. CASE ~Reply(g) /\ ~BumpVersion(g)
    BY <1>4, <2>3 DEF Finance, TakeRequest, SkipRequest, PrepareRow, InsertRow, RejectRow,
                      AckRequest, LedgerTo, EndRequest
  <2> QED BY <2>1, <2>2, <2>3
<1>5. ASSUME NEW r \in Runners, LoseRunner(r) \/ CrashRunner(r) PROVE VisibleInv'
  BY <1>5 DEF LoseRunner, CrashRunner, EndRun
<1>6. CASE Disturb /\ ~(\E r \in Runners : LoseRunner(r) \/ CrashRunner(r))
  BY <1>6 DEF Disturb, CrashUpload, EndUpload, CrashLedger, EndRequest, LockLapses
<1>7. CASE UNCHANGED vars
  BY <1>7 DEF vars
<1> QED BY <1>1, <1>2, <1>3, <1>4, <1>5, <1>6, <1>7 DEF Next, Disturb

\* While Redis counts every bump, readers of versioned caches see the rows of a
\* completed job, also when finance_service died between commit and bump.
THEOREM CompletedIsShown ==
  ASSUME ~GuardEnabled, ~RedisMayFail
  PROVE  Spec => []CompletedIsVisible
<1>1. Init => VisibleInv
  BY DEF Init, VisibleInv, CompletedIsVisible, Imported
<1>2. TInv /\ ImportInv /\ VisibleInv /\ [Next]_vars => VisibleInv'
  BY StepShows
<1>3. VisibleInv => CompletedIsVisible
  BY DEF VisibleInv
<1> QED BY <1>1, <1>2, <1>3, AlwaysTInv, AlwaysImportInv, PTL DEF Spec

=============================================================================
