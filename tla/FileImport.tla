------------------------------ MODULE FileImport ------------------------------
(***************************************************************************)
(* The import of one user's spreadsheets: files.upload.create stores the   *)
(* file and an import job and publishes files.import.run; runners, worker  *)
(* threads of file_service, parse the file and send its rows to finance    *)
(* workers, which create missing accounts and insert the rows.             *)
(*                                                                         *)
(* The bus is MessageWorker's, cut down to what an import sees of it: a    *)
(* delivery that may be repeated, a guard that skips repeated message_ids, *)
(* and requests that may time out.  A row stands for the chunk it is sent  *)
(* in and is told apart by its dedupe_key, which the parser hashes from    *)
(* the position and the content of the row.                                *)
(***************************************************************************)
EXTENDS Naturals, FiniteSets

CONSTANTS
    Files,           \* file contents, told apart by their sha256
    Rows,            \* dedupe_keys of parsed rows
    RowsOf,          \* the rows a file parses to
    CardOf,          \* the card (card_last4) of each row
    Faulty,          \* files whose parsing also reports errors
    Jobs,            \* import_ids
    Uploaders,       \* threads that run files.upload.create
    Runners,         \* threads that run files.import.run
    Ledgers,         \* threads that run transactions.bulk_create
    MaxRetries,      \* max_retries of the message worker
    GuardEnabled,    \* the workers skip message_ids claimed before
    RedisMayFail,    \* the import lock and the version bump may fail
    LockMayLapse,    \* an import lock may reach its TTL
    BusMayFail,      \* sending an event or a request may raise
    FinanceMayFail,  \* bulk_create may answer with an error
    StorageMayFail,  \* fetching the file may raise
    MaxFaults,       \* bound: crashes and lost connections
    Nobody,          \* the caller of a request nobody waits for any more
    Nothing          \* what an idle thread works on

Cards == {CardOf[k] : k \in Rows}
Copy == [job : Jobs, attempts : 0..MaxRetries]
Item == [row : Rows, caller : Runners \union {Nobody}, claimed : BOOLEAN]

ASSUME FileImportAssumption ==
    /\ RowsOf \in [Files -> SUBSET Rows]
    /\ DOMAIN CardOf = Rows
    /\ Faulty \subseteq Files
    /\ MaxRetries \in Nat
    /\ {GuardEnabled, RedisMayFail, LockMayLapse, BusMayFail, FinanceMayFail,
        StorageMayFail} \subseteq BOOLEAN
    /\ MaxFaults \in Nat
    /\ Nobody \notin Runners
    /\ Nothing \notin Files \union Copy \union Item

ASSUME LedgersAssumption == IsFiniteSet(Ledgers)

VARIABLES
    files,       \* uploaded_files rows
    job,         \* import_jobs.status, none without a row
    source,      \* import_jobs.file_id
    uphase,      \* where each upload is
    ufile,       \* the file it stores
    ujob,        \* the job it created
    runs,        \* files.import.run copies on the queue, retry queue included
    claimed,     \* jobs whose message_id was claimed
    lock,        \* jobs with a live import:lock key
    rphase,      \* where each runner is
    rcopy,       \* the copy it processes
    rheld,       \* the broker still counts that delivery as unacked
    todo,        \* rows it has still to send
    outcome,     \* the status it is about to give the job
    rreply,      \* the reply its handler returned
    requests,    \* transactions.bulk_create requests on the queue
    lphase,      \* where each finance worker is
    item,        \* the request it processes
    found,       \* it has found the card's account
    lreply,      \* the reply its handler returned
    ledger,      \* transactions rows
    visible,     \* those inserted before the latest version bump
    accounts,    \* accounts of each card
    faults       \* crashes and lost connections so far

jobs == <<files, job, source>>
uploads == <<uphase, ufile, ujob>>
messages == <<runs, claimed>>
runners == <<rphase, rcopy, rheld, todo, outcome, rreply>>
ledgers == <<lphase, item, found, lreply>>
finance == <<ledger, visible, accounts>>
vars == <<jobs, uploads, messages, lock, runners, requests, ledgers, finance, faults>>

Final == {"completed", "partially_completed", "failed"}
RunnerPhases == {"idle", "received", "claimed", "locked", "marked", "sending", "waiting",
                 "finishing", "releasing", "settling", "acking"}
LedgerPhases == {"idle", "received", "prepared", "inserted", "replying", "acking"}

JobsTyped ==
    /\ files \subseteq Files
    /\ job \in [Jobs -> {"none", "queued", "running"} \union Final]
    /\ source \in [Jobs -> Files \union {Nothing}]
    /\ \A j \in Jobs : job[j] # "none" => source[j] \in files

UploadsTyped ==
    /\ uphase \in [Uploaders -> {"idle", "new", "stored", "queued"}]
    /\ ufile \in [Uploaders -> Files \union {Nothing}]
    /\ ujob \in [Uploaders -> Jobs \union {Nothing}]

MessagesTyped ==
    /\ runs \in [Copy -> Nat]
    /\ \A c \in Copy : runs[c] > 0 => job[c.job] # "none"
    /\ claimed \subseteq Jobs
    /\ lock \subseteq Jobs

RunnersTyped ==
    /\ rphase \in [Runners -> RunnerPhases]
    /\ rcopy \in [Runners -> Copy \union {Nothing}]
    /\ \A r \in Runners : rphase[r] # "idle" => rcopy[r] \in Copy
    /\ rheld \in [Runners -> BOOLEAN]
    /\ todo \in [Runners -> SUBSET Rows]
    /\ outcome \in [Runners -> Final]
    /\ rreply \in [Runners -> {"ok", "error"}]

RequestsTyped ==
    /\ requests \in [Item -> Nat]
    /\ item \in [Ledgers -> Item \union {Nothing}]
    /\ \A g \in Ledgers : lphase[g] # "idle" => item[g] \in Item

LedgersTyped ==
    /\ lphase \in [Ledgers -> LedgerPhases]
    /\ found \in [Ledgers -> BOOLEAN]
    /\ lreply \in [Ledgers -> {"ok", "error"}]

FinanceTyped ==
    /\ ledger \subseteq Rows
    /\ visible \subseteq ledger
    /\ accounts \in [Cards -> Nat]

\* Every variable has its type; a job has a stored file, and a message on the
\* queue has a job.
TypeOK ==
    /\ JobsTyped /\ UploadsTyped /\ MessagesTyped /\ RunnersTyped
    /\ RequestsTyped /\ LedgersTyped /\ FinanceTyped
    /\ faults \in 0..MaxFaults

Init ==
    /\ files = {}
    /\ job = [j \in Jobs |-> "none"]
    /\ source = [j \in Jobs |-> Nothing]
    /\ uphase = [u \in Uploaders |-> "idle"]
    /\ ufile = [u \in Uploaders |-> Nothing]
    /\ ujob = [u \in Uploaders |-> Nothing]
    /\ runs = [c \in Copy |-> 0]
    /\ claimed = {} /\ lock = {}
    /\ rphase = [r \in Runners |-> "idle"]
    /\ rcopy = [r \in Runners |-> Nothing]
    /\ rheld = [r \in Runners |-> FALSE]
    /\ todo = [r \in Runners |-> {}]
    /\ outcome = [r \in Runners |-> "failed"]
    /\ rreply = [r \in Runners |-> "ok"]
    /\ requests = [i \in Item |-> 0]
    /\ lphase = [g \in Ledgers |-> "idle"]
    /\ item = [g \in Ledgers |-> Nothing]
    /\ found = [g \in Ledgers |-> FALSE]
    /\ lreply = [g \in Ledgers |-> "ok"]
    /\ ledger = {} /\ visible = {}
    /\ accounts = [d \in Cards |-> 0]
    /\ faults = 0

Add(q, x) == [q EXCEPT ![x] = @ + 1]
Remove(q, x) == [q EXCEPT ![x] = @ - 1]

-----------------------------------------------------------------------------
(* files.upload.create *)

\* The file is looked up by its sha256.
Upload(u, f) ==
    /\ uphase[u] = "idle"
    /\ uphase' = [uphase EXCEPT ![u] = IF f \in files THEN "stored" ELSE "new"]
    /\ ufile' = [ufile EXCEPT ![u] = f]
    /\ UNCHANGED <<jobs, ujob, messages, lock, runners, requests, ledgers, finance,
                   faults>>

\* The handler returns, with an answer or an exception.
EndUpload(u) ==
    /\ uphase' = [uphase EXCEPT ![u] = "idle"]
    /\ ufile' = [ufile EXCEPT ![u] = Nothing]
    /\ ujob' = [ujob EXCEPT ![u] = Nothing]

StoreFile(u) ==
    /\ uphase[u] = "new"
    /\ ufile[u] \notin files
    /\ files' = files \union {ufile[u]}
    /\ uphase' = [uphase EXCEPT ![u] = "stored"]
    /\ UNCHANGED <<job, source, ufile, ujob, messages, lock, runners, requests, ledgers,
                   finance, faults>>

\* Another upload of the same file was first: the unique key refuses the row.
FileExists(u) ==
    /\ uphase[u] = "new"
    /\ ufile[u] \in files
    /\ EndUpload(u)
    /\ UNCHANGED <<jobs, messages, lock, runners, requests, ledgers, finance, faults>>

\* Mutant: files.import.run is published before the job is committed.
CreateJobUncommitted(u, j) ==
    /\ uphase[u] = "stored"
    /\ job[j] = "none"
    /\ uphase' = [uphase EXCEPT ![u] = "queued"]
    /\ ujob' = [ujob EXCEPT ![u] = j]
    /\ UNCHANGED <<jobs, ufile, messages, lock, runners, requests, ledgers, finance,
                   faults>>

CreateJob(u, j) ==
    /\ uphase[u] = "stored"
    /\ job[j] = "none"
    /\ job' = [job EXCEPT ![j] = "queued"]
    /\ source' = [source EXCEPT ![j] = ufile[u]]
    /\ uphase' = [uphase EXCEPT ![u] = "queued"]
    /\ ujob' = [ujob EXCEPT ![u] = j]
    /\ UNCHANGED <<files, ufile, messages, lock, runners, requests, ledgers, finance,
                   faults>>

PublishRun(u) ==
    /\ uphase[u] = "queued"
    /\ \/ runs' = Add(runs, [job |-> ujob[u], attempts |-> 0])
       \/ BusMayFail /\ UNCHANGED runs
    /\ EndUpload(u)
    /\ UNCHANGED <<jobs, claimed, lock, runners, requests, ledgers, finance, faults>>

CrashUpload(u) ==
    /\ uphase[u] # "idle"
    /\ faults < MaxFaults
    /\ faults' = faults + 1
    /\ EndUpload(u)
    /\ UNCHANGED <<jobs, messages, lock, runners, requests, ledgers, finance>>

-----------------------------------------------------------------------------
(* files.import.run *)

\* A step of runner r that changes only where it is.
RunnerTo(r, p) ==
    /\ rphase' = [rphase EXCEPT ![r] = p]
    /\ UNCHANGED <<jobs, uploads, runs, rcopy, rheld, requests, ledgers, faults>>

\* Runner r's handler returns reply a.
Return(r, a) ==
    /\ RunnerTo(r, "settling")
    /\ rreply' = [rreply EXCEPT ![r] = a]
    /\ UNCHANGED <<todo, outcome, finance>>

\* An exception inside the try: the job is to be failed, and the failed event
\* is published, which may raise again.
FailJob(r) ==
    /\ outcome' = [outcome EXCEPT ![r] = "failed"]
    /\ rreply' \in {[rreply EXCEPT ![r] = a] :
                      a \in IF BusMayFail THEN {"ok", "error"} ELSE {"ok"}}

DeliverRun(r, c) ==
    /\ rphase[r] = "idle"
    /\ runs[c] > 0
    /\ runs' = Remove(runs, c)
    /\ rphase' = [rphase EXCEPT ![r] = "received"]
    /\ rcopy' = [rcopy EXCEPT ![r] = c]
    /\ rheld' = [rheld EXCEPT ![r] = TRUE]
    /\ UNCHANGED <<jobs, uploads, claimed, lock, todo, outcome, rreply, requests,
                   ledgers, finance, faults>>

SkipRun(r) ==
    /\ rphase[r] = "received"
    /\ GuardEnabled /\ rcopy[r].job \in claimed
    /\ Return(r, "ok")
    /\ UNCHANGED <<claimed, lock>>

\* Mutant: the claim is set without NX.
ClaimRunWithoutNX(r) ==
    /\ rphase[r] = "received"
    /\ claimed' = IF GuardEnabled THEN claimed \union {rcopy[r].job} ELSE claimed
    /\ RunnerTo(r, "claimed")
    /\ UNCHANGED <<lock, todo, outcome, rreply, finance>>

ClaimRun(r) ==
    /\ rphase[r] = "received"
    /\ GuardEnabled => rcopy[r].job \notin claimed
    /\ claimed' = IF GuardEnabled THEN claimed \union {rcopy[r].job} ELSE claimed
    /\ RunnerTo(r, "claimed")
    /\ UNCHANGED <<lock, todo, outcome, rreply, finance>>

\* Mutant: get and set instead of SET NX, between which others may lock.
AcquireLockAnyway(r) ==
    /\ rphase[r] = "claimed"
    /\ lock' = lock \union {rcopy[r].job}
    /\ RunnerTo(r, "locked")
    /\ UNCHANGED <<claimed, todo, outcome, rreply, finance>>

\* ImportLock.acquire, which answers True when Redis raises.
AcquireLock(r) ==
    /\ rphase[r] = "claimed"
    /\ \/ rcopy[r].job \notin lock /\ lock' = lock \union {rcopy[r].job}
       \/ RedisMayFail /\ UNCHANGED lock
    /\ RunnerTo(r, "locked")
    /\ UNCHANGED <<claimed, todo, outcome, rreply, finance>>

\* The job is locked: process_import_job returns, and the message counts as done.
LockTaken(r) ==
    /\ rphase[r] = "claimed"
    /\ rcopy[r].job \in lock
    /\ Return(r, "ok")
    /\ UNCHANGED <<claimed, lock>>

MarkRunning(r) ==
    /\ rphase[r] = "locked"
    /\ job' = [job EXCEPT ![rcopy[r].job] = "running"]
    /\ rphase' = [rphase EXCEPT ![r] = "marked"]
    /\ UNCHANGED <<files, source, uploads, messages, lock, rcopy, rheld, todo, outcome,
                   rreply, requests, ledgers, finance, faults>>

\* files.import.started.v1 is out and the file is fetched and parsed.
ParseFile(r) ==
    /\ rphase[r] = "marked"
    /\ todo' = [todo EXCEPT ![r] = RowsOf[source[rcopy[r].job]]]
    /\ RunnerTo(r, "sending")
    /\ UNCHANGED <<claimed, lock, outcome, rreply, finance>>

\* The object store does not give the file.
ParseFails(r) ==
    /\ StorageMayFail
    /\ rphase[r] = "marked"
    /\ FailJob(r)
    /\ RunnerTo(r, "finishing")
    /\ UNCHANGED <<claimed, lock, todo, finance>>

\* Publishing the started event raises, outside the try that fails the job.
StartedEventFails(r) ==
    /\ BusMayFail
    /\ rphase[r] = "marked"
    /\ rreply' = [rreply EXCEPT ![r] = "error"]
    /\ RunnerTo(r, "releasing")
    /\ UNCHANGED <<claimed, lock, todo, outcome, finance>>

SendRow(r, k) ==
    /\ rphase[r] = "sending"
    /\ k \in todo[r]
    /\ todo' = [todo EXCEPT ![r] = @ \ {k}]
    /\ requests' = Add(requests, [row |-> k, caller |-> r, claimed |-> FALSE])
    /\ rphase' = [rphase EXCEPT ![r] = "waiting"]
    /\ UNCHANGED <<jobs, uploads, messages, lock, rcopy, rheld, outcome, rreply, ledgers,
                   finance, faults>>

\* The reply queue of r's request goes away; the request stays behind.
Abandon(r) ==
    LET orphan(i) == [i EXCEPT !.caller = Nobody] IN
    /\ requests' = [i \in Item |->
          IF i.caller = r THEN 0
          ELSE IF i.caller = Nobody THEN requests[i] + requests[[i EXCEPT !.caller = r]]
          ELSE requests[i]]
    /\ item' = [g \in Ledgers |->
          IF item[g] # Nothing /\ item[g].caller = r THEN orphan(item[g]) ELSE item[g]]

\* 60 seconds without an answer from finance_service.
RequestTimesOut(r) ==
    /\ rphase[r] = "waiting"
    /\ rphase' = [rphase EXCEPT ![r] = "finishing"]
    /\ FailJob(r)
    /\ Abandon(r)
    /\ UNCHANGED <<jobs, uploads, messages, lock, rcopy, rheld, todo, lphase, found,
                   lreply, finance, faults>>

Parsed(f) == IF f \notin Faulty THEN "completed"
             ELSE IF RowsOf[f] # {} THEN "partially_completed" ELSE "failed"

\* bump_user_data_version, which Redis may fail to do.
Bump(rows) ==
    visible' \in IF RedisMayFail THEN {visible, rows} ELSE {rows}

\* Mutant: the version is not bumped when the import ends.
EndParsedUnbumped(r) ==
    LET s == Parsed(source[rcopy[r].job]) IN
    /\ rphase[r] = "sending" /\ todo[r] = {}
    /\ outcome' = [outcome EXCEPT ![r] = s]
    /\ rreply' = [rreply EXCEPT ![r] = "ok"]
    /\ RunnerTo(r, "finishing")
    /\ UNCHANGED <<claimed, lock, todo, finance>>

\* Every row is sent; the completed event is out and the version bumped.
EndParsed(r) ==
    LET s == Parsed(source[rcopy[r].job]) IN
    /\ rphase[r] = "sending" /\ todo[r] = {}
    /\ outcome' = [outcome EXCEPT ![r] = s]
    /\ rreply' = [rreply EXCEPT ![r] = "ok"]
    /\ IF s = "failed" THEN UNCHANGED visible ELSE Bump(ledger)
    /\ RunnerTo(r, "finishing")
    /\ UNCHANGED <<claimed, lock, todo, ledger, accounts>>

\* Sending a chunk, or publishing the completed event, raises: the import
\* counts as failed.
BusFails(r) ==
    /\ BusMayFail
    /\ rphase[r] = "sending"
    /\ todo[r] # {} \/ Parsed(source[rcopy[r].job]) # "failed"
    /\ FailJob(r)
    /\ RunnerTo(r, "finishing")
    /\ UNCHANGED <<claimed, lock, todo, finance>>

\* Mutant: a failed job is not committed.
CommitOutcomeUnlessFailed(r) ==
    /\ rphase[r] = "finishing"
    /\ job' = [job EXCEPT ![rcopy[r].job] = IF outcome[r] = "failed" THEN @ ELSE outcome[r]]
    /\ rphase' = [rphase EXCEPT ![r] = "releasing"]
    /\ UNCHANGED <<files, source, uploads, messages, lock, rcopy, rheld, todo, outcome,
                   rreply, requests, ledgers, finance, faults>>

\* The inner finally: the job's status is committed.
CommitOutcome(r) ==
    /\ rphase[r] = "finishing"
    /\ job' = [job EXCEPT ![rcopy[r].job] = outcome[r]]
    /\ rphase' = [rphase EXCEPT ![r] = "releasing"]
    /\ UNCHANGED <<files, source, uploads, messages, lock, rcopy, rheld, todo, outcome,
                   rreply, requests, ledgers, finance, faults>>

\* The outer finally: the lock is deleted, whoever holds it by now.
ReleaseLock(r) ==
    /\ rphase[r] = "releasing"
    /\ \/ lock' = lock \ {rcopy[r].job}
       \/ RedisMayFail /\ UNCHANGED lock
    /\ RunnerTo(r, "settling")
    /\ UNCHANGED <<claimed, todo, outcome, rreply, finance>>

\* An error reply is retried or dead-lettered, unless the connection is gone
\* (MessageWorker).
SettleRun(r) ==
    LET c == rcopy[r] IN
    /\ rphase[r] = "settling"
    /\ runs' = IF rreply[r] = "error" /\ c.attempts < MaxRetries /\ rheld[r]
               THEN Add(runs, [c EXCEPT !.attempts = @ + 1]) ELSE runs
    /\ rphase' = [rphase EXCEPT ![r] = "acking"]
    /\ UNCHANGED <<jobs, uploads, claimed, lock, rcopy, rheld, todo, outcome, rreply,
                   requests, ledgers, finance, faults>>

\* Runner r lets go of its message, and of what its handler kept in memory.
EndRun(r) ==
    /\ rphase' = [rphase EXCEPT ![r] = "idle"]
    /\ rcopy' = [rcopy EXCEPT ![r] = Nothing]
    /\ rheld' = [rheld EXCEPT ![r] = FALSE]
    /\ todo' = [todo EXCEPT ![r] = {}]
    /\ outcome' = [outcome EXCEPT ![r] = "failed"]
    /\ rreply' = [rreply EXCEPT ![r] = "ok"]

AckRun(r) ==
    /\ rphase[r] = "acking"
    /\ EndRun(r)
    /\ UNCHANGED <<jobs, uploads, messages, lock, requests, ledgers, finance, faults>>

RequeueRun(r) == runs' = IF rheld[r] THEN Add(runs, rcopy[r]) ELSE runs

LoseRunner(r) ==
    /\ rheld[r]
    /\ faults < MaxFaults
    /\ faults' = faults + 1
    /\ RequeueRun(r)
    /\ rheld' = [rheld EXCEPT ![r] = FALSE]
    /\ UNCHANGED <<jobs, uploads, claimed, lock, rphase, rcopy, todo, outcome, rreply,
                   requests, ledgers, finance>>

CrashRunner(r) ==
    /\ rphase[r] # "idle"
    /\ faults < MaxFaults
    /\ faults' = faults + 1
    /\ RequeueRun(r)
    /\ Abandon(r)
    /\ EndRun(r)
    /\ UNCHANGED <<jobs, uploads, claimed, lock, lphase, found, lreply, finance>>

\* import_lock_ttl_seconds have passed since the lock was set.
LockLapses(j) ==
    /\ LockMayLapse
    /\ j \in lock
    /\ lock' = lock \ {j}
    /\ UNCHANGED <<jobs, uploads, messages, runners, requests, ledgers, finance, faults>>

-----------------------------------------------------------------------------
(* transactions.bulk_create *)

\* A step of finance worker g that changes only where it is.
LedgerTo(g, p) ==
    /\ lphase' = [lphase EXCEPT ![g] = p]
    /\ UNCHANGED <<jobs, uploads, messages, lock, runners, requests, faults>>

TakeRequest(g, i) ==
    /\ lphase[g] = "idle"
    /\ requests[i] > 0
    /\ requests' = Remove(requests, i)
    /\ lphase' = [lphase EXCEPT ![g] = "received"]
    /\ item' = [item EXCEPT ![g] = i]
    /\ UNCHANGED <<jobs, uploads, messages, lock, runners, found, lreply, finance, faults>>

\* duplicate_skipped is an ok reply.
SkipRequest(g) ==
    /\ lphase[g] = "received"
    /\ GuardEnabled /\ item[g].claimed
    /\ lreply' = [lreply EXCEPT ![g] = "ok"]
    /\ LedgerTo(g, "replying")
    /\ UNCHANGED <<item, found, finance>>

\* The message_id is claimed, and the account of the card is looked up.
PrepareRow(g) ==
    /\ lphase[g] = "received"
    /\ ~(GuardEnabled /\ item[g].claimed)
    /\ item' = [item EXCEPT ![g].claimed = GuardEnabled]
    /\ found' = [found EXCEPT ![g] = accounts[CardOf[item[g].row]] > 0]
    /\ LedgerTo(g, "prepared")
    /\ UNCHANGED <<lreply, finance>>

\* Mutant: the account is created without a look for an existing one.
InsertRowAndAccount(g) ==
    LET k == item[g].row IN
    /\ lphase[g] = "prepared"
    /\ accounts' = Add(accounts, CardOf[k])
    /\ ledger' = ledger \union {k}
    /\ lreply' = [lreply EXCEPT ![g] = "ok"]
    /\ LedgerTo(g, IF k \in ledger THEN "replying" ELSE "inserted")
    /\ UNCHANGED <<item, found, visible>>

\* The account, if it was missing, and the row, unless its dedupe_key is
\* there already, are committed.
InsertRow(g) ==
    LET k == item[g].row IN
    /\ lphase[g] = "prepared"
    /\ accounts' = IF found[g] THEN accounts ELSE Add(accounts, CardOf[k])
    /\ ledger' = ledger \union {k}
    /\ lreply' = [lreply EXCEPT ![g] = "ok"]
    /\ LedgerTo(g, IF k \in ledger THEN "replying" ELSE "inserted")
    /\ UNCHANGED <<item, found, visible>>

BumpVersion(g) ==
    /\ lphase[g] = "inserted"
    /\ Bump(ledger)
    /\ LedgerTo(g, "replying")
    /\ UNCHANGED <<item, found, lreply, ledger, accounts>>

RejectRow(g) ==
    /\ FinanceMayFail
    /\ lphase[g] \in {"received", "prepared"}
    /\ item' = [item EXCEPT ![g].claimed = GuardEnabled]
    /\ lreply' = [lreply EXCEPT ![g] = "error"]
    /\ LedgerTo(g, "replying")
    /\ UNCHANGED <<found, finance>>

\* A step of finance worker g that sends its reply: the request has no caller now.
Replied(g) ==
    /\ lphase' = [lphase EXCEPT ![g] = "acking"]
    /\ item' = [item EXCEPT ![g].caller = Nobody]
    /\ UNCHANGED <<jobs, uploads, messages, lock, rcopy, rheld, todo, requests, found,
                   lreply, finance, faults>>

\* Mutant: _send_transactions does not look at ok.
ReplyUnchecked(g) ==
    LET r == item[g].caller IN
    /\ lphase[g] = "replying"
    /\ rphase' = IF r = Nobody THEN rphase ELSE [rphase EXCEPT ![r] = "sending"]
    /\ UNCHANGED <<outcome, rreply>>
    /\ Replied(g)

\* The reply goes to the runner that waits for it, if any.
Reply(g) ==
    LET r == item[g].caller IN
    /\ lphase[g] = "replying"
    /\ \/ /\ r = Nobody
          /\ UNCHANGED <<rphase, outcome, rreply>>
       \/ /\ r # Nobody /\ lreply[g] = "ok"
          /\ rphase' = [rphase EXCEPT ![r] = "sending"]
          /\ UNCHANGED <<outcome, rreply>>
       \/ /\ r # Nobody /\ lreply[g] = "error"
          /\ rphase' = [rphase EXCEPT ![r] = "finishing"]
          /\ FailJob(r)
    /\ Replied(g)

\* Finance worker g lets go of its request.
EndRequest(g) ==
    /\ lphase' = [lphase EXCEPT ![g] = "idle"]
    /\ item' = [item EXCEPT ![g] = Nothing]
    /\ found' = [found EXCEPT ![g] = FALSE]
    /\ lreply' = [lreply EXCEPT ![g] = "ok"]
    /\ UNCHANGED <<jobs, uploads, messages, lock, runners, finance>>

AckRequest(g) ==
    /\ lphase[g] = "acking"
    /\ EndRequest(g)
    /\ UNCHANGED <<requests, faults>>

\* The process dies: the request is delivered again.
CrashLedger(g) ==
    /\ lphase[g] # "idle"
    /\ faults < MaxFaults
    /\ faults' = faults + 1
    /\ requests' = Add(requests, item[g])
    /\ EndRequest(g)

-----------------------------------------------------------------------------
(* The whole *)

Uploads == \E u \in Uploaders :
    \/ \E f \in Files : Upload(u, f)
    \/ StoreFile(u) \/ FileExists(u) \/ PublishRun(u)
    \/ \E j \in Jobs : CreateJob(u, j)

\* Everything runner r does: handle_files_import_run and the worker around it.
Run(r) ==
    \/ \E c \in Copy : DeliverRun(r, c)
    \/ SkipRun(r) \/ ClaimRun(r) \/ AcquireLock(r) \/ LockTaken(r)
    \/ MarkRunning(r) \/ ParseFile(r) \/ ParseFails(r) \/ StartedEventFails(r)
    \/ \E k \in Rows : SendRow(r, k)
    \/ RequestTimesOut(r) \/ EndParsed(r) \/ BusFails(r)
    \/ CommitOutcome(r) \/ ReleaseLock(r) \/ SettleRun(r) \/ AckRun(r)

\* Everything finance worker g does.
Finance(g) ==
    \/ \E i \in Item : TakeRequest(g, i)
    \/ SkipRequest(g) \/ PrepareRow(g) \/ InsertRow(g) \/ BumpVersion(g)
    \/ RejectRow(g) \/ Reply(g) \/ AckRequest(g)

Disturb ==
    \/ \E u \in Uploaders : CrashUpload(u)
    \/ \E r \in Runners : LoseRunner(r) \/ CrashRunner(r)
    \/ \E g \in Ledgers : CrashLedger(g)
    \/ \E j \in Jobs : LockLapses(j)

Next ==
    \/ Uploads
    \/ \E r \in Runners : Run(r)
    \/ \E g \in Ledgers : Finance(g)
    \/ Disturb

Spec == Init /\ [][Next]_vars

\* Threads that can go on do; nobody has to upload.
Fairness ==
    /\ \A u \in Uploaders : WF_vars(PublishRun(u))
    /\ \A r \in Runners : WF_vars(Run(r))
    /\ \A g \in Ledgers : WF_vars(Finance(g))

FairSpec == Spec /\ Fairness

-----------------------------------------------------------------------------
(* Properties *)

Imported == {j \in Jobs : job[j] \in {"completed", "partially_completed"}}

\* process_import_job gives a job its final status only after finance_service
\* answered every chunk: all rows of a completed job are in the ledger,
\* whatever was redelivered, timed out or crashed in between.
CompletedMeansImported ==
    \A j \in Imported : RowsOf[source[j]] \subseteq ledger

\* A finance worker may die between its commit and its version bump, and the
\* retry inserts nothing and so bumps nothing: the runner's own bump makes the
\* rows of a completed job visible to readers of versioned caches.
CompletedIsVisible ==
    \A j \in Imported : RowsOf[source[j]] \subseteq visible

\* _resolve_account reuses the account of a card, but looks it up without a lock:
\* finance workers that look before the first account of the card is committed
\* create one each.  Nobody who looks later does, so that a card has an account
\* per finance worker at most, and a single worker gives it one, however often
\* its rows are sent and wherever a worker dies.
AccountsReused ==
    \A d \in Cards : accounts[d] <= Cardinality(Ledgers)

Importing(r) ==
    rphase[r] \in {"locked", "marked", "sending", "waiting", "finishing", "releasing"}

\* ImportLock: while its key lives, one runner at a time works on a job, though
\* a lost connection has its message delivered to a second one.
LockExclusive ==
    \A r, s \in Runners :
        Importing(r) /\ Importing(s) /\ rcopy[r].job = rcopy[s].job => r = s

\* With the message guard a redelivered or retried files.import.run leaves a
\* job that has ended as it is: clients that saw its final status need not look
\* again.
FinalStatusStable ==
    [][\A j \in Jobs : job[j] \in Final => job'[j] = job[j]]_vars

\* With a working bus every queued job gets a final status, whatever
\* finance_service, the object store, the parser and Redis do, unless a process
\* dies: nothing takes up the job of a dead runner.
EventuallyFinished ==
    \A j \in Jobs : job[j] = "queued" ~> job[j] \in Final \/ faults > 0

=============================================================================
