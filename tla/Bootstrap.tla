------------------------------ MODULE Bootstrap ------------------------------
(***************************************************************************)
(* What runs before the services: migration_service, which upgrades the    *)
(* schema, resets the data and imports the bootstrap workbook for a demo   *)
(* user, and create_bucket_service.  Each step is a transaction of its     *)
(* own, in PostgreSQL or MinIO; either process may die between two of      *)
(* them, and is started again by hand ("restart: no").                     *)
(***************************************************************************)
EXTENDS Naturals, FiniteSets

CONSTANTS
    NChunks,          \* chunks of CHUNK_SIZE transactions in the workbook
    NChats,           \* chats of build_demo_chat_mocks
    MaxStarts,        \* bound: starts of migration_service
    MaxBucketStarts,  \* bound: starts of create_bucket_service
    MaxStartFaults    \* bound: failures

ASSUME BootstrapAssumption ==
    /\ {NChunks, NChats} \subseteq Nat \ {0}
    /\ {MaxStarts, MaxBucketStarts, MaxStartFaults} \subseteq Nat

VARIABLES
    settings,      \* of this deployment, and what the workbook holds
    legacy,        \* schema_migrations exists, with rows
    revision,      \* alembic_version
    record,        \* status in bootstrap_runs
    content,       \* how often each part of the bootstrap data is in the database
    account,       \* the account of the demo card
    file,          \* the start whose uploaded_files row is there, or 0
    job,           \* status of its import_jobs row
    objects,       \* the starts whose workbook is in the bucket
    bucket,        \* what the uploads bucket is
    bucketRecord,  \* status in bucket_bootstrap_runs
    main,          \* what migration_service is at
    maker,         \* what create_bucket_service is at
    starts,        \* starts of migration_service so far
    bucketStarts,  \* starts of create_bucket_service so far
    startFaults    \* failures so far

seeded == <<record, content, account, file, job>>
storage == <<objects, bucket>>
making == <<bucketRecord, maker, bucketStarts>>
bootstrapVars == <<settings, legacy, revision, seeded, storage, making, main, starts, startFaults>>

\* The user; the chunks, the demo account's transactions and chats.
Parts == {<<"user">>, <<"demo">>} \union ({"chunk"} \X (1..NChunks)) \union ({"chat"} \X (1..NChats))
Nothing == [p \in Parts |-> 0]

BootstrapInit ==
    /\ settings \in [reset : BOOLEAN, excel : BOOLEAN, workbook : {"clean", "partial", "unreadable"},
                     card : BOOLEAN, waits : BOOLEAN]
    /\ legacy \in BOOLEAN
    /\ revision = "none"
    /\ record = "none" /\ content = Nothing /\ account = "none"
    /\ file = 0 /\ job = "none"
    /\ objects = {} /\ bucket = "none"
    /\ bucketRecord = "none"
    /\ main = [at |-> "off", n |-> 0]
    /\ maker = "off"
    /\ starts = 0 /\ bucketStarts = 0 /\ startFaults = 0

MainAt(p) == main.at = p
MainTo(p) == main' = [at |-> p, n |-> 1]
StartFault == startFaults < MaxStartFaults /\ startFaults' = startFaults + 1
Configured == UNCHANGED <<settings, starts, startFaults>>
Schema == UNCHANGED <<legacy, revision>>
Seed(p) == content' = [content EXCEPT ![p] = @ + 1]

-----------------------------------------------------------------------------
(* main: the schema, and the reset *)

\* _needs_legacy_bridge.
NeedsLegacyBridge == legacy /\ revision = "none"

StartMigration ==
    /\ main.at \in {"off", "done"}
    /\ starts < MaxStarts
    /\ starts' = starts + 1
    /\ MainTo(IF NeedsLegacyBridge THEN "stamping" ELSE "upgrading")
    /\ Schema /\ UNCHANGED <<settings, seeded, storage, making, startFaults>>

StampBaseline ==
    /\ MainAt("stamping")
    /\ revision' = "baseline"
    /\ MainTo("upgrading")
    /\ Configured /\ UNCHANGED <<legacy, seeded, storage, making>>

\* All revisions are applied in one transaction.
UpgradeToHead ==
    /\ MainAt("upgrading")
    /\ revision' = "head"
    /\ MainTo("dropping")
    /\ Configured /\ UNCHANGED <<legacy, seeded, storage, making>>

DropLegacy ==
    /\ MainAt("dropping")
    /\ legacy' = FALSE
    /\ MainTo(IF settings.reset THEN "truncating" ELSE "bootstrapping")
    /\ Configured /\ UNCHANGED <<revision, seeded, storage, making>>

\* Mutant: bootstrap_runs is preserved like alembic_version.
TruncateKeepingRuns ==
    /\ MainAt("truncating")
    /\ content' = Nothing /\ account' = "none" /\ file' = 0 /\ job' = "none"
    /\ bucketRecord' = "none"
    /\ MainTo("clearing")
    /\ Configured /\ Schema /\ UNCHANGED <<record, storage, maker, bucketStarts>>

\* Mutant: the bucket is cleared first, and the tables truncated after it.
ClearThenTruncate ==
    /\ \/ /\ MainAt("truncating")
          /\ objects' = {}
          /\ MainTo("clearing")
          /\ UNCHANGED <<seeded, bucketRecord>>
       \/ /\ MainAt("clearing")
          /\ record' = "none" /\ content' = Nothing /\ account' = "none" /\ file' = 0 /\ job' = "none"
          /\ bucketRecord' = "none"
          /\ MainTo("bootstrapping")
          /\ UNCHANGED objects
    /\ Configured /\ Schema /\ UNCHANGED <<bucket, maker, bucketStarts>>

\* _truncate_public_tables: every table but alembic_version.
TruncateTables ==
    /\ MainAt("truncating")
    /\ record' = "none" /\ content' = Nothing /\ account' = "none" /\ file' = 0 /\ job' = "none"
    /\ bucketRecord' = "none"
    /\ MainTo("clearing")
    /\ Configured /\ Schema /\ UNCHANGED <<storage, maker, bucketStarts>>

\* _clear_uploads_bucket: objects that MinIO refuses to delete are logged.
ClearBucket ==
    /\ MainAt("clearing")
    /\ objects' \in SUBSET objects
    /\ bucket = "none" => objects' = objects
    /\ MainTo("bootstrapping")
    /\ Configured /\ Schema /\ UNCHANGED <<seeded, bucket, making>>

-----------------------------------------------------------------------------
(* run_bootstrap *)

SkipBootstrap ==
    /\ MainAt("bootstrapping")
    /\ ~settings.excel
    /\ MainTo("done")
    /\ Configured /\ Schema /\ UNCHANGED <<seeded, storage, making>>

RecordRunning ==
    /\ MainAt("bootstrapping")
    /\ settings.excel
    /\ record' = "running"
    /\ MainTo("user")
    /\ Configured /\ Schema /\ UNCHANGED <<content, account, file, job, storage, making>>

\* users.email is unique.
CreateBootstrapUser ==
    /\ MainAt("user")
    /\ content[<<"user">>] = 0
    /\ Seed(<<"user">>)
    /\ MainTo("storing")
    /\ Configured /\ Schema /\ UNCHANGED <<record, account, file, job, storage, making>>

\* put_bytes makes the bucket if there is none.
StoreWorkbook ==
    /\ MainAt("storing")
    /\ objects' = objects \union {starts}
    /\ bucket' = IF bucket = "none" THEN "made" ELSE bucket
    /\ MainTo("filing")
    /\ Configured /\ Schema /\ UNCHANGED <<seeded, making>>

\* The file and its import job are committed together.
CreateFileAndImport ==
    /\ MainAt("filing")
    /\ file' = starts
    /\ job' = "running"
    /\ MainTo("parsing")
    /\ Configured /\ Schema /\ UNCHANGED <<record, content, account, storage, making>>

Parse ==
    /\ MainAt("parsing")
    /\ MainTo(IF settings.workbook = "unreadable" THEN "failing" ELSE "chunk")
    /\ Configured /\ Schema /\ UNCHANGED <<seeded, storage, making>>

\* handle_transactions_bulk_create, which resolves the accounts of its cards.
ImportBootstrapChunk ==
    /\ MainAt("chunk") /\ main.n <= NChunks
    /\ Seed(<<"chunk", main.n>>)
    /\ account' = IF settings.card /\ account = "none" THEN "plain" ELSE account
    /\ main' = [main EXCEPT !.n = @ + 1]
    /\ Configured /\ Schema /\ UNCHANGED <<record, file, job, storage, making>>

\* _finalize_import: a workbook with errors and transactions is imported in part.
FinalizeBootstrapImport ==
    /\ MainAt("chunk") /\ main.n > NChunks
    /\ job' = IF settings.workbook = "partial" THEN "partially_completed" ELSE "completed"
    /\ MainTo("account")
    /\ Configured /\ Schema /\ UNCHANGED <<record, content, account, file, storage, making>>

\* _ensure_sber_demo_account: resolved by its card, and renamed if need be.
EnsureDemoAccount ==
    /\ MainAt("account")
    /\ account' = "named"
    /\ MainTo("demo")
    /\ Configured /\ Schema /\ UNCHANGED <<record, content, file, job, storage, making>>

SeedDemoTransactions ==
    /\ MainAt("demo")
    /\ Seed(<<"demo">>)
    /\ MainTo("chat")
    /\ Configured /\ Schema /\ UNCHANGED <<record, account, file, job, storage, making>>

\* _seed_demo_chats: a chat, its recommendation and messages at a time.
SeedDemoChat ==
    /\ MainAt("chat") /\ main.n <= NChats
    /\ Seed(<<"chat", main.n>>)
    /\ main' = [main EXCEPT !.n = @ + 1]
    /\ Configured /\ Schema /\ UNCHANGED <<record, account, file, job, storage, making>>

RecordCompleted ==
    /\ MainAt("chat") /\ main.n > NChats
    /\ record' = "completed"
    /\ MainTo("done")
    /\ Configured /\ Schema /\ UNCHANGED <<content, account, file, job, storage, making>>

Importing == {"user", "storing", "filing", "parsing", "chunk", "account", "demo", "chat"}

\* The database or MinIO raises, or the user is there already.
ImportRaises ==
    /\ main.at \in Importing
    /\ \/ StartFault
       \/ MainAt("user") /\ content[<<"user">>] > 0 /\ UNCHANGED startFaults
    /\ MainTo("failing")
    /\ Schema /\ UNCHANGED <<settings, starts, seeded, storage, making>>

\* The exception is raised again: the service exits with an error.
RecordFailed ==
    /\ MainAt("failing")
    /\ record' = "failed"
    /\ MainTo("off")
    /\ Configured /\ Schema /\ UNCHANGED <<content, account, file, job, storage, making>>

\* A wait times out, another step raises, or the process dies.
MigrationDies ==
    /\ main.at \notin {"off", "done"}
    /\ StartFault
    /\ MainTo("off")
    /\ Schema /\ UNCHANGED <<settings, starts, seeded, storage, making>>

-----------------------------------------------------------------------------
(* create_bucket_service *)

MainStays == Configured /\ Schema /\ UNCHANGED <<seeded, main>>

\* docker-compose.yml waits until migration_service is done,
\* docker-compose.prod.yml for its start; without the table it exits here.
RecordBucketStart ==
    /\ maker = "off"
    /\ bucketStarts < MaxBucketStarts
    /\ starts > 0
    /\ settings.waits => MainAt("done")
    /\ bucketStarts' = bucketStarts + 1
    /\ IF revision = "head" THEN bucketRecord' = "running" /\ maker' = "making"
       ELSE UNCHANGED <<bucketRecord, maker>>
    /\ MainStays /\ UNCHANGED storage

MakeBucket ==
    /\ maker = "making"
    /\ bucket' = IF bucket = "none" THEN "made" ELSE bucket
    /\ maker' = "policy"
    /\ MainStays /\ UNCHANGED <<objects, bucketRecord, bucketStarts>>

ApplyBucketPolicy ==
    /\ maker = "policy"
    /\ bucket' = "ready"
    /\ maker' = "finishing"
    /\ MainStays /\ UNCHANGED <<objects, bucketRecord, bucketStarts>>

\* An update: a record truncated meanwhile stays away.
RecordBucketFinish ==
    /\ maker = "finishing"
    /\ bucketRecord' = IF bucketRecord = "none" THEN "none" ELSE "completed"
    /\ maker' = "off"
    /\ MainStays /\ UNCHANGED <<storage, bucketStarts>>

BucketFails ==
    /\ maker # "off"
    /\ StartFault
    /\ maker' = "off"
    /\ bucketRecord' \in {bucketRecord, IF bucketRecord = "none" THEN "none" ELSE "failed"}
    /\ Schema /\ UNCHANGED <<settings, starts, seeded, storage, main, bucketStarts>>

-----------------------------------------------------------------------------

MigrationStep ==
    \/ StartMigration \/ StampBaseline \/ UpgradeToHead \/ DropLegacy
    \/ TruncateTables \/ ClearBucket
    \/ SkipBootstrap \/ RecordRunning \/ CreateBootstrapUser
    \/ StoreWorkbook \/ CreateFileAndImport \/ Parse
    \/ ImportBootstrapChunk \/ FinalizeBootstrapImport
    \/ EnsureDemoAccount \/ SeedDemoTransactions \/ SeedDemoChat
    \/ RecordCompleted \/ ImportRaises \/ RecordFailed
    \/ MigrationDies

BucketStep ==
    RecordBucketStart \/ MakeBucket \/ ApplyBucketPolicy \/ RecordBucketFinish \/ BucketFails

BootstrapNext == MigrationStep \/ BucketStep

BootstrapSpec == BootstrapInit /\ [][BootstrapNext]_bootstrapVars

-----------------------------------------------------------------------------
(* Properties *)

\* Every variable has its type; nothing is in tables that are not there.
BootstrapTypeOK ==
    /\ content \in [Parts -> Nat]
    /\ revision \in {"none", "baseline", "head"}
    /\ record \in {"none", "running", "completed", "failed"}
    /\ account \in {"none", "plain", "named"}
    /\ job \in {"none", "running", "completed", "partially_completed"} /\ (job = "none" <=> file = 0)
    /\ file \in 0..starts /\ objects \subseteq 1..starts
    /\ bucket \in {"none", "made", "ready"}
    /\ revision # "head" => content = Nothing /\ record = "none" /\ bucketRecord = "none"

\* run_bootstrap and reset_application_data: wherever an earlier start died,
\* and with the reset or without, a bootstrap recorded as completed has every
\* part of the data in the database, once, and its import finished.
CompletedBootstrapIsWhole ==
    record = "completed" =>
        /\ \A p \in Parts : content[p] = 1
        /\ account = "named" /\ job # "running"

\* reset_application_data truncates the tables before it clears the bucket, and
\* _import_workbook stores the workbook before it commits its row: the file of
\* a row can be read, after any crash.
FileIsStored == file # 0 => file \in objects

=============================================================================
