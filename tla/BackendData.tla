----------------------------- MODULE BackendData -----------------------------
(***************************************************************************)
(* backend_data_worker: one consumer takes the AI's requests for a user's  *)
(* data off a queue, validates them, fetches each type of data from the    *)
(* services over the bus or the gateway, and answers.  Transactions are    *)
(* fetched page by page while the user's transactions change; each page is *)
(* a count and a select of its own, and what the select orders by does not *)
(* tell all transactions apart.  The other lists fit a page.               *)
(***************************************************************************)
EXTENDS Naturals, Sequences, FiniteSets, Functions, SequencesExt

CONSTANTS
    Requests,         \* requests of the AI
    NoRequest,        \* what an idle worker works on
    Transactions,
    Rank,             \* what a select orders them by: the time, and the row in its sheet
    Asks,             \* the sets of data types they ask for
    PageSize,
    MaxWrites,        \* bound: changes to the transactions
    MaxWorkerFaults   \* bound: failures

\* One data type of each way of fetching; "unknown" is not supported.
Supported == {"transactions", "accounts", "user_context", "category_profiles"}
DataTypes == Supported \union {"unknown"}

ASSUME BackendAssumption ==
    /\ NoRequest \notin Requests /\ IsFiniteSet(Transactions)
    /\ Rank \in [Transactions -> Nat]
    /\ \A types \in Asks : types \subseteq DataTypes
    /\ PageSize \in Nat \ {0}
    /\ {MaxWrites, MaxWorkerFaults} \subseteq Nat

VARIABLES
    provider,      \* BACKEND_DATA_PROVIDER
    table,         \* the user's transactions of the period, newest first
    writes,        \* changes to them so far
    asked,         \* requests sent, and what they ask for
    requestQueue,  \* ai.backend.data.requests
    worker,        \* what the consumer is at
    responses,     \* what it published
    dropped,       \* requests rejected without requeueing
    workerFaults   \* failures so far

backendVars == <<provider, table, writes, asked, requestQueue, worker, responses, dropped,
                 workerFaults>>

Critical == {"INVALID_REQUEST", "RPC_ERROR", "GATEWAY_ERROR"}

NoWork == [at |-> "idle", request |-> NoRequest, todo |-> {}, page |-> 1, total |-> 0, items |-> <<>>,
           present |-> {}, errors |-> {}, whole |-> TRUE, disturbed |-> FALSE]

BackendInit ==
    /\ provider \in {"rpc", "gateway"}
    /\ table = <<>>
    /\ writes = 0
    /\ asked = [q \in {} |-> {}]
    /\ requestQueue = {}
    /\ worker = NoWork
    /\ responses = {}
    /\ dropped = {}
    /\ workerFaults = 0

Works(x) == worker' = x
At(p) == worker.at = p
WorkerFault == workerFaults < MaxWorkerFaults /\ workerFaults' = workerFaults + 1

-----------------------------------------------------------------------------
(* The user's transactions, and the AI *)

\* A change between two reads of the pages being fetched disturbs them.
Write ==
    /\ writes < MaxWrites
    /\ writes' = writes + 1
    /\ Works([worker EXCEPT
                 !.disturbed = @ \/ At("counted") \/ (At("fetching") /\ worker.page > 1)])
    /\ UNCHANGED <<provider, asked, requestQueue, responses, dropped, workerFaults>>

NewestFirst(list) == \A i, j \in DOMAIN list : i < j => Rank[list[i]] >= Rank[list[j]]

AddTransaction(t, i) ==
    /\ Write
    /\ t \notin ToSet(table) /\ i \in 1..(Len(table) + 1)
    /\ table' = InsertAt(table, i, t)
    /\ NewestFirst(table')

RemoveTransaction(i) ==
    /\ Write
    /\ i \in DOMAIN table
    /\ table' = RemoveAt(table, i)

SendRequest(q, types) ==
    /\ q \notin DOMAIN asked
    /\ asked' = [x \in DOMAIN asked \union {q} |-> IF x = q THEN types ELSE asked[x]]
    /\ requestQueue' = requestQueue \union {q}
    /\ UNCHANGED <<provider, table, writes, worker, responses, dropped, workerFaults>>

-----------------------------------------------------------------------------
(* Taking a request, and validating it *)

\* Mutant: the message is acknowledged as it is taken.
TakeAcknowledged(q) ==
    /\ At("idle")
    /\ q \in requestQueue
    /\ requestQueue' = requestQueue \ {q}
    /\ Works([NoWork EXCEPT !.at = "validating", !.request = q])
    /\ UNCHANGED <<provider, table, writes, asked, responses, dropped, workerFaults>>

\* The message stays the broker's until it is acknowledged.
Take(q) ==
    /\ At("idle")
    /\ q \in requestQueue
    /\ Works([NoWork EXCEPT !.at = "validating", !.request = q])
    /\ UNCHANGED <<provider, table, writes, asked, requestQueue, responses, dropped, workerFaults>>

Wanted == asked[worker.request] \intersect Supported

\* parse_request_body leaves unsupported types out, and refuses a request
\* without another one; the other errors of form are of this kind.
Validate ==
    /\ At("validating")
    /\ Works(IF Wanted = {}
             THEN [worker EXCEPT !.at = "answering", !.errors = {"INVALID_REQUEST"}]
             ELSE [worker EXCEPT !.at = "fetching", !.todo = Wanted])
    /\ UNCHANGED <<provider, table, writes, asked, requestQueue, responses, dropped, workerFaults>>

-----------------------------------------------------------------------------
(* fetch_dataset *)

Fetching(type) == At("fetching") /\ type \in worker.todo
Failure == IF provider = "rpc" THEN "RPC_ERROR" ELSE "GATEWAY_ERROR"
Unchanged == UNCHANGED <<provider, table, writes, asked, requestQueue, responses, dropped>>

\* The orders a select may answer in: transactions that tie come in any.
Orders ==
    {order \in [DOMAIN table -> ToSet(table)] :
        IsInjective(order) /\ \A i \in DOMAIN table : Rank[order[i]] = Rank[table[i]]}

PageOf(order) == SubSeq(order, (worker.page - 1) * PageSize + 1,
                        Min({worker.page * PageSize, Len(table)}))

\* Every place holds its transaction, or one of the user's that ties with it.
IsWhole(items) ==
    /\ Len(items) = Len(table)
    /\ \A i \in DOMAIN table :
          items[i] \in ToSet(table) /\ Rank[items[i]] = Rank[table[i]]

\* Mutant: the pages are counted from zero.
LastPageFromZero(page, items) ==
    \/ page = <<>>
    \/ (worker.page + 1) * PageSize >= worker.total

\* _fetch_paginated counts pages, and takes what it has for a total of zero;
\* get_paginated_items counts items.
LastPage(page, items) ==
    \/ page = <<>>
    \/ /\ provider = "rpc"
       /\ worker.page * PageSize >= IF worker.total = 0 THEN Len(items) ELSE worker.total
    \/ provider = "gateway" /\ Len(items) >= worker.total

\* handle_transactions_list counts the rows, and selects a page of them in a
\* second statement.
CountRows ==
    /\ Fetching("transactions")
    /\ Works([worker EXCEPT !.at = "counted", !.total = Len(table)])
    /\ Unchanged /\ UNCHANGED workerFaults

FetchPage(order) ==
    LET page == PageOf(order)
        items == worker.items \o page
    IN
    /\ At("counted")
    /\ Works(IF LastPage(page, items)
             THEN [worker EXCEPT
                     !.at = "fetching", !.todo = @ \ {"transactions"}, !.items = items, !.page = 1,
                     !.present = IF items = <<>> THEN @ ELSE @ \union {"transactions"},
                     !.errors = IF items = <<>> THEN @ \union {"NO_TRANSACTIONS"} ELSE @,
                     !.whole = IsWhole(items)]
             ELSE [worker EXCEPT !.at = "fetching", !.items = items, !.page = @ + 1])
    /\ Unchanged /\ UNCHANGED workerFaults

\* The call fails or times out: the bus gives up what it has, the gateway's
\* client keeps it.
PageFails ==
    /\ Fetching("transactions") \/ At("counted")
    /\ WorkerFault
    /\ LET kept == IF provider = "rpc" THEN <<>> ELSE worker.items IN
       Works([worker EXCEPT
                !.at = "fetching", !.todo = @ \ {"transactions"}, !.items = kept, !.page = 1,
                !.present = IF kept = <<>> THEN @ ELSE @ \union {"transactions"},
                !.errors = @ \union {Failure}, !.whole = FALSE])
    /\ Unchanged

FetchList ==
    /\ Fetching("accounts")
    /\ \E items \in BOOLEAN :
        Works([worker EXCEPT !.todo = @ \ {"accounts"},
                             !.present = IF items THEN @ \union {"accounts"} ELSE @])
    /\ Unchanged /\ UNCHANGED workerFaults

ListFails ==
    /\ Fetching("accounts")
    /\ WorkerFault
    /\ Works([worker EXCEPT !.todo = @ \ {"accounts"}, !.errors = @ \union {Failure}])
    /\ Unchanged

\* _build_user_context asks for five lists at once, each of which may fail, and
\* answers in any case; the gateway's fetcher has nothing but an empty one.
FetchContext ==
    /\ Fetching("user_context")
    /\ \E failed \in IF provider = "rpc" THEN BOOLEAN ELSE {FALSE} :
        /\ IF failed THEN WorkerFault ELSE UNCHANGED workerFaults
        /\ Works([worker EXCEPT
                    !.todo = @ \ {"user_context"}, !.present = @ \union {"user_context"},
                    !.errors = @ \union
                        (IF provider = "gateway" THEN {"NOT_IMPLEMENTED_GATEWAY"}
                         ELSE {"USER_CONTEXT_GAPS"} \union (IF failed THEN {Failure} ELSE {}))])
    /\ Unchanged

FetchProfiles ==
    /\ Fetching("category_profiles")
    /\ Works([worker EXCEPT !.todo = @ \ {"category_profiles"},
                            !.present = @ \union {"category_profiles"},
                            !.errors = @ \union {"CATEGORY_PROFILES_STATIC"}])
    /\ Unchanged /\ UNCHANGED workerFaults

-----------------------------------------------------------------------------
(* The answer *)

\* _determine_status.
Status ==
    IF worker.errors \intersect Critical # {} /\ worker.present = {} THEN "error"
    ELSE IF worker.errors # {} THEN "partial"
    ELSE "success"

Response == [request |-> worker.request, status |-> Status, types |-> Wanted,
             errors |-> worker.errors, whole |-> worker.whole,
             disturbed |-> worker.disturbed]

PublishResponse ==
    /\ \/ At("answering")
       \/ At("fetching") /\ worker.todo = {}
    /\ responses' = responses \union {Response}
    /\ Works([worker EXCEPT !.at = "acknowledging"])
    /\ UNCHANGED <<provider, table, writes, asked, requestQueue, dropped, workerFaults>>

AcknowledgeRequest ==
    /\ At("acknowledging")
    /\ requestQueue' = requestQueue \ {worker.request}
    /\ Works(NoWork)
    /\ UNCHANGED <<provider, table, writes, asked, responses, dropped, workerFaults>>

\* The publish, or what comes before it, raises: process() rejects the message,
\* which is not queued again.
PublishFails ==
    /\ worker.at \in {"answering", "fetching", "counted"}
    /\ WorkerFault
    /\ requestQueue' = requestQueue \ {worker.request}
    /\ dropped' = dropped \union {worker.request}
    /\ Works(NoWork)
    /\ UNCHANGED <<provider, table, writes, asked, responses>>

\* The process dies or its connection closes: the message is delivered again.
WorkerDies ==
    /\ ~At("idle")
    /\ WorkerFault
    /\ Works(NoWork)
    /\ UNCHANGED <<provider, table, writes, asked, requestQueue, responses, dropped>>

-----------------------------------------------------------------------------

Fetch ==
    \/ CountRows \/ PageFails
    \/ \E order \in Orders : FetchPage(order)
    \/ FetchList \/ ListFails
    \/ FetchContext
    \/ FetchProfiles

BackendNext ==
    \/ \E i \in 1..Cardinality(Transactions) :
        RemoveTransaction(i) \/ \E t \in Transactions : AddTransaction(t, i)
    \/ \E q \in Requests, types \in Asks : SendRequest(q, types)
    \/ \E q \in Requests : Take(q)
    \/ Validate
    \/ Fetch
    \/ PublishResponse \/ AcknowledgeRequest \/ PublishFails
    \/ WorkerDies

BackendSpec == BackendInit /\ [][BackendNext]_backendVars

-----------------------------------------------------------------------------
(* Properties *)

\* Every variable has its type.
BackendTypeOK ==
    /\ table \in BoundedSeq(Transactions, Cardinality(Transactions))
    /\ DOMAIN asked \subseteq Requests
    /\ requestQueue \union dropped \subseteq DOMAIN asked
    /\ worker.request \in Requests \union {NoRequest}
    /\ worker.todo \union worker.present \subseteq Supported
    /\ \A r \in responses : r.request \in Requests
    /\ writes \in 0..MaxWrites /\ workerFaults \in 0..MaxWorkerFaults

\* The consumer answers inside process(), which acknowledges afterwards: a
\* request is in the queue or answered, whenever the worker dies, unless
\* process() rejected it.
RequestIsAccounted ==
    \A q \in DOMAIN asked :
        \/ q \in requestQueue
        \/ \E r \in responses : r.request = q
        \/ q \in dropped

\* Pages are fetched until the total is reached: as long as no call failed, which
\* the answer names, and the transactions did not change between two reads, which
\* offsets do not survive, an answer has as many as there are, each in its place;
\* only those that tie may be sent twice, in the place of one they tie with.
TransactionsAreWhole ==
    \A r \in responses :
        "transactions" \in r.types /\ r.errors \intersect Critical = {} =>
            r.whole \/ r.disturbed

=============================================================================
