-------------------------- MODULE FinanceData_proofs --------------------------
(***************************************************************************)
(* Proofs about what users keep in finance_service, how the bootstrap      *)
(* fills it, and what an AI's request for it is answered with: the         *)
(* requests and pages of BackendData, which implements BackgroundTask,     *)
(* the references and limits of FinanceLedger, the import of Bootstrap,    *)
(* for any workbook, deployment and faults, and the parser that it shares  *)
(* with file_service, for any workbooks.  One inductive invariant carries  *)
(* the theorems about Bootstrap: it says where in the import               *)
(* migration_service is, and so which parts of the data are there.         *)
(***************************************************************************)
EXTENDS FinanceLedger, BackendData, Bootstrap, ExcelParser, FiniteSetTheorems, TLAPS

-----------------------------------------------------------------------------
(* BackendData: types, and what the worker holds *)

ErrorCodes == Critical \union {"NO_TRANSACTIONS", "NOT_IMPLEMENTED_GATEWAY", "USER_CONTEXT_GAPS",
                               "CATEGORY_PROFILES_STATIC"}
Lists == Seq(Transactions)
Pages == Nat \ {0}
WorkerStates == [at : {"idle", "validating", "fetching", "counted", "answering", "acknowledging"},
                 request : Requests \union {NoRequest}, todo : SUBSET Supported, page : Pages,
                 total : Nat, items : Lists, present : SUBSET Supported, errors : SUBSET ErrorCodes,
                 whole : BOOLEAN, disturbed : BOOLEAN]

TableHolds ==
    /\ provider \in {"rpc", "gateway"}
    /\ table \in Seq(Transactions)
    /\ writes \in 0..MaxWrites /\ workerFaults \in 0..MaxWorkerFaults
QueueHolds ==
    /\ DOMAIN asked \subseteq Requests
    /\ requestQueue \subseteq DOMAIN asked /\ dropped \subseteq DOMAIN asked
    /\ \A r \in responses : r.request \in Requests
WorkerHolds ==
    /\ worker \in WorkerStates
    /\ worker.at # "idle" => worker.request \in DOMAIN asked

DataInv == TableHolds /\ QueueHolds /\ WorkerHolds

LEMMA NoWorkTyped ==
  /\ NoWork \in WorkerStates
  /\ NoWork.at = "idle" /\ NoWork.page = 1 /\ NoWork.items = <<>> /\ NoWork.whole
BY DEF NoWork, WorkerStates, Lists, Pages

LEMMA InitDataInv == BackendInit => DataInv
BY BackendAssumption, NoWorkTyped DEF BackendInit, DataInv, TableHolds, QueueHolds, WorkerHolds

\* The total of a call's failures stays within its bound.
LEMMA FaultCounted ==
  ASSUME DataInv, WorkerFault \/ UNCHANGED workerFaults
  PROVE  workerFaults' \in 0..MaxWorkerFaults
BY BackendAssumption DEF DataInv, TableHolds, WorkerFault

\* The user's transactions change, which disturbs the pages being fetched.
LEMMA WriteDataInv ==
  ASSUME DataInv, Write, table' \in Seq(Transactions)
  PROVE  /\ DataInv'
         /\ \E b \in BOOLEAN : /\ worker' = [worker EXCEPT !.disturbed = b]
                               /\ worker.at = "counted" \/ (worker.at = "fetching" /\ worker.page > 1) => b
                               /\ worker.disturbed => b
<1> DEFINE b == worker.disturbed \/ At("counted") \/ (At("fetching") /\ worker.page > 1)
<1>1. worker' = [worker EXCEPT !.disturbed = b] /\ b \in BOOLEAN /\ UNCHANGED <<asked, provider>>
  BY DEF Write, Works, DataInv, WorkerHolds, WorkerStates
<1>2. [worker EXCEPT !.disturbed = b] \in WorkerStates /\ worker'.at = worker.at /\ worker'.request = worker.request
  BY <1>1 DEF DataInv, WorkerHolds, WorkerStates
<1>3. WorkerHolds'
  BY <1>1, <1>2 DEF DataInv, WorkerHolds
<1>4. TableHolds' /\ QueueHolds'
  BY BackendAssumption DEF Write, DataInv, TableHolds, QueueHolds
<1>5. /\ worker.at = "counted" \/ (worker.at = "fetching" /\ worker.page > 1) => b
      /\ worker.disturbed => b
  BY DEF At
<1> HIDE DEF b
<1> QED BY <1>1, <1>3, <1>4, <1>5 DEF DataInv

TableChanges ==
    \E i \in 1..Cardinality(Transactions) :
        RemoveTransaction(i) \/ \E t \in Transactions : AddTransaction(t, i)

LEMMA TableChangesTyped ==
  ASSUME DataInv, TableChanges
  PROVE  table' \in Seq(Transactions) /\ Write
<1>1. ASSUME NEW t \in Transactions, NEW i, AddTransaction(t, i) PROVE table' \in Seq(Transactions) /\ Write
  <2>1. /\ table' = (SubSeq(table, 1, i - 1) \o <<t>>) \o SubSeq(table, i, Len(table))
        /\ i \in 1..(Len(table) + 1) /\ Write
    BY <1>1 DEF AddTransaction, InsertAt
  <2>2. SubSeq(table, 1, i - 1) \in Seq(Transactions) /\ SubSeq(table, i, Len(table)) \in Seq(Transactions)
    BY <2>1 DEF DataInv, TableHolds
  <2> QED BY <2>1, <2>2
<1>2. ASSUME NEW i, RemoveTransaction(i) PROVE table' \in Seq(Transactions) /\ Write
  <2>1. table' = SubSeq(table, 1, i - 1) \o SubSeq(table, i + 1, Len(table)) /\ i \in 1..Len(table) /\ Write
    BY <1>2 DEF RemoveTransaction, RemoveAt, DataInv, TableHolds
  <2> QED BY <2>1 DEF DataInv, TableHolds
<1> QED BY <1>1, <1>2 DEF TableChanges

LEMMA SendRequestDataInv ==
  ASSUME DataInv, NEW q \in Requests, NEW types \in Asks, SendRequest(q, types)
  PROVE  DataInv'
<1>1. DOMAIN asked' = DOMAIN asked \union {q}
  BY DEF SendRequest
<1> QED BY <1>1 DEF SendRequest, DataInv, TableHolds, QueueHolds, WorkerHolds

\* A step of the worker on the request it holds.
LEMMA WorkerMoves ==
  ASSUME DataInv, NEW x \in WorkerStates, Works(x), x.at # "idle" => x.request \in DOMAIN asked,
         UNCHANGED <<provider, table, writes, asked>>, workerFaults' \in 0..MaxWorkerFaults,
         requestQueue' \subseteq requestQueue, dropped' \subseteq DOMAIN asked,
         \A r \in responses' : r.request \in Requests
  PROVE  DataInv'
BY DEF DataInv, TableHolds, QueueHolds, WorkerHolds, Works

LEMMA TakeDataInv ==
  ASSUME DataInv, NEW q \in Requests, Take(q)
  PROVE  /\ DataInv'
         /\ worker'.at = "validating" /\ worker'.request = q
         /\ worker'.page = 1 /\ worker'.items = <<>> /\ worker'.whole
<1> DEFINE x == [NoWork EXCEPT !.at = "validating", !.request = q]
<1>1. /\ x \in WorkerStates /\ x.request = q /\ x.at = "validating"
      /\ x.page = 1 /\ x.items = <<>> /\ x.whole
  BY NoWorkTyped DEF WorkerStates
<1>2. Works(x) /\ q \in DOMAIN asked
  BY DEF Take, DataInv, QueueHolds
<1> HIDE DEF x
<1>3. DataInv'
  BY <1>1, <1>2, WorkerMoves, FaultCounted DEF Take, DataInv, QueueHolds
<1> QED BY <1>1, <1>2, <1>3 DEF Works

\* What Validate makes of the worker.
LEMMA ValidateDataInv ==
  ASSUME DataInv, Validate
  PROVE  /\ DataInv'
         /\ worker'.page = worker.page /\ worker'.items = worker.items /\ worker'.whole = worker.whole
         /\ worker'.request = worker.request /\ worker.at # "idle"
         /\ \/ worker'.at = "answering" /\ worker'.errors = {"INVALID_REQUEST"}
            \/ worker'.at = "fetching"
<1> DEFINE x == [worker EXCEPT !.at = "answering", !.errors = {"INVALID_REQUEST"}]
           y == [worker EXCEPT !.at = "fetching", !.todo = Wanted]
<1>1. Works(x) \/ Works(y)
  BY DEF Validate
<1>2. Wanted \in SUBSET Supported
  BY DEF Wanted
<1>3. worker \in WorkerStates /\ worker.request \in DOMAIN asked
  BY DEF DataInv, WorkerHolds, Validate, At
<1>4. /\ x \in WorkerStates /\ x.request = worker.request /\ x.at = "answering"
      /\ x.errors = {"INVALID_REQUEST"} /\ x.page = worker.page /\ x.items = worker.items /\ x.whole = worker.whole
  BY <1>3 DEF WorkerStates, ErrorCodes, Critical
<1>5. /\ y \in WorkerStates /\ y.request = worker.request /\ y.at = "fetching"
      /\ y.page = worker.page /\ y.items = worker.items /\ y.whole = worker.whole
  BY <1>2, <1>3 DEF WorkerStates
<1> HIDE DEF x, y
<1>6. DataInv'
  BY <1>1, <1>3, <1>4, <1>5, WorkerMoves, FaultCounted DEF Validate, DataInv, QueueHolds
<1> QED BY <1>1, <1>4, <1>5, <1>6 DEF Works, Validate, At

\* What a fetch of the lists, the context or the profiles leaves of the worker:
\* only errors are added.
ListFetched ==
    /\ worker'.at = worker.at /\ worker.at = "fetching" /\ worker'.request = worker.request
    /\ worker'.page = worker.page /\ worker'.items = worker.items
    /\ worker'.whole = worker.whole /\ worker'.disturbed = worker.disturbed
    /\ worker.errors \subseteq worker'.errors
    /\ "transactions" \in worker'.todo <=> "transactions" \in worker.todo

LEMMA ListFetchedDataInv ==
  ASSUME DataInv, FetchList \/ ListFails \/ FetchContext \/ FetchProfiles
  PROVE  DataInv' /\ ListFetched /\ Unchanged
<1>0. /\ worker \in WorkerStates /\ worker.request \in DOMAIN asked /\ worker.at = "fetching"
      /\ Failure \in ErrorCodes /\ Unchanged /\ (WorkerFault \/ UNCHANGED workerFaults)
  BY DEF DataInv, WorkerHolds, FetchList, ListFails, FetchContext, FetchProfiles, Fetching, At, Failure, ErrorCodes,
         Critical
<1> DEFINE Leaves(x, type) ==
             /\ x \in WorkerStates /\ x.request = worker.request /\ x.at = worker.at /\ x.page = worker.page
             /\ x.items = worker.items /\ x.whole = worker.whole /\ x.disturbed = worker.disturbed
             /\ worker.errors \subseteq x.errors /\ x.todo = worker.todo \ {type}
<1>1. ASSUME NEW type \in {"accounts", "user_context", "category_profiles"}, NEW x, Works(x), Leaves(x, type)
      PROVE  DataInv' /\ ListFetched /\ Unchanged
  <2>3. DataInv'
    BY <1>0, <1>1, WorkerMoves, FaultCounted DEF Unchanged, DataInv, QueueHolds
  <2>4. ListFetched
    BY <1>0, <1>1 DEF ListFetched, Works
  <2> QED BY <1>0, <2>3, <2>4
<1>2. CASE FetchList
  <2> DEFINE x(items) == [worker EXCEPT !.todo = @ \ {"accounts"},
                             !.present = IF items THEN @ \union {"accounts"} ELSE @]
  <2>1. PICK items \in BOOLEAN : Works(x(items))
    BY <1>2 DEF FetchList
  <2>2. Leaves(x(items), "accounts")
    BY <1>0 DEF WorkerStates, Supported
  <2> HIDE DEF x, Leaves
  <2> QED BY <1>1, <2>1, <2>2
<1>3. CASE ListFails
  <2> DEFINE x == [worker EXCEPT !.todo = @ \ {"accounts"}, !.errors = @ \union {Failure}]
  <2>1. Works(x)
    BY <1>3 DEF ListFails
  <2>2. Leaves(x, "accounts")
    BY <1>0 DEF WorkerStates
  <2> HIDE DEF x, Leaves
  <2> QED BY <1>1, <2>1, <2>2
<1>4. CASE FetchContext
  <2> DEFINE errors(failed) == IF provider = "gateway" THEN {"NOT_IMPLEMENTED_GATEWAY"}
                               ELSE {"USER_CONTEXT_GAPS"} \union (IF failed THEN {Failure} ELSE {})
             x(failed) == [worker EXCEPT !.todo = @ \ {"user_context"}, !.present = @ \union {"user_context"},
                                         !.errors = @ \union errors(failed)]
  <2>1. PICK failed \in BOOLEAN : Works(x(failed))
    BY <1>4 DEF FetchContext
  <2>2. errors(failed) \in SUBSET ErrorCodes
    BY <1>0 DEF ErrorCodes
  <2> HIDE DEF errors
  <2>3. Leaves(x(failed), "user_context")
    BY <1>0, <2>2 DEF WorkerStates, Supported
  <2> HIDE DEF x, Leaves
  <2> QED BY <1>1, <2>1, <2>3
<1>5. CASE FetchProfiles
  <2> DEFINE x == [worker EXCEPT !.todo = @ \ {"category_profiles"}, !.present = @ \union {"category_profiles"},
                                 !.errors = @ \union {"CATEGORY_PROFILES_STATIC"}]
  <2>1. Works(x)
    BY <1>5 DEF FetchProfiles
  <2>2. Leaves(x, "category_profiles")
    BY <1>0 DEF WorkerStates, Supported, ErrorCodes
  <2> HIDE DEF x, Leaves
  <2> QED BY <1>1, <2>1, <2>2
<1> QED BY <1>2, <1>3, <1>4, <1>5

LEMMA MinOfTwo ==
  ASSUME NEW a \in Int, NEW b \in Int
  PROVE  Min({a, b}) = IF a <= b THEN a ELSE b
<1> DEFINE P(x) == \A y \in {a, b} : x =< y
<1>1. \E x \in {a, b} : P(x)
  OBVIOUS
<1>2. Min({a, b}) = CHOOSE x \in {a, b} : P(x)
  BY DEF Min
<1>3. Min({a, b}) \in {a, b} /\ P(Min({a, b}))
  <2> HIDE DEF P
  <2> QED BY <1>1, <1>2
<1> QED BY <1>3

\* A page follows the items of the pages before it, up to the last.
Before == (worker.page - 1) * PageSize
UpTo == IF worker.page * PageSize <= Len(table) THEN worker.page * PageSize ELSE Len(table)

LEMMA OrderIs ==
  ASSUME DataInv, NEW order \in Orders
  PROVE  /\ order \in Seq(Transactions) /\ Len(order) = Len(table)
         /\ \A i \in 1..Len(table) : order[i] \in ToSet(table) /\ Rank[order[i]] = Rank[table[i]]
<1>1. table \in Seq(Transactions) /\ DOMAIN table = 1..Len(table) /\ Len(table) \in Nat
  BY DEF DataInv, TableHolds
<1>2. ToSet(table) \subseteq Transactions
  BY <1>1 DEF ToSet
<1>3. order \in [1..Len(table) -> Transactions]
  BY <1>1, <1>2 DEF Orders
<1>4. order \in Seq(Transactions) /\ Len(order) = Len(table)
  BY <1>1, <1>3
<1> QED BY <1>1, <1>4 DEF Orders

LEMMA PageIs ==
  ASSUME DataInv, NEW order \in Orders
  PROVE  /\ Before \in Nat /\ UpTo \in Nat /\ UpTo <= Len(table) /\ Len(table) \in Nat
         /\ worker.page * PageSize \in Nat /\ worker.page * PageSize > Before
         /\ PageOf(order) = SubSeq(order, Before + 1, UpTo) /\ PageOf(order) \in Seq(Transactions)
         /\ UpTo > Before => PageOf(order) # <<>>
<1> DEFINE e == worker.page * PageSize
<1>0. order \in Seq(Transactions) /\ Len(order) = Len(table)
  BY OrderIs
<1>1. worker.page \in Nat \ {0} /\ table \in Seq(Transactions) /\ PageSize \in Nat \ {0} /\ Len(table) \in Nat
  BY BackendAssumption DEF DataInv, WorkerHolds, WorkerStates, TableHolds, Pages
<1>2. Before \in Nat /\ e \in Nat /\ e = Before + PageSize
  BY <1>1 DEF Before
<1>3. PageOf(order) = SubSeq(order, Before + 1, UpTo)
  <2>1. PageOf(order) = SubSeq(order, Before + 1, Min({e, Len(table)}))
    BY DEF PageOf, Before
  <2>2. UpTo = IF e <= Len(table) THEN e ELSE Len(table)
    BY DEF UpTo
  <2>3. e \in Int /\ Len(table) \in Int
    BY <1>1, <1>2
  <2> HIDE DEF e
  <2>4. Min({e, Len(table)}) = UpTo
    BY <2>2, <2>3, MinOfTwo
  <2> QED BY <2>1, <2>4
<1>4. UpTo \in Nat /\ UpTo <= Len(table)
  BY <1>1, <1>2 DEF UpTo
<1> HIDE DEF e
<1>5. PageOf(order) \in Seq(Transactions) /\ (UpTo > Before => PageOf(order) # <<>>)
  BY <1>0, <1>1, <1>2, <1>3, <1>4
<1>6. e > Before
  BY <1>1, <1>2
<1> QED BY <1>1, <1>2, <1>3, <1>4, <1>5, <1>6 DEF e

\* The count keeps all but the total.
LEMMA CountRowsDataInv ==
  ASSUME DataInv, CountRows
  PROVE  /\ DataInv' /\ Unchanged
         /\ worker.at = "fetching" /\ worker'.at = "counted" /\ worker'.total = Len(table)
         /\ "transactions" \in worker.todo /\ worker'.todo = worker.todo
         /\ worker'.request = worker.request /\ worker'.disturbed = worker.disturbed
         /\ worker'.page = worker.page /\ worker'.items = worker.items
<1> DEFINE x == [worker EXCEPT !.at = "counted", !.total = Len(table)]
<1>1. /\ worker \in WorkerStates /\ worker.request \in DOMAIN asked /\ worker.at = "fetching"
      /\ "transactions" \in worker.todo /\ Unchanged /\ UNCHANGED workerFaults
      /\ Len(table) \in Nat /\ Works(x)
  BY DEF CountRows, Fetching, At, DataInv, WorkerHolds, TableHolds
<1>2. /\ x \in WorkerStates /\ x.request = worker.request /\ x.at = "counted" /\ x.total = Len(table)
      /\ x.todo = worker.todo /\ x.disturbed = worker.disturbed /\ x.page = worker.page /\ x.items = worker.items
  BY <1>1 DEF WorkerStates
<1> HIDE DEF x
<1>3. DataInv'
  BY <1>1, <1>2, WorkerMoves, FaultCounted DEF Unchanged, DataInv, QueueHolds
<1> QED BY <1>1, <1>2, <1>3 DEF Works

\* The fetch of a page ends the list or goes on to the next page.
LEMMA FetchPageDataInv ==
  ASSUME DataInv, NEW order \in Orders, FetchPage(order)
  PROVE  LET page == PageOf(order)
             items == worker.items \o page
         IN
         /\ DataInv' /\ Unchanged
         /\ worker.at = "counted" /\ worker'.at = "fetching" /\ worker'.request = worker.request
         /\ worker'.disturbed = worker.disturbed
         /\ \/ /\ LastPage(page, items) /\ "transactions" \notin worker'.todo
               /\ worker'.whole = IsWhole(items) /\ worker'.page = 1
            \/ /\ ~LastPage(page, items) /\ worker'.todo = worker.todo
               /\ worker'.items = items /\ worker'.page = worker.page + 1
<1> DEFINE page == PageOf(order)
           items == worker.items \o page
           x == [worker EXCEPT
                     !.at = "fetching", !.todo = @ \ {"transactions"}, !.items = items, !.page = 1,
                     !.present = IF items = <<>> THEN @ ELSE @ \union {"transactions"},
                     !.errors = IF items = <<>> THEN @ \union {"NO_TRANSACTIONS"} ELSE @,
                     !.whole = IsWhole(items)]
           y == [worker EXCEPT !.at = "fetching", !.items = items, !.page = @ + 1]
<1>1. /\ worker \in WorkerStates /\ worker.request \in DOMAIN asked /\ worker.at = "counted"
      /\ Unchanged /\ UNCHANGED workerFaults
  BY DEF FetchPage, At, DataInv, WorkerHolds
<1>2. items \in Lists
  BY <1>1, PageIs DEF WorkerStates, Lists
<1>3. Works(IF LastPage(page, items) THEN x ELSE y)
  BY DEF FetchPage
<1> HIDE DEF items, page
<1>4. /\ x \in WorkerStates /\ x.request = worker.request /\ x.at = "fetching" /\ x.page = 1
      /\ "transactions" \notin x.todo /\ x.whole = IsWhole(items) /\ x.disturbed = worker.disturbed
  <2> DEFINE w == IsWhole(items)
             p == IF items = <<>> THEN worker.present ELSE worker.present \union {"transactions"}
             e == IF items = <<>> THEN worker.errors \union {"NO_TRANSACTIONS"} ELSE worker.errors
             z == [worker EXCEPT !.at = "fetching", !.todo = worker.todo \ {"transactions"}, !.items = items,
                                 !.page = 1, !.present = p, !.errors = e, !.whole = w]
  <2>1. worker.present \in SUBSET Supported /\ worker.errors \in SUBSET ErrorCodes
    BY <1>1 DEF WorkerStates
  <2>2. w \in BOOLEAN /\ p \in SUBSET Supported /\ e \in SUBSET ErrorCodes /\ 1 \in Pages
    BY <2>1 DEF Supported, ErrorCodes, Pages, IsWhole
  <2>3. x = z
    BY <1>1 DEF WorkerStates
  <2> HIDE DEF w, p, e
  <2>4. /\ z \in WorkerStates /\ z.request = worker.request /\ z.at = "fetching" /\ z.page = 1
        /\ "transactions" \notin z.todo /\ z.whole = w /\ z.disturbed = worker.disturbed
    BY <1>1, <1>2, <2>2 DEF WorkerStates
  <2> QED BY <2>3, <2>4 DEF w
<1>5. /\ y \in WorkerStates /\ y.request = worker.request /\ y.at = "fetching" /\ y.page = worker.page + 1
      /\ y.items = items /\ y.todo = worker.todo /\ y.disturbed = worker.disturbed
  <2>1. worker.page + 1 \in Pages
    BY <1>1 DEF WorkerStates, Pages
  <2> QED BY <1>1, <1>2, <2>1 DEF WorkerStates
<1> HIDE DEF x, y
<1>6. DataInv'
  <2>1. ASSUME NEW z \in {x, y}, Works(z) PROVE DataInv'
    BY <1>1, <1>4, <1>5, <2>1, WorkerMoves, FaultCounted DEF Unchanged, DataInv, QueueHolds
  <2> QED BY <1>3, <2>1
<1>7. CASE LastPage(page, items)
  BY <1>1, <1>3, <1>4, <1>6, <1>7 DEF Works, items, page
<1>8. CASE ~LastPage(page, items)
  BY <1>1, <1>3, <1>5, <1>6, <1>8 DEF Works, items, page
<1> QED BY <1>7, <1>8

LEMMA PageFailsDataInv ==
  ASSUME DataInv, PageFails
  PROVE  /\ DataInv'
         /\ worker'.at = "fetching" /\ "transactions" \notin worker'.todo
         /\ worker'.errors \intersect Critical # {}
         /\ worker.at # "idle" /\ worker'.request = worker.request
<1> DEFINE kept == IF provider = "rpc" THEN <<>> ELSE worker.items
           x == [worker EXCEPT
                !.at = "fetching", !.todo = @ \ {"transactions"}, !.items = kept, !.page = 1,
                !.present = IF kept = <<>> THEN @ ELSE @ \union {"transactions"},
                !.errors = @ \union {Failure}, !.whole = FALSE]
<1>1. /\ worker \in WorkerStates /\ worker.request \in DOMAIN asked /\ worker.at \in {"fetching", "counted"}
      /\ Unchanged /\ WorkerFault /\ Failure \in ErrorCodes \intersect Critical
  BY DEF PageFails, Fetching, At, DataInv, WorkerHolds, Failure, ErrorCodes, Critical
<1>2. kept \in Lists /\ Works(x)
  BY <1>1 DEF WorkerStates, PageFails, Lists
<1> HIDE DEF kept
<1>3. /\ x \in WorkerStates /\ x.request = worker.request /\ x.at = "fetching"
      /\ "transactions" \notin x.todo /\ Failure \in x.errors
  <2> DEFINE p == IF kept = <<>> THEN worker.present ELSE worker.present \union {"transactions"}
             z == [worker EXCEPT !.at = "fetching", !.todo = worker.todo \ {"transactions"}, !.items = kept,
                                 !.page = 1, !.present = p, !.errors = worker.errors \union {Failure}, !.whole = FALSE]
  <2>1. p \in SUBSET Supported /\ 1 \in Pages
    BY <1>1 DEF WorkerStates, Supported, Pages
  <2>2. x = z
    BY <1>1 DEF WorkerStates
  <2> HIDE DEF p
  <2>3. /\ z \in WorkerStates /\ z.request = worker.request /\ z.at = "fetching"
        /\ "transactions" \notin z.todo /\ Failure \in z.errors
    BY <1>1, <1>2, <2>1 DEF WorkerStates
  <2> QED BY <2>2, <2>3
<1> HIDE DEF x
<1>4. DataInv'
  BY <1>1, <1>2, <1>3, WorkerMoves, FaultCounted DEF Unchanged, DataInv, QueueHolds
<1> QED BY <1>1, <1>2, <1>3, <1>4 DEF Works

LEMMA PublishResponseDataInv ==
  ASSUME DataInv, PublishResponse
  PROVE  /\ DataInv'
         /\ worker'.at = "acknowledging" /\ worker'.request = worker.request
<1> DEFINE x == [worker EXCEPT !.at = "acknowledging"]
<1>1. worker \in WorkerStates /\ worker.request \in DOMAIN asked /\ Works(x)
  BY DEF PublishResponse, At, DataInv, WorkerHolds
<1>2. x \in WorkerStates /\ x.request = worker.request /\ x.at = "acknowledging"
  BY <1>1 DEF WorkerStates
<1> HIDE DEF x
<1>3. \A r \in responses' : r.request \in Requests
  BY <1>1 DEF PublishResponse, Response, DataInv, QueueHolds
<1>4. DataInv'
  BY <1>1, <1>2, <1>3, WorkerMoves, FaultCounted DEF PublishResponse, DataInv, QueueHolds
<1> QED BY <1>1, <1>2, <1>4 DEF Works

\* The worker is done with its request, or lost it.
LEMMA WorkerEndsDataInv ==
  ASSUME DataInv, AcknowledgeRequest \/ PublishFails \/ WorkerDies
  PROVE  DataInv' /\ worker'.at = "idle"
<1>1. /\ Works(NoWork) /\ requestQueue' \subseteq requestQueue /\ UNCHANGED <<provider, table, writes, asked, responses>>
      /\ dropped' \subseteq DOMAIN asked /\ (WorkerFault \/ UNCHANGED workerFaults)
  BY DEF AcknowledgeRequest, PublishFails, WorkerDies, DataInv, QueueHolds, WorkerHolds, At
<1>2. DataInv'
  BY <1>1, NoWorkTyped, WorkerMoves, FaultCounted DEF DataInv, QueueHolds
<1> QED BY <1>1, <1>2, NoWorkTyped DEF Works

LEMMA NextDataInv ==
  ASSUME DataInv, [BackendNext]_backendVars
  PROVE  DataInv'
<1>1. CASE UNCHANGED backendVars
  BY <1>1 DEF backendVars, DataInv, TableHolds, QueueHolds, WorkerHolds
<1>2. CASE BackendNext
  BY <1>2, TableChangesTyped, WriteDataInv, SendRequestDataInv, TakeDataInv, ValidateDataInv, ListFetchedDataInv,
     CountRowsDataInv, FetchPageDataInv, PageFailsDataInv, PublishResponseDataInv, WorkerEndsDataInv
     DEF BackendNext, Fetch, TableChanges
<1> QED BY <1>1, <1>2

LEMMA AlwaysDataInv == BackendSpec => []DataInv
BY InitDataInv, NextDataInv, PTL DEF BackendSpec

-----------------------------------------------------------------------------
(* A request is answered, or still in the queue *)

\* The worker acknowledges what it answered, and what it holds stays in the queue.
Answered == worker.at = "acknowledging" => \E r \in responses : r.request = worker.request
Held == worker.at # "idle" => worker.request \in requestQueue
AnsweredInv == RequestIsAccounted /\ Answered /\ Held

LEMMA NextAccountedInv ==
  ASSUME DataInv, AnsweredInv, [BackendNext]_backendVars
  PROVE  AnsweredInv'
<1>1. ASSUME UNCHANGED <<asked, requestQueue, responses, dropped>>, worker'.at # "acknowledging",
             worker'.request \in requestQueue
      PROVE  AnsweredInv'
  BY <1>1 DEF AnsweredInv, RequestIsAccounted, Answered, Held
<1>2. ASSUME Write, table' \in Seq(Transactions) PROVE AnsweredInv'
  <2>1. worker \in WorkerStates
    BY DEF DataInv, WorkerHolds
  <2>2. worker'.at = worker.at /\ worker'.request = worker.request
    BY <1>2, <2>1, WriteDataInv DEF WorkerStates
  <2> QED BY <1>2, <2>2 DEF Write, AnsweredInv, RequestIsAccounted, Answered, Held
<1>3. ASSUME NEW q \in Requests, NEW types \in Asks, SendRequest(q, types) PROVE AnsweredInv'
  <2>1. DOMAIN asked' = DOMAIN asked \union {q}
    BY <1>3 DEF SendRequest
  <2> QED BY <1>3, <2>1 DEF SendRequest, AnsweredInv, RequestIsAccounted, Answered, Held
<1>4. ASSUME NEW q \in Requests, Take(q) PROVE AnsweredInv'
  BY <1>1, <1>4, TakeDataInv DEF Take
<1>5. CASE Validate
  BY <1>1, <1>5, ValidateDataInv DEF Validate, AnsweredInv, Held
<1>6. CASE FetchList \/ ListFails \/ FetchContext \/ FetchProfiles
  <2>1. Unchanged /\ ListFetched
    BY <1>6, ListFetchedDataInv
  <2> QED BY <1>1, <2>1 DEF Unchanged, ListFetched, AnsweredInv, Held
<1>7. ASSUME NEW order \in Orders, FetchPage(order) PROVE AnsweredInv'
  <2>1. Unchanged /\ worker.at = "counted" /\ worker'.at = "fetching" /\ worker'.request = worker.request
    BY <1>7, FetchPageDataInv
  <2> QED BY <1>1, <2>1 DEF Unchanged, AnsweredInv, Held
<1>11. CASE CountRows
  <2>1. Unchanged /\ worker.at = "fetching" /\ worker'.at = "counted" /\ worker'.request = worker.request
    BY <1>11, CountRowsDataInv
  <2> QED BY <1>1, <2>1 DEF Unchanged, AnsweredInv, Held
<1>12. CASE PageFails
  <2>1. worker.at # "idle" /\ worker'.at = "fetching" /\ worker'.request = worker.request
    BY <1>12, PageFailsDataInv
  <2> QED BY <1>1, <1>12, <2>1 DEF PageFails, Unchanged, AnsweredInv, Held
<1>8. CASE PublishResponse
  <2>1. Response.request = worker.request
    BY DEF Response
  <2>2. worker.at # "idle"
    BY <1>8 DEF PublishResponse, At
  <2> QED BY <1>8, <2>1, <2>2, PublishResponseDataInv
          DEF PublishResponse, AnsweredInv, RequestIsAccounted, Answered, Held
<1>9. CASE AcknowledgeRequest \/ PublishFails \/ WorkerDies
  BY <1>9, WorkerEndsDataInv DEF AcknowledgeRequest, PublishFails, WorkerDies, At, AnsweredInv, RequestIsAccounted,
                                 Answered, Held
<1>10. CASE UNCHANGED backendVars
  BY <1>10 DEF backendVars, AnsweredInv, RequestIsAccounted, Answered, Held
<1> QED BY <1>2, <1>3, <1>4, <1>5, <1>6, <1>7, <1>8, <1>9, <1>10, <1>11, <1>12, TableChangesTyped
        DEF BackendNext, Fetch, TableChanges

\* The consumer answers inside process(), which acknowledges afterwards: whenever
\* the worker dies, a request is in the queue or answered, unless process()
\* rejected it. It is the worker's answer that an acknowledgement relies on.
THEOREM RequestsAreAccounted == BackendSpec => []RequestIsAccounted
<1>1. DataInv /\ AnsweredInv /\ [BackendNext]_backendVars => AnsweredInv'
  BY NextAccountedInv
<1>2. BackendInit => AnsweredInv
  BY NoWorkTyped DEF BackendInit, AnsweredInv, RequestIsAccounted, Answered, Held
<1>3. AnsweredInv => RequestIsAccounted
  BY DEF AnsweredInv
<1> QED BY <1>1, <1>2, <1>3, AlwaysDataInv, PTL DEF BackendSpec

-----------------------------------------------------------------------------
(* Requests as background tasks *)

AnsweredRequests == {r.request : r \in responses}

\* The task is to answer a request: only a response is its outcome, for the
\* queue of the requests has no dead letters; a request that process() rejects is
\* given up.
RequestTask == INSTANCE BackgroundTask WITH
    Tasks <- Requests,
    submitted <- DOMAIN asked,
    outstanding <- requestQueue,
    recorded <- AnsweredRequests,
    abandoned <- dropped

LEMMA RequestStep ==
  ASSUME DataInv, AnsweredInv, [BackendNext]_backendVars
  PROVE  [RequestTask!Next]_(RequestTask!vars)
<1>1. ASSUME UNCHANGED <<asked, requestQueue, responses, dropped>>
      PROVE  [RequestTask!Next]_(RequestTask!vars)
  BY <1>1 DEF RequestTask!vars, AnsweredRequests
<1>2. ASSUME NEW q \in Requests, NEW types \in Asks, SendRequest(q, types)
      PROVE  [RequestTask!Next]_(RequestTask!vars)
  <2>1. /\ q \notin DOMAIN asked /\ DOMAIN asked' = DOMAIN asked \union {q}
        /\ requestQueue' = requestQueue \union {q} /\ AnsweredRequests' = AnsweredRequests /\ dropped' = dropped
    BY <1>2 DEF SendRequest, AnsweredRequests
  <2>2. RequestTask!Submit(q)
    BY <2>1 DEF RequestTask!Submit
  <2> QED BY <2>2 DEF RequestTask!Next
<1>3. CASE PublishResponse
  <2> DEFINE q == worker.request
  <2>1. worker.at # "idle" /\ UNCHANGED <<asked, requestQueue, dropped>>
    BY <1>3 DEF PublishResponse, At
  <2>2. q \in DOMAIN asked /\ q \in Requests
    BY <2>1 DEF DataInv, WorkerHolds, QueueHolds
  <2>3. responses' = responses \union {Response} /\ Response.request = q
    BY <1>3 DEF PublishResponse, Response
  <2>4. AnsweredRequests' = AnsweredRequests \union {q}
    BY <2>3 DEF AnsweredRequests
  <2>5. RequestTask!Record(q)
    BY <2>1, <2>2, <2>4 DEF RequestTask!Record
  <2> QED BY <2>2, <2>5 DEF RequestTask!Next
<1>4. CASE AcknowledgeRequest
  <2> DEFINE q == worker.request
  <2>1. /\ worker.at = "acknowledging" /\ UNCHANGED <<asked, responses, dropped>>
        /\ requestQueue' = requestQueue \ {q}
    BY <1>4 DEF AcknowledgeRequest, At
  <2>2. q \in AnsweredRequests /\ AnsweredRequests' = AnsweredRequests
    BY <2>1 DEF AnsweredInv, Answered, AnsweredRequests
  <2>3. q \in Requests
    BY <2>1 DEF DataInv, WorkerHolds, QueueHolds
  <2>4. CASE q \in requestQueue
    <3>1. RequestTask!Retire(q)
      BY <2>1, <2>2, <2>4 DEF RequestTask!Retire
    <3> QED BY <2>3, <3>1 DEF RequestTask!Next
  <2>5. CASE q \notin requestQueue
    <3>1. requestQueue' = requestQueue
      BY <2>1, <2>5
    <3> QED BY <1>1, <2>1, <3>1
  <2> QED BY <2>4, <2>5
<1>5. CASE PublishFails
  <2> DEFINE q == worker.request
  <2>1. worker.at # "idle"
    BY <1>5 DEF PublishFails
  <2>2. q \in requestQueue /\ q \in Requests
    BY <2>1 DEF AnsweredInv, Held, DataInv, WorkerHolds, QueueHolds
  <2>3. /\ UNCHANGED <<asked, responses>> /\ AnsweredRequests' = AnsweredRequests
        /\ dropped' = dropped \union {q} /\ requestQueue' = requestQueue \ {q}
    BY <1>5 DEF PublishFails, AnsweredRequests
  <2>4. RequestTask!Abandon(q)
    BY <2>2, <2>3 DEF RequestTask!Abandon
  <2> QED BY <2>2, <2>4 DEF RequestTask!Next
<1>6. CASE UNCHANGED backendVars
  BY <1>1, <1>6 DEF backendVars
<1>7. CASE TableChanges
  BY <1>1, <1>7, TableChangesTyped DEF Write
<1>8. ASSUME NEW q \in Requests, Take(q) PROVE [RequestTask!Next]_(RequestTask!vars)
  BY <1>1, <1>8 DEF Take
<1>9. CASE Validate
  BY <1>1, <1>9 DEF Validate
<1>10. CASE WorkerDies
  BY <1>1, <1>10 DEF WorkerDies
<1>11. ASSUME NEW order \in Orders, FetchPage(order) PROVE [RequestTask!Next]_(RequestTask!vars)
  BY <1>1, <1>11 DEF FetchPage, Unchanged
<1>12. CASE PageFails
  BY <1>1, <1>12 DEF PageFails, Unchanged
<1>13. CASE FetchList
  BY <1>1, <1>13 DEF FetchList, Unchanged
<1>14. CASE ListFails
  BY <1>1, <1>14 DEF ListFails, Unchanged
<1>15. CASE FetchContext
  BY <1>1, <1>15 DEF FetchContext, Unchanged
<1>16. CASE FetchProfiles
  BY <1>1, <1>16 DEF FetchProfiles, Unchanged
<1>17. CASE CountRows
  BY <1>1, <1>17 DEF CountRows, Unchanged
<1> QED BY <1>2, <1>3, <1>4, <1>5, <1>6, <1>7, <1>8, <1>9, <1>10, <1>11, <1>12, <1>13, <1>14, <1>15, <1>16, <1>17
       DEF BackendNext, Fetch, TableChanges

\* backend_data_worker keeps the promise of BackgroundTask for the requests of the
\* AI: one that is sent stays in the queue until its answer is published, wherever
\* the worker dies, or until process() rejects it, which only the worker's own
\* failure does and only while it holds the request.
THEOREM RequestsAreTasks == BackendSpec => RequestTask!Spec
<1>1. BackendInit => RequestTask!Init
  BY DEF BackendInit, RequestTask!Init, AnsweredRequests
<1>2. DataInv /\ AnsweredInv /\ [BackendNext]_backendVars => AnsweredInv'
  BY NextAccountedInv
<1>3. BackendInit => AnsweredInv
  BY NoWorkTyped DEF BackendInit, AnsweredInv, RequestIsAccounted, Answered, Held
<1>4. DataInv /\ AnsweredInv /\ [BackendNext]_backendVars
         => [RequestTask!Next]_(RequestTask!vars)
  BY RequestStep
<1> QED BY <1>1, <1>2, <1>3, <1>4, AlwaysDataInv, PTL DEF BackendSpec, RequestTask!Spec

-----------------------------------------------------------------------------
(* The pages of an answer *)

\* A list is the user's, or was disturbed, or an error says that a call failed.
Excused(x) == x.whole \/ x.disturbed \/ x.errors \intersect Critical # {}

\* The first n places of the table hold these items, or ones that tie with them.
Fetched(items, n) ==
    /\ Len(items) = n
    /\ \A i \in 1..n : items[i] \in ToSet(table) /\ Rank[items[i]] = Rank[table[i]]

\* The pages fetched so far are the beginning of the table, and there is more.
Paging ==
    \/ worker.disturbed
    \/ worker.page = 1 /\ worker.items = <<>>
    \/ Fetched(worker.items, Before) /\ Before < Len(table)

\* The rows counted are there as long as no change disturbs the page.
PageCounted ==
    /\ "transactions" \in worker.todo
    /\ Paging
    /\ worker.disturbed \/ worker.total = Len(table)

PagesInv ==
    /\ worker.at = "validating" => worker.whole /\ worker.page = 1 /\ worker.items = <<>>
    /\ worker.at = "answering" => Excused(worker)
    /\ worker.at = "fetching" /\ "transactions" \in worker.todo => Paging
    /\ worker.at = "counted" => PageCounted
    /\ worker.at = "fetching" /\ "transactions" \notin worker.todo => Excused(worker)
    /\ \A r \in responses : Excused(r)

\* Where the elements of two lists are once they are joined.
LEMMA Joined ==
  ASSUME NEW p \in Seq(Transactions), NEW q \in Seq(Transactions)
  PROVE  /\ p \o q \in Seq(Transactions) /\ Len(p \o q) = Len(p) + Len(q)
         /\ DOMAIN (p \o q) = 1..(Len(p) + Len(q))
         /\ \A i \in 1..(Len(p) + Len(q)) : (p \o q)[i] = IF i <= Len(p) THEN p[i] ELSE q[i - Len(p)]
OBVIOUS

LEMMA PartOf ==
  ASSUME NEW s \in Seq(Transactions), NEW d \in Nat, NEW m \in Nat, d <= m, m <= Len(s)
  PROVE  /\ SubSeq(s, d + 1, m) \in Seq(Transactions)
         /\ Len(SubSeq(s, d + 1, m)) = m - d
         /\ \A i \in 1..(m - d) : SubSeq(s, d + 1, m)[i] = s[i + d]
OBVIOUS

\* A page in any order of the ties continues what was fetched before it.
LEMMA PageContinues ==
  ASSUME DataInv, NEW order \in Orders, Fetched(worker.items, Before), Before <= UpTo
  PROVE  Fetched(worker.items \o PageOf(order), UpTo)
<1>1. /\ Before \in Nat /\ UpTo \in Nat /\ UpTo <= Len(table) /\ Len(table) \in Nat
      /\ PageOf(order) = SubSeq(order, Before + 1, UpTo)
  BY PageIs
<1>2. /\ order \in Seq(Transactions) /\ Len(order) = Len(table)
      /\ \A i \in 1..Len(table) : order[i] \in ToSet(table) /\ Rank[order[i]] = Rank[table[i]]
  BY OrderIs
<1>3. worker.items \in Seq(Transactions) /\ Len(worker.items) = Before
  BY DEF DataInv, WorkerHolds, WorkerStates, Lists, Fetched
<1> DEFINE q == PageOf(order)
           items == worker.items \o q
<1>4. /\ q \in Seq(Transactions) /\ Len(q) = UpTo - Before
      /\ \A i \in 1..(UpTo - Before) : q[i] = order[i + Before]
  <2>1. UpTo <= Len(order)
    BY <1>1, <1>2
  <2> QED BY <1>1, <1>2, <2>1, PartOf
<1> HIDE DEF q
<1>5. /\ DOMAIN items = 1..(Len(worker.items) + Len(q))
      /\ \A i \in 1..(Len(worker.items) + Len(q)) :
            items[i] = IF i <= Len(worker.items) THEN worker.items[i] ELSE q[i - Len(worker.items)]
      /\ items \in Seq(Transactions)
  BY <1>3, <1>4, Joined
<1> HIDE DEF items
<1>6. Len(items) = UpTo
  BY <1>1, <1>3, <1>4, <1>5
<1>7. ASSUME NEW i \in 1..UpTo PROVE items[i] \in ToSet(table) /\ Rank[items[i]] = Rank[table[i]]
  <2>1. CASE i <= Before
    <3>1. items[i] = worker.items[i] /\ i \in 1..Before
      BY <1>1, <1>3, <1>4, <1>5, <2>1
    <3> QED BY <3>1 DEF Fetched
  <2>2. CASE ~(i <= Before)
    <3>1. i - Before \in 1..(UpTo - Before) /\ (i - Before) + Before = i /\ i \in 1..Len(table)
      BY <1>1, <2>2
    <3>2. items[i] = q[i - Before]
      BY <1>1, <1>3, <1>4, <1>5, <2>2
    <3>3. items[i] = order[i]
      BY <1>4, <3>1, <3>2
    <3> QED BY <1>2, <3>1, <3>3
  <2> QED BY <2>1, <2>2
<1> QED BY <1>6, <1>7 DEF Fetched, items, q

\* A page that is not the last leaves some for the next; the last leaves none.
LEMMA PagesJoin ==
  ASSUME DataInv, PageCounted, ~worker.disturbed, NEW order \in Orders
  PROVE  LET page == PageOf(order)
             items == worker.items \o page
         IN
         /\ LastPage(page, items) => IsWhole(items)
         /\ ~LastPage(page, items) =>
               Fetched(items, worker.page * PageSize) /\ worker.page * PageSize < Len(table)
<1> DEFINE e == worker.page * PageSize
           page == PageOf(order)
           items == worker.items \o page
<1>1. /\ Before \in Nat /\ e \in Nat /\ e > Before /\ UpTo \in Nat
      /\ Len(table) \in Nat /\ UpTo = IF e <= Len(table) THEN e ELSE Len(table)
      /\ (UpTo > Before => page # <<>>)
  BY PageIs DEF UpTo
<1>2. Fetched(worker.items, Before) /\ Before <= Len(table)
  <2>1. CASE worker.page = 1 /\ worker.items = <<>>
    <3>1. Before = 0
      BY <2>1, BackendAssumption DEF Before
    <3> QED BY <1>1, <2>1, <3>1 DEF Fetched
  <2> QED BY <1>1, <2>1 DEF PageCounted, Paging
<1>3. provider \in {"rpc", "gateway"} /\ worker.total = Len(table)
  BY DEF DataInv, TableHolds, PageCounted
<1>4. Before <= UpTo
  <2> HIDE DEF e
  <2> QED BY <1>1, <1>2
<1>5. Fetched(items, UpTo) /\ Len(items) = UpTo
  <2>1. Fetched(items, UpTo)
    BY <1>2, <1>4, PageContinues
  <2> QED BY <2>1 DEF Fetched
<1>6. LastPage(page, items) <=>
        \/ page = <<>>
        \/ provider = "rpc" /\ e >= IF worker.total = 0 THEN Len(items) ELSE worker.total
        \/ provider = "gateway" /\ Len(items) >= worker.total
  BY DEF LastPage
<1> HIDE DEF e, items, page
<1>7. LastPage(page, items) => UpTo = Len(table)
  BY <1>1, <1>3, <1>4, <1>5, <1>6
<1>8. ~LastPage(page, items) => UpTo = e /\ e < Len(table)
  BY <1>1, <1>3, <1>4, <1>5, <1>6
<1>9. Fetched(items, Len(table)) => IsWhole(items)
  BY DEF Fetched, IsWhole, DataInv, TableHolds
<1>10. LastPage(page, items) => IsWhole(items)
  BY <1>5, <1>7, <1>9
<1>11. ~LastPage(page, items) => Fetched(items, e) /\ e < Len(table)
  BY <1>5, <1>8
<1> QED BY <1>10, <1>11 DEF e, items, page

\* A change of the table leaves what is fetched whole, unfinished or disturbed.
LEMMA WritePagesInv ==
  ASSUME DataInv, PagesInv, Write, table' \in Seq(Transactions)
  PROVE  PagesInv'
<1>1. PICK b \in BOOLEAN : /\ worker' = [worker EXCEPT !.disturbed = b]
                           /\ worker.at = "counted" \/ (worker.at = "fetching" /\ worker.page > 1) => b
                           /\ worker.disturbed => b
  BY WriteDataInv
<1>2. worker \in WorkerStates /\ worker.page \in Nat \ {0} /\ table \in Seq(Transactions)
  BY DEF DataInv, WorkerHolds, WorkerStates, Pages, TableHolds
<1>3. /\ worker'.at = worker.at /\ worker'.page = worker.page /\ worker'.items = worker.items /\ worker'.todo = worker.todo
      /\ worker'.whole = worker.whole /\ worker'.errors = worker.errors /\ worker'.disturbed = b
      /\ UNCHANGED responses
  BY <1>1, <1>2 DEF WorkerStates, Write
<1>4. Excused(worker) => Excused(worker')
  BY <1>1, <1>3 DEF Excused
<1>5. worker.at = "fetching" /\ Paging => Paging'
  <2> SUFFICES ASSUME worker.at = "fetching", Paging, ~b PROVE Paging'
    BY <1>3 DEF Paging
  <2>1. worker.page = 1 /\ ~worker.disturbed
    BY <1>1, <1>2
  <2>2. worker.items = <<>>
    <3>1. Before = 0
      BY <2>1, BackendAssumption DEF Before
    <3>2. worker.items \in Seq(Transactions)
      BY DEF DataInv, WorkerHolds, WorkerStates, Lists
    <3>3. Len(worker.items) = 0 => worker.items = <<>>
      BY <3>2
    <3> QED BY <2>1, <3>1, <3>3 DEF Paging, Fetched
  <2> QED BY <1>3, <2>1, <2>2 DEF Paging
<1>6. worker.at = "counted" /\ PageCounted => PageCounted'
  <2> SUFFICES ASSUME worker.at = "counted", PageCounted PROVE PageCounted'
    OBVIOUS
  <2>1. worker'.disturbed
    BY <1>1, <1>3
  <2>2. "transactions" \in worker'.todo
    BY <1>3 DEF PageCounted
  <2> QED BY <2>1, <2>2 DEF PageCounted, Paging
<1> QED BY <1>3, <1>4, <1>5, <1>6 DEF PagesInv

\* What is fetched stays what it is while table, pages and items do.
LEMMA PagingStays ==
  ASSUME DataInv, Paging, UNCHANGED table, worker'.disturbed = worker.disturbed,
         worker'.page = worker.page, worker'.items = worker.items
  PROVE  Paging'
<1>1. Before' = Before
  BY DEF Before
<1>2. Fetched(worker.items, Before) => Fetched(worker.items, Before)'
  BY <1>1 DEF Fetched
<1> QED BY <1>1, <1>2 DEF Paging

LEMMA CountRowsPagesInv ==
  ASSUME DataInv, PagesInv, CountRows
  PROVE  PagesInv'
<1>1. /\ UNCHANGED <<table, responses>> /\ worker.at = "fetching" /\ worker'.at = "counted"
      /\ worker'.total = Len(table) /\ "transactions" \in worker.todo /\ worker'.todo = worker.todo
      /\ worker'.disturbed = worker.disturbed /\ worker'.page = worker.page /\ worker'.items = worker.items
  BY CountRowsDataInv DEF Unchanged
<1>2. Paging
  BY <1>1 DEF PagesInv
<1>3. Paging'
  BY <1>1, <1>2, PagingStays
<1>4. PageCounted'
  BY <1>1, <1>3 DEF PageCounted
<1> QED BY <1>1, <1>4 DEF PagesInv

\* A fetched page ends a list that is whole, or continues one.
LEMMA FetchPagePagesInv ==
  ASSUME DataInv, PagesInv, NEW order \in Orders, FetchPage(order)
  PROVE  PagesInv'
<1> DEFINE page == PageOf(order)
           items == worker.items \o page
<1>1. /\ worker.at = "counted" /\ worker'.at = "fetching" /\ worker'.disturbed = worker.disturbed
      /\ UNCHANGED <<table, responses>>
      /\ \/ /\ LastPage(page, items) /\ "transactions" \notin worker'.todo
            /\ worker'.whole = IsWhole(items) /\ worker'.page = 1
         \/ /\ ~LastPage(page, items) /\ worker'.todo = worker.todo
            /\ worker'.items = items /\ worker'.page = worker.page + 1
  BY FetchPageDataInv DEF Unchanged
<1>2. PageCounted
  BY <1>1 DEF PagesInv
<1>3. \/ worker.disturbed
      \/ /\ LastPage(page, items) => IsWhole(items)
         /\ ~LastPage(page, items) => Fetched(items, worker.page * PageSize) /\ worker.page * PageSize < Len(table)
  BY <1>2, PagesJoin
<1> HIDE DEF page, items
<1>4. CASE worker.disturbed
  BY <1>1, <1>4 DEF PagesInv, Paging, Excused
<1>5. CASE ~worker.disturbed /\ LastPage(page, items)
  BY <1>1, <1>2, <1>3, <1>5 DEF PagesInv, Excused, PageCounted
<1>6. CASE ~worker.disturbed /\ ~LastPage(page, items)
  <2>1. /\ Fetched(items, worker.page * PageSize) /\ worker.page * PageSize < Len(table)
        /\ worker'.page = worker.page + 1 /\ worker'.items = items /\ "transactions" \in worker'.todo
    BY <1>1, <1>2, <1>3, <1>6 DEF PageCounted
  <2>2. worker.page \in Nat \ {0}
    BY DEF DataInv, WorkerHolds, WorkerStates, Pages
  <2>3. Before' = worker.page * PageSize
    BY <2>1, <2>2 DEF Before
  <2>4. Fetched(worker.items, Before)'
    BY <1>1, <2>1, <2>3 DEF Fetched
  <2>5. Paging'
    BY <1>1, <2>1, <2>3, <2>4 DEF Paging
  <2> QED BY <1>1, <2>1, <2>5 DEF PagesInv
<1> QED BY <1>3, <1>4, <1>5, <1>6

LEMMA NextPagesInv ==
  ASSUME DataInv, PagesInv, [BackendNext]_backendVars
  PROVE  PagesInv'
<1>1. ASSUME UNCHANGED <<table, responses, worker>> PROVE PagesInv'
  <2>1. Paging => Paging'
    BY <1>1, PagingStays
  <2>2. PageCounted => PageCounted'
    BY <1>1, <2>1 DEF PageCounted
  <2> QED BY <1>1, <2>1, <2>2 DEF PagesInv, Excused
<1>2. ASSUME worker'.at \in {"idle", "acknowledging"}, UNCHANGED responses PROVE PagesInv'
  BY <1>2 DEF PagesInv
<1>3. ASSUME NEW q \in Requests, NEW types \in Asks, SendRequest(q, types) PROVE PagesInv'
  BY <1>1, <1>3 DEF SendRequest
<1>4. ASSUME NEW q \in Requests, Take(q) PROVE PagesInv'
  <2>1. worker'.at = "validating" /\ worker'.page = 1 /\ worker'.items = <<>> /\ worker'.whole
    BY <1>4, TakeDataInv
  <2>2. UNCHANGED responses
    BY <1>4 DEF Take
  <2> QED BY <2>1, <2>2 DEF PagesInv
<1>5. CASE Validate
  <2>1. worker'.errors = {"INVALID_REQUEST"} => Excused(worker')
    BY DEF Excused, Critical
  <2> QED BY <1>5, <2>1, ValidateDataInv DEF Validate, At, PagesInv, Paging, Excused
<1>6. CASE FetchList \/ ListFails \/ FetchContext \/ FetchProfiles
  <2>1. ListFetched
    BY <1>6, ListFetchedDataInv
  <2>2. UNCHANGED <<table, responses>>
    BY <1>6, ListFetchedDataInv DEF Unchanged
  <2>3. Paging => Paging'
    BY <2>1, <2>2, PagingStays DEF ListFetched
  <2> QED BY <2>1, <2>2, <2>3 DEF ListFetched, PagesInv, Excused
<1>7. CASE PageFails
  BY <1>7, PageFailsDataInv DEF PageFails, Unchanged, PagesInv, Excused
<1>8. CASE PublishResponse
  <2>1. Excused(worker)
    BY <1>8 DEF PublishResponse, At, PagesInv
  <2>2. Excused(Response)
    BY <2>1 DEF Excused, Response
  <2>3. worker'.at = "acknowledging" /\ responses' = responses \union {Response}
    BY <1>8, PublishResponseDataInv DEF PublishResponse
  <2> QED BY <2>2, <2>3 DEF PagesInv
<1>9. CASE AcknowledgeRequest \/ PublishFails \/ WorkerDies
  BY <1>2, <1>9, WorkerEndsDataInv DEF AcknowledgeRequest, PublishFails, WorkerDies
<1>10. CASE UNCHANGED backendVars
  BY <1>1, <1>10 DEF backendVars
<1> QED BY <1>3, <1>4, <1>5, <1>6, <1>7, <1>8, <1>9, <1>10, CountRowsPagesInv, FetchPagePagesInv, WritePagesInv,
           TableChangesTyped DEF BackendNext, Fetch, TableChanges

\* The pages of a list join up, each counted and selected in two statements and
\* with ties in any order: an answer has as many transactions as the user, each in
\* its place or in that of one it ties with, for any page size, any number of
\* transactions, any ties and both ways of telling the last page, unless a call
\* failed, which an error of the answer says, or the table changed between two reads.
THEOREM AnswersAreWhole == BackendSpec => []TransactionsAreWhole
<1>1. DataInv /\ PagesInv /\ [BackendNext]_backendVars => PagesInv'
  BY NextPagesInv
<1>2. BackendInit => PagesInv
  BY NoWorkTyped DEF BackendInit, PagesInv
<1>3. PagesInv => TransactionsAreWhole
  BY DEF PagesInv, TransactionsAreWhole, Excused
<1> QED BY <1>1, <1>2, <1>3, AlwaysDataInv, PTL DEF BackendSpec

-----------------------------------------------------------------------------
(* FinanceLedger: rows, and the fields a request names *)

RowFields == {"kind", "owner", "account", "category", "live", "card", "limited"}

LEMMA RowOf ==
  ASSUME NEW f, DOMAIN f = RowFields, f = [k \in DOMAIN f |-> f[k]], f["kind"] \in Kinds, f["owner"] \in Owners,
         f["account"] \in Accounts \union {None}, f["category"] \in Items \union {None},
         f["live"] \in BOOLEAN, f["card"] \in BOOLEAN, f["limited"] \in BOOLEAN
  PROVE  f \in ItemRows
BY DEF ItemRows, RowFields

LEMMA RowFacts ==
  ASSUME NEW row \in ItemRows
  PROVE  /\ DOMAIN row = RowFields
         /\ row["kind"] \in Kinds /\ row["owner"] \in Owners /\ row["account"] \in Accounts \union {None}
         /\ row["category"] \in Items \union {None} /\ row["live"] \in BOOLEAN /\ row["card"] \in BOOLEAN
         /\ row["limited"] \in BOOLEAN
BY DEF ItemRows, RowFields

\* A request names no kind and no owner, and gives each field a value of its own.
LEMMA UpdateFacts ==
  ASSUME NEW u \in Updates
  PROVE  /\ "kind" \notin DOMAIN u /\ "owner" \notin DOMAIN u
         /\ "account" \in DOMAIN u => u["account"] \in Accounts
         /\ "category" \in DOMAIN u => u["category"] \in Items
         /\ "live" \in DOMAIN u => u["live"] \in BOOLEAN
         /\ "card" \in DOMAIN u => u["card"] \in BOOLEAN
         /\ "limited" \in DOMAIN u => u["limited"] \in BOOLEAN
<1>1. CASE u \in [account : Accounts]
  BY <1>1
<1>2. CASE u \in [category : Items]
  BY <1>2
<1>3. CASE u \in [card : BOOLEAN]
  BY <1>3
<1>4. CASE u \in [limited : BOOLEAN]
  BY <1>4
<1>5. CASE u \in [live : BOOLEAN]
  BY <1>5
<1>6. CASE u \in [card : BOOLEAN, limited : BOOLEAN]
  BY <1>6
<1> QED BY <1>1, <1>2, <1>3, <1>4, <1>5, <1>6 DEF Updates

\* A row with the fields of a request is a row of the same kind and owner.
LEMMA FieldsAre ==
  ASSUME NEW row \in ItemRows, NEW u \in Updates
  PROVE  LET new == Fields(row, u) IN
         /\ new \in ItemRows
         /\ new["kind"] = row["kind"] /\ new["owner"] = row["owner"]
         /\ new["account"] = IF "account" \in DOMAIN u THEN u["account"] ELSE row["account"]
         /\ new["category"] = IF "category" \in DOMAIN u THEN u["category"] ELSE row["category"]
         /\ new["card"] = IF "card" \in DOMAIN u THEN u["card"] ELSE row["card"]
         /\ new["limited"] = IF "limited" \in DOMAIN u THEN u["limited"] ELSE row["limited"]
<1> DEFINE new == Fields(row, u)
<1>1. DOMAIN row = RowFields
  BY RowFacts
<1>2. /\ DOMAIN new = RowFields /\ new = [k \in DOMAIN new |-> new[k]]
      /\ \A k \in RowFields : new[k] = IF k \in DOMAIN u THEN u[k] ELSE row[k]
  BY <1>1 DEF Fields
<1> HIDE DEF new
<1>3. /\ new["kind"] = row["kind"] /\ new["owner"] = row["owner"]
      /\ new["account"] = IF "account" \in DOMAIN u THEN u["account"] ELSE row["account"]
      /\ new["category"] = IF "category" \in DOMAIN u THEN u["category"] ELSE row["category"]
      /\ new["live"] = IF "live" \in DOMAIN u THEN u["live"] ELSE row["live"]
      /\ new["card"] = IF "card" \in DOMAIN u THEN u["card"] ELSE row["card"]
      /\ new["limited"] = IF "limited" \in DOMAIN u THEN u["limited"] ELSE row["limited"]
  BY <1>2, UpdateFacts DEF RowFields
<1>4. new \in ItemRows
  BY <1>2, <1>3, RowOf, RowFacts, UpdateFacts
<1> QED BY <1>3, <1>4 DEF new

\* The fields of a row, by name and by key.
LEMMA RowKeys ==
  ASSUME NEW row \in ItemRows
  PROVE  /\ row.kind = row["kind"] /\ row.owner = row["owner"] /\ row.account = row["account"]
         /\ row.category = row["category"] /\ row.card = row["card"] /\ row.limited = row["limited"]
BY DEF ItemRows

-----------------------------------------------------------------------------
(* FinanceLedger: types, and what a row refers to *)

LedgerStates == [at : {"free", "creating", "updating", "deleting"}, user : Owners \union {None},
                 item : Items \union {None}, new : SUBSET ItemRows, updates : SUBSET Updates]

OwnAccount(o, a) == a \in DOMAIN accountOf /\ accountOf[a].owner = o
OwnCategory(o, x) == Owns(o, x) /\ item[x].kind = "category"

RefersToOwn(row) ==
    /\ row.account # None => OwnAccount(row.owner, row.account)
    /\ row.category # None => OwnCategory(row.owner, row.category)
NamesOwn(o, updates) ==
    /\ "account" \in DOMAIN updates => OwnAccount(o, updates["account"])
    /\ "category" \in DOMAIN updates => OwnCategory(o, updates["category"])

AccountsTyped ==
    /\ DOMAIN accountOf \subseteq Accounts
    /\ \A a \in DOMAIN accountOf : accountOf[a] \in [owner : Owners, archived : BOOLEAN]
RowsTyped ==
    /\ DOMAIN item \subseteq Items /\ erased \subseteq Items \ DOMAIN item /\ skewed \subseteq Items
    /\ \A x \in DOMAIN item : item[x] \in ItemRows
ThreadsTyped ==
    /\ ledger \in [LedgerThreads -> LedgerStates]
    /\ ledgerRequests \in 0..MaxLedgerRequests

\* A row that a thread updates is its user's as long as it is there, and once
\* erased it does not come back.
UpdatesOwn(t) ==
    /\ ledger[t].user \in Owners /\ ledger[t].item \in DOMAIN item \union erased
    /\ ledger[t].item \in DOMAIN item => item[ledger[t].item].owner = ledger[t].user
    /\ \A u \in ledger[t].updates : NamesOwn(ledger[t].user, u)
RowsRefer == \A x \in DOMAIN item : RefersToOwn(item[x])
ThreadsRefer == \A t \in LedgerThreads :
    /\ \A row \in ledger[t].new : RefersToOwn(row)
    /\ ledger[t].at = "updating" => UpdatesOwn(t)

LedgerInv == AccountsTyped /\ RowsTyped /\ ThreadsTyped /\ RowsRefer /\ ThreadsRefer

LEMMA LedgerFreeTyped ==
  LedgerFree \in LedgerStates /\ LedgerFree.at = "free" /\ LedgerFree.new = {}
BY DEF LedgerFree, LedgerStates

LEMMA InitLedgerInv == LedgerInit => LedgerInv
<1> SUFFICES ASSUME LedgerInit PROVE LedgerInv
  OBVIOUS
<1>1. AccountsTyped /\ RowsTyped /\ RowsRefer
  BY DEF LedgerInit, AccountsTyped, RowsTyped, RowsRefer
<1>2. ThreadsTyped
  BY LedgerFreeTyped, LedgerAssumption DEF LedgerInit, ThreadsTyped
<1>3. ThreadsRefer
  BY LedgerFreeTyped DEF LedgerInit, ThreadsRefer
<1> QED BY <1>1, <1>2, <1>3 DEF LedgerInv

\* What no step takes away: an account's or a row's owner, a category, and that
\* an erased row is erased.
OwnersKept ==
    /\ \A o, a : OwnAccount(o, a) => OwnAccount(o, a)'
    /\ \A o, x : OwnCategory(o, x) => OwnCategory(o, x)'
    /\ \A x \in DOMAIN item \union erased :
          /\ x \in DOMAIN item' \union erased'
          /\ x \in DOMAIN item' => x \in DOMAIN item /\ item'[x].owner = item[x].owner

LEMMA ReferencesKept ==
  ASSUME OwnersKept
  PROVE  /\ \A row : RefersToOwn(row) => RefersToOwn(row)'
         /\ \A o, u : NamesOwn(o, u) => NamesOwn(o, u)'
BY DEF OwnersKept, RefersToOwn, NamesOwn

\* A thread goes on with x: what the others hold refers to what it did.
LEMMA ThreadRemembers ==
  ASSUME LedgerInv, OwnersKept, NEW t \in LedgerThreads, NEW x \in LedgerStates, Remembers(t, x),
         \A row \in x.new : RefersToOwn(row),
         x.at = "updating" =>
            /\ x.user \in Owners /\ x.item \in DOMAIN item' /\ item'[x.item].owner = x.user
            /\ \A u \in x.updates : NamesOwn(x.user, u),
         ledgerRequests' \in 0..MaxLedgerRequests
  PROVE  ThreadsTyped' /\ ThreadsRefer'
<1>1. /\ ledger' \in [LedgerThreads -> LedgerStates] /\ ledger'[t] = x
      /\ \A s \in LedgerThreads : s # t => ledger'[s] = ledger[s]
  BY DEF LedgerInv, ThreadsTyped, Remembers
<1>2. ThreadsTyped'
  BY <1>1 DEF ThreadsTyped
<1>3. /\ \A row : RefersToOwn(row) => RefersToOwn(row)'
      /\ \A o, u : NamesOwn(o, u) => NamesOwn(o, u)'
  BY ReferencesKept
<1>4. ASSUME NEW s \in LedgerThreads
      PROVE  /\ \A row \in ledger'[s].new : RefersToOwn(row)'
             /\ ledger'[s].at = "updating" => UpdatesOwn(s)'
  <2>1. CASE s = t
    BY <1>1, <1>3, <2>1 DEF UpdatesOwn
  <2>2. CASE s # t
    <3>1. ledger'[s] = ledger[s]
      BY <1>1, <2>2
    <3>2. \A row \in ledger[s].new : RefersToOwn(row)
      BY DEF LedgerInv, ThreadsRefer
    <3>3. ASSUME ledger[s].at = "updating" PROVE UpdatesOwn(s)'
      <4>1. UpdatesOwn(s)
        BY <3>3 DEF LedgerInv, ThreadsRefer
      <4>2. \A u \in ledger[s].updates : NamesOwn(ledger[s].user, u)
        BY <4>1 DEF UpdatesOwn
      <4>3. \A o, u : o = ledger[s].user /\ u \in ledger[s].updates => NamesOwn(o, u)'
        BY <1>3, <4>2
      <4>4. /\ ledger[s].user \in Owners /\ ledger[s].item \in DOMAIN item' \union erased'
            /\ ledger[s].item \in DOMAIN item' => item'[ledger[s].item].owner = ledger[s].user
        BY <4>1 DEF UpdatesOwn, OwnersKept
      <4> QED BY <3>1, <4>3, <4>4 DEF UpdatesOwn
    <3> QED BY <1>3, <3>1, <3>2, <3>3
  <2> QED BY <2>1, <2>2
<1>5. ThreadsRefer'
  BY <1>4 DEF ThreadsRefer
<1> QED BY <1>2, <1>5

LEMMA RequestCounted ==
  ASSUME LedgerInv, NEW t \in LedgerThreads, Requested(t) \/ UNCHANGED ledgerRequests
  PROVE  ledgerRequests' \in 0..MaxLedgerRequests
BY LedgerAssumption DEF LedgerInv, ThreadsTyped, Requested

\* A step of a thread that commits nothing.
LEMMA NothingCommitted ==
  ASSUME LedgerInv, UNCHANGED <<accountOf, item, erased, skewed>>
  PROVE  AccountsTyped' /\ RowsTyped' /\ RowsRefer' /\ OwnersKept
<1>1. AccountsTyped' /\ RowsTyped'
  BY DEF LedgerInv, AccountsTyped, RowsTyped
<1>2. OwnersKept
  BY DEF OwnersKept, OwnAccount, OwnCategory, Owns
<1>3. RowsRefer'
  BY <1>2, ReferencesKept DEF LedgerInv, RowsRefer
<1> QED BY <1>1, <1>2, <1>3

\* The accounts change, their owners do not.
LEMMA AccountsLedgerInv ==
  ASSUME LedgerInv, NEW t \in LedgerThreads, NEW a \in Accounts,
         \/ \E o \in Owners : CreateAccount(t, o, a)
         \/ \E archived \in BOOLEAN : ArchiveAccount(t, a, archived)
  PROVE  LedgerInv'
<1>1. UNCHANGED <<item, erased, skewed, ledger>> /\ ledgerRequests' \in 0..MaxLedgerRequests
  BY RequestCounted DEF CreateAccount, ArchiveAccount
<1>2. AccountsTyped' /\ \A o, b : OwnAccount(o, b) => OwnAccount(o, b)'
  <2>1. ASSUME NEW o \in Owners, CreateAccount(t, o, a)
        PROVE  AccountsTyped' /\ \A p, b : OwnAccount(p, b) => OwnAccount(p, b)'
    <3> DEFINE row == [owner |-> o, archived |-> FALSE]
    <3>1. accountOf' = [y \in DOMAIN accountOf \union {a} |-> IF y = a THEN row ELSE accountOf[y]]
          /\ a \notin DOMAIN accountOf
      BY <2>1 DEF CreateAccount, With
    <3>2. row \in [owner : Owners, archived : BOOLEAN]
      OBVIOUS
    <3> HIDE DEF row
    <3> QED BY <3>1, <3>2 DEF LedgerInv, AccountsTyped, OwnAccount
  <2>2. ASSUME NEW archived \in BOOLEAN, ArchiveAccount(t, a, archived)
        PROVE  AccountsTyped' /\ \A p, b : OwnAccount(p, b) => OwnAccount(p, b)'
    <3>1. accountOf' = [accountOf EXCEPT ![a].archived = archived] /\ a \in DOMAIN accountOf
      BY <2>2 DEF ArchiveAccount
    <3>2. /\ DOMAIN accountOf' = DOMAIN accountOf
          /\ \A b \in DOMAIN accountOf : accountOf'[b] \in [owner : Owners, archived : BOOLEAN]
                                        /\ accountOf'[b].owner = accountOf[b].owner
      BY <3>1 DEF LedgerInv, AccountsTyped
    <3> QED BY <3>2 DEF LedgerInv, AccountsTyped, OwnAccount
  <2> QED BY <2>1, <2>2
<1>3. OwnersKept
  BY <1>1, <1>2 DEF OwnersKept, OwnCategory, Owns
<1>4. /\ \A row : RefersToOwn(row) => RefersToOwn(row)'
      /\ \A o, u : NamesOwn(o, u) => NamesOwn(o, u)'
  BY <1>3, ReferencesKept
<1>5. RowsTyped' /\ RowsRefer' /\ ThreadsTyped'
  BY <1>1, <1>4 DEF LedgerInv, RowsTyped, RowsRefer, ThreadsTyped
<1>6. ThreadsRefer'
  BY <1>1, <1>4 DEF LedgerInv, ThreadsRefer, UpdatesOwn
<1> QED BY <1>2, <1>5, <1>6 DEF LedgerInv

\* What _validate_owned_references accepts is the user's own.
LEMMA ValidatedAreOwn ==
  ASSUME NEW o, NEW row, NEW u \in Updates, ValidReferences(o, row, u)
  PROVE  NamesOwn(o, u)
<1>1. /\ "account" \in DOMAIN u => u["account"] # None
      /\ "category" \in DOMAIN u => u["category"] # None
  BY UpdateFacts, LedgerAssumption
<1> QED BY <1>1 DEF ValidReferences, NamesOwn, ValidAccount, ValidCategory, OwnAccount, OwnCategory

\* A row with such fields refers to its owner's own, if it did before.
LEMMA FieldsReferToOwn ==
  ASSUME NEW row \in ItemRows, NEW u \in Updates, RefersToOwn(row), NamesOwn(row.owner, u)
  PROVE  RefersToOwn(Fields(row, u))
<1> DEFINE new == Fields(row, u)
<1>1. /\ new \in ItemRows /\ new["owner"] = row["owner"]
      /\ new["account"] = IF "account" \in DOMAIN u THEN u["account"] ELSE row["account"]
      /\ new["category"] = IF "category" \in DOMAIN u THEN u["category"] ELSE row["category"]
  BY FieldsAre
<1> HIDE DEF new
<1>2. /\ new.owner = row.owner
      /\ new.account = IF "account" \in DOMAIN u THEN u["account"] ELSE row.account
      /\ new.category = IF "category" \in DOMAIN u THEN u["category"] ELSE row.category
  BY <1>1, RowKeys
<1>3. RefersToOwn(new)
  BY <1>2 DEF RefersToOwn, NamesOwn
<1> QED BY <1>3 DEF new

LEMMA BlankTyped ==
  ASSUME NEW kind \in Kinds, NEW o \in Owners
  PROVE  /\ Blank(kind, o) \in ItemRows /\ Blank(kind, o).owner = o
         /\ Blank(kind, o).account = None /\ Blank(kind, o).category = None
BY DEF Blank, ItemRows

LEMMA AskCreateLedgerInv ==
  ASSUME LedgerInv, NEW t \in LedgerThreads, NEW o \in Owners, NEW kind \in Kinds, NEW u \in Updates,
         AskCreate(t, o, kind, u)
  PROVE  LedgerInv'
<1> DEFINE row == Fields(Blank(kind, o), u)
           x == [LedgerFree EXCEPT !.at = "creating", !.user = o, !.new = {row}]
<1>1. row \in ItemRows
  BY BlankTyped, FieldsAre
<1>2. RefersToOwn(row)
  <2>1. NamesOwn(o, u)
    BY ValidatedAreOwn DEF AskCreate
  <2>2. RefersToOwn(Blank(kind, o))
    BY BlankTyped DEF RefersToOwn
  <2> QED BY <2>1, <2>2, BlankTyped, FieldsReferToOwn
<1>3. Remembers(t, x) /\ UNCHANGED <<accountOf, item, erased, skewed>> /\ Requested(t)
  BY DEF AskCreate
<1> HIDE DEF row
<1>4. x \in LedgerStates /\ x.new = {row} /\ x.at = "creating"
  BY <1>1, LedgerFreeTyped DEF LedgerStates
<1> HIDE DEF x
<1>5. OwnersKept /\ AccountsTyped' /\ RowsTyped' /\ RowsRefer'
  BY <1>3, NothingCommitted
<1>6. ThreadsTyped' /\ ThreadsRefer'
  BY <1>2, <1>3, <1>4, <1>5, ThreadRemembers, RequestCounted
<1> QED BY <1>5, <1>6 DEF LedgerInv

LEMMA AskUpdateLedgerInv ==
  ASSUME LedgerInv, NEW t \in LedgerThreads, NEW o \in Owners, NEW y \in Items, NEW u \in Updates,
         AskUpdate(t, o, y, u)
  PROVE  LedgerInv'
<1> DEFINE x == [LedgerFree EXCEPT !.at = "updating", !.user = o, !.item = y, !.updates = {u}]
<1>1. NamesOwn(o, u)
  BY ValidatedAreOwn DEF AskUpdate
<1>2. Remembers(t, x) /\ UNCHANGED <<accountOf, item, erased, skewed>> /\ Requested(t) /\ Owns(o, y)
  BY DEF AskUpdate
<1>3. /\ x \in LedgerStates /\ x.new = {} /\ x.at = "updating" /\ x.user = o /\ x.item = y /\ x.updates = {u}
  BY LedgerFreeTyped DEF LedgerStates
<1> HIDE DEF x
<1>4. OwnersKept /\ AccountsTyped' /\ RowsTyped' /\ RowsRefer'
  BY <1>2, NothingCommitted
<1>5. ThreadsTyped' /\ ThreadsRefer'
  BY <1>1, <1>2, <1>3, <1>4, ThreadRemembers, RequestCounted DEF Owns
<1> QED BY <1>4, <1>5 DEF LedgerInv

LEMMA AskDeleteLedgerInv ==
  ASSUME LedgerInv, NEW t \in LedgerThreads, NEW o \in Owners, NEW y \in Items, AskDelete(t, o, y)
  PROVE  LedgerInv'
<1> DEFINE x == [LedgerFree EXCEPT !.at = "deleting", !.user = o, !.item = y]
<1>1. Remembers(t, x) /\ UNCHANGED <<accountOf, item, erased, skewed>> /\ Requested(t)
  BY DEF AskDelete
<1>2. x \in LedgerStates /\ x.new = {} /\ x.at = "deleting"
  BY LedgerFreeTyped DEF LedgerStates
<1> HIDE DEF x
<1>3. OwnersKept /\ AccountsTyped' /\ RowsTyped' /\ RowsRefer'
  BY <1>1, NothingCommitted
<1>4. ThreadsTyped' /\ ThreadsRefer'
  BY <1>1, <1>2, <1>3, ThreadRemembers, RequestCounted
<1> QED BY <1>3, <1>4 DEF LedgerInv

\* A thread whose request is over.
LEMMA ThreadFreed ==
  ASSUME LedgerInv, OwnersKept, NEW t \in LedgerThreads, Remembers(t, LedgerFree), UNCHANGED ledgerRequests
  PROVE  ThreadsTyped' /\ ThreadsRefer'
BY LedgerFreeTyped, ThreadRemembers, RequestCounted

LEMMA LedgerFailsLedgerInv ==
  ASSUME LedgerInv, NEW t \in LedgerThreads, LedgerFails(t)
  PROVE  LedgerInv'
BY NothingCommitted, ThreadFreed DEF LedgerFails, LedgerInv

LEMMA CommitCreateLedgerInv ==
  ASSUME LedgerInv, NEW t \in LedgerThreads, NEW x \in Items, CommitCreate(t, x)
  PROVE  LedgerInv'
<1>1. PICK row \in ledger[t].new : item' = With(item, x, row)
  BY DEF CommitCreate
<1>2. /\ item' = [y \in DOMAIN item \union {x} |-> IF y = x THEN row ELSE item[y]]
      /\ x \notin DOMAIN item /\ x \notin erased /\ UNCHANGED <<accountOf, erased, skewed>>
  BY <1>1 DEF CommitCreate, With
<1>3. row \in ItemRows /\ RefersToOwn(row)
  <2>1. ledger[t] \in LedgerStates
    BY DEF LedgerInv, ThreadsTyped
  <2> QED BY <1>1, <2>1 DEF LedgerInv, ThreadsRefer, LedgerStates
<1>4. OwnersKept
  BY <1>2 DEF OwnersKept, OwnAccount, OwnCategory, Owns
<1>5. RowsTyped'
  BY <1>2, <1>3 DEF LedgerInv, RowsTyped
<1>6. RowsRefer'
  BY <1>2, <1>3, <1>4, ReferencesKept DEF LedgerInv, RowsRefer
<1>7. AccountsTyped'
  BY <1>2 DEF LedgerInv, AccountsTyped
<1> QED BY <1>4, <1>5, <1>6, <1>7, ThreadFreed DEF CommitCreate, Returns, LedgerInv

\* What CommitUpdate makes of its row.
LEMMA CommitUpdateIs ==
  ASSUME LedgerInv, NEW t \in LedgerThreads, CommitUpdate(t)
  PROVE  LET x == ledger[t].item IN
         /\ x \in DOMAIN item /\ x \in Items /\ ledger[t].at = "updating" /\ item[x] \in ItemRows
         /\ UNCHANGED <<accountOf, erased>> /\ Remembers(t, LedgerFree) /\ UNCHANGED ledgerRequests
         /\ skewed \subseteq skewed'
         /\ \E u \in ledger[t].updates :
               /\ u \in Updates /\ NamesOwn(item[x].owner, u)
               /\ item' = [item EXCEPT ![x] = Fields(item[x], u)]
<1> DEFINE x == ledger[t].item
<1>1. x \in DOMAIN item /\ ledger[t].at = "updating" /\ UpdatesOwn(t) /\ ledger[t] \in LedgerStates
  BY DEF CommitUpdate, Returns, LedgerInv, ThreadsRefer, ThreadsTyped
<1>2. PICK u \in ledger[t].updates : item' = [item EXCEPT ![x] = Fields(@, u)]
  BY DEF CommitUpdate
<1>3. u \in Updates /\ NamesOwn(item[x].owner, u)
  BY <1>1, <1>2 DEF UpdatesOwn, LedgerStates
<1>4. item' = [item EXCEPT ![x] = Fields(item[x], u)]
  BY <1>2
<1>5. x \in Items /\ item[x] \in ItemRows
  BY <1>1 DEF LedgerInv, RowsTyped
<1> QED BY <1>1, <1>3, <1>4, <1>5 DEF CommitUpdate, Returns

LEMMA CommitUpdateLedgerInv ==
  ASSUME LedgerInv, NEW t \in LedgerThreads, CommitUpdate(t)
  PROVE  LedgerInv'
<1> DEFINE x == ledger[t].item
<1>1. /\ x \in DOMAIN item /\ x \in Items /\ item[x] \in ItemRows
      /\ UNCHANGED <<accountOf, erased>> /\ Remembers(t, LedgerFree) /\ UNCHANGED ledgerRequests
  BY CommitUpdateIs
<1>2. PICK u \in Updates : NamesOwn(item[x].owner, u) /\ item' = [item EXCEPT ![x] = Fields(item[x], u)]
  BY CommitUpdateIs
<1> DEFINE new == Fields(item[x], u)
<1>3. RefersToOwn(item[x])
  BY <1>1 DEF LedgerInv, RowsRefer
<1>4. new \in ItemRows /\ RefersToOwn(new) /\ new.owner = item[x].owner /\ new.kind = item[x].kind
  BY <1>1, <1>2, <1>3, FieldsAre, FieldsReferToOwn, RowKeys
<1>5. DOMAIN item' = DOMAIN item /\ item'[x] = new /\ \A y \in DOMAIN item : y # x => item'[y] = item[y]
  BY <1>1, <1>2
<1> HIDE DEF new, x
<1>6. OwnersKept
  BY <1>1, <1>4, <1>5 DEF OwnersKept, OwnAccount, OwnCategory, Owns
<1>7. RowsTyped'
  <2>1. skewed' \subseteq Items
    BY <1>1 DEF CommitUpdate, LedgerInv, RowsTyped, x
  <2> QED BY <1>1, <1>4, <1>5, <2>1 DEF LedgerInv, RowsTyped
<1>8. RowsRefer'
  BY <1>4, <1>5, <1>6, ReferencesKept DEF LedgerInv, RowsRefer
<1>9. AccountsTyped'
  BY <1>1 DEF LedgerInv, AccountsTyped
<1> QED BY <1>1, <1>6, <1>7, <1>8, <1>9, ThreadFreed DEF LedgerInv

LEMMA CommitDeleteLedgerInv ==
  ASSUME LedgerInv, NEW t \in LedgerThreads, CommitDelete(t)
  PROVE  LedgerInv'
<1> DEFINE x == ledger[t].item
<1>1. /\ x \in DOMAIN item /\ x \in Items /\ item[x] \in ItemRows
      /\ UNCHANGED <<accountOf, skewed>> /\ Remembers(t, LedgerFree) /\ UNCHANGED ledgerRequests
  BY DEF CommitDelete, Returns, LedgerInv, RowsTyped
<1> HIDE DEF x
<1>2. CASE item[x].kind = "limit"
  <2>1. item' = [y \in DOMAIN item \ {x} |-> item[y]] /\ erased' = erased \union {x}
    BY <1>2 DEF CommitDelete, x
  <2>2. OwnersKept
    BY <1>1, <1>2, <2>1 DEF OwnersKept, OwnAccount, OwnCategory, Owns
  <2>3. RowsTyped'
    BY <1>1, <2>1 DEF LedgerInv, RowsTyped
  <2>4. RowsRefer'
    BY <2>1, <2>2, ReferencesKept DEF LedgerInv, RowsRefer
  <2>5. AccountsTyped'
    BY <1>1 DEF LedgerInv, AccountsTyped
  <2> QED BY <1>1, <2>2, <2>3, <2>4, <2>5, ThreadFreed DEF LedgerInv
<1>3. CASE item[x].kind # "limit"
  <2> DEFINE new == [item[x] EXCEPT !.live = FALSE]
  <2>1. item' = [item EXCEPT ![x] = new] /\ UNCHANGED erased
    BY <1>1, <1>3 DEF CommitDelete, x
  <2>2. /\ new \in ItemRows /\ new.owner = item[x].owner /\ new.kind = item[x].kind
        /\ new.account = item[x].account /\ new.category = item[x].category
    BY <1>1 DEF ItemRows
  <2> HIDE DEF new
  <2>3. DOMAIN item' = DOMAIN item /\ item'[x] = new /\ \A y \in DOMAIN item : y # x => item'[y] = item[y]
    BY <1>1, <2>1
  <2>4. OwnersKept
    BY <1>1, <2>1, <2>2, <2>3 DEF OwnersKept, OwnAccount, OwnCategory, Owns
  <2>5. RowsTyped'
    BY <1>1, <2>1, <2>2, <2>3 DEF LedgerInv, RowsTyped
  <2>6. RefersToOwn(new)
    BY <1>1, <2>2 DEF LedgerInv, RowsRefer, RefersToOwn
  <2>7. RowsRefer'
    BY <2>3, <2>4, <2>6, ReferencesKept DEF LedgerInv, RowsRefer
  <2>8. AccountsTyped'
    BY <1>1 DEF LedgerInv, AccountsTyped
  <2> QED BY <1>1, <2>4, <2>5, <2>7, <2>8, ThreadFreed DEF LedgerInv
<1> QED BY <1>2, <1>3

LEMMA NextLedgerInv ==
  ASSUME LedgerInv, [LedgerNext]_ledgerVars
  PROVE  LedgerInv'
<1>1. CASE UNCHANGED ledgerVars
  <2>1. OwnersKept /\ AccountsTyped' /\ RowsTyped' /\ RowsRefer'
    BY <1>1, NothingCommitted DEF ledgerVars
  <2>2. ThreadsTyped' /\ ThreadsRefer'
    BY <1>1, <2>1, ReferencesKept DEF ledgerVars, LedgerInv, ThreadsTyped, ThreadsRefer, UpdatesOwn
  <2> QED BY <2>1, <2>2 DEF LedgerInv
<1>2. ASSUME NEW t \in LedgerThreads, LedgerStep(t) PROVE LedgerInv'
  BY <1>2, AccountsLedgerInv, AskCreateLedgerInv, AskUpdateLedgerInv, AskDeleteLedgerInv, CommitCreateLedgerInv,
     CommitUpdateLedgerInv, CommitDeleteLedgerInv, LedgerFailsLedgerInv DEF LedgerStep
<1> QED BY <1>1, <1>2 DEF LedgerNext

LEMMA AlwaysLedgerInv == LedgerSpec => []LedgerInv
BY InitLedgerInv, NextLedgerInv, PTL DEF LedgerSpec

\* Every variable of FinanceLedger keeps its type, and a deleted limit stays deleted.
THEOREM LedgerTypes == LedgerSpec => []LedgerTypeOK
<1>1. LedgerInv => LedgerTypeOK
  BY DEF LedgerInv, LedgerTypeOK, AccountsTyped, RowsTyped, ThreadsTyped
<1> QED BY <1>1, AlwaysLedgerInv, PTL

\* _validate_owned_references looks before the commit, without a lock, and yet
\* what a row refers to is its owner's own account or category, for any requests
\* in flight: no request changes an owner or a kind, and only limits are deleted.
THEOREM ReferencesAreOwned == LedgerSpec => []ReferencesOwned
<1>1. LedgerInv => ReferencesOwned
  BY DEF LedgerInv, RowsRefer, RefersToOwn, OwnAccount, OwnCategory, ReferencesOwned
<1> QED BY <1>1, AlwaysLedgerInv, PTL

-----------------------------------------------------------------------------
(* FinanceLedger: credit cards and their limits *)

\* What a thread is about to write is a debt with its limit, unless another
\* update of the row came between.
UpdatesValid(t) ==
    ledger[t].at = "updating" /\ ledger[t].item \in DOMAIN item \ skewed =>
        \A u \in ledger[t].updates : ValidDebt(Fields(item[ledger[t].item], u))
CardsInv ==
    /\ \A x \in DOMAIN item \ skewed : ValidDebt(item[x])
    /\ \A t \in LedgerThreads :
          /\ \A row \in ledger[t].new : ValidDebt(row)
          /\ UpdatesValid(t)

\* A step on rows that no thread updates, or that leaves what makes a debt valid.
LEMMA CardsKept ==
  ASSUME LedgerInv, CardsInv, skewed \subseteq skewed',
         \A x \in DOMAIN item' \ skewed' : ValidDebt(item'[x]),
         \A t \in LedgerThreads :
            \/ /\ \A row \in ledger'[t].new : ValidDebt(row)
               /\ ledger'[t].at # "updating"
            \/ /\ ledger'[t] = ledger[t]
               /\ ledger[t].at = "updating" /\ ledger[t].item \in DOMAIN item' \ skewed' =>
                     /\ ledger[t].item \in DOMAIN item
                     /\ \A u \in ledger[t].updates :
                           ValidDebt(Fields(item[ledger[t].item], u)) => ValidDebt(Fields(item'[ledger[t].item], u))
  PROVE  CardsInv'
<1> SUFFICES ASSUME NEW t \in LedgerThreads
             PROVE  (\A row \in ledger'[t].new : ValidDebt(row)) /\ UpdatesValid(t)'
  BY DEF CardsInv
<1>1. CASE /\ \A row \in ledger'[t].new : ValidDebt(row)
           /\ ledger'[t].at # "updating"
  BY <1>1 DEF UpdatesValid
<1>2. CASE /\ ledger'[t] = ledger[t]
           /\ ledger[t].at = "updating" /\ ledger[t].item \in DOMAIN item' \ skewed' =>
                 /\ ledger[t].item \in DOMAIN item
                 /\ \A u \in ledger[t].updates :
                       ValidDebt(Fields(item[ledger[t].item], u)) => ValidDebt(Fields(item'[ledger[t].item], u))
  BY <1>2 DEF CardsInv, UpdatesValid
<1> QED BY <1>1, <1>2

\* A thread goes on, or is freed, and nothing is committed.
LEMMA CardsThreads ==
  ASSUME LedgerInv, CardsInv, UNCHANGED <<item, skewed>>, NEW t \in LedgerThreads, NEW x, Remembers(t, x),
         \A row \in x.new : ValidDebt(row),
         x.at = "updating" => \A u \in x.updates : ValidDebt(Fields(item[x.item], u))
  PROVE  CardsInv'
<1>1. ledger'[t] = x /\ \A s \in LedgerThreads : s # t => ledger'[s] = ledger[s]
  BY DEF LedgerInv, ThreadsTyped, Remembers
<1> SUFFICES ASSUME NEW s \in LedgerThreads
             PROVE  (\A row \in ledger'[s].new : ValidDebt(row)) /\ UpdatesValid(s)'
  BY DEF CardsInv
<1>2. CASE s = t
  BY <1>1, <1>2 DEF UpdatesValid
<1>3. CASE s # t
  BY <1>1, <1>3 DEF CardsInv, UpdatesValid
<1> QED BY <1>2, <1>3

LEMMA AskCreateCardsInv ==
  ASSUME LedgerInv, CardsInv, NEW t \in LedgerThreads, NEW o \in Owners, NEW kind \in Kinds, NEW u \in Updates,
         AskCreate(t, o, kind, u)
  PROVE  CardsInv'
<1> DEFINE row == Fields(Blank(kind, o), u)
           x == [LedgerFree EXCEPT !.at = "creating", !.user = o, !.new = {row}]
<1>1. Remembers(t, x) /\ UNCHANGED <<item, skewed>> /\ ValidDebt(row)
  BY DEF AskCreate
<1>2. row \in ItemRows
  BY BlankTyped, FieldsAre
<1> HIDE DEF row
<1>3. x.new = {row} /\ x.at = "creating"
  BY LedgerFreeTyped DEF LedgerStates
<1> HIDE DEF x
<1> QED BY <1>1, <1>3, CardsThreads

LEMMA AskUpdateCardsInv ==
  ASSUME LedgerInv, CardsInv, NEW t \in LedgerThreads, NEW o \in Owners, NEW y \in Items, NEW u \in Updates,
         AskUpdate(t, o, y, u)
  PROVE  CardsInv'
<1> DEFINE x == [LedgerFree EXCEPT !.at = "updating", !.user = o, !.item = y, !.updates = {u}]
<1>1. Remembers(t, x) /\ UNCHANGED <<item, skewed>> /\ ValidDebt(Fields(item[y], u))
  BY DEF AskUpdate
<1>2. x.new = {} /\ x.item = y /\ x.updates = {u}
  BY LedgerFreeTyped DEF LedgerStates
<1> HIDE DEF x
<1> QED BY <1>1, <1>2, CardsThreads

\* A thread whose request is over, and the others as they were.
LEMMA CardsFreed ==
  ASSUME LedgerInv, NEW t \in LedgerThreads, Remembers(t, LedgerFree), NEW s \in LedgerThreads
  PROVE  IF s = t THEN ledger'[s].at = "free" /\ ledger'[s].new = {} ELSE ledger'[s] = ledger[s]
BY LedgerFreeTyped DEF LedgerInv, ThreadsTyped, Remembers

LEMMA CommitCreateCardsInv ==
  ASSUME LedgerInv, CardsInv, NEW t \in LedgerThreads, NEW x \in Items, CommitCreate(t, x)
  PROVE  CardsInv'
<1>1. PICK row \in ledger[t].new : item' = With(item, x, row)
  BY DEF CommitCreate
<1>2. /\ item' = [y \in DOMAIN item \union {x} |-> IF y = x THEN row ELSE item[y]]
      /\ x \notin DOMAIN item \union erased /\ UNCHANGED skewed /\ ValidDebt(row)
  BY <1>1 DEF CommitCreate, With, CardsInv
<1>3. \A y \in DOMAIN item' \ skewed' : ValidDebt(item'[y])
  BY <1>2 DEF CardsInv
<1>4. ASSUME NEW s \in LedgerThreads, s # t, ledger[s].at = "updating", ledger[s].item \in DOMAIN item'
      PROVE  ledger[s].item \in DOMAIN item /\ item'[ledger[s].item] = item[ledger[s].item]
  <2>1. ledger[s].item \in DOMAIN item \union erased
    BY <1>4 DEF LedgerInv, ThreadsRefer, UpdatesOwn
  <2> QED BY <1>2, <1>4, <2>1
<1>5. Remembers(t, LedgerFree)
  BY DEF CommitCreate, Returns
<1> QED BY <1>2, <1>3, <1>4, <1>5, CardsFreed, CardsKept

\* The update committed was validated with the row it is written to, or another
\* was committed since; what others were about to write to it is not valid any more.
LEMMA CommitUpdateCardsInv ==
  ASSUME LedgerInv, CardsInv, NEW t \in LedgerThreads, CommitUpdate(t)
  PROVE  CardsInv'
<1> DEFINE x == ledger[t].item
<1>1. /\ x \in DOMAIN item /\ x \in Items /\ ledger[t].at = "updating" /\ skewed \subseteq skewed'
      /\ Remembers(t, LedgerFree)
  BY CommitUpdateIs
<1>2. PICK u \in ledger[t].updates : item' = [item EXCEPT ![x] = Fields(item[x], u)]
  BY CommitUpdateIs
<1>3. /\ DOMAIN item' = DOMAIN item /\ item'[x] = Fields(item[x], u)
      /\ \A y \in DOMAIN item : y # x => item'[y] = item[y]
  BY <1>1, <1>2
<1>4. x \notin skewed => ValidDebt(Fields(item[x], u))
  BY <1>1, <1>2 DEF CardsInv, UpdatesValid
<1>5. \A y \in DOMAIN item' \ skewed' : ValidDebt(item'[y])
  BY <1>1, <1>3, <1>4 DEF CardsInv
<1>6. \A s \in LedgerThreads : s # t /\ ledger[s].at = "updating" /\ ledger[s].item = x => x \in skewed'
  BY DEF CommitUpdate
<1> HIDE DEF x
<1>7. ASSUME NEW s \in LedgerThreads, s # t, ledger[s].at = "updating", ledger[s].item \in DOMAIN item' \ skewed'
      PROVE  ledger[s].item \in DOMAIN item /\ item'[ledger[s].item] = item[ledger[s].item]
  BY <1>3, <1>6, <1>7
<1> QED BY <1>1, <1>5, <1>7, CardsFreed, CardsKept

LEMMA CommitDeleteCardsInv ==
  ASSUME LedgerInv, CardsInv, NEW t \in LedgerThreads, CommitDelete(t)
  PROVE  CardsInv'
<1> DEFINE x == ledger[t].item
<1>1. /\ x \in DOMAIN item /\ item[x] \in ItemRows /\ UNCHANGED skewed /\ Remembers(t, LedgerFree)
  BY DEF CommitDelete, Returns, LedgerInv, RowsTyped
<1> HIDE DEF x
<1>2. CASE item[x].kind = "limit"
  <2>1. item' = [y \in DOMAIN item \ {x} |-> item[y]]
    BY <1>2 DEF CommitDelete, x
  <2>2. \A y \in DOMAIN item' : y \in DOMAIN item /\ item'[y] = item[y]
    BY <2>1
  <2>3. \A y \in DOMAIN item' \ skewed' : ValidDebt(item'[y])
    BY <1>1, <2>2 DEF CardsInv
  <2> QED BY <1>1, <2>2, <2>3, CardsFreed, CardsKept
<1>3. CASE item[x].kind # "limit"
  <2> DEFINE new == [item[x] EXCEPT !.live = FALSE]
  <2>1. item' = [item EXCEPT ![x] = new]
    BY <1>1, <1>3 DEF CommitDelete, x
  <2>2. /\ new \in ItemRows /\ new.kind = item[x].kind /\ new.card = item[x].card /\ new.limited = item[x].limited
    BY <1>1 DEF ItemRows
  <2> HIDE DEF new
  <2>3. DOMAIN item' = DOMAIN item /\ item'[x] = new /\ \A y \in DOMAIN item : y # x => item'[y] = item[y]
    BY <1>1, <2>1
  <2>4. ValidDebt(item[x]) => ValidDebt(new)
    BY <2>2 DEF ValidDebt
  <2>5. ASSUME NEW u \in Updates, ValidDebt(Fields(item[x], u)) PROVE ValidDebt(Fields(new, u))
    <3> DEFINE old1 == Fields(item[x], u)
               new1 == Fields(new, u)
    <3>1. /\ old1 \in ItemRows /\ new1 \in ItemRows /\ old1["kind"] = new1["kind"] /\ old1["card"] = new1["card"]
          /\ old1["limited"] = new1["limited"]
      BY <1>1, <2>2, FieldsAre, RowKeys
    <3> HIDE DEF old1, new1
    <3>2. old1.kind = new1.kind /\ old1.card = new1.card /\ old1.limited = new1.limited
      BY <3>1, RowKeys
    <3>3. ValidDebt(old1) => ValidDebt(new1)
      BY <3>2 DEF ValidDebt
    <3> QED BY <2>5, <3>3 DEF old1, new1
  <2>6. \A y \in DOMAIN item' \ skewed' : ValidDebt(item'[y])
    BY <1>1, <2>3, <2>4 DEF CardsInv
  <2>7. ASSUME NEW s \in LedgerThreads, ledger[s].item \in DOMAIN item', NEW u \in ledger[s].updates,
               ValidDebt(Fields(item[ledger[s].item], u))
        PROVE  ValidDebt(Fields(item'[ledger[s].item], u))
    <3>1. u \in Updates
      BY DEF LedgerInv, ThreadsTyped, LedgerStates
    <3>2. CASE ledger[s].item = x
      BY <2>3, <2>5, <2>7, <3>1, <3>2
    <3>3. CASE ledger[s].item # x
      BY <2>3, <2>7, <3>3
    <3> QED BY <3>2, <3>3
  <2> QED BY <1>1, <2>3, <2>6, <2>7, CardsFreed, CardsKept
<1> QED BY <1>2, <1>3

LEMMA NextCardsInv ==
  ASSUME LedgerInv, CardsInv, [LedgerNext]_ledgerVars
  PROVE  CardsInv'
<1>1. ASSUME UNCHANGED <<item, skewed, ledger>> PROVE CardsInv'
  BY <1>1 DEF CardsInv, UpdatesValid
<1>2. ASSUME NEW t \in LedgerThreads, NEW a \in Accounts,
             \/ \E o \in Owners : CreateAccount(t, o, a)
             \/ \E archived \in BOOLEAN : ArchiveAccount(t, a, archived)
      PROVE  CardsInv'
  BY <1>1, <1>2 DEF CreateAccount, ArchiveAccount
<1>3. ASSUME NEW t \in LedgerThreads, NEW o \in Owners, NEW y \in Items, AskDelete(t, o, y) PROVE CardsInv'
  <2> DEFINE x == [LedgerFree EXCEPT !.at = "deleting", !.user = o, !.item = y]
  <2>1. Remembers(t, x) /\ UNCHANGED <<item, skewed>>
    BY <1>3 DEF AskDelete
  <2>2. x.new = {} /\ x.at = "deleting"
    BY LedgerFreeTyped DEF LedgerStates
  <2> HIDE DEF x
  <2> QED BY <2>1, <2>2, CardsThreads
<1>4. ASSUME NEW t \in LedgerThreads, LedgerFails(t) PROVE CardsInv'
  BY <1>4, LedgerFreeTyped, CardsThreads DEF LedgerFails
<1>5. ASSUME NEW t \in LedgerThreads, LedgerStep(t) PROVE CardsInv'
  BY <1>2, <1>3, <1>4, <1>5, AskCreateCardsInv, AskUpdateCardsInv, CommitCreateCardsInv, CommitUpdateCardsInv,
     CommitDeleteCardsInv DEF LedgerStep
<1> QED BY <1>1, <1>5 DEF LedgerNext, ledgerVars

\* handle_debts_update validates the row it selected with the updates merged in,
\* and writes only the updates: a debt that is a credit card has its limit for any
\* requests in flight, unless two updates of it overlapped. A row's deletion, and
\* updates of other rows, do no harm.
THEOREM CreditCardsAreLimited == LedgerSpec => []CreditCardsHaveLimits
<1>1. LedgerInv /\ CardsInv /\ [LedgerNext]_ledgerVars => CardsInv'
  BY NextCardsInv
<1>2. LedgerInit => CardsInv
  BY LedgerFreeTyped DEF LedgerInit, CardsInv, UpdatesValid
<1>3. CardsInv => CreditCardsHaveLimits
  BY DEF CardsInv, ValidDebt, CreditCardsHaveLimits
<1> QED BY <1>1, <1>2, <1>3, AlwaysLedgerInv, PTL DEF LedgerSpec

-----------------------------------------------------------------------------
(* Types of BackendData *)

\* No transaction is in the user's table twice: that bounds the table.
Distinct == \A i, j \in DOMAIN table : table[i] = table[j] => i = j

LEMMA AddedDistinct ==
  ASSUME DataInv, Distinct, NEW t \in Transactions, NEW k, AddTransaction(t, k)
  PROVE  Distinct'
<1>1. table' = (SubSeq(table, 1, k - 1) \o <<t>>) \o SubSeq(table, k, Len(table)) /\ k \in 1..(Len(table) + 1)
      /\ table \in Seq(Transactions)
  BY DEF AddTransaction, InsertAt, DataInv, TableHolds
<1> DEFINE p == SubSeq(table, 1, k - 1)
           q == SubSeq(table, k, Len(table))
           m == p \o <<t>>
           n == Len(table)
<1>2. k \in Nat /\ n \in Nat /\ k >= 1 /\ k <= n + 1 /\ DOMAIN table = 1..n
  BY <1>1
<1>3. \A i \in 1..n : table[i] # t
  BY <1>1 DEF AddTransaction, ToSet
<1>4. /\ p \in Seq(Transactions) /\ Len(p) = k - 1 /\ \A i \in 1..(k - 1) : p[i] = table[i]
      /\ q \in Seq(Transactions) /\ Len(q) = n - k + 1 /\ \A i \in 1..(n - k + 1) : q[i] = table[i + k - 1]
  BY <1>1
<1>5. table' = m \o q
  BY <1>1
<1> HIDE DEF p, q, n
<1>6. /\ m \in Seq(Transactions) /\ Len(m) = k /\ m[k] = t
      /\ \A i \in 1..(k - 1) : m[i] = table[i]
  <2>1. <<t>> \in Seq(Transactions) /\ Len(<<t>>) = 1 /\ <<t>>[1] = t
    OBVIOUS
  <2>2. /\ m \in Seq(Transactions) /\ Len(m) = Len(p) + 1
        /\ \A i \in 1..(Len(p) + 1) : m[i] = IF i <= Len(p) THEN p[i] ELSE <<t>>[i - Len(p)]
    BY <1>4, <2>1, Joined
  <2> HIDE DEF m
  <2>3. Len(p) = k - 1 /\ Len(p) + 1 = k /\ k - Len(p) = 1 /\ k \in 1..(Len(p) + 1) /\ ~(k <= Len(p))
    BY <1>2, <1>4
  <2>4. m[k] = t
    BY <2>1, <2>2, <2>3
  <2>5. ASSUME NEW i \in 1..(k - 1) PROVE m[i] = table[i]
    <3>1. i \in 1..(Len(p) + 1) /\ i <= Len(p)
      BY <1>2, <2>3
    <3> QED BY <1>4, <2>2, <3>1
  <2> QED BY <2>2, <2>3, <2>4, <2>5
<1> HIDE DEF m
<1>7. /\ DOMAIN table' = 1..(n + 1)
      /\ \A i \in 1..(n + 1) : table'[i] = IF i <= k THEN m[i] ELSE q[i - k]
  <2> DEFINE y == m \o q
  <2>1. /\ DOMAIN y = 1..(Len(m) + Len(q))
        /\ \A i \in 1..(Len(m) + Len(q)) : y[i] = IF i <= Len(m) THEN m[i] ELSE q[i - Len(m)]
    BY <1>4, <1>6, Joined
  <2>2. Len(m) + Len(q) = n + 1 /\ Len(m) = k
    BY <1>2, <1>4, <1>6
  <2>3. table' = y
    BY <1>5
  <2> HIDE DEF y
  <2> QED BY <2>1, <2>2, <2>3
<1> DEFINE a(i) == IF i < k THEN i ELSE i - 1
<1>8. ASSUME NEW i \in 1..(n + 1)
      PROVE  IF i = k THEN table'[i] = t ELSE table'[i] = table[a(i)] /\ a(i) \in 1..n
  <2>1. CASE i = k
    BY <1>2, <1>6, <1>7, <2>1
  <2>2. CASE i < k
    <3>1. i \in 1..(k - 1) /\ a(i) = i /\ i \in 1..n /\ i # k /\ i <= k
      BY <1>2, <2>2
    <3> HIDE DEF a
    <3>2. table'[i] = table[i]
      BY <1>6, <1>7, <3>1
    <3> QED BY <3>1, <3>2
  <2>3. CASE i > k
    <3>1. /\ i - k \in 1..(n - k + 1) /\ (i - k) + k - 1 = i - 1
          /\ a(i) = i - 1 /\ i - 1 \in 1..n /\ i # k /\ ~(i <= k)
      BY <1>2, <2>3
    <3> HIDE DEF a
    <3>2. table'[i] = q[i - k]
      BY <1>7, <3>1
    <3>3. q[i - k] = table[i - 1]
      BY <1>4, <3>1
    <3> QED BY <3>1, <3>2, <3>3
  <2> QED BY <1>2, <2>1, <2>2, <2>3
<1> SUFFICES ASSUME NEW i \in 1..(n + 1), NEW j \in 1..(n + 1), table'[i] = table'[j]
             PROVE  i = j
  BY <1>7 DEF Distinct
<1>9. CASE i = k \/ j = k
  <2> HIDE DEF a
  <2> QED BY <1>3, <1>8, <1>9
<1>10. CASE i # k /\ j # k
  <2>1. a(i) \in DOMAIN table /\ a(j) \in DOMAIN table /\ table[a(i)] = table[a(j)]
    BY <1>2, <1>8, <1>10
  <2>2. a(i) = a(j)
    <3> HIDE DEF a
    <3> QED BY <2>1 DEF Distinct
  <2> QED BY <1>2, <1>10, <2>2
<1> QED BY <1>9, <1>10

LEMMA RemovedDistinct ==
  ASSUME DataInv, Distinct, NEW k, RemoveTransaction(k)
  PROVE  Distinct'
<1>1. table' = SubSeq(table, 1, k - 1) \o SubSeq(table, k + 1, Len(table)) /\ k \in 1..Len(table)
      /\ table \in Seq(Transactions)
  BY DEF RemoveTransaction, RemoveAt, DataInv, TableHolds
<1> DEFINE p == SubSeq(table, 1, k - 1)
           q == SubSeq(table, k + 1, Len(table))
           a(i) == IF i < k THEN i ELSE i + 1
<1>2. k \in Nat /\ Len(table) \in Nat /\ k >= 1 /\ k <= Len(table) /\ DOMAIN table = 1..Len(table)
  BY <1>1
<1>3. /\ p \in Seq(Transactions) /\ Len(p) = k - 1
      /\ q \in Seq(Transactions) /\ Len(q) = Len(table) - k
  BY <1>1
<1>4. /\ \A i \in 1..(k - 1) : p[i] = table[i]
      /\ \A i \in 1..(Len(table) - k) : q[i] = table[i + k]
  BY <1>1
<1>5. table' = p \o q
  BY <1>1
<1> HIDE DEF p, q
<1>6. /\ DOMAIN table' = 1..(Len(table) - 1)
      /\ \A i \in 1..(Len(table) - 1) : table'[i] = IF i <= k - 1 THEN p[i] ELSE q[i - (k - 1)]
  <2>1. /\ DOMAIN (p \o q) = 1..(Len(p) + Len(q))
        /\ \A i \in 1..(Len(p) + Len(q)) : (p \o q)[i] = IF i <= Len(p) THEN p[i] ELSE q[i - Len(p)]
    BY <1>3, Joined
  <2>2. Len(p) + Len(q) = Len(table) - 1 /\ Len(p) = k - 1
    BY <1>2, <1>3
  <2> DEFINE y == p \o q
  <2>3. /\ DOMAIN y = 1..(Len(table) - 1)
        /\ \A i \in 1..(Len(table) - 1) : y[i] = IF i <= k - 1 THEN p[i] ELSE q[i - (k - 1)]
    BY <2>1, <2>2
  <2>4. table' = y
    BY <1>5
  <2> HIDE DEF y
  <2> QED BY <2>3, <2>4
<1>7. ASSUME NEW i \in 1..(Len(table) - 1)
      PROVE  table'[i] = table[a(i)] /\ a(i) \in 1..Len(table)
  <2>1. CASE i < k
    BY <1>2, <1>4, <1>6, <2>1
  <2>2. CASE ~(i < k)
    <3>1. i - (k - 1) \in 1..(Len(table) - k) /\ (i - (k - 1)) + k = i + 1
      BY <1>2, <2>2
    <3>2. table'[i] = q[i - (k - 1)]
      BY <1>2, <1>6, <2>2
    <3> QED BY <1>2, <1>4, <2>2, <3>1, <3>2
  <2> QED BY <2>1, <2>2
<1> SUFFICES ASSUME NEW i \in 1..(Len(table) - 1), NEW j \in 1..(Len(table) - 1), table'[i] = table'[j]
             PROVE  i = j
  BY <1>6 DEF Distinct
<1>8. a(i) = a(j)
  <2>1. a(i) \in DOMAIN table /\ a(j) \in DOMAIN table /\ table[a(i)] = table[a(j)]
    BY <1>2, <1>7
  <2> HIDE DEF a
  <2> QED BY <2>1 DEF Distinct
<1> QED BY <1>2, <1>8

LEMMA NextDistinct == DataInv /\ Distinct /\ [BackendNext]_backendVars => Distinct'
<1> SUFFICES ASSUME DataInv, Distinct, [BackendNext]_backendVars PROVE Distinct'
  OBVIOUS
<1>1. ASSUME UNCHANGED table PROVE Distinct'
  BY <1>1 DEF Distinct
<1>2. TableChanges \/ UNCHANGED table
  BY DEF BackendNext, backendVars, SendRequest, Take, Validate, Fetch, CountRows, FetchPage, PageFails, FetchList,
         ListFails, FetchContext, FetchProfiles, Unchanged, PublishResponse, AcknowledgeRequest, PublishFails,
         WorkerDies, TableChanges
<1> QED BY <1>1, <1>2, AddedDistinct, RemovedDistinct DEF TableChanges

LEMMA DistinctIsShort ==
  ASSUME NEW n \in Nat, NEW T, IsFiniteSet(T), NEW f \in [1..n -> T],
         \A i, j \in 1..n : f[i] = f[j] => i = j
  PROVE  n <= Cardinality(T)
<1> DEFINE S == 1..n
<1>1. Cardinality(S) = n /\ IsFiniteSet(S)
  BY FS_Interval
<1>2. f \in [S -> T] /\ \A i, j \in S : f[i] = f[j] => i = j
  OBVIOUS
<1> HIDE DEF S
<1>3. Cardinality(T) \in Nat
  BY FS_CardinalityType
<1>4. ~(Cardinality(T) < Cardinality(S))
  BY <1>1, <1>2, FS_PigeonHole
<1> QED BY <1>1, <1>3, <1>4

LEMMA DistinctIsBounded ==
  ASSUME DataInv, Distinct
  PROVE  table \in BoundedSeq(Transactions, Cardinality(Transactions))
<1>1. table \in [1..Len(table) -> Transactions] /\ Len(table) \in Nat /\ DOMAIN table = 1..Len(table)
  BY DEF DataInv, TableHolds
<1>2. Len(table) <= Cardinality(Transactions)
  BY <1>1, BackendAssumption, DistinctIsShort DEF Distinct
<1>3. Cardinality(Transactions) \in Nat
  BY BackendAssumption, FS_CardinalityType
<1>4. Len(table) \in 0..Cardinality(Transactions)
  BY <1>1, <1>2, <1>3
<1> QED BY <1>1, <1>4 DEF BoundedSeq, SeqOf

\* Every variable of the data worker has its type: a transaction is listed once,
\* and the worker holds requests and types of data that there are.
THEOREM BackendTypes == BackendSpec => []BackendTypeOK
<1>1. DataInv /\ Distinct => BackendTypeOK
  BY DistinctIsBounded DEF DataInv, TableHolds, QueueHolds, WorkerHolds, WorkerStates, BackendTypeOK
<1>2. BackendInit => Distinct
  BY DEF BackendInit, Distinct
<1> QED BY <1>1, <1>2, NextDistinct, AlwaysDataInv, PTL DEF BackendSpec

-----------------------------------------------------------------------------
USE BootstrapAssumption

-----------------------------------------------------------------------------
(* The inductive invariant *)

User == <<"user">>
Demo == <<"demo">>
Chunk(i) == <<"chunk", i>>
Chat(i) == <<"chat", i>>

MainTyped ==
    /\ settings \in [reset : BOOLEAN, excel : BOOLEAN,
                     workbook : {"clean", "partial", "unreadable"}, card : BOOLEAN, waits : BOOLEAN]
    /\ main \in [at : {"off", "done", "stamping", "upgrading", "dropping", "truncating", "clearing",
                       "bootstrapping", "failing"} \union Importing,
                 n : Nat]
    /\ main.at # "off" => main.n > 0
    /\ starts \in Nat

\* The schema is there when migration_service or create_bucket_service uses it.
SchemaBeforeData ==
    /\ main.at = "stamping" => revision = "none"
    /\ main.at \notin {"off", "done", "stamping", "upgrading"} => revision = "head"
    /\ maker # "off" => revision = "head"
    /\ main.at # "off" => starts > 0

\* The workbook is stored before its row, and the row is gone before the bucket is cleared.
RowsAndObjects ==
    /\ FileIsStored
    /\ main.at = "clearing" => file = 0
    /\ main.at = "filing" => starts \in objects
    /\ main.at \in {"parsing", "chunk", "account", "demo", "chat"} => file # 0

\* An import under way is on record, and is the first of its user.
OnRecord == main.at \in Importing \union {"failing"} => record = "running"
UserFirst == content[User] = 0 => content = Nothing /\ account = "none"

\* What an import under way has done.
Imported ==
    main.at \in Importing \ {"user"} =>
        /\ content[User] = 1
        /\ \A i \in 1..NChunks : content[Chunk(i)] =
              IF \/ main.at = "chunk" /\ i < main.n
                 \/ main.at \in {"account", "demo", "chat"} THEN 1 ELSE 0
        /\ content[Demo] = IF main.at = "chat" THEN 1 ELSE 0
        /\ \A i \in 1..NChats : content[Chat(i)] = IF main.at = "chat" /\ i < main.n THEN 1 ELSE 0
        /\ main.at \in {"demo", "chat"} => account = "named"
        /\ main.at \in {"account", "demo", "chat"} => job # "running"

BInv == /\ BootstrapTypeOK /\ MainTyped /\ SchemaBeforeData /\ RowsAndObjects
        /\ OnRecord /\ UserFirst /\ Imported /\ CompletedBootstrapIsWhole

USE DEF BootstrapTypeOK, MainTyped, SchemaBeforeData, RowsAndObjects, FileIsStored, Importing,
        seeded, storage, making, MainAt, MainTo, StartFault, Configured, Schema

-----------------------------------------------------------------------------
(* The parts of the data *)

\* A part is the user, the demo account's transactions, a chunk or a chat, of
\* build_demo_chat_mocks or of the workbook.
LEMMA PartsAre ==
  /\ User \in Parts /\ Demo \in Parts
  /\ \A i \in 1..NChunks : Chunk(i) \in Parts
  /\ \A i \in 1..NChats : Chat(i) \in Parts
  /\ \A p \in Parts : p = User \/ p = Demo \/ (\E i \in 1..NChunks : p = Chunk(i))
                         \/ (\E i \in 1..NChats : p = Chat(i))
BY DEF Parts, User, Demo, Chunk, Chat

\* Two parts of the data are never the same one.
LEMMA PartsDiffer ==
  /\ User # Demo
  /\ \A i \in Nat : Chunk(i) # User /\ Chunk(i) # Demo /\ Chat(i) # User /\ Chat(i) # Demo
  /\ \A i, k \in Nat : Chunk(i) # Chat(k)
  /\ \A i, k \in Nat : i # k => Chunk(i) # Chunk(k) /\ Chat(i) # Chat(k)
<1>1. User # Demo
  BY DEF User, Demo
<1>2. ASSUME NEW i \in Nat
      PROVE Chunk(i) # User /\ Chunk(i) # Demo /\ Chat(i) # User /\ Chat(i) # Demo
  <2>1. Len(Chunk(i)) = 2 /\ Len(Chat(i)) = 2 /\ Len(User) = 1 /\ Len(Demo) = 1
    BY DEF User, Demo, Chunk, Chat
  <2> QED BY <2>1
<1>3. \A i, k \in Nat : Chunk(i) # Chat(k)
  BY DEF Chunk, Chat
<1>4. \A i, k \in Nat : i # k => Chunk(i) # Chunk(k) /\ Chat(i) # Chat(k)
  BY DEF Chunk, Chat
<1> QED BY <1>1, <1>2, <1>3, <1>4

\* Seed adds one to its part, and to no other.
LEMMA SeedOne ==
  ASSUME NEW p \in Parts, content \in [Parts -> Nat], Seed(p)
  PROVE  /\ content' \in [Parts -> Nat]
         /\ content'[p] = content[p] + 1
         /\ \A q \in Parts : q # p => content'[q] = content[q]
BY DEF Seed

-----------------------------------------------------------------------------
(* It is inductive *)

LEMMA NothingTyped == Nothing \in [Parts -> Nat] /\ Nothing[User] = 0
BY PartsAre DEF Nothing

LEMMA InitBInv == BootstrapInit => BInv
BY NothingTyped DEF BootstrapInit, BInv, UserFirst, Imported, CompletedBootstrapIsWhole, OnRecord

USE DEF BInv, OnRecord, UserFirst, Imported, CompletedBootstrapIsWhole

\* A start finds whatever the last one left, under a number of its own.
LEMMA StartMigrationBInv ==
  ASSUME BInv, StartMigration
  PROVE  BInv'
<1>1. starts' = starts + 1 /\ starts' \in Nat /\ starts' > 0
  BY DEF StartMigration
<1>2. file' \in 0..starts' /\ objects' \subseteq 1..starts'
  BY <1>1 DEF StartMigration
<1>3. /\ main' \in {[at |-> "stamping", n |-> 1], [at |-> "upgrading", n |-> 1]}
      /\ main'.at = "stamping" => revision = "none"
  BY DEF StartMigration, NeedsLegacyBridge
<1> QED BY <1>1, <1>2, <1>3 DEF StartMigration

\* The reset leaves no row of the application.
LEMMA TruncateTablesBInv ==
  ASSUME BInv, TruncateTables
  PROVE  BInv'
BY NothingTyped DEF TruncateTables

\* The user's commit is the first of an import: nothing was there.
LEMMA CreateBootstrapUserBInv ==
  ASSUME BInv, CreateBootstrapUser
  PROVE  BInv'
<1>1. content' \in [Parts -> Nat] /\ content'[User] = 1
  BY PartsAre, SeedOne DEF CreateBootstrapUser, User
<1>2. content = Nothing /\ Seed(User) /\ account = "none"
  BY DEF CreateBootstrapUser, User
<1>3. \A q \in Parts : q # User => content'[q] = 0
  BY <1>2, PartsAre, SeedOne DEF Nothing
<1>4. /\ \A i \in 1..NChunks : content'[Chunk(i)] = 0
      /\ content'[Demo] = 0
      /\ \A i \in 1..NChats : content'[Chat(i)] = 0
  BY <1>3, PartsAre, PartsDiffer
<1>5. revision = "head" /\ record = "running" /\ starts > 0
  BY DEF CreateBootstrapUser
<1> QED BY <1>1, <1>4, <1>5 DEF CreateBootstrapUser

\* A chunk is committed under the number migration_service is at.
LEMMA ImportBootstrapChunkBInv ==
  ASSUME BInv, ImportBootstrapChunk
  PROVE  BInv'
<1>1. main.n \in 1..NChunks /\ Seed(Chunk(main.n)) /\ content[Chunk(main.n)] = 0
  BY DEF ImportBootstrapChunk, Chunk
<1>2. /\ content' \in [Parts -> Nat]
      /\ content'[Chunk(main.n)] = 1
      /\ \A q \in Parts : q # Chunk(main.n) => content'[q] = content[q]
  BY <1>1, PartsAre, SeedOne
<1>3. /\ content'[User] = 1 /\ content'[Demo] = 0
      /\ \A i \in 1..NChats : content'[Chat(i)] = 0
  BY <1>1, <1>2, PartsAre, PartsDiffer DEF ImportBootstrapChunk
<1>4. \A i \in 1..NChunks : content'[Chunk(i)] = IF i < main.n + 1 THEN 1 ELSE 0
  <2> SUFFICES ASSUME NEW i \in 1..NChunks
               PROVE  content'[Chunk(i)] = IF i < main.n + 1 THEN 1 ELSE 0
    OBVIOUS
  <2>1. CASE i = main.n
    BY <2>1, <1>1, <1>2
  <2>2. CASE i # main.n
    <3>1. content'[Chunk(i)] = content[Chunk(i)]
      BY <2>2, <1>1, <1>2, PartsAre, PartsDiffer
    <3> QED BY <2>2, <3>1, <1>1 DEF ImportBootstrapChunk
  <2> QED BY <2>1, <2>2
<1>5. main' = [at |-> "chunk", n |-> main.n + 1] /\ account' \in {"none", "plain", "named"}
  BY DEF ImportBootstrapChunk
<1>6. record' = "running" /\ revision' = "head"
  BY DEF ImportBootstrapChunk
<1> QED BY <1>1, <1>2, <1>3, <1>4, <1>5, <1>6 DEF ImportBootstrapChunk

\* The demo account's transactions are committed together, between the chunks and the chats.
LEMMA SeedDemoTransactionsBInv ==
  ASSUME BInv, SeedDemoTransactions
  PROVE  BInv'
<1>1. Seed(Demo) /\ content[Demo] = 0 /\ MainAt("demo")
  BY DEF SeedDemoTransactions, Demo
<1>2. /\ content' \in [Parts -> Nat]
      /\ content'[Demo] = 1
      /\ \A q \in Parts : q # Demo => content'[q] = content[q]
  BY <1>1, PartsAre, SeedOne
<1>3. /\ content'[User] = 1
      /\ \A i \in 1..NChunks : content'[Chunk(i)] = 1
      /\ \A i \in 1..NChats : content'[Chat(i)] = 0
  BY <1>1, <1>2, PartsAre, PartsDiffer
<1>4. record' = "running" /\ revision' = "head"
  BY DEF SeedDemoTransactions
<1> QED BY <1>2, <1>3, <1>4 DEF SeedDemoTransactions

\* A chat is committed under the number migration_service is at.
LEMMA SeedDemoChatBInv ==
  ASSUME BInv, SeedDemoChat
  PROVE  BInv'
<1>1. main.n \in 1..NChats /\ Seed(Chat(main.n)) /\ content[Chat(main.n)] = 0
  BY DEF SeedDemoChat, Chat
<1>2. /\ content' \in [Parts -> Nat]
      /\ content'[Chat(main.n)] = 1
      /\ \A q \in Parts : q # Chat(main.n) => content'[q] = content[q]
  BY <1>1, PartsAre, SeedOne
<1>3. /\ content'[User] = 1 /\ content'[Demo] = 1
      /\ \A i \in 1..NChunks : content'[Chunk(i)] = 1
  BY <1>1, <1>2, PartsAre, PartsDiffer DEF SeedDemoChat
<1>4. \A i \in 1..NChats : content'[Chat(i)] = IF i < main.n + 1 THEN 1 ELSE 0
  <2> SUFFICES ASSUME NEW i \in 1..NChats
               PROVE  content'[Chat(i)] = IF i < main.n + 1 THEN 1 ELSE 0
    OBVIOUS
  <2>1. CASE i = main.n
    BY <2>1, <1>1, <1>2
  <2>2. CASE i # main.n
    <3>1. content'[Chat(i)] = content[Chat(i)]
      BY <2>2, <1>1, <1>2, PartsAre, PartsDiffer
    <3> QED BY <2>2, <3>1, <1>1 DEF SeedDemoChat
  <2> QED BY <2>1, <2>2
<1>5. main' = [at |-> "chat", n |-> main.n + 1] /\ record' = "running" /\ revision' = "head"
  BY DEF SeedDemoChat
<1> QED BY <1>1, <1>2, <1>3, <1>4, <1>5 DEF SeedDemoChat

\* The record says completed after the last chat only.
LEMMA RecordCompletedBInv ==
  ASSUME BInv, RecordCompleted
  PROVE  BInv'
<1>1. \A p \in Parts : content[p] = 1
  BY PartsAre DEF RecordCompleted
<1> QED BY <1>1 DEF RecordCompleted

LEMMA MigrationStepBInv ==
  ASSUME BInv, MigrationStep
  PROVE  BInv'
<1>1. CASE StartMigration
  BY <1>1, StartMigrationBInv
<1>2. CASE StampBaseline
  BY <1>2 DEF StampBaseline
<1>3. CASE UpgradeToHead
  BY <1>3 DEF UpgradeToHead
<1>4. CASE DropLegacy
  BY <1>4 DEF DropLegacy
<1>5. CASE TruncateTables
  BY <1>5, TruncateTablesBInv
<1>6. CASE ClearBucket
  BY <1>6 DEF ClearBucket
<1>7. CASE SkipBootstrap
  BY <1>7 DEF SkipBootstrap
<1>8. CASE RecordRunning
  BY <1>8 DEF RecordRunning
<1>9. CASE CreateBootstrapUser
  BY <1>9, CreateBootstrapUserBInv
<1>10. CASE StoreWorkbook
  BY <1>10 DEF StoreWorkbook
<1>11. CASE CreateFileAndImport
  BY <1>11 DEF CreateFileAndImport
<1>12. CASE Parse
  BY <1>12 DEF Parse
<1>13. CASE ImportBootstrapChunk
  BY <1>13, ImportBootstrapChunkBInv
<1>14. CASE FinalizeBootstrapImport
  BY <1>14 DEF FinalizeBootstrapImport
<1>15. CASE EnsureDemoAccount
  BY <1>15 DEF EnsureDemoAccount
<1>16. CASE SeedDemoTransactions
  BY <1>16, SeedDemoTransactionsBInv
<1>17. CASE SeedDemoChat
  BY <1>17, SeedDemoChatBInv
<1>18. CASE RecordCompleted
  BY <1>18, RecordCompletedBInv
<1>19. CASE ImportRaises
  BY <1>19 DEF ImportRaises
<1>20. CASE RecordFailed
  BY <1>20 DEF RecordFailed
<1>21. CASE MigrationDies
  BY <1>21 DEF MigrationDies
<1> QED BY <1>1, <1>2, <1>3, <1>4, <1>5, <1>6, <1>7, <1>8, <1>9, <1>10, <1>11,
           <1>12, <1>13, <1>14, <1>15, <1>16, <1>17, <1>18, <1>19, <1>20, <1>21 DEF MigrationStep

LEMMA BucketStepBInv ==
  ASSUME BInv, BucketStep
  PROVE  BInv'
<1>1. CASE RecordBucketStart
  BY <1>1 DEF RecordBucketStart, MainStays
<1>2. CASE MakeBucket
  BY <1>2 DEF MakeBucket, MainStays
<1>3. CASE ApplyBucketPolicy
  BY <1>3 DEF ApplyBucketPolicy, MainStays
<1>4. CASE RecordBucketFinish
  BY <1>4 DEF RecordBucketFinish, MainStays
<1>5. CASE BucketFails
  BY <1>5 DEF BucketFails, MainStays
<1> QED BY <1>1, <1>2, <1>3, <1>4, <1>5 DEF BucketStep

LEMMA StepBInv == BInv /\ [BootstrapNext]_bootstrapVars => BInv'
<1> SUFFICES ASSUME BInv, [BootstrapNext]_bootstrapVars
             PROVE  BInv'
  OBVIOUS
<1>1. CASE BootstrapNext
  BY <1>1, MigrationStepBInv, BucketStepBInv DEF BootstrapNext
<1>2. CASE UNCHANGED bootstrapVars
  BY <1>2 DEF bootstrapVars
<1> QED BY <1>1, <1>2

LEMMA AlwaysBInv == BootstrapSpec => []BInv
<1> HIDE DEF BInv
<1> QED BY InitBInv, StepBInv, PTL DEF BootstrapSpec

-----------------------------------------------------------------------------
(* Theorems *)

\* Wherever migration_service and create_bucket_service die and are started
\* again, every variable has its type, and what the application's tables hold
\* is there only once migration_service has upgraded the schema to head.
THEOREM BootstrapTypes == BootstrapSpec => []BootstrapTypeOK
BY AlwaysBInv, PTL

\* A file's row in the database is never without its object in the bucket:
\* _import_workbook stores the object before it commits the row, and the reset
\* truncates the row before it clears the bucket.
THEOREM FilesAreStored == BootstrapSpec => []FileIsStored
BY AlwaysBInv, PTL

\* A bootstrap recorded as completed has every chunk, chat and demo transaction
\* once: run_bootstrap, started again after a death or a failure in the middle,
\* never imports what an earlier start left, since the user is there already.
THEOREM CompletedIsWhole == BootstrapSpec => []CompletedBootstrapIsWhole
BY AlwaysBInv, PTL

HIDE BootstrapAssumption

-----------------------------------------------------------------------------
(* ExcelParser: where the parser is in the workbook, and what it has parsed *)

Lines == Seq(Row \union {EmptyRow})
SheetLists == {x \in Seq(Sheet) : Len(x) <= Len(SheetNames)}
Books == [opens : BOOLEAN, sheets : SheetLists]
RowsUnder(s) == book.sheets[s].rows

\* Below a header the parser is at a row of the sheet, or past the last one.
PlaceInv ==
    /\ book \in Books
    /\ place \in [sheet : Nat, row : Nat]
    /\ place.sheet <= Len(book.sheets) + 1
    /\ exports \in 0..MaxExports
    /\ exports > 0 => place.sheet >= 1
    /\ place.row # 0 =>
         /\ place.row >= 2 /\ place.row <= Len(RowsUnder(place.sheet)) + 2
         /\ book.opens /\ place.sheet \in Sheets /\ book.sheets[place.sheet].headed

HasRow(s, n) ==
    /\ s \in Sheets /\ book.sheets[s].headed
    /\ n \in DOMAIN RowsUnder(s) /\ RowsUnder(s)[n] # EmptyRow
Passed(s, n) == s < place.sheet \/ (s = place.sheet /\ n + 1 < place.row)
Correct(s, n) == RowIssues(RowsUnder(s)[n]) = {}
RowBecomes(s, n) == Transaction(SheetNames[s], n + 1, RowsUnder(s)[n])
ReportedRows == {<<e.sheet, e.row>> : e \in {x \in parsed.errors : x.row > 1}}

\* A row that was passed is a transaction if it is correct, and an issue if it
\* is not; nothing else is either of them.
GivenInv == \A x \in parsed.transactions :
    \E s, n : HasRow(s, n) /\ Passed(s, n) /\ Correct(s, n) /\ x = RowBecomes(s, n)
ReportedInv == \A e \in parsed.errors : e.row > 1 =>
    \E s, n : HasRow(s, n) /\ Passed(s, n) /\ ~Correct(s, n) /\ e.sheet = SheetNames[s] /\ e.row = n + 1
WholeInv == \A s, n : book.opens /\ HasRow(s, n) /\ Passed(s, n) =>
    /\ Correct(s, n) => RowBecomes(s, n) \in parsed.transactions
    /\ ~Correct(s, n) => Rejected(parsed, SheetNames[s], n + 1)

CountInv ==
    /\ IsFiniteSet(parsed.transactions) /\ IsFiniteSet(ReportedRows)
    /\ parsed.total = Cardinality(parsed.transactions) + Cardinality(ReportedRows)

\* The export before was parsed like this one.
PreviousInv == \A y \in previous.parsed.transactions :
    \E s \in DOMAIN SheetNames, n \in Nat :
        y = Transaction(SheetNames[s], n + 1, previous.book.sheets[s].rows[n])

ParsedRecord ==
    parsed = [matched |-> parsed.matched, total |-> parsed.total,
              transactions |-> parsed.transactions, errors |-> parsed.errors]

ParsedInv == ParsedRecord /\ GivenInv /\ ReportedInv /\ WholeInv /\ CountInv /\ PreviousInv

-----------------------------------------------------------------------------
(* Sheets and their rows *)

LEMMA RowsOfSheet ==
  ASSUME NEW x \in Sheet
  PROVE  /\ x = [headed |-> x.headed, rows |-> x.rows] /\ x.headed \in BOOLEAN
         /\ x.rows \in Lines /\ Len(x.rows) \in 0..MaxRows
<1>1. PICK n \in 0..MaxRows : x.rows \in [1..n -> Row \union {EmptyRow}]
  BY DEF Sheet
<1>2. x.rows \in Lines /\ Len(x.rows) = n
  BY <1>1, ParserAssumption DEF Lines
<1> QED BY <1>1, <1>2 DEF Sheet

LEMMA SheetOfRows ==
  ASSUME NEW h \in BOOLEAN, NEW r \in Lines, Len(r) <= MaxRows
  PROVE  [headed |-> h, rows |-> r] \in Sheet
<1>1. r \in [1..Len(r) -> Row \union {EmptyRow}] /\ Len(r) \in 0..MaxRows
  BY ParserAssumption DEF Lines
<1> QED BY <1>1 DEF Sheet

\* What is known of the sheets of a workbook, and of their names.
LEMMA BookIs ==
  ASSUME book \in Books
  PROVE  /\ book = [opens |-> book.opens, sheets |-> book.sheets] /\ book.opens \in BOOLEAN
         /\ book.sheets \in Seq(Sheet) /\ Len(book.sheets) \in Nat /\ Len(book.sheets) <= Len(SheetNames)
         /\ DOMAIN book.sheets = 1..Len(book.sheets) /\ DOMAIN book.sheets \subseteq DOMAIN SheetNames
         /\ Sheets \subseteq DOMAIN book.sheets
         /\ \A s \in DOMAIN book.sheets :
              /\ book.sheets[s] \in Sheet
              /\ RowsUnder(s) \in Lines /\ Len(RowsUnder(s)) \in 0..MaxRows
              /\ DOMAIN RowsUnder(s) = 1..Len(RowsUnder(s))
<1>1. /\ book.sheets \in Seq(Sheet) /\ Len(book.sheets) <= Len(SheetNames) /\ book.opens \in BOOLEAN
      /\ book = [opens |-> book.opens, sheets |-> book.sheets]
  BY DEF Books, SheetLists
<1>2. DOMAIN SheetNames = 1..Len(SheetNames) /\ Len(SheetNames) \in Nat
  BY ParserAssumption
<1>3. DOMAIN book.sheets = 1..Len(book.sheets) /\ Len(book.sheets) \in Nat
  BY <1>1
<1>4. ASSUME NEW s \in DOMAIN book.sheets
      PROVE  /\ book.sheets[s] \in Sheet
             /\ RowsUnder(s) \in Lines /\ Len(RowsUnder(s)) \in 0..MaxRows
             /\ DOMAIN RowsUnder(s) = 1..Len(RowsUnder(s))
  <2>1. book.sheets[s] \in Sheet
    BY <1>1, <1>3
  <2>2. RowsUnder(s) \in Lines /\ Len(RowsUnder(s)) \in 0..MaxRows
    BY <2>1, RowsOfSheet DEF RowsUnder
  <2> QED BY <2>1, <2>2 DEF Lines
<1> QED BY <1>1, <1>2, <1>3, <1>4 DEF Sheets

\* A row in front of the parser is a number, in a sheet of its own name.
LEMMA RowIs ==
  ASSUME book \in Books, NEW s, NEW n, HasRow(s, n)
  PROVE  s \in DOMAIN SheetNames /\ s \in Nat /\ s >= 1 /\ n \in Nat /\ n >= 1
BY BookIs DEF HasRow

LEMMA NamesDiffer ==
  ASSUME NEW s \in DOMAIN SheetNames, NEW t \in DOMAIN SheetNames, SheetNames[s] = SheetNames[t]
  PROVE  s = t
BY ParserAssumption

LEMMA TransactionIs ==
  ASSUME NEW a, NEW k, NEW r
  PROVE  /\ Transaction(a, k, r).sheet = a /\ Transaction(a, k, r).row = k
         /\ Transaction(a, k, r).key = DedupeKey(a, k, r)
         /\ Transaction(a, k, r).type = Kind(a)
BY DEF Transaction

-----------------------------------------------------------------------------
(* Steps *)

\* A step that parses no row: whatever it passes has none.
PassesNone ==
    /\ UNCHANGED <<book, previous>>
    /\ parsed' = [matched |-> parsed'.matched, total |-> parsed.total,
                  transactions |-> parsed.transactions, errors |-> parsed'.errors]
    /\ parsed.errors \subseteq parsed'.errors
    /\ \A e \in parsed'.errors : e.row > 1 => e \in parsed.errors
    /\ \A s, n : HasRow(s, n) /\ Passed(s, n) => Passed(s, n)'
    /\ \A s, n : book.opens /\ HasRow(s, n) /\ Passed(s, n)' => Passed(s, n)

LEMMA PassesNoneParsed ==
  ASSUME ParsedInv, PassesNone
  PROVE  ParsedInv'
<1>1. /\ ParsedRecord' /\ parsed'.total = parsed.total
      /\ parsed'.transactions = parsed.transactions
  BY DEF PassesNone, ParsedRecord
<1>2. \A s, n : /\ HasRow(s, n)' = HasRow(s, n) /\ Correct(s, n)' = Correct(s, n)
                /\ RowBecomes(s, n)' = RowBecomes(s, n)
  BY DEF PassesNone, HasRow, Correct, RowBecomes, RowsUnder, Sheets
<1>3. GivenInv'
  BY <1>1, <1>2 DEF PassesNone, ParsedInv, GivenInv
<1>4. ReportedInv'
  BY <1>1, <1>2 DEF PassesNone, ParsedInv, ReportedInv
<1>5. WholeInv'
  BY <1>1, <1>2 DEF PassesNone, ParsedInv, WholeInv, Rejected
<1>6. ReportedRows' = ReportedRows
  BY DEF PassesNone, ReportedRows
<1>7. CountInv'
  BY <1>1, <1>6 DEF ParsedInv, CountInv
<1>8. PreviousInv'
  BY DEF PassesNone, ParsedInv, PreviousInv
<1> QED BY <1>1, <1>3, <1>4, <1>5, <1>7, <1>8 DEF ParsedInv
\* The place after a step of the parser.
LEMMA StepPlace ==
  ASSUME PlaceInv, ParseStep
  PROVE  PlaceInv'
<1> DEFINE s == place.sheet
<1>1. place = [sheet |-> s, row |-> place.row] /\ s \in Nat /\ place.row \in Nat /\ book \in Books
  BY DEF PlaceInv
<1>2. UNCHANGED <<book, exports>>
  BY DEF ParseStep, RejectWorkbook, SkipSheet, RejectHeader, AcceptHeader, EndSheet, SkipEmptyRow, RejectRow, AcceptRow
<1>3. Parsing => s \in 1..Len(book.sheets) /\ Len(RowsUnder(s)) \in Nat /\ DOMAIN RowsUnder(s) = 1..Len(RowsUnder(s))
  BY <1>1, BookIs DEF Parsing
<1>4. CASE RejectWorkbook
  <2>1. place' = [sheet |-> Len(book.sheets) + 1, row |-> 0]
    BY <1>4 DEF RejectWorkbook
  <2> QED BY <1>1, <1>2, <2>1, BookIs DEF PlaceInv
<1>5. CASE NextSheet /\ Parsing
  <2>1. place' = [sheet |-> s + 1, row |-> 0]
    BY <1>5 DEF NextSheet
  <2> QED BY <1>1, <1>2, <1>3, <1>5, <2>1, BookIs DEF PlaceInv
<1>6. CASE AcceptHeader
  <2>1. place' = [sheet |-> s, row |-> 2]
    BY <1>1, <1>6 DEF AcceptHeader
  <2>2. Sheets' = Sheets
    BY <1>2 DEF Sheets
  <2> QED BY <1>1, <1>2, <1>3, <1>6, <2>1, <2>2 DEF AcceptHeader, PlaceInv, RowsUnder
<1>7. CASE NextRow /\ Parsing /\ AtRow
  <2>1. place' = [sheet |-> s, row |-> place.row + 1]
    BY <1>1, <1>7 DEF NextRow
  <2>2. Sheets' = Sheets
    BY <1>2 DEF Sheets
  <2>3. place.row >= 2 /\ place.row - 1 \in 1..Len(RowsUnder(s))
    BY <1>3, <1>7 DEF AtRow, RowsUnder
  <2> QED BY <1>1, <1>2, <1>3, <2>1, <2>2, <2>3 DEF PlaceInv, RowsUnder
<1> QED BY <1>4, <1>5, <1>6, <1>7 DEF ParseStep, SkipSheet, RejectHeader, EndSheet, SkipEmptyRow, RejectRow, AcceptRow

LEMMA NoRowPassed ==
  ASSUME PlaceInv, ParsedInv, RejectWorkbook \/ SkipSheet \/ RejectHeader \/ AcceptHeader \/ EndSheet \/ SkipEmptyRow
  PROVE  PassesNone
<1> DEFINE s == place.sheet
<1>1. place = [sheet |-> s, row |-> place.row] /\ s \in Nat /\ place.row \in Nat /\ book \in Books
  BY DEF PlaceInv
<1>2. UNCHANGED <<book, previous>>
  BY DEF RejectWorkbook, SkipSheet, RejectHeader, AcceptHeader, EndSheet, SkipEmptyRow
<1>3. \A t, n : HasRow(t, n) => t \in Nat /\ t >= 1 /\ n \in Nat /\ n >= 1 /\ t \in Sheets /\ n <= Len(RowsUnder(t))
  BY <1>1, RowIs, BookIs DEF HasRow
<1>4. CASE RejectWorkbook
  <2>1. /\ place' = [sheet |-> Len(book.sheets) + 1, row |-> 0] /\ place.sheet = 1 /\ place.row = 0
        /\ ~book.opens \/ Sheets = {}
        /\ parsed' = [parsed EXCEPT !.errors = WholeFile(IF book.opens THEN "no_supported_sheets" ELSE "invalid_workbook")]
        /\ parsed.errors = {}
    BY <1>4 DEF RejectWorkbook, NoResult
  <2>2. parsed' = [parsed EXCEPT !.errors = parsed'.errors] /\ \A e \in parsed'.errors : e.row = 0
    BY <2>1 DEF WholeFile, Error, ParsedInv, ParsedRecord
  <2>3. \A t, n : HasRow(t, n) => ~book.opens /\ ~Passed(t, n)
    BY <1>1, <1>3, <2>1 DEF Passed
  <2> QED BY <1>2, <2>1, <2>2, <2>3 DEF PassesNone, ParsedInv, ParsedRecord
<1>5. CASE NextSheet /\ (UNCHANGED parsed \/ RejectHeader) /\ \A n : HasRow(s, n) => n + 1 < place.row
  <2>1. place' = [sheet |-> s + 1, row |-> 0]
    BY <1>5 DEF NextSheet
  <2> HIDE DEF s
  <2>2. \A t, n : HasRow(t, n) => (Passed(t, n)' <=> Passed(t, n))
    <3> SUFFICES ASSUME NEW t, NEW n, HasRow(t, n) PROVE Passed(t, n)' <=> Passed(t, n)
      OBVIOUS
    <3>1. t \in Nat /\ n \in Nat /\ (t = s => n + 1 < place.row)
      BY <1>3, <1>5
    <3> QED BY <1>1, <2>1, <3>1 DEF Passed, s
  <2>3. CASE UNCHANGED parsed
    BY <1>2, <2>2, <2>3 DEF PassesNone, ParsedInv, ParsedRecord
  <2>4. CASE RejectHeader
    <3>1. parsed' = [parsed EXCEPT !.matched = Append(@, place.sheet),
              !.errors = @ \union {Error(SheetNames[place.sheet], 1, [column |-> "none", code |-> "unsupported_header"])}]
      BY <2>4 DEF RejectHeader
    <3>2. /\ parsed' = [matched |-> parsed'.matched, total |-> parsed.total,
                        transactions |-> parsed.transactions, errors |-> parsed'.errors]
          /\ parsed'.errors = parsed.errors \union {Error(SheetNames[place.sheet], 1, [column |-> "none", code |-> "unsupported_header"])}
      BY <3>1 DEF ParsedInv, ParsedRecord
    <3>3. Error(SheetNames[place.sheet], 1, [column |-> "none", code |-> "unsupported_header"]).row = 1
      BY DEF Error
    <3> QED BY <1>2, <2>2, <3>2, <3>3 DEF PassesNone
  <2> QED BY <1>5, <2>3, <2>4
<1>6. CASE AcceptHeader
  <2>1. place' = [sheet |-> s, row |-> 2] /\ place.row = 0 /\ parsed' = [parsed EXCEPT !.matched = Append(@, place.sheet)]
    BY <1>1, <1>6 DEF AcceptHeader
  <2>2. \A t, n : HasRow(t, n) => (Passed(t, n)' <=> Passed(t, n))
    BY <1>1, <1>3, <2>1 DEF Passed
  <2> QED BY <1>2, <2>1, <2>2 DEF PassesNone, ParsedInv, ParsedRecord
<1>7. CASE SkipEmptyRow
  <2>1. place' = [sheet |-> s, row |-> place.row + 1] /\ UNCHANGED parsed
    BY <1>1, <1>7 DEF SkipEmptyRow, NextRow
  <2>2. RowsUnder(s)[place.row - 1] = EmptyRow
    BY <1>7 DEF SkipEmptyRow, TheRow, RowsUnder
  <2> HIDE DEF s
  <2>3. \A t, n : HasRow(t, n) => (Passed(t, n)' <=> Passed(t, n))
    <3> SUFFICES ASSUME NEW t, NEW n, HasRow(t, n) PROVE Passed(t, n)' <=> Passed(t, n)
      OBVIOUS
    <3>1. t = s => n # place.row - 1
      BY <2>2 DEF HasRow
    <3> QED BY <1>1, <1>3, <2>1, <3>1 DEF Passed, s
  <2> QED BY <1>2, <2>1, <2>3 DEF PassesNone, ParsedInv, ParsedRecord
<1>8. SkipSheet => \A n : ~HasRow(s, n)
  BY DEF SkipSheet, HasRow
<1>9. RejectHeader => \A n : ~HasRow(s, n)
  BY DEF RejectHeader, HasRow
<1>10. EndSheet => \A n : HasRow(s, n) => n + 1 < place.row
  <2>1. ASSUME EndSheet, NEW n, HasRow(s, n) PROVE n + 1 < place.row
    <3>1. place.row >= 2 /\ place.row <= Len(RowsUnder(s)) + 2 /\ ~(place.row - 1 \in DOMAIN RowsUnder(s))
      BY <2>1 DEF EndSheet, AtRow, PlaceInv, RowsUnder
    <3>2. s \in DOMAIN book.sheets
      BY <2>1 DEF EndSheet, Parsing
    <3>3. DOMAIN RowsUnder(s) = 1..Len(RowsUnder(s)) /\ Len(RowsUnder(s)) \in Nat
      BY <1>1, <3>2, BookIs
    <3> QED BY <1>1, <1>3, <2>1, <3>1, <3>3
  <2> QED BY <2>1
<1> QED BY <1>4, <1>5, <1>6, <1>7, <1>8, <1>9, <1>10 DEF SkipSheet, RejectHeader, EndSheet

\* A step that parses the row it is at, and no other.
PassesRow ==
    /\ UNCHANGED <<book, previous>>
    /\ HasRow(place.sheet, place.row - 1) /\ book.opens
    /\ \A s, n : HasRow(s, n) =>
         (Passed(s, n)' <=> Passed(s, n) \/ (s = place.sheet /\ n = place.row - 1))
    /\ ~Passed(place.sheet, place.row - 1)

LEMMA RowPassed ==
  ASSUME PlaceInv, RejectRow \/ AcceptRow
  PROVE  PassesRow
<1> DEFINE s == place.sheet
           r == place.row
<1>1. place = [sheet |-> s, row |-> r] /\ s \in Nat /\ r \in Nat /\ book \in Books
  BY DEF PlaceInv
<1>2. /\ UNCHANGED <<book, previous>> /\ place' = [sheet |-> s, row |-> r + 1]
      /\ Parsing /\ AtRow /\ TheRow # EmptyRow
  BY <1>1 DEF RejectRow, AcceptRow, NextRow
<1>3. r >= 2 /\ r - 1 \in DOMAIN RowsUnder(s) /\ RowsUnder(s)[r - 1] # EmptyRow
  BY <1>2 DEF AtRow, TheRow, RowsUnder
<1>4. HasRow(s, r - 1) /\ book.opens
  BY <1>3 DEF HasRow, PlaceInv
<1> HIDE DEF s, r
<1>5. \A t, n : HasRow(t, n) => (Passed(t, n)' <=> Passed(t, n) \/ (t = s /\ n = r - 1))
  <2> SUFFICES ASSUME NEW t, NEW n, HasRow(t, n) PROVE Passed(t, n)' <=> Passed(t, n) \/ (t = s /\ n = r - 1)
    OBVIOUS
  <2>1. t \in Nat /\ n \in Nat
    BY <1>1, RowIs
  <2> QED BY <1>1, <1>2, <2>1 DEF Passed, s, r
<1> QED BY <1>1, <1>2, <1>4, <1>5 DEF PassesRow, Passed, s, r

\* Two rows of a workbook are told apart by the sheet's name and the number.
LEMMA RowsDiffer ==
  ASSUME book \in Books, NEW s, NEW n, NEW t, NEW k, HasRow(s, n), HasRow(t, k),
         SheetNames[s] = SheetNames[t], n + 1 = k + 1
  PROVE  s = t /\ n = k
<1>1. s \in DOMAIN SheetNames /\ t \in DOMAIN SheetNames /\ n \in Nat /\ k \in Nat
  BY RowIs
<1> QED BY <1>1, NamesDiffer

LEMMA StaticParts ==
  ASSUME UNCHANGED book
  PROVE  \A s, n : /\ HasRow(s, n)' = HasRow(s, n) /\ Correct(s, n)' = Correct(s, n)
                   /\ RowBecomes(s, n)' = RowBecomes(s, n)
BY DEF HasRow, Correct, RowBecomes, RowsUnder, Sheets

LEMMA AcceptRowParsed ==
  ASSUME PlaceInv, ParsedInv, AcceptRow
  PROVE  ParsedInv'
<1> DEFINE s == place.sheet
           r == place.row - 1
           x == RowBecomes(s, r)
<1>1. PassesRow /\ book \in Books /\ UNCHANGED <<book, previous>>
  BY RowPassed DEF PlaceInv, PassesRow
<1>2. Correct(s, r) /\ r \in Nat /\ r + 1 = place.row
  BY DEF AcceptRow, AtRow, TheRow, Correct, RowsUnder, PlaceInv
<1>3. parsed' = [parsed EXCEPT !.total = @ + 1, !.transactions = @ \union {x}]
  BY <1>2 DEF AcceptRow, TheRow, RowBecomes, RowsUnder
<1>4. /\ ParsedRecord' /\ parsed'.total = parsed.total + 1
      /\ parsed'.transactions = parsed.transactions \union {x} /\ parsed'.errors = parsed.errors
  BY <1>3 DEF ParsedInv, ParsedRecord
<1>5. HasRow(s, r) /\ ~Passed(s, r) /\ book.opens
      /\ \A t, n : HasRow(t, n) => (Passed(t, n)' <=> Passed(t, n) \/ (t = s /\ n = r))
  BY <1>1 DEF PassesRow
<1>6. x.sheet = SheetNames[s] /\ x.row = r + 1
  BY TransactionIs DEF RowBecomes
<1>7. x \notin parsed.transactions
  <2> SUFFICES ASSUME x \in parsed.transactions PROVE FALSE
    OBVIOUS
  <2>1. PICK t, n : HasRow(t, n) /\ Passed(t, n) /\ x = RowBecomes(t, n)
    BY DEF ParsedInv, GivenInv
  <2>2. SheetNames[t] = SheetNames[s] /\ n + 1 = r + 1
    BY <1>6, <2>1, TransactionIs DEF RowBecomes
  <2>3. t = s /\ n = r
    BY <1>1, <1>5, <2>1, <2>2, RowsDiffer
  <2> QED BY <1>5, <2>1, <2>3
<1> HIDE DEF x, s, r
<1>8. GivenInv'
  <2> SUFFICES ASSUME NEW y \in parsed'.transactions
               PROVE  \E t, n : HasRow(t, n)' /\ Passed(t, n)' /\ Correct(t, n)' /\ y = RowBecomes(t, n)'
    BY DEF GivenInv
  <2>1. CASE y = x
    BY <1>1, <1>2, <1>5, <2>1, StaticParts DEF x
  <2>2. CASE y \in parsed.transactions
    BY <1>1, <1>5, <2>2, StaticParts DEF ParsedInv, GivenInv
  <2> QED BY <1>4, <2>1, <2>2
<1>9. ReportedInv'
  BY <1>1, <1>4, <1>5, StaticParts DEF ParsedInv, ReportedInv
<1>10. WholeInv'
  <2> SUFFICES ASSUME NEW t, NEW n, HasRow(t, n), Passed(t, n)'
               PROVE  /\ Correct(t, n) => RowBecomes(t, n) \in parsed'.transactions
                      /\ ~Correct(t, n) => Rejected(parsed, SheetNames[t], n + 1)
    BY <1>1, <1>4, StaticParts DEF WholeInv, Rejected
  <2>1. CASE Passed(t, n)
    BY <1>4, <1>5, <2>1 DEF ParsedInv, WholeInv
  <2>2. CASE t = s /\ n = r
    BY <1>2, <1>4, <2>2 DEF x
  <2> QED BY <1>5, <2>1, <2>2
<1>11. CountInv'
  <2>1. ReportedRows' = ReportedRows
    BY <1>4 DEF ReportedRows
  <2>2. /\ IsFiniteSet(parsed'.transactions)
        /\ Cardinality(parsed'.transactions) = Cardinality(parsed.transactions) + 1
    BY <1>4, <1>7, FS_AddElement DEF ParsedInv, CountInv
  <2>3. Cardinality(parsed.transactions) \in Nat /\ Cardinality(ReportedRows) \in Nat
    BY FS_CardinalityType DEF ParsedInv, CountInv
  <2> QED BY <1>4, <2>1, <2>2, <2>3 DEF ParsedInv, CountInv
<1>12. PreviousInv'
  BY <1>1 DEF ParsedInv, PreviousInv
<1> QED BY <1>4, <1>8, <1>9, <1>10, <1>11, <1>12 DEF ParsedInv

LEMMA RejectRowParsed ==
  ASSUME PlaceInv, ParsedInv, RejectRow
  PROVE  ParsedInv'
<1> DEFINE s == place.sheet
           r == place.row - 1
           E == {Error(SheetNames[s], place.row, i) : i \in RowIssues(TheRow)}
<1>1. PassesRow /\ book \in Books /\ UNCHANGED <<book, previous>>
  BY RowPassed DEF PlaceInv, PassesRow
<1>2. ~Correct(s, r) /\ r \in Nat /\ r >= 1 /\ r + 1 = place.row /\ RowIssues(TheRow) # {}
  BY DEF RejectRow, AtRow, TheRow, Correct, RowsUnder, PlaceInv
<1>3. parsed' = [parsed EXCEPT !.total = @ + 1, !.errors = @ \union E]
  BY DEF RejectRow
<1>4. /\ ParsedRecord' /\ parsed'.total = parsed.total + 1
      /\ parsed'.transactions = parsed.transactions /\ parsed'.errors = parsed.errors \union E
  BY <1>3 DEF ParsedInv, ParsedRecord
<1>5. HasRow(s, r) /\ ~Passed(s, r) /\ book.opens
      /\ \A t, n : HasRow(t, n) => (Passed(t, n)' <=> Passed(t, n) \/ (t = s /\ n = r))
  BY <1>1 DEF PassesRow
<1>6. /\ \A e \in E : e.sheet = SheetNames[s] /\ e.row = r + 1
      /\ E # {}
  <2>1. \A a, k, i : Error(a, k, i).sheet = a /\ Error(a, k, i).row = k
    BY DEF Error
  <2>2. \A e \in E : e.sheet = SheetNames[s] /\ e.row = place.row
    BY <2>1
  <2> QED BY <1>2, <2>2
<1> HIDE DEF E, s, r
<1>7. <<SheetNames[s], r + 1>> \notin ReportedRows
  <2> SUFFICES ASSUME NEW e \in parsed.errors, e.row > 1, e.sheet = SheetNames[s], e.row = r + 1 PROVE FALSE
    BY DEF ReportedRows
  <2>1. PICK t, n : HasRow(t, n) /\ Passed(t, n) /\ e.sheet = SheetNames[t] /\ e.row = n + 1
    BY DEF ParsedInv, ReportedInv
  <2>2. t = s /\ n = r
    BY <1>1, <1>5, <2>1, RowsDiffer
  <2> QED BY <1>5, <2>1, <2>2
<1>8. GivenInv'
  BY <1>1, <1>4, <1>5, StaticParts DEF ParsedInv, GivenInv
<1>9. ReportedInv'
  <2> SUFFICES ASSUME NEW e \in parsed'.errors, e.row > 1
               PROVE  \E t, n : HasRow(t, n)' /\ Passed(t, n)' /\ ~Correct(t, n)' /\ e.sheet = SheetNames[t] /\ e.row = n + 1
    BY DEF ReportedInv
  <2>1. CASE e \in E
    BY <1>1, <1>2, <1>5, <1>6, <2>1, StaticParts
  <2>2. CASE e \in parsed.errors
    BY <1>1, <1>5, <2>2, StaticParts DEF ParsedInv, ReportedInv
  <2> QED BY <1>4, <2>1, <2>2
<1>10. WholeInv'
  <2> SUFFICES ASSUME NEW t, NEW n, HasRow(t, n), Passed(t, n)'
               PROVE  /\ Correct(t, n) => RowBecomes(t, n) \in parsed.transactions
                      /\ ~Correct(t, n) => \E e \in parsed'.errors : e.sheet = SheetNames[t] /\ e.row = n + 1
    BY <1>1, <1>4, StaticParts DEF WholeInv, Rejected
  <2>1. CASE Passed(t, n)
    BY <1>4, <1>5, <2>1 DEF ParsedInv, WholeInv, Rejected
  <2>2. CASE t = s /\ n = r
    BY <1>2, <1>4, <1>6, <2>2
  <2> QED BY <1>5, <2>1, <2>2
<1>11. CountInv'
  <2>1. ReportedRows' = ReportedRows \union {<<SheetNames[s], r + 1>>}
    <3>1. \A e \in E : e.row > 1 /\ <<e.sheet, e.row>> = <<SheetNames[s], r + 1>>
      BY <1>2, <1>6
    <3> QED BY <1>4, <1>6, <3>1 DEF ReportedRows
  <2>2. IsFiniteSet(ReportedRows') /\ Cardinality(ReportedRows') = Cardinality(ReportedRows) + 1
    BY <1>7, <2>1, FS_AddElement DEF ParsedInv, CountInv
  <2>3. Cardinality(parsed.transactions) \in Nat /\ Cardinality(ReportedRows) \in Nat
    BY FS_CardinalityType DEF ParsedInv, CountInv
  <2> QED BY <1>4, <2>2, <2>3 DEF ParsedInv, CountInv
<1>12. PreviousInv'
  BY <1>1 DEF ParsedInv, PreviousInv
<1> QED BY <1>4, <1>8, <1>9, <1>10, <1>11, <1>12 DEF ParsedInv

-----------------------------------------------------------------------------
(* Uploads *)

\* What is uploaded has the sheets and the rows that exports have.
LEMMA UploadPlace ==
  ASSUME PlaceInv, NEW b \in Books, Upload(b)
  PROVE  PlaceInv'
<1>1. place' = [sheet |-> 1, row |-> 0] /\ book' = b /\ exports' = exports + 1 /\ exports < MaxExports
  BY DEF Upload
<1>2. Len(b.sheets) \in Nat
  BY DEF Books, SheetLists
<1> QED BY <1>1, <1>2, ParserAssumption DEF PlaceInv

LEMMA UploadParsed ==
  ASSUME PlaceInv, ParsedInv, NEW b \in Books, Upload(b)
  PROVE  ParsedInv'
<1>1. /\ place' = [sheet |-> 1, row |-> 0] /\ parsed' = NoResult
      /\ previous' = [book |-> book, parsed |-> parsed] /\ book' = b
  BY DEF Upload
<1>2. ParsedRecord' /\ GivenInv' /\ ReportedInv' /\ ReportedRows' = {} /\ parsed'.transactions = {} /\ parsed'.total = 0
  BY <1>1 DEF NoResult, ParsedRecord, GivenInv, ReportedInv, ReportedRows
<1>3. CountInv'
  BY <1>2, FS_EmptySet DEF CountInv
<1>4. WholeInv'
  <2>1. ASSUME NEW s, NEW n, HasRow(s, n)', Passed(s, n)' PROVE FALSE
    <3>1. s \in DOMAIN b.sheets /\ n \in DOMAIN b.sheets[s].rows
      BY <1>1, <2>1 DEF HasRow, Sheets, RowsUnder
    <3>2. b.sheets \in Seq(Sheet)
      BY DEF Books, SheetLists
    <3>3. s \in Nat /\ s >= 1 /\ b.sheets[s] \in Sheet
      BY <3>1, <3>2
    <3>4. n \in Nat
      BY <3>1, <3>3, RowsOfSheet DEF Lines
    <3> QED BY <1>1, <2>1, <3>3, <3>4 DEF Passed
  <2> QED BY <2>1 DEF WholeInv
<1>5. PreviousInv'
  <2>1. previous'.parsed = parsed /\ previous'.book = book
    BY <1>1
  <2> SUFFICES ASSUME NEW y \in parsed.transactions
               PROVE  \E s \in DOMAIN SheetNames, n \in Nat : y = Transaction(SheetNames[s], n + 1, book.sheets[s].rows[n])
    BY <2>1 DEF PreviousInv
  <2>2. PICK s, n : HasRow(s, n) /\ y = RowBecomes(s, n)
    BY DEF ParsedInv, GivenInv
  <2>3. s \in DOMAIN SheetNames /\ n \in Nat
    BY <2>2, RowIs DEF PlaceInv
  <2> QED BY <2>2, <2>3 DEF RowBecomes, RowsUnder
<1> QED BY <1>2, <1>3, <1>4, <1>5 DEF ParsedInv

\* The rows of one sheet may change, within their number.
LEMMA BookWithRows ==
  ASSUME book \in Books, NEW s \in DOMAIN book.sheets, NEW r \in Lines, Len(r) <= MaxRows
  PROVE  [book EXCEPT !.sheets[s].rows = r] \in Books
<1> DEFINE x == [book.sheets[s] EXCEPT !.rows = r]
           y == [book.sheets EXCEPT ![s] = x]
<1>1. book.sheets[s] \in Sheet /\ book = [opens |-> book.opens, sheets |-> book.sheets]
      /\ book.opens \in BOOLEAN /\ book.sheets \in Seq(Sheet) /\ Len(book.sheets) <= Len(SheetNames)
  BY BookIs
<1>2. x = [headed |-> book.sheets[s].headed, rows |-> r] /\ book.sheets[s].headed \in BOOLEAN
  BY <1>1, RowsOfSheet
<1>3. x \in Sheet
  BY <1>2, SheetOfRows
<1>4. [book EXCEPT !.sheets[s].rows = r] = [book EXCEPT !.sheets = y]
  BY <1>1
<1> HIDE DEF x
<1>5. y \in Seq(Sheet) /\ Len(y) = Len(book.sheets)
  BY <1>1, <1>3
<1> HIDE DEF y
<1>6. [book EXCEPT !.sheets = y] = [opens |-> book.opens, sheets |-> y] /\ y \in SheetLists
  BY <1>1, <1>5 DEF SheetLists
<1> QED BY <1>1, <1>4, <1>6 DEF Books

LEMMA LinesChanged ==
  ASSUME NEW x \in Lines, NEW row \in NewRows
  PROVE  /\ Append(x, row) \in Lines /\ Len(Append(x, row)) = Len(x) + 1
         /\ \A n : [x EXCEPT ![n] = row] \in Lines /\ Len([x EXCEPT ![n] = row]) = Len(x)
<1> DEFINE R == Row \union {EmptyRow}
<1>1. row \in R /\ x \in Seq(R)
  BY ExportAssumption DEF Lines
<1> HIDE DEF R
<1>2. Append(x, row) \in Seq(R) /\ Len(Append(x, row)) = Len(x) + 1
  BY <1>1
<1>3. ASSUME NEW n PROVE [x EXCEPT ![n] = row] \in Seq(R) /\ Len([x EXCEPT ![n] = row]) = Len(x)
  <2> DEFINE y == [x EXCEPT ![n] = row]
  <2>1. x \in [1..Len(x) -> R] /\ Len(x) \in Nat
    BY <1>1
  <2>2. y \in [1..Len(x) -> R]
    BY <1>1, <2>1
  <2> HIDE DEF y
  <2>3. y \in Seq(R) /\ Len(y) = Len(x)
    BY <2>1, <2>2
  <2> QED BY <2>3 DEF y
<1> QED BY <1>2, <1>3 DEF Lines, R

LEMMA ExportsAreBooks ==
  ASSUME PlaceInv
  PROVE  /\ \A s \in FirstExports : Export(s) => \E b \in Books : Upload(b)
         /\ \A s \in DOMAIN SheetNames, row \in NewRows : ExportAppended(s, row) => \E b \in Books : Upload(b)
         /\ \A s \in DOMAIN SheetNames, n \in 1..MaxRows, row \in NewRows :
              ExportEdited(s, n, row) => \E b \in Books : Upload(b)
<1>1. ASSUME NEW s \in FirstExports, Export(s) PROVE \E b \in Books : Upload(b)
  <2>1. s \in SheetLists
    BY ExportAssumption DEF SheetLists
  <2> QED BY <1>1, <2>1 DEF Export, Books
<1>2. \A s \in DOMAIN book.sheets : RowsUnder(s) \in Lines /\ Len(RowsUnder(s)) \in 0..MaxRows
  BY BookIs DEF PlaceInv
<1>3. ASSUME NEW s, NEW row \in NewRows, ExportAppended(s, row) PROVE \E b \in Books : Upload(b)
  <2> DEFINE r == Append(RowsUnder(s), row)
  <2>1. s \in DOMAIN book.sheets /\ Len(RowsUnder(s)) < MaxRows
    BY <1>3 DEF ExportAppended, RowsUnder
  <2>2. r \in Lines /\ Len(r) <= MaxRows
    <3>1. RowsUnder(s) \in Lines /\ Len(RowsUnder(s)) \in Nat
      BY <1>2, <2>1
    <3>2. r \in Lines /\ Len(r) = Len(RowsUnder(s)) + 1
      BY <3>1, LinesChanged
    <3> HIDE DEF r
    <3> QED BY <2>1, <3>1, <3>2, ParserAssumption
  <2>3. Upload([book EXCEPT !.sheets[s].rows = r])
    BY <1>3 DEF ExportAppended, RowsUnder
  <2> HIDE DEF r
  <2> QED BY <2>1, <2>2, <2>3, BookWithRows DEF PlaceInv
<1>4. ASSUME NEW s, NEW n, NEW row \in NewRows, ExportEdited(s, n, row) PROVE \E b \in Books : Upload(b)
  <2> DEFINE r == [RowsUnder(s) EXCEPT ![n] = row]
  <2>1. s \in DOMAIN book.sheets
    BY <1>4 DEF ExportEdited
  <2>2. r \in Lines /\ Len(r) <= MaxRows
    <3>1. RowsUnder(s) \in Lines /\ Len(RowsUnder(s)) \in 0..MaxRows
      BY <1>2, <2>1
    <3>2. r \in Lines /\ Len(r) = Len(RowsUnder(s))
      BY <3>1, LinesChanged
    <3> HIDE DEF r
    <3> QED BY <3>1, <3>2, ParserAssumption
  <2>3. Upload([book EXCEPT !.sheets[s].rows = r])
    BY <1>4 DEF ExportEdited, RowsUnder
  <2> HIDE DEF r
  <2> QED BY <2>1, <2>2, <2>3, BookWithRows DEF PlaceInv
<1> QED BY <1>1, <1>3, <1>4

-----------------------------------------------------------------------------
(* The theorems of ExcelParser *)

ParserInv == PlaceInv /\ ParsedInv

LEMMA InitParser == ParserInit => ParserInv
<1> SUFFICES ASSUME ParserInit PROVE ParserInv
  OBVIOUS
<1>1. /\ book = [opens |-> TRUE, sheets |-> <<>>] /\ place = [sheet |-> 0, row |-> 0] /\ exports = 0
      /\ parsed = NoResult /\ previous.parsed = NoResult
  BY DEF ParserInit, NoBook
<1>2. <<>> \in SheetLists /\ Len(<<>>) = 0
  BY ParserAssumption DEF SheetLists
<1>3. PlaceInv
  BY <1>1, <1>2, ParserAssumption DEF PlaceInv, Books
<1>4. ParsedRecord /\ GivenInv /\ ReportedInv /\ PreviousInv /\ ReportedRows = {}
  BY <1>1 DEF NoResult, ParsedRecord, GivenInv, ReportedInv, PreviousInv, ReportedRows
<1>5. CountInv
  BY <1>1, <1>4, FS_EmptySet DEF CountInv, NoResult
<1>6. WholeInv
  BY <1>1 DEF WholeInv, HasRow, Sheets
<1> QED BY <1>3, <1>4, <1>5, <1>6 DEF ParserInv, ParsedInv

LEMMA NextParser == ParserInv /\ [ParserNext]_parserVars => ParserInv'
<1> SUFFICES ASSUME PlaceInv, ParsedInv, [ParserNext]_parserVars PROVE PlaceInv' /\ ParsedInv'
  BY DEF ParserInv
<1>1. CASE ParseStep
  <2>1. PlaceInv'
    BY <1>1, StepPlace
  <2>2. CASE RejectWorkbook \/ SkipSheet \/ RejectHeader \/ AcceptHeader \/ EndSheet \/ SkipEmptyRow
    BY <2>1, <2>2, NoRowPassed, PassesNoneParsed
  <2> QED BY <1>1, <2>1, <2>2, RejectRowParsed, AcceptRowParsed DEF ParseStep
<1>2. ASSUME NEW b \in Books, Upload(b) PROVE PlaceInv' /\ ParsedInv'
  BY <1>2, UploadPlace, UploadParsed
<1>3. CASE UNCHANGED parserVars
  <2>1. PlaceInv'
    BY <1>3 DEF parserVars, PlaceInv, Sheets, RowsUnder
  <2>2. PassesNone
    BY <1>3 DEF parserVars, PassesNone, ParsedInv, ParsedRecord, Passed
  <2> QED BY <2>1, <2>2, PassesNoneParsed
<1> QED BY <1>1, <1>2, <1>3, ExportsAreBooks DEF ParserNext

\* Every row of a sheet with the right header is a transaction or an issue.
LEMMA WholeWhenFinished ==
  ASSUME ParserInv, Finished, NEW s \in Sheets, NEW n \in DOMAIN book.sheets[s].rows
  PROVE  LET given == Given(parsed, SheetNames[s], n + 1) IN
         IF book.sheets[s].rows[n] = EmptyRow \/ ~book.sheets[s].headed THEN given = {}
         ELSE (Cardinality(given) = 1) # Rejected(parsed, SheetNames[s], n + 1)
<1> DEFINE given == Given(parsed, SheetNames[s], n + 1)
<1>1. /\ book \in Books /\ book.opens /\ s \in DOMAIN book.sheets /\ s \in DOMAIN SheetNames
      /\ s \in Nat /\ n \in Nat /\ n >= 1 /\ s < place.sheet
  <2>1. book \in Books /\ place.sheet \in Nat /\ place.sheet >= 1 /\ ~(place.sheet \in DOMAIN book.sheets) /\ book.opens
    BY DEF ParserInv, PlaceInv, Finished, Parsing
  <2>2. s \in DOMAIN book.sheets /\ s \in DOMAIN SheetNames /\ DOMAIN book.sheets = 1..Len(book.sheets)
        /\ Len(book.sheets) \in Nat
    BY <2>1, BookIs
  <2>3. DOMAIN book.sheets[s].rows = 1..Len(book.sheets[s].rows)
    BY <2>1, <2>2, BookIs DEF RowsUnder
  <2> QED BY <2>1, <2>2, <2>3
<1>2. \A x \in given : x = RowBecomes(s, n) /\ HasRow(s, n) /\ Correct(s, n)
  <2> SUFFICES ASSUME NEW x \in parsed.transactions, x.sheet = SheetNames[s], x.row = n + 1
               PROVE  x = RowBecomes(s, n) /\ HasRow(s, n) /\ Correct(s, n)
    BY DEF Given
  <2>1. PICK t, k : HasRow(t, k) /\ Correct(t, k) /\ x = RowBecomes(t, k)
    BY DEF ParserInv, ParsedInv, GivenInv
  <2>2. SheetNames[t] = SheetNames[s] /\ k + 1 = n + 1
    BY <2>1, TransactionIs DEF RowBecomes
  <2>3. t = s /\ k = n
    BY <1>1, <2>1, <2>2, RowIs, NamesDiffer
  <2> QED BY <2>1, <2>3
<1>3. CASE ~HasRow(s, n)
  <2>1. given = {}
    BY <1>2, <1>3
  <2> QED BY <1>3, <2>1 DEF HasRow, RowsUnder
<1>4. CASE HasRow(s, n) /\ Correct(s, n)
  <2>1. RowBecomes(s, n) \in given
    BY <1>1, <1>4, TransactionIs DEF ParserInv, ParsedInv, WholeInv, Passed, Given, RowBecomes
  <2>2. given = {RowBecomes(s, n)}
    BY <1>2, <2>1
  <2>3. Cardinality(given) = 1
    BY <2>2, FS_Singleton
  <2>4. ~Rejected(parsed, SheetNames[s], n + 1)
    <3> SUFFICES ASSUME NEW e \in parsed.errors, e.sheet = SheetNames[s], e.row = n + 1 PROVE FALSE
      BY DEF Rejected
    <3>1. PICK t, k : HasRow(t, k) /\ ~Correct(t, k) /\ e.sheet = SheetNames[t] /\ e.row = k + 1
      BY <1>1 DEF ParserInv, ParsedInv, ReportedInv
    <3>2. k \in Nat /\ t \in DOMAIN SheetNames /\ SheetNames[t] = SheetNames[s] /\ k + 1 = n + 1
      BY <1>1, <3>1, RowIs
    <3>3. t = s /\ k = n
      BY <1>1, <3>2, NamesDiffer
    <3> QED BY <1>4, <3>1, <3>3
  <2> QED BY <1>4, <2>3, <2>4 DEF HasRow, RowsUnder
<1>5. CASE HasRow(s, n) /\ ~Correct(s, n)
  <2>1. Rejected(parsed, SheetNames[s], n + 1)
    BY <1>1, <1>5 DEF ParserInv, ParsedInv, WholeInv, Passed
  <2>2. given = {}
    BY <1>2, <1>5
  <2>3. ~(Cardinality(given) = 1)
    BY <2>2, FS_EmptySet
  <2>4. (Cardinality(given) = 1) # Rejected(parsed, SheetNames[s], n + 1)
    BY <2>1, <2>3 DEF Rejected
  <2> QED BY <1>5, <2>4 DEF HasRow, RowsUnder
<1> QED BY <1>3, <1>4, <1>5

LEMMA KeysFollow == ParserInv => KeysFollowRows
<1> SUFFICES ASSUME ParserInv PROVE KeysFollowRows
  OBVIOUS
<1>1. Finished => \A s \in Sheets : \A n \in DOMAIN book.sheets[s].rows :
         LET given == Given(parsed, SheetNames[s], n + 1) IN
         IF book.sheets[s].rows[n] = EmptyRow \/ ~book.sheets[s].headed THEN given = {}
         ELSE (Cardinality(given) = 1) # Rejected(parsed, SheetNames[s], n + 1)
  BY WholeWhenFinished
<1>2. parsed.total = Cardinality(parsed.transactions)
        + Cardinality({<<e.sheet, e.row>> : e \in {x \in parsed.errors : x.row > 1}})
  BY DEF ParserInv, ParsedInv, CountInv, ReportedRows
<1>3. ASSUME NEW x \in parsed.transactions
      PROVE  \E s \in Sheets, n \in Nat : /\ s \in DOMAIN SheetNames
                                          /\ x = Transaction(SheetNames[s], n + 1, book.sheets[s].rows[n])
  <2>1. PICK s, n : HasRow(s, n) /\ x = RowBecomes(s, n)
    BY DEF ParserInv, ParsedInv, GivenInv
  <2>2. s \in DOMAIN SheetNames /\ n \in Nat /\ s \in Sheets
    BY <2>1, RowIs DEF ParserInv, PlaceInv, HasRow
  <2> QED BY <2>1, <2>2 DEF RowBecomes, RowsUnder
<1>4. ASSUME NEW x \in parsed.transactions, NEW y \in parsed.transactions, x.key = y.key
      PROVE  x = y
  <2>1. PICK s, n : x = Transaction(SheetNames[s], n + 1, book.sheets[s].rows[n])
    BY <1>3
  <2>2. PICK t, k : y = Transaction(SheetNames[t], k + 1, book.sheets[t].rows[k])
    BY <1>3
  <2>3. x.sheet = y.sheet /\ x.row = y.row
    BY <1>4, <2>1, <2>2, TransactionIs DEF DedupeKey
  <2> QED BY <1>4, <2>1, <2>2, <2>3, TransactionIs DEF Transaction
<1>5. ASSUME NEW x \in parsed.transactions, NEW y \in previous.parsed.transactions,
             x.sheet = y.sheet, x.row = y.row
      PROVE  \/ x.key = y.key
             \/ \E s \in Sheets : /\ SheetNames[s] = x.sheet
                                  /\ book.sheets[s].rows[x.row - 1] # previous.book.sheets[s].rows[x.row - 1]
  <2>1. PICK s \in Sheets, n \in Nat : /\ s \in DOMAIN SheetNames
                                       /\ x = Transaction(SheetNames[s], n + 1, book.sheets[s].rows[n])
    BY <1>3
  <2>2. PICK t \in DOMAIN SheetNames, k \in Nat :
          y = Transaction(SheetNames[t], k + 1, previous.book.sheets[t].rows[k])
    BY DEF ParserInv, ParsedInv, PreviousInv
  <2>3. SheetNames[s] = SheetNames[t] /\ n + 1 = k + 1 /\ x.sheet = SheetNames[s] /\ x.row = n + 1
    BY <1>5, <2>1, <2>2, TransactionIs
  <2>4. s = t /\ n = k /\ x.row - 1 = n
    BY <2>1, <2>2, <2>3, NamesDiffer
  <2>5. CASE book.sheets[s].rows[n] = previous.book.sheets[s].rows[n]
    BY <2>1, <2>2, <2>4, <2>5
  <2> QED BY <2>3, <2>4, <2>5
<1> QED BY <1>1, <1>2, <1>4, <1>5 DEF KeysFollowRows

\* For any workbooks and any number of exports, every row with a value becomes
\* one transaction or is reported, and the total counts them; a row that an
\* export shares with the one before gives the same dedupe_key, whatever was
\* appended or corrected around it, and no two rows of a workbook share a key.
THEOREM KeysFollowTheirRows == ParserSpec => []KeysFollowRows
<1> QED BY InitParser, NextParser, KeysFollow, PTL DEF ParserSpec

-----------------------------------------------------------------------------
(* Types of ExcelParser *)

\* The rows counted are not more than the places passed.
SheetsPassed == IF place.sheet = 0 THEN 0 ELSE place.sheet - 1
LinesPassed == IF place.row = 0 THEN 0 ELSE place.row - 2
TotalInv == parsed.total \in Nat /\ parsed.total <= SheetsPassed * MaxRows + LinesPassed

LEMMA TimesGrows ==
  ASSUME NEW k \in Nat
  PROVE  /\ k * MaxRows \in Nat /\ (k + 1) * MaxRows = k * MaxRows + MaxRows
         /\ \A l \in Nat : k <= l => k * MaxRows <= l * MaxRows
<1>1. MaxRows \in Nat
  BY ParserAssumption
<1>2. k * MaxRows \in Nat
  BY <1>1
<1>3. (k + 1) * MaxRows = k * MaxRows + MaxRows
  BY <1>1
<1>4. ASSUME NEW l \in Nat, k <= l PROVE k * MaxRows <= l * MaxRows
  <2>1. PICK d \in Nat : l = k + d
    BY <1>4
  <2>2. l * MaxRows = k * MaxRows + d * MaxRows /\ d * MaxRows \in Nat
    BY <1>1, <2>1
  <2> QED BY <1>2, <2>2
<1> QED BY <1>2, <1>3, <1>4

LEMMA StepTotal ==
  ASSUME PlaceInv, TotalInv, ParsedInv, ParseStep
  PROVE  TotalInv'
<1> DEFINE s == place.sheet
           r == place.row
<1>1. place = [sheet |-> s, row |-> r] /\ s \in Nat /\ r \in Nat /\ book \in Books
  BY DEF PlaceInv
<1>2. ASSUME RejectWorkbook PROVE TotalInv'
  <2>1. place' = [sheet |-> Len(book.sheets) + 1, row |-> 0] /\ parsed'.total = 0 /\ Len(book.sheets) \in Nat
    BY <1>1, <1>2, BookIs DEF RejectWorkbook, ParsedInv, ParsedRecord, NoResult
  <2>2. SheetsPassed' = Len(book.sheets) /\ LinesPassed' = 0
    BY <2>1 DEF SheetsPassed, LinesPassed
  <2>3. SheetsPassed' * MaxRows \in Nat
    BY <2>1, <2>2, TimesGrows
  <2> QED BY <2>1, <2>2, <2>3 DEF TotalInv
<1>3. ASSUME Parsing PROVE SheetsPassed = s - 1 /\ s >= 1 /\ s - 1 \in Nat /\ LinesPassed \in 0..MaxRows
  <2>1. s \in DOMAIN book.sheets /\ s >= 1
    BY <1>1, <1>3, BookIs DEF Parsing
  <2>2. Len(RowsUnder(s)) \in 0..MaxRows
    BY <1>1, <2>1, BookIs
  <2> QED BY <1>1, <2>1, <2>2, ParserAssumption DEF PlaceInv, SheetsPassed, LinesPassed
<1>4. ASSUME Parsing, NextSheet, parsed'.total = parsed.total PROVE TotalInv'
  <2>1. SheetsPassed' = (s - 1) + 1 /\ LinesPassed' = 0
    BY <1>1, <1>3, <1>4 DEF NextSheet, SheetsPassed, LinesPassed
  <2>2. ((s - 1) + 1) * MaxRows = (s - 1) * MaxRows + MaxRows /\ (s - 1) * MaxRows \in Nat
    BY <1>3, <1>4, TimesGrows
  <2> DEFINE p == (s - 1) * MaxRows
             q == ((s - 1) + 1) * MaxRows
  <2>3. parsed.total \in Nat /\ parsed.total <= p + LinesPassed /\ LinesPassed \in 0..MaxRows
    BY <1>3, <1>4 DEF TotalInv
  <2>4. q = p + MaxRows /\ p \in Nat
    BY <2>2
  <2> HIDE DEF p, q
  <2>5. parsed.total <= q + 0
    BY <2>3, <2>4, ParserAssumption
  <2> QED BY <1>4, <2>1, <2>3, <2>5 DEF TotalInv, q
<1>5. ASSUME Parsing, place' = [sheet |-> s, row |-> IF r = 0 THEN 2 ELSE r + 1], r = 0 \/ r >= 2,
             parsed'.total = parsed.total \/ (parsed'.total = parsed.total + 1 /\ r >= 2)
      PROVE  TotalInv'
  <2>1. SheetsPassed' = s - 1 /\ LinesPassed \in Nat /\ LinesPassed' = LinesPassed + (IF r = 0 THEN 0 ELSE 1)
    BY <1>1, <1>3, <1>5 DEF SheetsPassed, LinesPassed
  <2> DEFINE p == (s - 1) * MaxRows
  <2>2. p \in Nat
    BY <1>3, <1>5, TimesGrows
  <2>3. parsed.total \in Nat /\ parsed.total <= p + LinesPassed /\ SheetsPassed' * MaxRows = p
    BY <1>3, <1>5, <2>1 DEF TotalInv
  <2> HIDE DEF p
  <2>4. parsed'.total \in Nat /\ parsed'.total <= p + LinesPassed'
    BY <1>1, <1>5, <2>1, <2>2, <2>3
  <2> QED BY <2>3, <2>4 DEF TotalInv
<1>6. SkipSheet \/ RejectHeader \/ EndSheet => Parsing /\ NextSheet /\ parsed'.total = parsed.total
  BY DEF SkipSheet, RejectHeader, EndSheet, ParsedInv, ParsedRecord
<1>7. AcceptHeader => Parsing /\ place' = [sheet |-> s, row |-> 2] /\ r = 0 /\ parsed'.total = parsed.total
  BY <1>1 DEF AcceptHeader, ParsedInv, ParsedRecord
<1>8. SkipEmptyRow \/ RejectRow \/ AcceptRow =>
        /\ Parsing /\ place' = [sheet |-> s, row |-> r + 1] /\ r >= 2
        /\ parsed'.total = parsed.total \/ parsed'.total = parsed.total + 1
  BY <1>1 DEF SkipEmptyRow, RejectRow, AcceptRow, AtRow, NextRow, ParsedInv, ParsedRecord
<1> QED BY <1>1, <1>2, <1>4, <1>5, <1>6, <1>7, <1>8 DEF ParseStep

LEMMA NextTotal == ParserInv /\ TotalInv /\ [ParserNext]_parserVars => TotalInv'
<1> SUFFICES ASSUME PlaceInv, ParsedInv, TotalInv, [ParserNext]_parserVars PROVE TotalInv'
  BY DEF ParserInv
<1>1. CASE UNCHANGED parserVars
  BY <1>1 DEF parserVars, TotalInv, SheetsPassed, LinesPassed
<1>2. ASSUME NEW b \in Books, Upload(b) PROVE TotalInv'
  <2>1. parsed'.total = 0 /\ SheetsPassed' = 0 /\ LinesPassed' = 0
    BY <1>2 DEF Upload, NoResult, SheetsPassed, LinesPassed
  <2> QED BY <2>1, TimesGrows DEF TotalInv
<1> QED BY <1>1, <1>2, StepTotal, ExportsAreBooks DEF ParserNext

LEMMA ParserTypesOf == ParserInv /\ TotalInv => ParserTypeOK
<1> SUFFICES ASSUME PlaceInv, TotalInv PROVE ParserTypeOK
  BY DEF ParserInv
<1>1. /\ place.sheet \in Nat /\ place.row \in Nat /\ place.sheet <= Len(book.sheets) + 1
      /\ book \in Books /\ exports \in 0..MaxExports
  BY DEF PlaceInv
<1>2. Len(book.sheets) \in Nat /\ Len(book.sheets) <= Len(SheetNames) /\ Len(SheetNames) \in Nat /\ MaxRows \in Nat
  BY <1>1, BookIs, ParserAssumption
<1>3. \A s \in DOMAIN book.sheets : book.sheets[s] \in Sheet /\ Len(RowsUnder(s)) \in 0..MaxRows
  BY <1>1, BookIs
<1>4. place.row \in 0..(MaxRows + 2) /\ LinesPassed \in 0..MaxRows
      /\ (LinesPassed > 0 => place.sheet \in 1..Len(book.sheets))
  <2>1. CASE place.row = 0
    BY <1>2, <2>1 DEF LinesPassed
  <2>2. CASE place.row # 0
    <3>1. place.sheet \in DOMAIN book.sheets /\ place.row >= 2 /\ place.row <= Len(RowsUnder(place.sheet)) + 2
      BY <2>2, <1>1, BookIs DEF PlaceInv
    <3>2. place.sheet \in 1..Len(book.sheets) /\ Len(RowsUnder(place.sheet)) \in 0..MaxRows
      BY <1>1, <1>3, <3>1, BookIs
    <3> QED BY <1>1, <1>2, <2>2, <3>1, <3>2 DEF LinesPassed
  <2> QED BY <2>1, <2>2
<1>5. parsed.total <= Len(SheetNames) * MaxRows
  <2> DEFINE k == SheetsPassed
             p == k * MaxRows
             q == (k + 1) * MaxRows
             m == Len(SheetNames) * MaxRows
  <2>1. k \in Nat /\ k <= Len(SheetNames) /\ (LinesPassed > 0 => k + 1 <= Len(SheetNames))
    BY <1>1, <1>2, <1>4 DEF SheetsPassed
  <2> HIDE DEF k
  <2>2. p \in Nat /\ q = p + MaxRows /\ p <= m
    BY <1>2, <2>1, TimesGrows
  <2>3. LinesPassed > 0 => q <= m
    <3>1. k + 1 \in Nat
      BY <2>1
    <3> QED BY <1>2, <2>1, <3>1, TimesGrows
  <2>4. m \in Nat /\ parsed.total \in Nat /\ parsed.total <= p + LinesPassed
    BY <1>2, TimesGrows DEF TotalInv, k
  <2> HIDE DEF p, q, m
  <2>5. parsed.total <= m
    BY <1>2, <1>4, <2>2, <2>3, <2>4
  <2> QED BY <2>5 DEF m
<1>6. MaxRows * Len(SheetNames) = Len(SheetNames) * MaxRows /\ MaxRows * Len(SheetNames) \in Nat
  BY <1>2
<1>7. parsed.total \in 0..(MaxRows * Len(SheetNames))
  BY <1>5, <1>6 DEF TotalInv
<1> QED BY <1>1, <1>2, <1>3, <1>4, <1>7 DEF ParserTypeOK

\* The parser is always in a workbook of the sheets there are, and counts no
\* more rows than their sheets have.
THEOREM ParserTypes == ParserSpec => []ParserTypeOK
<1>1. ParserInit => TotalInv
  <2>1. ParserInit => parsed.total = 0 /\ SheetsPassed = 0 /\ LinesPassed = 0
    BY DEF ParserInit, NoResult, SheetsPassed, LinesPassed
  <2> QED BY <2>1, TimesGrows DEF TotalInv
<1> QED BY <1>1, InitParser, NextParser, NextTotal, ParserTypesOf, PTL DEF ParserSpec

===============================================================================
