---------------------------- MODULE FinanceLedger ----------------------------
(***************************************************************************)
(* What users keep in finance_service besides their transactions:          *)
(* accounts, and the categories, limits, goals and debts that refer to     *)
(* them.  A handler selects the row it works on and validates what it was  *)
(* given, without locks, and commits later the fields it was given.        *)
(* Accounts and categories are archived, goals and debts marked deleted,   *)
(* and limits deleted.  The bump that follows is UserData's BumpVersion.   *)
(***************************************************************************)
EXTENDS Naturals, FiniteSets

CONSTANTS
    LedgerThreads,     \* threads of finance_service
    Owners,            \* users
    Accounts,          \* rows of accounts
    Items,             \* rows of the other four tables
    None,              \* no account, category or user
    MaxLedgerRequests  \* bound: requests

ASSUME LedgerAssumption ==
    /\ None \notin Accounts \union Items \union Owners
    /\ MaxLedgerRequests \in Nat

VARIABLES
    accountOf,       \* the accounts committed: their owner and is_archived
    item,            \* the other rows committed
    erased,          \* limits deleted
    skewed,          \* debts updated twice at a time
    ledger,          \* what each thread is at
    ledgerRequests   \* requests so far

ledgerVars == <<accountOf, item, erased, skewed, ledger, ledgerRequests>>

Kinds == {"category", "limit", "goal", "debt"}

\* card: debt_type is credit_card.  limited: credit_limit is positive, not null.
ItemRows == [kind : Kinds, owner : Owners, account : Accounts \union {None},
             category : Items \union {None}, live : BOOLEAN, card : BOOLEAN, limited : BOOLEAN]

\* The fields a request may name.
Updates == [account : Accounts] \union [category : Items] \union [card : BOOLEAN]
              \union [limited : BOOLEAN] \union [live : BOOLEAN]
              \union [card : BOOLEAN, limited : BOOLEAN]

LedgerFree == [at |-> "free", user |-> None, item |-> None, new |-> {}, updates |-> {}]

LedgerInit ==
    /\ accountOf = [a \in {} |-> 0]
    /\ item = [x \in {} |-> 0]
    /\ erased = {} /\ skewed = {}
    /\ ledger = [t \in LedgerThreads |-> LedgerFree]
    /\ ledgerRequests = 0

With(f, k, v) == [y \in DOMAIN f \union {k} |-> IF y = k THEN v ELSE f[y]]
Fields(row, updates) == [k \in DOMAIN row |-> IF k \in DOMAIN updates THEN updates[k] ELSE row[k]]

Requested(t) ==
    /\ ledger[t].at = "free"
    /\ ledgerRequests < MaxLedgerRequests
    /\ ledgerRequests' = ledgerRequests + 1
Remembers(t, x) == ledger' = [ledger EXCEPT ![t] = x]
Returns(t, p) == ledger[t].at = p /\ Remembers(t, LedgerFree) /\ UNCHANGED ledgerRequests

-----------------------------------------------------------------------------
(* accounts.create, accounts.resolve_by_card, update, delete *)

CreateAccount(t, o, a) ==
    /\ Requested(t)
    /\ a \notin DOMAIN accountOf
    /\ accountOf' = With(accountOf, a, [owner |-> o, archived |-> FALSE])
    /\ UNCHANGED <<item, erased, skewed, ledger>>

\* Its owner's: nothing it reads besides can change meanwhile.
ArchiveAccount(t, a, archived) ==
    /\ Requested(t)
    /\ a \in DOMAIN accountOf
    /\ accountOf' = [accountOf EXCEPT ![a].archived = archived]
    /\ UNCHANGED <<item, erased, skewed, ledger>>

-----------------------------------------------------------------------------
(* Validation *)

Owns(o, x) == x \in DOMAIN item /\ item[x].owner = o

ValidAccount(o, a) == a \in DOMAIN accountOf /\ accountOf[a].owner = o /\ ~accountOf[a].archived
ValidCategory(o, x) == Owns(o, x) /\ item[x].kind = "category" /\ item[x].live

\* _validate_owned_references.
ValidReferences(o, row, updates) ==
    /\ "account" \in DOMAIN updates => updates.account = None \/ ValidAccount(o, updates.account)
    /\ "category" \in DOMAIN updates => updates.category = None \/ ValidCategory(o, updates.category)

\* _validate_debt_data, of the row with its updates.
ValidDebt(row) == row.kind = "debt" /\ row.card => row.limited

-----------------------------------------------------------------------------
(* create, update and delete of categories, limits, goals and debts *)

\* Which fields each kind has; account and category may be left out.
HasField(kind, k) ==
    \/ k = "account"
    \/ k = "category" /\ kind = "limit"
    \/ k \in {"card", "limited"} /\ kind = "debt"
    \/ k = "live" /\ kind # "limit"

Blank(kind, o) == [kind |-> kind, owner |-> o, account |-> None, category |-> None,
                   live |-> TRUE, card |-> FALSE, limited |-> FALSE]

AskCreate(t, o, kind, updates) ==
    LET row == Fields(Blank(kind, o), updates) IN
    /\ Requested(t)
    /\ \A k \in DOMAIN updates : HasField(kind, k)
    /\ ValidReferences(o, row, updates) /\ ValidDebt(row)
    /\ Remembers(t, [LedgerFree EXCEPT !.at = "creating", !.user = o, !.new = {row}])
    /\ UNCHANGED <<accountOf, item, erased, skewed>>

CommitCreate(t, x) ==
    /\ x \notin DOMAIN item \union erased
    /\ Returns(t, "creating")
    /\ \E row \in ledger[t].new : item' = With(item, x, row)
    /\ UNCHANGED <<accountOf, erased, skewed>>

\* Mutant: references are not validated, as transactions.update leaves them.
AskUpdateUnchecked(t, o, x, updates) ==
    /\ Requested(t)
    /\ Owns(o, x)
    /\ \A k \in DOMAIN updates : HasField(item[x].kind, k)
    /\ ValidDebt(Fields(item[x], updates))
    /\ Remembers(t, [LedgerFree EXCEPT !.at = "updating", !.user = o, !.item = x,
                                   !.updates = {updates}])
    /\ UNCHANGED <<accountOf, item, erased, skewed>>

\* Mutant: of a debt only the fields given are validated.
AskUpdateOfFields(t, o, x, updates) ==
    /\ Requested(t)
    /\ Owns(o, x)
    /\ \A k \in DOMAIN updates : HasField(item[x].kind, k)
    /\ ValidReferences(o, item[x], updates)
    /\ ValidDebt(Fields(Blank(item[x].kind, o), updates))
    /\ Remembers(t, [LedgerFree EXCEPT !.at = "updating", !.user = o, !.item = x,
                                   !.updates = {updates}])
    /\ UNCHANGED <<accountOf, item, erased, skewed>>

\* _get_owned; then the references, and the debt, are validated.
AskUpdate(t, o, x, updates) ==
    /\ Requested(t)
    /\ Owns(o, x)
    /\ \A k \in DOMAIN updates : HasField(item[x].kind, k)
    /\ ValidReferences(o, item[x], updates)
    /\ ValidDebt(Fields(item[x], updates))
    /\ Remembers(t, [LedgerFree EXCEPT !.at = "updating", !.user = o, !.item = x,
                                   !.updates = {updates}])
    /\ UNCHANGED <<accountOf, item, erased, skewed>>

\* Only the fields given are written; the table's check lets a null limit through.
CommitUpdate(t) ==
    /\ ledger[t].item \in DOMAIN item
    /\ Returns(t, "updating")
    /\ \E updates \in ledger[t].updates :
          item' = [item EXCEPT ![ledger[t].item] = Fields(@, updates)]
    /\ skewed' = skewed \union {x \in {ledger[t].item} : \E u \in LedgerThreads \ {t} :
                                     ledger[u].at = "updating" /\ ledger[u].item = x}
    /\ UNCHANGED <<accountOf, erased>>

AskDelete(t, o, x) ==
    /\ Requested(t)
    /\ Owns(o, x)
    /\ Remembers(t, [LedgerFree EXCEPT !.at = "deleting", !.user = o, !.item = x])
    /\ UNCHANGED <<accountOf, item, erased, skewed>>

CommitDelete(t) ==
    LET x == ledger[t].item IN
    /\ x \in DOMAIN item
    /\ Returns(t, "deleting")
    /\ IF item[x].kind = "limit"
       THEN /\ item' = [y \in DOMAIN item \ {x} |-> item[y]]
            /\ erased' = erased \union {x}
       ELSE item' = [item EXCEPT ![x].live = FALSE] /\ UNCHANGED erased
    /\ UNCHANGED <<accountOf, skewed>>

\* The row is gone, the database raises or the process dies.
LedgerFails(t) ==
    /\ ledger[t].at # "free"
    /\ Remembers(t, LedgerFree)
    /\ UNCHANGED <<accountOf, item, erased, skewed, ledgerRequests>>

-----------------------------------------------------------------------------

LedgerStep(t) ==
    \/ \E a \in Accounts :
        \/ \E o \in Owners : CreateAccount(t, o, a)
        \/ \E archived \in BOOLEAN : ArchiveAccount(t, a, archived)
    \/ \E o \in Owners, updates \in Updates :
        \/ \E kind \in Kinds : AskCreate(t, o, kind, updates)
        \/ \E x \in Items : AskUpdate(t, o, x, updates)
    \/ \E x \in Items : CommitCreate(t, x) \/ \E o \in Owners : AskDelete(t, o, x)
    \/ CommitUpdate(t) \/ CommitDelete(t) \/ LedgerFails(t)

LedgerNext == \E t \in LedgerThreads : LedgerStep(t)

LedgerSpec == LedgerInit /\ [][LedgerNext]_ledgerVars

-----------------------------------------------------------------------------
(* Properties *)

\* Every variable has its type.
LedgerTypeOK ==
    /\ DOMAIN accountOf \subseteq Accounts
    /\ \A a \in DOMAIN accountOf : accountOf[a] \in [owner : Owners, archived : BOOLEAN]
    /\ DOMAIN item \subseteq Items /\ erased \subseteq Items \ DOMAIN item /\ skewed \subseteq Items
    /\ \A x \in DOMAIN item : item[x] \in ItemRows
    /\ ledgerRequests \in 0..MaxLedgerRequests

\* _validate_owned_references looks before the commit, without a lock: what a
\* category, limit, goal or debt refers to may be archived by then, but is its
\* owner's own, and what a limit is on is a category.
ReferencesOwned ==
    \A x \in DOMAIN item :
        /\ item[x].account # None =>
              item[x].account \in DOMAIN accountOf /\ accountOf[item[x].account].owner = item[x].owner
        /\ item[x].category # None =>
              Owns(item[x].owner, item[x].category) /\ item[item[x].category].kind = "category"

\* handle_debts_update validates the row it selected with the updates merged
\* in: a credit card has a limit (docs/backend-plan.md:958), unless two updates
\* of it overlapped, each of them fine by itself.
CreditCardsHaveLimits ==
    \A x \in DOMAIN item \ skewed : item[x].kind = "debt" /\ item[x].card => item[x].limited

=============================================================================
