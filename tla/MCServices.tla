----------------------------- MODULE MCServices -----------------------------
(***************************************************************************)
(* Small instances of the services that share nothing in this model but    *)
(* their users, in one run: `part` is the service whose behaviours are     *)
(* explored, and the state of the others stays as it begins.  The inbox is *)
(* ChatWorkflow's, with consumers under which PostgreSQL may fail.         *)
(***************************************************************************)
EXTENDS AuthSessions, GroupMembership, Reminders, BackendData, Bootstrap, FinanceLedger,
        ExcelParser, MCHealthScore, MCChatWorkflow

VARIABLE part

\* Datasets an answer may ask for.
MCAsks == {{}, {"accounts"}, {"transactions", "unknown"}, {"transactions", "accounts"},
           {"user_context", "category_profiles"}}

\* Two transactions tie.
MCRank == [t \in Transactions |-> IF t = CHOOSE x \in Transactions : TRUE THEN 2 ELSE 1]

\* A workbook with a sheet that is skipped between two that are not.
MCSheetNames == <<"spent_01", "notes", "earned_01">>
Operation == [operation |-> "first", amount |-> "first", optional |-> "missing", description |-> "shop"]
MCNewRows == {EmptyRow, Operation, [Operation EXCEPT !.amount = "second"],
              [Operation EXCEPT !.operation = "missing", !.optional = "invalid"]}
MCFirstExports ==
    [DOMAIN MCSheetNames -> {[headed |-> h, rows |-> r] : h \in BOOLEAN,
        r \in {<<>>, <<Operation>>, <<EmptyRow, Operation>>, <<Operation, Operation>>}}]

-----------------------------------------------------------------------------

ServiceParts == {"auth", "group", "expenses", "reminders", "backend", "bootstrap", "ledger",
                 "parser", "health", "inbox"}

\* What the other parts begin with, of several beginnings.
NoWealth == [income |-> 0, earlier |-> 0, balance |-> 0, fixed |-> 0,
             spent |-> [c \in Categories |-> 0], limited |-> FALSE, goals |-> {}, debts |-> {}]
NoHealth ==
    /\ wealth = NoWealth /\ known = FromTransactions(NoWealth) /\ computing = "idle"
    /\ profile = NoProfile /\ dataChanges = 0 /\ torn = FALSE
OneSetting == [reset |-> TRUE, excel |-> TRUE, workbook |-> "clean", card |-> TRUE, waits |-> TRUE]

ServicesInit ==
    /\ part \in ServiceParts
    /\ AuthInit /\ GroupInit /\ ReminderInit /\ LedgerInit /\ ParserInit /\ Init
    /\ BackendInit /\ (part # "backend" => provider = "rpc")
    /\ BootstrapInit /\ (part # "bootstrap" => settings = OneSetting /\ ~legacy)
    /\ IF part = "health" THEN HealthInit ELSE NoHealth

OthersThan(p) ==
    /\ p # "auth" => UNCHANGED authVars
    /\ p # "group" => UNCHANGED groupVars
    /\ p \notin {"expenses", "reminders"} => UNCHANGED expenseVars
    /\ p # "reminders" => UNCHANGED reminderVars
    /\ p # "backend" => UNCHANGED backendVars
    /\ p # "bootstrap" => UNCHANGED bootstrapVars
    /\ p # "ledger" => UNCHANGED ledgerVars
    /\ p # "parser" => UNCHANGED parserVars
    /\ p # "health" => UNCHANGED healthVars
    /\ p # "inbox" => UNCHANGED vars

ServiceStep ==
    \/ part = "auth" /\ AuthNext
    \/ part = "group" /\ GroupNext
    \/ part = "expenses" /\ ExpenseNext
    \/ part = "reminders" /\ ReminderNext
    \/ part = "backend" /\ BackendNext
    \/ part = "bootstrap" /\ BootstrapNext
    \/ part = "ledger" /\ LedgerNext
    \/ part = "parser" /\ ParserNext
    \/ part = "health" /\ HealthNext
    \/ part = "inbox" /\ Next

ServicesNext == ServiceStep /\ OthersThan(part) /\ UNCHANGED part

ServicesVars == <<authVars, groupVars, expenseVars, reminderVars, backendVars, bootstrapVars,
                  ledgerVars, parserVars, healthVars, vars, part>>

ServicesSpec == ServicesInit /\ [][ServicesNext]_ServicesVars

\* The state of a service has the type its module gives it.
ServicesTypeOK ==
    /\ part = "auth" => AuthTypeOK
    /\ part = "group" => GroupTypeOK
    /\ part \in {"expenses", "reminders"} => ExpenseTypeOK
    /\ part = "reminders" => ReminderTypeOK
    /\ part = "backend" => BackendTypeOK
    /\ part = "bootstrap" => BootstrapTypeOK
    /\ part = "ledger" => LedgerTypeOK
    /\ part = "parser" => ParserTypeOK
    /\ part = "health" => HealthTypeOK
    /\ part = "inbox" => TypeOK

=============================================================================
