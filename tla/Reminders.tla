------------------------------ MODULE Reminders ------------------------------
(***************************************************************************)
(* Reminders of one user: scheduler_service plans them from the regular    *)
(* expenses analytics_service answers with and the category limits of      *)
(* finance_service, and scans for due ones, which it publishes to          *)
(* notification_service; that one delivers them and records the delivery.  *)
(* The bus is MessageWorker's without its guard, cut down to: a message is *)
(* consumed, perhaps again, until it is acknowledged or dead-lettered.     *)
(***************************************************************************)
EXTENDS RegularExpenses, Sequences

CONSTANTS
    Planners,        \* threads that run reminders.plan_*
    Scanners,        \* threads that run reminders.due.scan
    Notifiers,       \* threads of notification_service
    ReminderRows,    \* rows of scheduled_reminders
    Limits,          \* active category limits
    Manual,          \* the subject of notifications.schedule
    NoReminder,      \* the reminder of an idle notifier
    FirebaseEnabled, \* the setting
    FirebaseWorks    \* Firebase would accept every push

ASSUME ReminderAssumption ==
    /\ NoReminder \notin ReminderRows
    /\ Expenses \intersect Limits = {} /\ Manual \notin Expenses \union Limits
    /\ \A S \in {Planners, Scanners, Notifiers, ReminderRows} : IsFiniteSet(S)
    /\ {FirebaseEnabled, FirebaseWorks} \subseteq BOOLEAN

VARIABLES
    reminder,    \* the rows committed
    planner,     \* what each planning is at
    scan,        \* what each scan is at
    sends,       \* copies of notifications.send in the queue, by reminder
    notifier,    \* what each notifier is at
    push,        \* push_enabled of the user
    device,      \* the user's device, and whether it has a token
    delivered,   \* outcomes of the deliveries of each charge, in order
    dead,        \* reminders whose message was dead-lettered
    rejected,    \* reminders whose message was lost with its retry or dead letter
    repeats      \* deliveries of a charge nothing in the code prevents

planning == <<reminder, planner>>
notifying == <<notifier, push, device, delivered, dead, rejected>>
reminderVars == <<planning, scan, sends, notifying, repeats>>

\* What one reminder is about: an expense or limit, and when it is due.
Charges == (Expenses \union Limits \union {Manual}) \X Dues
NoPlan == [at |-> "off", todo |-> {}, new |-> {}]
NoScan == [at |-> "off", todo |-> {}, sent |-> {}, marked |-> {}]
Waiting == [at |-> "off", reminder |-> NoReminder, outcome |-> "none"]

ReminderInit ==
    /\ ExpenseInit
    /\ reminder = [r \in {} |-> 0]
    /\ planner = [p \in Planners |-> NoPlan]
    /\ scan = [s \in Scanners |-> NoScan]
    /\ sends = [r \in ReminderRows |-> 0]
    /\ notifier = [n \in Notifiers |-> Waiting]
    /\ push = "unset" /\ device = "none"
    /\ delivered = [c \in Charges |-> <<>>]
    /\ dead = {} /\ rejected = {}
    /\ repeats = [c \in Charges |-> 0]

Call == OneMore /\ UNCHANGED expenseFaults
Fault == ExpenseFault /\ UNCHANGED expenseCalls
Quiet == UNCHANGED <<expenseCalls, expenseFaults>>
Rest == UNCHANGED <<expense, detector, cooling, lock, exclusive>>

Charge(r) == reminder[r].charge
Planned(c) == [charge |-> c, status |-> "planned"]
Extended(f, S, x) == [y \in DOMAIN f \union S |-> IF y \in S THEN x[y] ELSE f[y]]
FreeRows == ReminderRows \ DOMAIN reminder

-----------------------------------------------------------------------------
(* reminders.plan_regular_expenses, reminders.plan_limit_warning,          *)
(* notifications.schedule                                                  *)

\* analytics.regular_expenses.due_for_reminders, and limits.due_warnings.
DueExpenses == {<<e, expense[e].due>> : e \in {x \in DOMAIN expense : IsActive(x)}}
DueLimits == Limits \X {FirstDue}

Plan(p, due) ==
    /\ planner[p].at = "off"
    /\ Call
    /\ due # {}
    /\ planner' = [planner EXCEPT ![p] = [NoPlan EXCEPT !.at = "planning", !.todo = due]]
    /\ Rest /\ UNCHANGED <<reminder, scan, sends, notifying, repeats>>

\* _insert_reminder_once: a row planned or queued is there.
IsScheduled(c) == \E r \in DOMAIN reminder : Charge(r) = c

PlanCharge(p, c) ==
    /\ planner[p].at = "planning"
    /\ c \in planner[p].todo
    /\ planner' = [planner EXCEPT ![p].todo = @ \ {c},
                                  ![p].new = IF IsScheduled(c) THEN @ ELSE @ \union {c}]
    /\ Rest /\ Quiet /\ UNCHANGED <<reminder, scan, sends, notifying, repeats>>

\* Another planning has found the same reminder missing.
AlsoMissing(p, c) == {q \in Planners \ {p} : c \in planner[q].new}

CommitPlan(p, rows) ==
    /\ planner[p].at = "planning" /\ planner[p].todo = {}
    /\ Cardinality(rows) = Cardinality(planner[p].new)
    /\ \E f \in [rows -> planner[p].new] :
        /\ {f[r] : r \in rows} = planner[p].new
        /\ reminder' = Extended(reminder, rows, [r \in rows |-> Planned(f[r])])
    /\ repeats' = [c \in Charges |->
          IF c \in planner[p].new THEN repeats[c] + Cardinality(AlsoMissing(p, c)) ELSE repeats[c]]
    /\ planner' = [planner EXCEPT ![p] = NoPlan]
    /\ Rest /\ Quiet /\ UNCHANGED <<scan, sends, notifying>>

PlanFails(p) ==
    /\ planner[p].at = "planning"
    /\ Fault
    /\ planner' = [planner EXCEPT ![p] = NoPlan]
    /\ Rest /\ UNCHANGED <<reminder, scan, sends, notifying, repeats>>

\* A client schedules a reminder of its own: nothing is looked up.
Schedule(r, due) ==
    /\ Call
    /\ r \in FreeRows
    /\ reminder' = Extended(reminder, {r}, [x \in {r} |-> Planned(<<Manual, due>>)])
    /\ Rest /\ UNCHANGED <<planner, scan, sends, notifying, repeats>>

-----------------------------------------------------------------------------
(* reminders.due.scan *)

\* Mutant: whatever is due is selected, its status unseen.
SelectAnyDue(s, due) ==
    /\ scan[s].at = "off"
    /\ Call
    /\ due # {} /\ due \subseteq DOMAIN reminder
    /\ scan' = [scan EXCEPT ![s] = [NoScan EXCEPT !.at = "scanning", !.todo = due]]
    /\ Rest /\ UNCHANGED <<planning, sends, notifying, repeats>>

\* Mutant: the rows are committed as queued first, and published afterwards.
CommitThenPublish(s, due) ==
    /\ scan[s].at = "off"
    /\ Call
    /\ due # {} /\ due \subseteq DOMAIN reminder
    /\ \A r \in due : reminder[r].status = "planned"
    /\ reminder' = [r \in DOMAIN reminder |->
          IF r \in due THEN [reminder[r] EXCEPT !.status = "queued"] ELSE reminder[r]]
    /\ scan' = [scan EXCEPT ![s] = [NoScan EXCEPT !.at = "scanning", !.todo = due]]
    /\ Rest /\ UNCHANGED <<planner, sends, notifying, repeats>>

\* The planned reminders whose time has come, up to a limit.
SelectDue(s, due) ==
    /\ scan[s].at = "off"
    /\ Call
    /\ due # {} /\ due \subseteq DOMAIN reminder
    /\ \A r \in due : reminder[r].status = "planned"
    /\ scan' = [scan EXCEPT ![s] = [NoScan EXCEPT !.at = "scanning", !.todo = due]]
    /\ Rest /\ UNCHANGED <<planning, sends, notifying, repeats>>

Others(s, r) == {x \in Scanners \ {s} : r \in scan[x].sent \union scan[x].marked}

\* notifications.send is published before the row is updated.
PublishSend(s, r) ==
    /\ r \in scan[s].todo /\ scan[s].sent = {}
    /\ sends' = [sends EXCEPT ![r] = @ + 1]
    /\ scan' = [scan EXCEPT ![s].todo = @ \ {r}, ![s].sent = {r}]
    /\ repeats' = IF Others(s, r) = {} THEN repeats
                  ELSE [repeats EXCEPT ![Charge(r)] = @ + 1]
    /\ Rest /\ Quiet /\ UNCHANGED <<planning, notifying>>

\* The update waits for another scan that has updated the row.
MarkQueued(s, r) ==
    /\ r \in scan[s].sent
    /\ \A x \in Scanners \ {s} : r \notin scan[x].marked
    /\ scan' = [scan EXCEPT ![s].sent = {}, ![s].marked = @ \union {r}]
    /\ Rest /\ Quiet /\ UNCHANGED <<planning, sends, notifying, repeats>>

\* Scans that selected a row before this one commits it will publish it too.
Late(s, r) == {x \in Scanners \ {s} : r \in scan[x].todo}

CommitScan(s) ==
    /\ scan[s].at = "scanning" /\ scan[s].todo = {} /\ scan[s].sent = {}
    /\ reminder' = [r \in DOMAIN reminder |->
          IF r \in scan[s].marked THEN [reminder[r] EXCEPT !.status = "queued"] ELSE reminder[r]]
    /\ repeats' = [c \in Charges |-> repeats[c] +
          Cardinality({k \in Scanners \X scan[s].marked :
                          Charge(k[2]) = c /\ k[1] \in Late(s, k[2])})]
    /\ scan' = [scan EXCEPT ![s] = NoScan]
    /\ Rest /\ Quiet /\ UNCHANGED <<planner, sends, notifying>>

\* The bus or the database raises, or the process dies: what was published stays.
ScanFails(s) ==
    /\ scan[s].at = "scanning"
    /\ Fault
    /\ scan' = [scan EXCEPT ![s] = NoScan]
    /\ repeats' = [c \in Charges |-> repeats[c] +
          Cardinality({r \in scan[s].sent \union scan[s].marked : Charge(r) = c})]
    /\ Rest /\ UNCHANGED <<planning, sends, notifying>>

-----------------------------------------------------------------------------
(* notifications.permission.set, devices.save, test.send, send *)

SetPermission(enabled) ==
    /\ Call
    /\ push' = IF enabled THEN "on" ELSE "off"
    /\ Rest /\ UNCHANGED <<planning, scan, sends, notifier, device, delivered, dead, rejected, repeats>>

SaveDevice(token) ==
    /\ Call
    /\ device' = IF token THEN "token" ELSE "tokenless"
    /\ Rest /\ UNCHANGED <<planning, scan, sends, notifier, push, delivered, dead, rejected, repeats>>

ReceiveSend(n, r) ==
    /\ notifier[n].at = "off"
    /\ sends[r] > 0
    /\ sends' = [sends EXCEPT ![r] = @ - 1]
    /\ notifier' = [notifier EXCEPT ![n] = [Waiting EXCEPT !.at = "delivering", !.reminder = r]]
    /\ Rest /\ Quiet /\ UNCHANGED <<planning, scan, push, device, delivered, dead, rejected, repeats>>

TestSend(n) ==
    /\ notifier[n].at = "off"
    /\ Call
    /\ notifier' = [notifier EXCEPT ![n] = [Waiting EXCEPT !.at = "delivering"]]
    /\ Rest /\ UNCHANGED <<planning, scan, sends, push, device, delivered, dead, rejected, repeats>>

\* _ensure_firebase_app reads _firebase_app, which runtime.py defines and
\* handlers.py does not import: it raises.
FirebaseReady == FALSE

\* _send_firebase_push.
PushOutcome == IF FirebaseReady /\ FirebaseWorks THEN "sent" ELSE "failed"

\* _deliver_to_user.
Outcome ==
    IF push = "off" THEN "push_disabled"
    ELSE IF ~FirebaseEnabled THEN "firebase_not_configured"
    ELSE IF device # "token" THEN "missing_firebase_token"
    ELSE PushOutcome

Push(n) ==
    /\ notifier[n].at = "delivering"
    /\ notifier' = [notifier EXCEPT ![n].at = "pushed", ![n].outcome = Outcome]
    /\ Rest /\ Quiet
    /\ UNCHANGED <<planning, scan, sends, push, device, delivered, dead, rejected, repeats>>

\* _insert_delivery; a test's delivery has no reminder.
CommitDelivery(n) ==
    LET r == notifier[n].reminder IN
    /\ notifier[n].at = "pushed"
    /\ delivered' = IF r = NoReminder THEN delivered
                    ELSE [delivered EXCEPT ![Charge(r)] = Append(@, notifier[n].outcome)]
    /\ notifier' = [notifier EXCEPT ![n].at = "stored"]
    /\ Rest /\ Quiet /\ UNCHANGED <<planning, scan, sends, push, device, dead, rejected, repeats>>

\* The message is acknowledged.
Acknowledge(n) ==
    /\ notifier[n].at = "stored"
    /\ notifier' = [notifier EXCEPT ![n] = Waiting]
    /\ Rest /\ Quiet
    /\ UNCHANGED <<planning, scan, sends, push, device, delivered, dead, rejected, repeats>>

\* The handler raises or the process dies: the message comes again or, its
\* retries used up, is dead-lettered.  The publish of the retry or of the dead
\* letter may raise as well: the delivery is rejected then, and not requeued.
DeliveryFails(n) ==
    LET r == notifier[n].reminder IN
    /\ notifier[n].at # "off"
    /\ Fault
    /\ \/ r = NoReminder /\ UNCHANGED <<sends, dead, rejected, repeats>>
       \/ r # NoReminder /\ sends' = [sends EXCEPT ![r] = @ + 1] /\ UNCHANGED <<dead, rejected>>
          /\ repeats' = IF notifier[n].at = "stored"
                        THEN [repeats EXCEPT ![Charge(r)] = @ + 1] ELSE repeats
       \/ r # NoReminder /\ notifier[n].at # "stored" /\ dead' = dead \union {r}
          /\ UNCHANGED <<sends, rejected, repeats>>
       \/ r # NoReminder /\ notifier[n].at # "stored" /\ rejected' = rejected \union {r}
          /\ UNCHANGED <<sends, dead, repeats>>
    /\ notifier' = [notifier EXCEPT ![n] = Waiting]
    /\ Rest /\ UNCHANGED <<planning, scan, push, device, delivered>>

-----------------------------------------------------------------------------

PlanStep ==
    \/ \E p \in Planners :
        \/ Plan(p, DueExpenses) \/ Plan(p, DueLimits)
        \/ (\E c \in Charges : PlanCharge(p, c))
        \/ (\E rows \in SUBSET FreeRows : CommitPlan(p, rows))
        \/ PlanFails(p)
    \/ \E r \in ReminderRows, due \in Dues : Schedule(r, due)

ScanStep(s) ==
    \/ \E due \in SUBSET ReminderRows : SelectDue(s, due)
    \/ \E r \in ReminderRows : PublishSend(s, r) \/ MarkQueued(s, r)
    \/ CommitScan(s) \/ ScanFails(s)

NotifyStep(n) ==
    \/ \E r \in ReminderRows : ReceiveSend(n, r)
    \/ TestSend(n)
    \/ Push(n) \/ CommitDelivery(n) \/ Acknowledge(n) \/ DeliveryFails(n)

SetUpPush == \E b \in BOOLEAN : SetPermission(b) \/ SaveDevice(b)

\* Expenses change by what the user does; detection is RegularExpenses' own.
ReminderNext ==
    \/ ChangeExpense /\ UNCHANGED reminderVars
    \/ PlanStep
    \/ \E s \in Scanners : ScanStep(s)
    \/ \E n \in Notifiers : NotifyStep(n)
    \/ SetUpPush

ReminderSpec == ReminderInit /\ [][ReminderNext]_<<expenseVars, reminderVars>>

-----------------------------------------------------------------------------
(* Properties *)

\* Every variable has its type.
ReminderTypeOK ==
    /\ DOMAIN reminder \subseteq ReminderRows
    /\ \A r \in DOMAIN reminder :
        Charge(r) \in Charges /\ reminder[r].status \in {"planned", "queued"}
    /\ \A p \in Planners : planner[p].todo \union planner[p].new \subseteq Charges
    /\ \A s \in Scanners :
        scan[s].todo \union scan[s].sent \union scan[s].marked \subseteq DOMAIN reminder
    /\ \A r \in ReminderRows : sends[r] > 0 => r \in DOMAIN reminder
    /\ dead \union rejected \subseteq DOMAIN reminder

\* handle_due_scan publishes a reminder before it commits it as queued, and no
\* scan selects it again: a queued reminder is in the queue, at a notifier,
\* delivered or dead-lettered, whatever scans and notifiers died on the way.
\* Only a failed publish of its own retry or dead letter loses it.
QueuedIsAccounted ==
    \A r \in DOMAIN reminder :
        reminder[r].status = "queued" =>
            \/ sends[r] > 0
            \/ \E n \in Notifiers : notifier[n].reminder = r
            \/ delivered[Charge(r)] # <<>>
            \/ r \in dead
            \/ r \in rejected

\* Planning looks for a reminder before it inserts it, and scans select planned
\* ones only: a charge is delivered once, and once more for each planning or
\* scan that overlapped another, scan that failed after it published, or
\* notifier that failed after its commit.
DeliveredOncePerCharge ==
    \A c \in Charges :
        c[1] # Manual => Len(delivered[c]) <= 1 + repeats[c]

\* What docs/backend-plan.md says of notification_service: it sends push
\* notifications through Firebase.  While Firebase is configured and accepts
\* every push, none fails.
PushesAreSent ==
    FirebaseEnabled /\ FirebaseWorks =>
        \A c \in Charges, i \in 1..3 :
            i \in DOMAIN delivered[c] => delivered[c][i] # "failed"

=============================================================================
