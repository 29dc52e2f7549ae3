\* One charge, a scan and a notifier; Firebase is configured and works.
SPECIFICATION ReminderSpec
CONSTANTS
    Detectors = {d1}
    Merchants = {m1}
    Expenses = {e1}
    Dues = {1}
    FirstDue = 1
    MaxExpenseCalls = 6
    MaxExpenseFaults = 0
    Planners = {l1}
    Scanners = {c1}
    Notifiers = {n1}
    ReminderRows = {r1}
    Limits = {x1}
    Manual = manual
    NoReminder = noReminder
    FirebaseEnabled = TRUE
    FirebaseWorks = TRUE
INVARIANTS
    PushesAreSent
CHECK_DEADLOCK FALSE
