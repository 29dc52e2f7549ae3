\* The profile of one user, from all the data they may have.
SPECIFICATION HealthSpec
CONSTANTS
    Wealth <- MCWealth
    Goals <- MCGoals
    Debts <- MCDebts
    MaxDataChanges = 0
INVARIANTS
    OnlyUnclearIsUnclear
CHECK_DEADLOCK FALSE
