--------------------------- MODULE Reminders_proofs ---------------------------
(***************************************************************************)
(* Proofs about regular expenses and the reminders of them: that detection *)
(* leaves one expense per merchant, that a queued reminder is never lost,  *)
(* that the notifications of charges implement BackgroundTask, and how     *)
(* often a charge is delivered.                                            *)
(***************************************************************************)
EXTENDS Reminders, FiniteSetTheorems, TLAPS

-----------------------------------------------------------------------------
(* RegularExpenses: types *)

DetectorPhases == {"resting", "locking", "candidates", "checking", "marking", "releasing"}
DetectorStates == [at : DetectorPhases, force : BOOLEAN, todo : SUBSET Merchants, found : SUBSET Merchants]

ExpensesTyped == DOMAIN expense \subseteq Expenses /\ \A e \in DOMAIN expense : expense[e] \in Rows
DetectorsTyped ==
    /\ detector \in [Detectors -> DetectorStates]
    /\ {cooling, lock, exclusive} \subseteq BOOLEAN
CallsTyped == expenseCalls \in 0..MaxExpenseCalls /\ expenseFaults \in 0..MaxExpenseFaults

ExpenseInv == ExpensesTyped /\ DetectorsTyped /\ CallsTyped

LEMMA ExpenseTypesOf == ExpenseInv => ExpenseTypeOK
BY DEF ExpenseInv, ExpensesTyped, DetectorsTyped, CallsTyped, ExpenseTypeOK, DetectorStates, DetectorPhases

LEMMA RestingTyped ==
  Resting \in DetectorStates /\ Resting.at = "resting" /\ Resting.found = {} /\ ~Resting.force
BY DEF Resting, DetectorStates, DetectorPhases

LEMMA InitExpenseInv == ExpenseInit => ExpenseInv
<1> SUFFICES ASSUME ExpenseInit PROVE ExpenseInv
  OBVIOUS
<1>1. ExpensesTyped
  BY DEF ExpenseInit, ExpensesTyped
<1>2. DetectorsTyped
  BY RestingTyped DEF ExpenseInit, DetectorsTyped
<1>3. CallsTyped
  BY ExpenseAssumption DEF ExpenseInit, CallsTyped
<1> QED BY <1>1, <1>2, <1>3 DEF ExpenseInv

\* A call or a failure is counted within its bound.
LEMMA CallsCounted ==
  ASSUME ExpenseInv, OneMore \/ UNCHANGED expenseCalls, ExpenseFault \/ UNCHANGED expenseFaults
  PROVE  CallsTyped'
BY ExpenseAssumption DEF ExpenseInv, CallsTyped, OneMore, ExpenseFault

\* What detection inserts, and what the user creates.
LEMMA DetectedTyped ==
  ASSUME NEW m \in Merchants
  PROVE  /\ Detected(m) \in Rows /\ Detected(m).merchant = m
         /\ [Detected(m) EXCEPT !.source = "manual"] \in Rows
         /\ [Detected(m) EXCEPT !.source = "manual"].source = "manual"
BY ExpenseAssumption DEF Detected, Rows

-----------------------------------------------------------------------------
(* What the user does to the expenses *)

\* No step of the user makes an expense detection's.
DetectedActive(e, m) == expense[e].merchant = m /\ expense[e].source = "detected" /\ IsActive(e)
UserChanged ==
    /\ ExpensesTyped'
    /\ \A e \in DOMAIN expense' : \A m : DetectedActive(e, m)' => e \in DOMAIN expense /\ DetectedActive(e, m)

LEMMA ChangeExpenseIs ==
  ASSUME ExpenseInv, ChangeExpense
  PROVE  UserChanged /\ UserStep /\ DOMAIN expense \subseteq DOMAIN expense'
<1> USE DEF DetectedActive, IsActive
<1>0. ExpensesTyped
  BY DEF ExpenseInv
<1>1. ASSUME NEW e \in Expenses, NEW m \in Merchants, CreateExpense(e, m)
      PROVE  UserChanged /\ UserStep /\ DOMAIN expense \subseteq DOMAIN expense'
  <2> DEFINE row == [Detected(m) EXCEPT !.source = "manual"]
  <2>1. expense' = [x \in DOMAIN expense \union {e} |-> IF x = e THEN row ELSE expense[x]]
    BY <1>1 DEF CreateExpense
  <2>2. row \in Rows /\ row.source = "manual"
    BY DetectedTyped
  <2> HIDE DEF row
  <2> QED BY <1>0, <1>1, <2>1, <2>2 DEF CreateExpense, UserChanged, ExpensesTyped
<1>2. ASSUME NEW e \in DOMAIN expense, NEW row \in Rows, expense' = [expense EXCEPT ![e] = row],
             row.source # "detected"
      PROVE  UserChanged /\ DOMAIN expense \subseteq DOMAIN expense'
  BY <1>0, <1>2 DEF UserChanged, ExpensesTyped
<1>3. \A source \in {"detected", "manual", "user_adjusted"} :
         Adjusted(source) \in {"manual", "user_adjusted"}
  BY DEF Adjusted
<1>4. ASSUME NEW e \in Expenses, NEW m \in Merchants, NEW status \in {"active", "paused"}, NEW due \in Dues,
             UpdateExpense(e, m, status, due)
      PROVE  UserChanged /\ UserStep /\ DOMAIN expense \subseteq DOMAIN expense'
  <2> DEFINE row == [expense[e] EXCEPT !.merchant = m, !.status = status, !.due = due, !.source = Adjusted(@)]
  <2>1. e \in DOMAIN expense /\ expense[e] \in Rows /\ Adjusted(expense[e].source) \in {"manual", "user_adjusted"}
    BY <1>0, <1>3, <1>4 DEF UpdateExpense, ExpensesTyped, Rows
  <2>2. expense' = [expense EXCEPT ![e] = row]
    BY <1>4, <2>1 DEF UpdateExpense, Rows
  <2>3. row \in Rows /\ row.source # "detected"
    BY <2>1 DEF Rows
  <2> HIDE DEF row
  <2> QED BY <1>2, <1>4, <2>1, <2>2, <2>3 DEF UpdateExpense
<1>5. ASSUME NEW e \in Expenses, DeleteExpense(e)
      PROVE  UserChanged /\ UserStep /\ DOMAIN expense \subseteq DOMAIN expense'
  <2> DEFINE row == [expense[e] EXCEPT !.status = "deleted", !.source = Adjusted(@)]
  <2>1. e \in DOMAIN expense /\ expense[e] \in Rows /\ Adjusted(expense[e].source) \in {"manual", "user_adjusted"}
    BY <1>0, <1>3, <1>5 DEF DeleteExpense, ExpensesTyped, Rows
  <2>2. expense' = [expense EXCEPT ![e] = row]
    BY <1>5, <2>1 DEF DeleteExpense, Rows
  <2>3. row \in Rows /\ row.source # "detected"
    BY <2>1 DEF Rows
  <2> HIDE DEF row
  <2> QED BY <1>2, <1>5, <2>1, <2>2, <2>3 DEF DeleteExpense
<1> QED BY <1>1, <1>4, <1>5 DEF ChangeExpense

-----------------------------------------------------------------------------
(* RegularExpenses: what detection does *)

\* A detection goes on.
LEMMA DetectorBecomes ==
  ASSUME ExpenseInv, NEW d \in Detectors, NEW x \in DetectorStates, Becomes(d, x), UNCHANGED expense,
         {cooling', lock', exclusive'} \subseteq BOOLEAN,
         OneMore \/ UNCHANGED expenseCalls, ExpenseFault \/ UNCHANGED expenseFaults
  PROVE  /\ ExpenseInv'
         /\ detector'[d] = x /\ \A b \in Detectors : b # d => detector'[b] = detector[b]
<1>1. CallsTyped'
  BY CallsCounted
<1>2. /\ detector' \in [Detectors -> DetectorStates] /\ detector'[d] = x
      /\ \A b \in Detectors : b # d => detector'[b] = detector[b]
  BY DEF ExpenseInv, DetectorsTyped, Becomes
<1> QED BY <1>1, <1>2 DEF ExpenseInv, ExpensesTyped, DetectorsTyped

LEMMA PhaseTyped ==
  ASSUME ExpenseInv, NEW d \in Detectors, NEW p \in DetectorPhases
  PROVE  /\ [detector[d] EXCEPT !.at = p] \in DetectorStates /\ [detector[d] EXCEPT !.at = p].at = p
         /\ [detector[d] EXCEPT !.at = p].found = detector[d].found
         /\ [detector[d] EXCEPT !.at = p].force = detector[d].force
BY DEF ExpenseInv, DetectorsTyped, DetectorStates

\* The phase a detection moves to; it finds nothing by it.
MovesTo(d, p) ==
    /\ detector'[d] \in DetectorStates /\ detector'[d].at = p
    /\ \/ detector'[d].found = detector[d].found /\ detector'[d].force = detector[d].force
       \/ detector'[d].found = {} /\ ~detector'[d].force
    /\ \A b \in Detectors : b # d => detector'[b] = detector[b]
    /\ UNCHANGED expense

LEMMA DetectorMoves ==
  ASSUME ExpenseInv, NEW d \in Detectors, NEW p \in DetectorPhases, Moves(d, p), UNCHANGED expense,
         {cooling', lock', exclusive'} \subseteq BOOLEAN,
         OneMore \/ UNCHANGED expenseCalls, ExpenseFault \/ UNCHANGED expenseFaults
  PROVE  /\ ExpenseInv' /\ MovesTo(d, p)
         /\ detector'[d].found = detector[d].found /\ detector'[d].force = detector[d].force
<1> DEFINE x == [detector[d] EXCEPT !.at = p]
<1>1. x \in DetectorStates /\ x.at = p /\ x.found = detector[d].found /\ x.force = detector[d].force /\ Becomes(d, x)
  BY PhaseTyped DEF Moves
<1> HIDE DEF x
<1> QED BY <1>1, DetectorBecomes DEF MovesTo

LEMMA DetectorRests ==
  ASSUME ExpenseInv, NEW d \in Detectors, Becomes(d, Resting), UNCHANGED expense,
         {cooling', lock', exclusive'} \subseteq BOOLEAN,
         OneMore \/ UNCHANGED expenseCalls, ExpenseFault \/ UNCHANGED expenseFaults
  PROVE  ExpenseInv' /\ MovesTo(d, "resting") /\ detector'[d].found = {} /\ ~detector'[d].force
BY RestingTyped, DetectorBecomes DEF MovesTo

\* Who holds the lock, or should.
Holds(d) == detector[d].at \in {"candidates", "checking", "marking", "releasing"}
OneDetection ==
    /\ \A d \in Detectors : ~detector[d].force /\ (Holds(d) => lock)
    /\ \A c, d \in Detectors : Holds(c) /\ Holds(d) => c = d
    /\ \A d \in Detectors : detector[d].at \in {"resting", "locking", "candidates"} => detector[d].found = {}
OneExpense ==
    /\ \A m \in Merchants : \A e, f \in DOMAIN expense :
          DetectedActive(e, m) /\ DetectedActive(f, m) => e = f
    /\ \A d \in Detectors : detector[d].at = "checking" =>
          \A m \in detector[d].found : \A e \in DOMAIN expense : ~DetectedActive(e, m)

\* As long as the lock serves its purpose.
ExclusiveInv == exclusive => OneDetection /\ OneExpense

\* A move that leaves the lock alone.
LEMMA MovesExclusive ==
  ASSUME ExpenseInv, ExclusiveInv, NEW d \in Detectors, NEW p \in DetectorPhases, MovesTo(d, p),
         exclusive' => exclusive,
         UNCHANGED lock \/ (lock' /\ ~lock),
         Holds(d)' => Holds(d) \/ ~lock,
         Holds(d)' => lock',
         p \in {"resting", "locking", "candidates"} => detector'[d].found = {},
         p = "checking" => detector'[d].found = {}
  PROVE  ExclusiveInv'
<1> SUFFICES ASSUME exclusive' PROVE OneDetection' /\ OneExpense'
  BY DEF ExclusiveInv
<1>1. OneDetection /\ OneExpense
  BY DEF ExclusiveInv
<1>2. \A b \in Detectors : b # d => (Holds(b)' <=> Holds(b)) /\ detector'[b] = detector[b]
  BY DEF MovesTo, Holds
<1>3. \A b \in Detectors : b # d /\ Holds(b) => lock
  BY <1>1 DEF OneDetection
<1>4. OneDetection'
  BY <1>1, <1>2, <1>3 DEF OneDetection, MovesTo
<1>5. OneExpense'
  BY <1>1, <1>2 DEF OneExpense, MovesTo, DetectedActive, IsActive
<1> QED BY <1>4, <1>5

\* A step after which the lock has failed its purpose shows nothing.
LEMMA NoLongerExclusive == ASSUME exclusive' = FALSE PROVE ExclusiveInv'
BY DEF ExclusiveInv

LEMMA DetectKeeps ==
  ASSUME ExpenseInv, ExclusiveInv, NEW d \in Detectors, Detect(d)
  PROVE  ExpenseInv' /\ ExclusiveInv'
<1>1. ExpenseInv' /\ MovesTo(d, "locking") /\ detector'[d].found = detector[d].found
  BY DetectorMoves DEF Detect, DetectorPhases, ExpenseInv, DetectorsTyped
<1>2. ASSUME exclusive' PROVE ExclusiveInv'
  <2>1. exclusive /\ detector[d].found = {}
    BY <1>2 DEF Detect, ExclusiveInv, OneDetection
  <2>2. ~Holds(d)'
    BY <1>1 DEF MovesTo, Holds
  <2> QED BY <1>1, <2>1, <2>2, MovesExclusive DEF Detect, DetectorPhases
<1> QED BY <1>1, <1>2 DEF ExclusiveInv

LEMMA ForceDetectKeeps ==
  ASSUME ExpenseInv, ExclusiveInv, NEW d \in Detectors, ForceDetect(d)
  PROVE  ExpenseInv' /\ ExclusiveInv'
<1> DEFINE x == [Resting EXCEPT !.at = "candidates", !.force = TRUE]
<1>1. x \in DetectorStates /\ Becomes(d, x)
  BY RestingTyped DEF ForceDetect, DetectorStates, DetectorPhases
<1> HIDE DEF x
<1>2. ExpenseInv'
  BY <1>1, DetectorBecomes DEF ForceDetect, ExpenseInv, DetectorsTyped
<1> QED BY <1>2, NoLongerExclusive DEF ForceDetect

LEMMA AcquireDetectLockKeeps ==
  ASSUME ExpenseInv, ExclusiveInv, NEW d \in Detectors, AcquireDetectLock(d)
  PROVE  ExpenseInv' /\ ExclusiveInv'
<1>1. ExpenseInv' /\ MovesTo(d, "candidates") /\ detector'[d].found = detector[d].found
      /\ detector'[d].force = detector[d].force
  BY DetectorMoves DEF AcquireDetectLock, DetectorPhases, ExpenseInv, DetectorsTyped
<1>2. ASSUME exclusive' PROVE ExclusiveInv'
  <2>1. exclusive /\ detector[d].found = {}
    BY <1>2 DEF AcquireDetectLock, ExclusiveInv, OneDetection
  <2> QED BY <1>1, <2>1, MovesExclusive DEF AcquireDetectLock, DetectorPhases
<1> QED BY <1>1, <1>2 DEF ExclusiveInv

LEMMA AcquireFailsKeeps ==
  ASSUME ExpenseInv, ExclusiveInv, NEW d \in Detectors, AcquireFails(d)
  PROVE  ExpenseInv' /\ ExclusiveInv'
<1>1. ExpenseInv'
  BY DetectorMoves DEF AcquireFails, DetectorPhases, ExpenseInv, DetectorsTyped
<1> QED BY <1>1, NoLongerExclusive DEF AcquireFails

LEMMA LockedOutKeeps ==
  ASSUME ExpenseInv, ExclusiveInv, NEW d \in Detectors, LockedOut(d)
  PROVE  ExpenseInv' /\ ExclusiveInv'
<1>1. ExpenseInv' /\ MovesTo(d, "resting") /\ detector'[d].found = {}
  BY DetectorRests DEF LockedOut, ExpenseInv, DetectorsTyped
<1>2. ~Holds(d)'
  BY <1>1 DEF MovesTo, Holds
<1> QED BY <1>1, <1>2, MovesExclusive DEF LockedOut, DetectorPhases

LEMMA ReadCandidatesKeeps ==
  ASSUME ExpenseInv, ExclusiveInv, NEW d \in Detectors, ReadCandidates(d)
  PROVE  ExpenseInv' /\ ExclusiveInv'
<1> DEFINE x == [detector[d] EXCEPT !.at = "checking", !.todo = Merchants]
<1>1. /\ x \in DetectorStates /\ x.at = "checking" /\ Becomes(d, x)
      /\ x.found = detector[d].found /\ x.force = detector[d].force
  BY DEF ReadCandidates, ExpenseInv, DetectorsTyped, DetectorStates, DetectorPhases
<1> HIDE DEF x
<1>2. ExpenseInv' /\ MovesTo(d, "checking") /\ detector'[d].found = detector[d].found
  BY <1>1, DetectorBecomes DEF ReadCandidates, ExpenseInv, DetectorsTyped, MovesTo
<1>3. ASSUME exclusive' PROVE ExclusiveInv'
  <2>1. exclusive /\ detector[d].found = {} /\ lock /\ Holds(d)
    BY <1>3 DEF ReadCandidates, ExclusiveInv, OneDetection, Holds
  <2> QED BY <1>2, <2>1, MovesExclusive DEF ReadCandidates, DetectorPhases
<1> QED BY <1>2, <1>3 DEF ExclusiveInv

LEMMA MarkDetectedKeeps ==
  ASSUME ExpenseInv, ExclusiveInv, NEW d \in Detectors, MarkDetected(d)
  PROVE  ExpenseInv' /\ ExclusiveInv'
<1>1. ExpenseInv' /\ MovesTo(d, "releasing")
  BY DetectorMoves DEF MarkDetected, DetectorPhases, ExpenseInv, DetectorsTyped
<1>2. ASSUME exclusive' PROVE ExclusiveInv'
  <2>1. exclusive /\ Holds(d) /\ lock
    BY <1>2 DEF MarkDetected, ExclusiveInv, OneDetection, Holds
  <2> QED BY <1>1, <2>1, MovesExclusive DEF MarkDetected, DetectorPhases
<1> QED BY <1>1, <1>2 DEF ExclusiveInv

LEMMA DetectFailsKeeps ==
  ASSUME ExpenseInv, ExclusiveInv, NEW d \in Detectors, DetectFails(d)
  PROVE  ExpenseInv' /\ ExclusiveInv'
<1>1. ExpenseInv' /\ MovesTo(d, "releasing")
  BY DetectorMoves DEF DetectFails, DetectorPhases, ExpenseInv, DetectorsTyped
<1>2. ASSUME exclusive' PROVE ExclusiveInv'
  <2>1. exclusive /\ Holds(d) /\ lock
    BY <1>2 DEF DetectFails, Detecting, ExclusiveInv, OneDetection, Holds
  <2> QED BY <1>1, <2>1, MovesExclusive DEF DetectFails, DetectorPhases
<1> QED BY <1>1, <1>2 DEF ExclusiveInv

LEMMA DetectDiesKeeps ==
  ASSUME ExpenseInv, ExclusiveInv, NEW d \in Detectors, DetectDies(d)
  PROVE  ExpenseInv' /\ ExclusiveInv'
<1>1. ExpenseInv' /\ MovesTo(d, "resting") /\ detector'[d].found = {}
  BY DetectorRests DEF DetectDies, ExpenseInv, DetectorsTyped
<1>2. ~Holds(d)'
  BY <1>1 DEF MovesTo, Holds
<1> QED BY <1>1, <1>2, MovesExclusive DEF DetectDies, DetectorPhases

\* The one that holds the lock releases it.
LEMMA ReleaseDetectLockKeeps ==
  ASSUME ExpenseInv, ExclusiveInv, NEW d \in Detectors, ReleaseDetectLock(d)
  PROVE  ExpenseInv' /\ ExclusiveInv'
<1>1. ExpenseInv' /\ MovesTo(d, "resting") /\ detector'[d].found = {} /\ ~detector'[d].force
  BY DetectorRests DEF ReleaseDetectLock, ExpenseInv, DetectorsTyped
<1>2. ASSUME exclusive' PROVE OneDetection' /\ OneExpense'
  <2>1. OneDetection /\ OneExpense /\ Holds(d)
    BY <1>2 DEF ReleaseDetectLock, ExclusiveInv, Holds
  <2>2. \A b \in Detectors : b # d => detector'[b] = detector[b] /\ ~Holds(b)
    BY <1>1, <2>1 DEF OneDetection, MovesTo
  <2>3. OneDetection'
    BY <1>1, <2>1, <2>2 DEF OneDetection, MovesTo, Holds
  <2>4. OneExpense'
    BY <1>1, <2>1, <2>2 DEF OneExpense, MovesTo, DetectedActive, IsActive
  <2> QED BY <2>3, <2>4
<1> QED BY <1>1, <1>2 DEF ExclusiveInv

\* What a detection finds has no active expense when it looks.
LEMMA CheckCandidateKeeps ==
  ASSUME ExpenseInv, ExclusiveInv, NEW d \in Detectors, NEW m \in Merchants, CheckCandidate(d, m)
  PROVE  ExpenseInv' /\ ExclusiveInv'
<1> DEFINE more == IF \E e \in DOMAIN expense : expense[e].merchant = m /\ IsActive(e)
                   THEN detector[d].found ELSE detector[d].found \union {m}
           x == [detector[d] EXCEPT !.todo = detector[d].todo \ {m}, !.found = more]
<1>1. detector[d] \in DetectorStates
  BY DEF ExpenseInv, DetectorsTyped
<1>2. more \subseteq Merchants
  BY <1>1 DEF DetectorStates
<1>3. \A k \in more : k \in detector[d].found \/ \A e \in DOMAIN expense : ~DetectedActive(e, k)
  BY DEF DetectedActive
<1>4. Becomes(d, x) /\ detector[d].at = "checking" /\ UNCHANGED <<expense, cooling, lock, exclusive, expenseCalls, expenseFaults>>
  <2>1. x = [detector[d] EXCEPT !.todo = @ \ {m},
                 !.found = IF \E e \in DOMAIN expense : expense[e].merchant = m /\ IsActive(e)
                           THEN @ ELSE @ \union {m}]
    BY <1>1 DEF DetectorStates
  <2> QED BY <2>1 DEF CheckCandidate
<1> HIDE DEF more
<1>5. x \in DetectorStates /\ x.at = "checking" /\ x.found = more /\ x.force = detector[d].force
  BY <1>1, <1>2, <1>4 DEF DetectorStates
<1> HIDE DEF x
<1>6. ExpenseInv' /\ detector'[d] = x /\ \A b \in Detectors : b # d => detector'[b] = detector[b]
  BY <1>4, <1>5, DetectorBecomes DEF ExpenseInv, DetectorsTyped
<1>7. ASSUME exclusive' PROVE OneDetection' /\ OneExpense'
  <2>1. OneDetection /\ OneExpense
    BY <1>4, <1>7 DEF ExclusiveInv
  <2>2. OneDetection'
    BY <1>4, <1>5, <1>6, <2>1 DEF OneDetection, Holds
  <2>3. OneExpense'
    BY <1>3, <1>4, <1>5, <1>6, <2>1 DEF OneExpense, DetectedActive, IsActive
  <2> QED BY <2>2, <2>3
<1> QED BY <1>6, <1>7 DEF ExclusiveInv

\* Every row inserted is of another merchant, of which no other is detection's.
LEMMA CommitDetectedKeeps ==
  ASSUME ExpenseInv, ExclusiveInv, NEW d \in Detectors, NEW new \in SUBSET Unused, CommitDetected(d, new)
  PROVE  ExpenseInv' /\ ExclusiveInv'
<1>1. PICK id \in [detector[d].found -> new] :
        /\ \A e \in new : \E m \in detector[d].found : id[m] = e
        /\ expense' = [e \in DOMAIN expense \union new |->
              IF e \in new THEN Detected(CHOOSE m \in detector[d].found : id[m] = e)
              ELSE expense[e]]
  BY DEF CommitDetected
<1> DEFINE of(e) == CHOOSE m \in detector[d].found : id[m] = e
<1>2. detector[d] \in DetectorStates /\ ExpensesTyped
  BY DEF ExpenseInv, DetectorsTyped
<1>3. \A e \in new : of(e) \in detector[d].found /\ id[of(e)] = e
  BY <1>1
<1>4. DOMAIN expense' = DOMAIN expense \union new /\ new \intersect DOMAIN expense = {}
  BY <1>1 DEF Unused
<1>5. \A e \in DOMAIN expense : expense'[e] = expense[e]
  BY <1>1, <1>4
<1>6. \A e \in new : expense'[e] = Detected(of(e))
  BY <1>1
<1> HIDE DEF of
<1>7. \A e \in new : expense'[e] \in Rows /\ expense'[e].merchant = of(e)
  <2>1. \A e \in new : of(e) \in Merchants
    BY <1>2, <1>3 DEF DetectorStates
  <2> QED BY <1>6, <2>1, DetectedTyped
<1>8. ExpensesTyped'
  BY <1>2, <1>4, <1>5, <1>7 DEF ExpensesTyped, Unused
<1> DEFINE x == [detector[d] EXCEPT !.at = "marking"]
<1>9. x \in DetectorStates /\ x.at = "marking" /\ x.force = detector[d].force /\ detector' = [detector EXCEPT ![d] = x]
  BY PhaseTyped DEF CommitDetected, Moves, Becomes, DetectorPhases
<1> HIDE DEF x
<1>10. /\ detector' \in [Detectors -> DetectorStates] /\ detector'[d] = x
       /\ \A b \in Detectors : b # d => detector'[b] = detector[b]
  BY <1>9 DEF ExpenseInv, DetectorsTyped
<1>11. DetectorsTyped' /\ CallsTyped'
  BY <1>10, CallsCounted DEF CommitDetected, ExpenseInv, DetectorsTyped
<1>12. ASSUME exclusive' PROVE OneDetection' /\ OneExpense'
  <2>1. OneDetection /\ OneExpense /\ Holds(d)
    BY <1>12 DEF CommitDetected, ExclusiveInv, Holds
  <2>2. OneDetection'
    BY <1>9, <1>10, <2>1 DEF CommitDetected, OneDetection, Holds
  <2>3. \A m \in detector[d].found : \A e \in DOMAIN expense : ~DetectedActive(e, m)
    BY <1>2, <2>1 DEF CommitDetected, OneExpense
  <2>4. \A b \in Detectors : detector'[b].at # "checking"
    BY <1>9, <1>10, <2>1 DEF OneDetection, Holds
  <2>5. \A e \in DOMAIN expense : \A m : DetectedActive(e, m)' <=> DetectedActive(e, m)
    BY <1>5 DEF DetectedActive, IsActive
  <2>6. \A e \in new : \A m : DetectedActive(e, m)' => m = of(e)
    BY <1>7 DEF DetectedActive
  <2>7. \A m \in Merchants : \A e, f \in DOMAIN expense' :
           DetectedActive(e, m)' /\ DetectedActive(f, m)' => e = f
    BY <1>3, <1>4, <2>1, <2>3, <2>5, <2>6 DEF OneExpense
  <2>8. OneExpense'
    BY <2>4, <2>7 DEF OneExpense
  <2> QED BY <2>2, <2>8
<1> QED BY <1>8, <1>11, <1>12 DEF ExpenseInv, ExclusiveInv

\* The lock that lapses has no holder, or the lock has failed its purpose.
LEMMA DetectLockLapsesKeeps ==
  ASSUME ExpenseInv, ExclusiveInv, DetectLockLapses
  PROVE  ExpenseInv' /\ ExclusiveInv'
<1>1. ExpensesTyped' /\ DetectorsTyped'
  BY DEF DetectLockLapses, ExpenseInv, ExpensesTyped, DetectorsTyped
<1>2. CallsTyped'
  BY CallsCounted DEF DetectLockLapses
<1>3. ASSUME exclusive' PROVE OneDetection' /\ OneExpense'
  <2>1. UNCHANGED exclusive /\ \A d \in Detectors : ~Holds(d)
    BY <1>3 DEF DetectLockLapses, Holds
  <2>2. OneDetection /\ OneExpense
    BY <1>3, <2>1 DEF ExclusiveInv
  <2> QED BY <2>1, <2>2 DEF DetectLockLapses, OneDetection, OneExpense, Holds, DetectedActive, IsActive
<1> QED BY <1>1, <1>2, <1>3 DEF ExpenseInv, ExclusiveInv

\* A step that leaves the expenses, the detections and the lock alone.
LEMMA RestKeeps ==
  ASSUME ExpenseInv, ExclusiveInv, UNCHANGED <<expense, detector, lock, exclusive>>,
         cooling' \in BOOLEAN, CallsTyped'
  PROVE  ExpenseInv' /\ ExclusiveInv'
BY DEF ExpenseInv, ExpensesTyped, DetectorsTyped, ExclusiveInv, OneDetection, OneExpense, Holds,
       DetectedActive, IsActive

LEMMA ChangeExpenseKeeps ==
  ASSUME ExpenseInv, ExclusiveInv, ChangeExpense
  PROVE  ExpenseInv' /\ ExclusiveInv'
<1>1. UserChanged /\ UserStep
  BY ChangeExpenseIs
<1>2. CallsTyped'
  BY <1>1, CallsCounted DEF UserStep
<1>3. ExpenseInv'
  BY <1>1, <1>2 DEF UserChanged, UserStep, ExpenseInv, DetectorsTyped
<1>4. ASSUME exclusive' PROVE OneDetection' /\ OneExpense'
  <2>1. OneDetection /\ OneExpense
    BY <1>1, <1>4 DEF UserStep, ExclusiveInv
  <2>2. OneDetection'
    BY <1>1, <2>1 DEF UserStep, OneDetection, Holds
  <2>3. \A d \in Detectors : detector'[d] = detector[d]
    BY <1>1 DEF UserStep
  <2>4. \A e \in DOMAIN expense' : \A m : DetectedActive(e, m)' => e \in DOMAIN expense /\ DetectedActive(e, m)
    BY <1>1 DEF UserChanged
  <2>5. \A m \in Merchants : \A e, f \in DOMAIN expense' :
           DetectedActive(e, m)' /\ DetectedActive(f, m)' => e = f
    BY <2>1, <2>4 DEF OneExpense
  <2>6. \A d \in Detectors : detector'[d].at = "checking" =>
           \A m \in detector'[d].found : \A e \in DOMAIN expense' : ~DetectedActive(e, m)'
    BY <2>1, <2>3, <2>4 DEF OneExpense
  <2>7. OneExpense'
    BY <2>5, <2>6 DEF OneExpense
  <2> QED BY <2>2, <2>7
<1> QED BY <1>3, <1>4 DEF ExclusiveInv

LEMMA InitExclusive == ExpenseInit => ExclusiveInv
<1> SUFFICES ASSUME ExpenseInit PROVE ExclusiveInv
  OBVIOUS
<1> QED BY RestingTyped DEF ExpenseInit, ExclusiveInv, OneDetection, OneExpense, Holds

LEMMA ExpenseNextKeeps == ExpenseInv /\ ExclusiveInv /\ [ExpenseNext]_expenseVars => ExpenseInv' /\ ExclusiveInv'
<1> SUFFICES ASSUME ExpenseInv, ExclusiveInv, [ExpenseNext]_expenseVars PROVE ExpenseInv' /\ ExclusiveInv'
  OBVIOUS
<1>1. ASSUME NEW d \in Detectors, DetectStep(d) PROVE ExpenseInv' /\ ExclusiveInv'
  BY <1>1, DetectKeeps, ForceDetectKeeps, AcquireDetectLockKeeps, AcquireFailsKeeps, LockedOutKeeps,
     ReadCandidatesKeeps, CheckCandidateKeeps, CommitDetectedKeeps, MarkDetectedKeeps, DetectFailsKeeps,
     ReleaseDetectLockKeeps, DetectDiesKeeps DEF DetectStep
<1>2. CASE CooldownLapses
  BY <1>2, RestKeeps DEF CooldownLapses, ExpenseInv, CallsTyped
<1>3. CASE UNCHANGED expenseVars
  BY <1>3, RestKeeps DEF expenseVars, ExpenseInv, CallsTyped, DetectorsTyped
<1> QED BY <1>1, <1>2, <1>3, DetectLockLapsesKeeps, ChangeExpenseKeeps DEF ExpenseNext

\* Every variable of the regular expenses keeps its type, through detections
\* forced, raced, failed and dead and whatever the user does meanwhile.
THEOREM ExpenseTypes == ExpenseSpec => []ExpenseTypeOK
<1>1. ExpenseInit => ExpenseInv /\ ExclusiveInv
  BY InitExpenseInv, InitExclusive
<1> QED BY <1>1, ExpenseNextKeeps, ExpenseTypesOf, PTL DEF ExpenseSpec

LEMMA OneIsAtMostOne == ExpenseInv /\ ExclusiveInv => DetectedOncePerMerchant
<1> SUFFICES ASSUME ExpenseInv, ExclusiveInv, exclusive, NEW m \in Merchants
             PROVE  Cardinality({e \in DOMAIN expense :
                expense[e].merchant = m /\ expense[e].source = "detected" /\ IsActive(e)}) <= 1
  BY DEF DetectedOncePerMerchant
<1> DEFINE S == {e \in DOMAIN expense :
                expense[e].merchant = m /\ expense[e].source = "detected" /\ IsActive(e)}
<1>1. \A e, f \in S : e = f
  BY DEF ExclusiveInv, OneExpense, DetectedActive
<1>2. CASE S = {}
  BY <1>2, FS_EmptySet
<1>3. ASSUME NEW e \in S PROVE Cardinality(S) <= 1
  <2>1. S = {e}
    BY <1>1
  <2> HIDE DEF S
  <2>2. Cardinality({e}) = 1
    BY FS_Singleton
  <2> QED BY <2>1, <2>2
<1> QED BY <1>2, <1>3

\* Detection selects before it inserts and no unique constraint is behind it:
\* the lock alone makes it leave one active expense of its own per merchant, as
\* long as nobody forces it, the lock outlives its holder and Redis answers.
THEOREM OneExpensePerMerchant == ExpenseSpec => []DetectedOncePerMerchant
<1>1. ExpenseInit => ExpenseInv /\ ExclusiveInv
  BY InitExpenseInv, InitExclusive
<1> QED BY <1>1, ExpenseNextKeeps, OneIsAtMostOne, PTL DEF ExpenseSpec

-----------------------------------------------------------------------------
(* Reminders: types *)

Outcomes == {"none", "push_disabled", "firebase_not_configured", "missing_firebase_token", "sent", "failed"}
OutcomeLists == Seq(Outcomes)
Marks == SUBSET ReminderRows
ReminderStates == [charge : Charges, status : {"planned", "queued"}]
PlannerStates == [at : {"off", "planning"}, todo : SUBSET Charges, new : SUBSET Charges]
ScanStates == [at : {"off", "scanning"}, todo : Marks, sent : Marks, marked : Marks]
NotifierStates ==
    [at : {"off", "delivering", "pushed", "stored"}, reminder : ReminderRows \union {NoReminder}, outcome : Outcomes]

\* What a scan has to do and what it has done are apart; it publishes one at a time.
Begun(x) == x.sent \union x.marked
WellScanned(x) ==
    /\ x.at = "off" => x.todo = {} /\ x.sent = {} /\ x.marked = {}
    /\ x.todo \intersect Begun(x) = {}
    /\ \A q, r \in x.sent : q = r

RemindersTyped == DOMAIN reminder \subseteq ReminderRows /\ \A r \in DOMAIN reminder : reminder[r] \in ReminderStates
PlannersTyped == planner \in [Planners -> PlannerStates]
ScansTyped ==
    /\ scan \in [Scanners -> ScanStates]
    /\ \A s \in Scanners : WellScanned(scan[s]) /\ scan[s].todo \union Begun(scan[s]) \subseteq DOMAIN reminder
SendsTyped ==
    /\ sends \in [ReminderRows -> Nat]
    /\ \A r \in ReminderRows : sends[r] > 0 => r \in DOMAIN reminder
    /\ dead \subseteq DOMAIN reminder /\ rejected \subseteq DOMAIN reminder
NotifiersTyped ==
    /\ notifier \in [Notifiers -> NotifierStates]
    /\ \A n \in Notifiers :
        /\ notifier[n].reminder \in DOMAIN reminder \union {NoReminder}
        /\ notifier[n].at = "off" => notifier[n].reminder = NoReminder
DeliveriesTyped == delivered \in [Charges -> OutcomeLists] /\ repeats \in [Charges -> Nat]

ReminderInv ==
    /\ ExpenseInv /\ RemindersTyped /\ PlannersTyped /\ ScansTyped
    /\ SendsTyped /\ NotifiersTyped /\ DeliveriesTyped

LEMMA ReminderTypesOf == ReminderInv => ReminderTypeOK
<1> SUFFICES ASSUME ReminderInv PROVE ReminderTypeOK
  OBVIOUS
<1>1. /\ DOMAIN reminder \subseteq ReminderRows
      /\ \A r \in DOMAIN reminder : Charge(r) \in Charges /\ reminder[r].status \in {"planned", "queued"}
  BY DEF ReminderInv, RemindersTyped, ReminderStates, Charge
<1>2. \A p \in Planners : planner[p].todo \union planner[p].new \subseteq Charges
  BY DEF ReminderInv, PlannersTyped, PlannerStates
<1>3. \A s \in Scanners : scan[s].todo \union scan[s].sent \union scan[s].marked \subseteq DOMAIN reminder
  BY DEF ReminderInv, ScansTyped, Begun
<1>4. (\A r \in ReminderRows : sends[r] > 0 => r \in DOMAIN reminder) /\ dead \union rejected \subseteq DOMAIN reminder
  BY DEF ReminderInv, SendsTyped
<1> QED BY <1>1, <1>2, <1>3, <1>4 DEF ReminderTypeOK

LEMMA Resting3 ==
  /\ NoPlan \in PlannerStates
  /\ NoScan \in ScanStates /\ WellScanned(NoScan) /\ NoScan.todo = {} /\ NoScan.sent = {} /\ NoScan.marked = {}
  /\ Waiting \in NotifierStates /\ Waiting.reminder = NoReminder /\ Waiting.at = "off"
BY DEF NoPlan, PlannerStates, NoScan, ScanStates, Marks, WellScanned, Begun, Waiting, NotifierStates, Outcomes

LEMMA InitReminderInv == ReminderInit => ReminderInv
<1> SUFFICES ASSUME ReminderInit PROVE ReminderInv
  OBVIOUS
<1>1. ExpenseInv
  BY InitExpenseInv DEF ReminderInit
<1>2. RemindersTyped
  BY DEF ReminderInit, RemindersTyped
<1>3. PlannersTyped
  BY Resting3 DEF ReminderInit, PlannersTyped
<1>4. ScansTyped
  BY Resting3 DEF ReminderInit, ScansTyped, Begun
<1>5. SendsTyped
  BY DEF ReminderInit, SendsTyped
<1>6. NotifiersTyped
  BY Resting3 DEF ReminderInit, NotifiersTyped
<1>7. <<>> \in OutcomeLists
  BY DEF OutcomeLists
<1>8. DeliveriesTyped
  BY <1>7 DEF ReminderInit, DeliveriesTyped
<1> QED BY <1>1, <1>2, <1>3, <1>4, <1>5, <1>6, <1>8 DEF ReminderInv

\* Rows are never removed, and what a reminder is about never changes.
RowsKept ==
    /\ DOMAIN reminder \subseteq DOMAIN reminder'
    /\ \A r \in DOMAIN reminder : Charge(r)' = Charge(r)

LEMMA RestTyped ==
  ASSUME ExpenseInv, Rest, Call \/ Fault \/ Quiet
  PROVE  ExpenseInv'
<1>1. CallsTyped'
  BY CallsCounted DEF Call, Fault, Quiet
<1> QED BY <1>1 DEF Rest, ExpenseInv, ExpensesTyped, DetectorsTyped

LEMMA SameRows ==
  ASSUME ReminderInv, UNCHANGED reminder
  PROVE  RemindersTyped' /\ RowsKept
BY DEF ReminderInv, RemindersTyped, RowsKept, Charge

\* Planning and scheduling insert rows.
LEMMA RowsExtended ==
  ASSUME ReminderInv, NEW rows \in SUBSET FreeRows, NEW x, \A r \in rows : x[r] \in ReminderStates,
         reminder' = Extended(reminder, rows, x)
  PROVE  /\ RemindersTyped' /\ RowsKept
         /\ DOMAIN reminder' = DOMAIN reminder \union rows
         /\ \A r \in rows : reminder'[r] = x[r]
         /\ \A r \in DOMAIN reminder : reminder'[r] = reminder[r] /\ r \notin rows
<1>1. DOMAIN reminder' = DOMAIN reminder \union rows /\ rows \intersect DOMAIN reminder = {}
  BY DEF Extended, FreeRows
<1>2. \A r \in rows : reminder'[r] = x[r]
  BY DEF Extended
<1>3. \A r \in DOMAIN reminder : reminder'[r] = reminder[r] /\ r \notin rows
  BY <1>1 DEF Extended
<1> QED BY <1>1, <1>2, <1>3 DEF ReminderInv, RemindersTyped, RowsKept, Charge, FreeRows

\* A scan commits rows as queued.
LEMMA RowsQueued ==
  ASSUME ReminderInv, NEW S,
         reminder' = [r \in DOMAIN reminder |->
            IF r \in S THEN [reminder[r] EXCEPT !.status = "queued"] ELSE reminder[r]]
  PROVE  /\ RemindersTyped' /\ RowsKept
         /\ DOMAIN reminder' = DOMAIN reminder
         /\ \A r \in DOMAIN reminder :
               reminder'[r].status = IF r \in S THEN "queued" ELSE reminder[r].status
<1>1. DOMAIN reminder' = DOMAIN reminder
  OBVIOUS
<1>2. \A r \in DOMAIN reminder : reminder[r] \in ReminderStates
  BY DEF ReminderInv, RemindersTyped
<1>3. \A r \in DOMAIN reminder :
         /\ reminder'[r] \in ReminderStates /\ reminder'[r].charge = reminder[r].charge
         /\ reminder'[r].status = IF r \in S THEN "queued" ELSE reminder[r].status
  BY <1>2 DEF ReminderStates
<1> QED BY <1>1, <1>3 DEF ReminderInv, RemindersTyped, RowsKept, Charge

LEMMA PlannerBecomes ==
  ASSUME ReminderInv, NEW p \in Planners, NEW x \in PlannerStates, planner' = [planner EXCEPT ![p] = x]
  PROVE  PlannersTyped' /\ planner'[p] = x /\ \A q \in Planners : q # p => planner'[q] = planner[q]
BY DEF ReminderInv, PlannersTyped

LEMMA ScanBecomes ==
  ASSUME ReminderInv, NEW s \in Scanners, NEW x \in ScanStates, scan' = [scan EXCEPT ![s] = x],
         RowsKept, WellScanned(x), x.todo \union Begun(x) \subseteq DOMAIN reminder'
  PROVE  ScansTyped' /\ scan'[s] = x /\ \A q \in Scanners : q # s => scan'[q] = scan[q]
BY DEF ReminderInv, ScansTyped, RowsKept

LEMMA NotifierBecomes ==
  ASSUME ReminderInv, NEW n \in Notifiers, NEW x \in NotifierStates, notifier' = [notifier EXCEPT ![n] = x],
         RowsKept, x.reminder \in DOMAIN reminder \union {NoReminder}, x.at = "off" => x.reminder = NoReminder
  PROVE  NotifiersTyped' /\ notifier'[n] = x /\ \A m \in Notifiers : m # n => notifier'[m] = notifier[m]
BY DEF ReminderInv, NotifiersTyped, RowsKept

\* What is left alone keeps its type while rows are added.
LEMMA SamePlanners == ASSUME ReminderInv, UNCHANGED planner PROVE PlannersTyped'
BY DEF ReminderInv, PlannersTyped
LEMMA SameScans == ASSUME ReminderInv, RowsKept, UNCHANGED scan PROVE ScansTyped'
BY DEF ReminderInv, ScansTyped, RowsKept
LEMMA SameSends == ASSUME ReminderInv, RowsKept, UNCHANGED <<sends, dead, rejected>> PROVE SendsTyped'
BY DEF ReminderInv, SendsTyped, RowsKept
LEMMA SameNotifiers == ASSUME ReminderInv, RowsKept, UNCHANGED notifier PROVE NotifiersTyped'
BY DEF ReminderInv, NotifiersTyped, RowsKept
LEMMA SameDeliveries == ASSUME ReminderInv, UNCHANGED <<delivered, repeats>> PROVE DeliveriesTyped'
BY DEF ReminderInv, DeliveriesTyped

\* What repeats counts is finite.
LateSends(s, c) == {k \in Scanners \X scan[s].marked : Charge(k[2]) = c /\ k[1] \in Late(s, k[2])}
Repeated(s, c) == {r \in scan[s].sent \union scan[s].marked : Charge(r) = c}

LEMMA FiniteSubset ==
  ASSUME NEW S, NEW T, IsFiniteSet(T), S \subseteq T
  PROVE  IsFiniteSet(S) /\ Cardinality(S) \in Nat /\ Cardinality(S) <= Cardinality(T)
BY FS_Subset, FS_CardinalityType

LEMMA FiniteThreads ==
  IsFiniteSet(Planners) /\ IsFiniteSet(Scanners) /\ IsFiniteSet(Notifiers) /\ IsFiniteSet(ReminderRows)
BY ReminderAssumption

LEMMA AlsoMissingCounts ==
  ASSUME NEW p, NEW c
  PROVE  Cardinality(AlsoMissing(p, c)) \in Nat
BY FiniteThreads, FiniteSubset DEF AlsoMissing

LEMMA LateSendsCount ==
  ASSUME ReminderInv, NEW s \in Scanners, NEW c
  PROVE  IsFiniteSet(LateSends(s, c)) /\ Cardinality(LateSends(s, c)) \in Nat
<1>1. scan[s].marked \subseteq ReminderRows
  BY DEF ReminderInv, ScansTyped, ScanStates, Marks
<1>2. IsFiniteSet(scan[s].marked)
  BY <1>1, FiniteThreads, FiniteSubset
<1>3. IsFiniteSet(Scanners \X scan[s].marked)
  BY <1>2, FiniteThreads, FS_Product
<1>4. LateSends(s, c) \subseteq Scanners \X scan[s].marked
  BY DEF LateSends
<1> QED BY <1>3, <1>4, FiniteSubset

LEMMA RepeatedCount ==
  ASSUME ReminderInv, NEW s \in Scanners, NEW c
  PROVE  IsFiniteSet(Repeated(s, c)) /\ Cardinality(Repeated(s, c)) \in Nat
<1>1. Repeated(s, c) \subseteq ReminderRows
  BY DEF ReminderInv, ScansTyped, ScanStates, Marks, Repeated
<1> QED BY <1>1, FiniteThreads, FiniteSubset

-----------------------------------------------------------------------------
(* Planning keeps the types *)

LEMMA DueTyped == ASSUME ReminderInv PROVE DueExpenses \subseteq Charges /\ DueLimits \subseteq Charges
<1>1. \A e \in DOMAIN expense : e \in Expenses /\ expense[e].due \in Dues
  BY DEF ReminderInv, ExpenseInv, ExpensesTyped, Rows
<1> QED BY <1>1, ExpenseAssumption DEF DueExpenses, DueLimits, Charges

LEMMA PlanTyped ==
  ASSUME ReminderInv, NEW p \in Planners, NEW due \in SUBSET Charges, Plan(p, due)
  PROVE  ReminderInv' /\ planner'[p].new = {} /\ \A q \in Planners : q # p => planner'[q] = planner[q]
<1> DEFINE x == [NoPlan EXCEPT !.at = "planning", !.todo = due]
<1>1. x \in PlannerStates /\ x.new = {}
  BY DEF NoPlan, PlannerStates
<1>2. planner' = [planner EXCEPT ![p] = x]
  BY DEF Plan
<1> HIDE DEF x
<1>3. /\ Rest /\ Call
      /\ UNCHANGED reminder /\ UNCHANGED scan /\ UNCHANGED <<sends, dead, rejected>> /\ UNCHANGED notifier
      /\ UNCHANGED <<delivered, repeats>>
  BY DEF Plan, notifying
<1>4. PlannersTyped' /\ planner'[p] = x /\ \A q \in Planners : q # p => planner'[q] = planner[q]
  BY <1>1, <1>2, PlannerBecomes
<1>5. ReminderInv'
  BY <1>3, <1>4, RestTyped, SameRows, SameScans, SameSends, SameNotifiers, SameDeliveries DEF ReminderInv
<1> QED BY <1>1, <1>4, <1>5

LEMMA PlanChargeTyped ==
  ASSUME ReminderInv, NEW p \in Planners, NEW c \in Charges, PlanCharge(p, c)
  PROVE  /\ ReminderInv'
         /\ planner'[p].new = IF IsScheduled(c) THEN planner[p].new ELSE planner[p].new \union {c}
         /\ \A q \in Planners : q # p => planner'[q] = planner[q]
<1> DEFINE more == IF IsScheduled(c) THEN planner[p].new ELSE planner[p].new \union {c}
           x == [planner[p] EXCEPT !.todo = planner[p].todo \ {c}, !.new = more]
<1>1. planner[p] \in PlannerStates
  BY DEF ReminderInv, PlannersTyped
<1>2. planner' = [planner EXCEPT ![p] = x]
  <2>1. x = [planner[p] EXCEPT !.todo = @ \ {c}, !.new = IF IsScheduled(c) THEN @ ELSE @ \union {c}]
    BY <1>1 DEF PlannerStates
  <2>2. planner' = [planner EXCEPT ![p].todo = @ \ {c},
                                   ![p].new = IF IsScheduled(c) THEN @ ELSE @ \union {c}]
    BY DEF PlanCharge
  <2> QED BY <1>1, <2>1, <2>2 DEF PlannerStates, ReminderInv, PlannersTyped
<1>3. more \subseteq Charges
  BY <1>1 DEF PlannerStates
<1> HIDE DEF more
<1>4. x \in PlannerStates /\ x.new = more
  BY <1>1, <1>3 DEF PlannerStates
<1> HIDE DEF x
<1>5. /\ Rest /\ Quiet
      /\ UNCHANGED reminder /\ UNCHANGED scan /\ UNCHANGED <<sends, dead, rejected>> /\ UNCHANGED notifier
      /\ UNCHANGED <<delivered, repeats>>
  BY DEF PlanCharge, notifying
<1>6. PlannersTyped' /\ planner'[p] = x /\ \A q \in Planners : q # p => planner'[q] = planner[q]
  BY <1>2, <1>4, PlannerBecomes
<1>7. ReminderInv'
  BY <1>5, <1>6, RestTyped, SameRows, SameScans, SameSends, SameNotifiers, SameDeliveries DEF ReminderInv
<1> QED BY <1>4, <1>6, <1>7 DEF more

\* The rows a planning inserts: one for each reminder it found missing.
LEMMA CommitPlanTyped ==
  ASSUME ReminderInv, NEW p \in Planners, NEW rows \in SUBSET FreeRows, CommitPlan(p, rows)
  PROVE  /\ ReminderInv' /\ RowsKept
         /\ DOMAIN reminder' = DOMAIN reminder \union rows
         /\ \A r \in DOMAIN reminder : reminder'[r] = reminder[r] /\ r \notin rows
         /\ \A r \in rows : Charge(r)' \in planner[p].new /\ reminder'[r].status = "planned"
         /\ \A c \in planner[p].new : \E r \in rows : rows \intersect {q \in DOMAIN reminder' : Charge(q)' = c} = {r}
         /\ planner'[p].new = {} /\ \A q \in Planners : q # p => planner'[q] = planner[q]
<1>1. PICK f \in [rows -> planner[p].new] :
         /\ {f[r] : r \in rows} = planner[p].new
         /\ reminder' = Extended(reminder, rows, [r \in rows |-> Planned(f[r])])
  BY DEF CommitPlan
<1>2. planner[p].new \subseteq Charges
  BY DEF ReminderInv, PlannersTyped, PlannerStates
<1>3. \A r \in rows : Planned(f[r]) \in ReminderStates /\ Planned(f[r]).charge = f[r] /\ Planned(f[r]).status = "planned"
  BY <1>2 DEF Planned, ReminderStates
<1> DEFINE g == [r \in rows |-> Planned(f[r])]
<1>4. \A r \in rows : g[r] \in ReminderStates /\ g[r].charge = f[r] /\ g[r].status = "planned"
  BY <1>3
<1>5. reminder' = Extended(reminder, rows, g)
  BY <1>1
<1> HIDE DEF g
<1>6. /\ RemindersTyped' /\ RowsKept
      /\ DOMAIN reminder' = DOMAIN reminder \union rows
      /\ \A r \in rows : reminder'[r] = g[r]
      /\ \A r \in DOMAIN reminder : reminder'[r] = reminder[r] /\ r \notin rows
  BY <1>4, <1>5, RowsExtended
<1>7. \A r \in rows : Charge(r)' = f[r] /\ reminder'[r].status = "planned"
  BY <1>4, <1>6 DEF Charge
<1>8. \A q, r \in rows : f[q] = f[r] => q = r
  <2>1. IsFiniteSet(rows)
    BY FiniteThreads, FiniteSubset DEF FreeRows
  <2>2. f \in Surjection(rows, planner[p].new)
    BY <1>1 DEF Surjection
  <2>3. Cardinality(planner[p].new) = Cardinality(rows)
    BY DEF CommitPlan
  <2>4. f \in Injection(rows, planner[p].new)
    BY <2>1, <2>2, <2>3, FS_Surjection
  <2> QED BY <2>4 DEF Injection, IsInjective
<1>9. \A c \in planner[p].new : \E r \in rows : rows \intersect {q \in DOMAIN reminder' : Charge(q)' = c} = {r}
  <2> SUFFICES ASSUME NEW c \in planner[p].new
               PROVE  \E r \in rows : rows \intersect {q \in DOMAIN reminder' : Charge(q)' = c} = {r}
    OBVIOUS
  <2>1. PICK r \in rows : f[r] = c
    BY <1>1
  <2>2. \A q \in rows : Charge(q)' = c <=> q = r
    BY <1>7, <1>8, <2>1
  <2>3. \A q : q \in rows \intersect {z \in DOMAIN reminder' : Charge(z)' = c} <=> q = r
    BY <1>6, <2>1, <2>2
  <2> QED BY <2>3
<1>10. /\ Rest /\ Quiet
       /\ UNCHANGED scan /\ UNCHANGED <<sends, dead, rejected>> /\ UNCHANGED notifier /\ UNCHANGED delivered
       /\ planner' = [planner EXCEPT ![p] = NoPlan]
  BY DEF CommitPlan, notifying
<1>11. PlannersTyped' /\ planner'[p] = NoPlan /\ \A q \in Planners : q # p => planner'[q] = planner[q]
  BY <1>10, Resting3, PlannerBecomes
<1>12. DeliveriesTyped'
  <2>1. \A c \in Charges : repeats[c] \in Nat /\ repeats[c] + Cardinality(AlsoMissing(p, c)) \in Nat
    BY AlsoMissingCounts DEF ReminderInv, DeliveriesTyped
  <2>2. repeats' = [c \in Charges |->
          IF c \in planner[p].new THEN repeats[c] + Cardinality(AlsoMissing(p, c)) ELSE repeats[c]]
    BY DEF CommitPlan
  <2> QED BY <1>10, <2>1, <2>2 DEF ReminderInv, DeliveriesTyped
<1>13. ReminderInv'
  BY <1>6, <1>10, <1>11, <1>12, RestTyped, SameScans, SameSends, SameNotifiers DEF ReminderInv
<1>14. \A r \in rows : Charge(r)' \in planner[p].new
  BY <1>7
<1> QED BY <1>6, <1>7, <1>9, <1>11, <1>13, <1>14 DEF NoPlan

LEMMA PlanFailsTyped ==
  ASSUME ReminderInv, NEW p \in Planners, PlanFails(p)
  PROVE  ReminderInv' /\ planner'[p].new = {} /\ \A q \in Planners : q # p => planner'[q] = planner[q]
<1>1. /\ Rest /\ Fault
      /\ UNCHANGED reminder /\ UNCHANGED scan /\ UNCHANGED <<sends, dead, rejected>> /\ UNCHANGED notifier
      /\ UNCHANGED <<delivered, repeats>> /\ planner' = [planner EXCEPT ![p] = NoPlan]
  BY DEF PlanFails, notifying
<1>2. PlannersTyped' /\ planner'[p] = NoPlan /\ \A q \in Planners : q # p => planner'[q] = planner[q]
  BY <1>1, Resting3, PlannerBecomes
<1>3. ReminderInv'
  BY <1>1, <1>2, RestTyped, SameRows, SameScans, SameSends, SameNotifiers, SameDeliveries DEF ReminderInv
<1> QED BY <1>2, <1>3 DEF NoPlan

LEMMA ScheduleTyped ==
  ASSUME ReminderInv, NEW r \in ReminderRows, NEW due \in Dues, Schedule(r, due)
  PROVE  /\ ReminderInv' /\ RowsKept
         /\ DOMAIN reminder' = DOMAIN reminder \union {r} /\ r \notin DOMAIN reminder
         /\ Charge(r)' = <<Manual, due>> /\ reminder'[r].status = "planned"
         /\ \A q \in DOMAIN reminder : reminder'[q] = reminder[q]
<1> DEFINE new == Planned(<<Manual, due>>)
           g == [x \in {r} |-> new]
<1>1. new \in ReminderStates /\ new.charge = <<Manual, due>> /\ new.status = "planned"
  BY DEF Planned, ReminderStates, Charges
<1>2. g[r] = new /\ {r} \in SUBSET FreeRows /\ reminder' = Extended(reminder, {r}, g)
  BY DEF Schedule
<1> HIDE DEF g, new
<1>3. \A q \in {r} : g[q] \in ReminderStates
  BY <1>1, <1>2
<1> DEFINE rows == {r}
<1>6. rows \in SUBSET FreeRows /\ (\A q \in rows : g[q] \in ReminderStates) /\ reminder' = Extended(reminder, rows, g)
  BY <1>2, <1>3
<1>7. r \in rows /\ rows = {r}
  OBVIOUS
<1> HIDE DEF rows
<1>8. /\ RemindersTyped' /\ RowsKept
      /\ DOMAIN reminder' = DOMAIN reminder \union rows
      /\ \A q \in rows : reminder'[q] = g[q]
      /\ \A q \in DOMAIN reminder : reminder'[q] = reminder[q] /\ q \notin rows
  BY <1>6, RowsExtended
<1>4. /\ Rest /\ Call
      /\ UNCHANGED planner /\ UNCHANGED scan /\ UNCHANGED <<sends, dead, rejected>> /\ UNCHANGED notifier
      /\ UNCHANGED <<delivered, repeats>>
  BY DEF Schedule, notifying
<1>5. ReminderInv'
  BY <1>4, <1>8, RestTyped, SamePlanners, SameScans, SameSends, SameNotifiers, SameDeliveries DEF ReminderInv
<1>9. reminder'[r] = new /\ r \notin DOMAIN reminder
  BY <1>2, <1>7, <1>8
<1> QED BY <1>1, <1>5, <1>7, <1>8, <1>9 DEF Charge

-----------------------------------------------------------------------------
(* Scanning keeps the types *)

OthersScan(s) == \A q \in Scanners : q # s => scan'[q] = scan[q]

LEMMA ScanOf ==
  ASSUME ReminderInv, NEW s \in Scanners
  PROVE  /\ scan[s] \in ScanStates /\ WellScanned(scan[s])
         /\ scan[s].todo \union Begun(scan[s]) \subseteq DOMAIN reminder
BY DEF ReminderInv, ScansTyped

LEMMA SelectDueTyped ==
  ASSUME ReminderInv, NEW s \in Scanners, NEW due \in SUBSET ReminderRows, SelectDue(s, due)
  PROVE  /\ ReminderInv' /\ OthersScan(s)
         /\ Begun(scan[s]) = {} /\ Begun(scan'[s]) = {}
         /\ \A r \in scan'[s].todo : reminder[r].status = "planned"
<1> DEFINE x == [NoScan EXCEPT !.at = "scanning", !.todo = due]
<1>1. x \in ScanStates /\ WellScanned(x) /\ Begun(x) = {} /\ x.todo = due
  BY DEF NoScan, ScanStates, WellScanned, Begun, Marks
<1>2. /\ scan' = [scan EXCEPT ![s] = x] /\ due \subseteq DOMAIN reminder /\ scan[s].at = "off"
      /\ \A r \in due : reminder[r].status = "planned"
  BY DEF SelectDue
<1> HIDE DEF x
<1>3. /\ Rest /\ Call
      /\ UNCHANGED reminder /\ UNCHANGED planner /\ UNCHANGED <<sends, dead, rejected>> /\ UNCHANGED notifier
      /\ UNCHANGED <<delivered, repeats>>
  BY DEF SelectDue, planning, notifying
<1>4. RemindersTyped' /\ RowsKept
  BY <1>3, SameRows
<1>5. x.todo \union Begun(x) \subseteq DOMAIN reminder'
  BY <1>1, <1>2, <1>3
<1>6. ScansTyped' /\ scan'[s] = x /\ \A q \in Scanners : q # s => scan'[q] = scan[q]
  BY <1>1, <1>2, <1>4, <1>5, ScanBecomes
<1>7. ReminderInv'
  BY <1>3, <1>4, <1>6, RestTyped, SamePlanners, SameSends, SameNotifiers, SameDeliveries DEF ReminderInv
<1>8. Begun(scan[s]) = {}
  BY <1>2, ScanOf DEF WellScanned, Begun
<1> QED BY <1>1, <1>2, <1>6, <1>7, <1>8 DEF OthersScan

\* Publishing moves a row from what is to be done to what has been begun.
LEMMA PublishSendTyped ==
  ASSUME ReminderInv, NEW s \in Scanners, NEW r \in ReminderRows, PublishSend(s, r)
  PROVE  /\ ReminderInv' /\ OthersScan(s)
         /\ r \in DOMAIN reminder /\ r \in scan[s].todo /\ r \notin Begun(scan[s])
         /\ scan'[s].todo = scan[s].todo \ {r} /\ Begun(scan'[s]) = Begun(scan[s]) \union {r}
<1> DEFINE x == [scan[s] EXCEPT !.todo = scan[s].todo \ {r}, !.sent = {r}]
<1>1. scan[s] \in ScanStates /\ WellScanned(scan[s]) /\ scan[s].todo \union Begun(scan[s]) \subseteq DOMAIN reminder
  BY ScanOf
<1>2. r \in scan[s].todo /\ scan[s].sent = {}
  BY DEF PublishSend
<1>3. /\ x.todo = scan[s].todo \ {r} /\ x.sent = {r} /\ x.marked = scan[s].marked /\ x.at = scan[s].at
      /\ x \in ScanStates
  BY <1>1 DEF ScanStates, Marks
<1>4. scan' = [scan EXCEPT ![s] = x]
  <2>1. x = [scan[s] EXCEPT !.todo = @ \ {r}, !.sent = {r}]
    BY <1>1 DEF ScanStates
  <2>2. scan' = [scan EXCEPT ![s].todo = @ \ {r}, ![s].sent = {r}]
    BY DEF PublishSend
  <2> QED BY <1>1, <2>1, <2>2 DEF ScanStates, ReminderInv, ScansTyped
<1> HIDE DEF x
<1>5. WellScanned(x) /\ Begun(x) = Begun(scan[s]) \union {r} /\ r \notin Begun(scan[s])
  BY <1>1, <1>2, <1>3 DEF WellScanned, Begun
<1>6. /\ Rest /\ Quiet
      /\ UNCHANGED reminder /\ UNCHANGED planner /\ UNCHANGED <<dead, rejected>> /\ UNCHANGED notifier
      /\ UNCHANGED delivered
  BY DEF PublishSend, planning, notifying
<1>7. RemindersTyped' /\ RowsKept
  BY <1>6, SameRows
<1>8. x.todo \union Begun(x) \subseteq DOMAIN reminder'
  BY <1>1, <1>2, <1>3, <1>5, <1>6
<1>9. ScansTyped' /\ scan'[s] = x /\ \A q \in Scanners : q # s => scan'[q] = scan[q]
  BY <1>3, <1>4, <1>5, <1>7, <1>8, ScanBecomes
<1>10. sends' = [sends EXCEPT ![r] = @ + 1] /\ r \in DOMAIN reminder
  BY <1>1, <1>2 DEF PublishSend
<1>11. SendsTyped'
  BY <1>6, <1>10 DEF ReminderInv, SendsTyped
<1>12. DeliveriesTyped'
  <2>1. Charge(r) \in Charges
    BY <1>10 DEF ReminderInv, RemindersTyped, ReminderStates, Charge
  <2>2. repeats' = repeats \/ repeats' = [repeats EXCEPT ![Charge(r)] = @ + 1]
    BY DEF PublishSend
  <2> QED BY <1>6, <2>1, <2>2 DEF ReminderInv, DeliveriesTyped
<1>13. ReminderInv'
  BY <1>6, <1>7, <1>9, <1>11, <1>12, RestTyped, SamePlanners, SameNotifiers DEF ReminderInv
<1> QED BY <1>2, <1>3, <1>5, <1>9, <1>10, <1>13 DEF OthersScan

LEMMA MarkQueuedTyped ==
  ASSUME ReminderInv, NEW s \in Scanners, NEW r \in ReminderRows, MarkQueued(s, r)
  PROVE  /\ ReminderInv' /\ OthersScan(s)
         /\ scan'[s].todo = scan[s].todo /\ Begun(scan'[s]) = Begun(scan[s])
<1> DEFINE x == [scan[s] EXCEPT !.sent = {}, !.marked = scan[s].marked \union {r}]
<1>1. scan[s] \in ScanStates /\ WellScanned(scan[s]) /\ scan[s].todo \union Begun(scan[s]) \subseteq DOMAIN reminder
  BY ScanOf
<1>2. r \in scan[s].sent
  BY DEF MarkQueued
<1>3. scan[s].sent = {r}
  BY <1>1, <1>2 DEF WellScanned
<1>4. /\ x.todo = scan[s].todo /\ x.sent = {} /\ x.marked = scan[s].marked \union {r} /\ x.at = scan[s].at
      /\ x \in ScanStates
  BY <1>1 DEF ScanStates, Marks
<1>5. scan' = [scan EXCEPT ![s] = x]
  <2>1. x = [scan[s] EXCEPT !.sent = {}, !.marked = @ \union {r}]
    BY <1>1 DEF ScanStates
  <2>2. scan' = [scan EXCEPT ![s].sent = {}, ![s].marked = @ \union {r}]
    BY DEF MarkQueued
  <2> QED BY <1>1, <2>1, <2>2 DEF ScanStates, ReminderInv, ScansTyped
<1> HIDE DEF x
<1>6. Begun(x) = Begun(scan[s])
  BY <1>3, <1>4 DEF Begun
<1>7. WellScanned(x)
  BY <1>1, <1>3, <1>4, <1>6 DEF WellScanned
<1>8. /\ Rest /\ Quiet
      /\ UNCHANGED reminder /\ UNCHANGED planner /\ UNCHANGED <<sends, dead, rejected>> /\ UNCHANGED notifier
      /\ UNCHANGED <<delivered, repeats>>
  BY DEF MarkQueued, planning, notifying
<1>9. RemindersTyped' /\ RowsKept
  BY <1>8, SameRows
<1>10. x.todo \union Begun(x) \subseteq DOMAIN reminder'
  BY <1>1, <1>4, <1>6, <1>8
<1>11. ScansTyped' /\ scan'[s] = x /\ \A q \in Scanners : q # s => scan'[q] = scan[q]
  BY <1>4, <1>5, <1>7, <1>9, <1>10, ScanBecomes
<1>12. ReminderInv'
  BY <1>8, <1>9, <1>11, RestTyped, SamePlanners, SameSends, SameNotifiers, SameDeliveries DEF ReminderInv
<1> QED BY <1>4, <1>6, <1>11, <1>12 DEF OthersScan

LEMMA CommitScanTyped ==
  ASSUME ReminderInv, NEW s \in Scanners, CommitScan(s)
  PROVE  /\ ReminderInv' /\ RowsKept /\ OthersScan(s)
         /\ DOMAIN reminder' = DOMAIN reminder
         /\ \A r \in DOMAIN reminder :
               reminder'[r].status = IF r \in Begun(scan[s]) THEN "queued" ELSE reminder[r].status
         /\ scan[s].todo = {} /\ scan'[s].todo = {} /\ Begun(scan'[s]) = {} /\ scan[s].marked = Begun(scan[s])
         /\ \A c \in Charges : repeats'[c] = repeats[c] + Cardinality(LateSends(s, c))
<1>1. reminder' = [r \in DOMAIN reminder |->
          IF r \in scan[s].marked THEN [reminder[r] EXCEPT !.status = "queued"] ELSE reminder[r]]
  BY DEF CommitScan
<1>2. /\ RemindersTyped' /\ RowsKept
      /\ DOMAIN reminder' = DOMAIN reminder
      /\ \A r \in DOMAIN reminder :
            reminder'[r].status = IF r \in scan[s].marked THEN "queued" ELSE reminder[r].status
  BY <1>1, RowsQueued
<1>3. /\ Rest /\ Quiet
      /\ UNCHANGED planner /\ UNCHANGED <<sends, dead, rejected>> /\ UNCHANGED notifier /\ UNCHANGED delivered
      /\ scan' = [scan EXCEPT ![s] = NoScan] /\ scan[s].sent = {} /\ scan[s].todo = {}
  BY DEF CommitScan, notifying
<1>4. NoScan.todo \union Begun(NoScan) = {}
  BY Resting3 DEF Begun
<1>5. ScansTyped' /\ scan'[s] = NoScan /\ \A q \in Scanners : q # s => scan'[q] = scan[q]
  BY <1>2, <1>3, <1>4, Resting3, ScanBecomes
<1>6. repeats' = [c \in Charges |-> repeats[c] + Cardinality(LateSends(s, c))]
  BY DEF CommitScan, LateSends
<1>7. \A c \in Charges : Cardinality(LateSends(s, c)) \in Nat
  BY LateSendsCount
<1>8. DeliveriesTyped'
  BY <1>3, <1>6, <1>7 DEF ReminderInv, DeliveriesTyped
<1>9. ReminderInv'
  BY <1>2, <1>3, <1>5, <1>8, RestTyped, SamePlanners, SameSends, SameNotifiers DEF ReminderInv
<1>10. scan[s].marked = Begun(scan[s])
  BY <1>3 DEF Begun
<1> QED BY <1>2, <1>3, <1>4, <1>5, <1>6, <1>9, <1>10 DEF OthersScan

LEMMA ScanFailsTyped ==
  ASSUME ReminderInv, NEW s \in Scanners, ScanFails(s)
  PROVE  /\ ReminderInv' /\ OthersScan(s)
         /\ scan'[s].todo = {} /\ Begun(scan'[s]) = {}
         /\ \A c \in Charges : repeats'[c] = repeats[c] + Cardinality(Repeated(s, c))
<1>1. /\ Rest /\ Fault
      /\ UNCHANGED reminder /\ UNCHANGED planner /\ UNCHANGED <<sends, dead, rejected>> /\ UNCHANGED notifier
      /\ UNCHANGED delivered /\ scan' = [scan EXCEPT ![s] = NoScan]
  BY DEF ScanFails, planning, notifying
<1>2. RemindersTyped' /\ RowsKept
  BY <1>1, SameRows
<1>3. NoScan.todo \union Begun(NoScan) = {}
  BY Resting3 DEF Begun
<1>4. ScansTyped' /\ scan'[s] = NoScan /\ \A q \in Scanners : q # s => scan'[q] = scan[q]
  BY <1>1, <1>2, <1>3, Resting3, ScanBecomes
<1>5. repeats' = [c \in Charges |-> repeats[c] + Cardinality(Repeated(s, c))]
  BY DEF ScanFails, Repeated
<1>6. \A c \in Charges : Cardinality(Repeated(s, c)) \in Nat
  BY RepeatedCount
<1>7. DeliveriesTyped'
  BY <1>1, <1>5, <1>6 DEF ReminderInv, DeliveriesTyped
<1>8. ReminderInv'
  BY <1>1, <1>2, <1>4, <1>7, RestTyped, SamePlanners, SameSends, SameNotifiers DEF ReminderInv
<1> QED BY <1>3, <1>4, <1>5, <1>8 DEF OthersScan

-----------------------------------------------------------------------------
(* Notifying keeps the types *)

OthersNotifier(n) == \A m \in Notifiers : m # n => notifier'[m] = notifier[m]

LEMMA NotifierOf ==
  ASSUME ReminderInv, NEW n \in Notifiers
  PROVE  /\ notifier[n] \in NotifierStates
         /\ notifier[n].reminder \in DOMAIN reminder \union {NoReminder}
         /\ NoReminder \notin DOMAIN reminder
         /\ notifier[n].at = "off" => notifier[n].reminder = NoReminder
BY ReminderAssumption DEF ReminderInv, NotifiersTyped, RemindersTyped

\* The permission and the device.
LEMMA SetUpTyped ==
  ASSUME ReminderInv, Rest, Call, UNCHANGED <<planning, scan, sends, notifier, delivered, dead, rejected, repeats>>
  PROVE  ReminderInv'
<1>1. /\ UNCHANGED reminder /\ UNCHANGED planner /\ UNCHANGED scan /\ UNCHANGED <<sends, dead, rejected>>
      /\ UNCHANGED notifier /\ UNCHANGED <<delivered, repeats>>
  BY DEF planning
<1> QED BY <1>1, RestTyped, SameRows, SamePlanners, SameScans, SameSends, SameNotifiers, SameDeliveries
        DEF ReminderInv

LEMMA ReceiveSendTyped ==
  ASSUME ReminderInv, NEW n \in Notifiers, NEW r \in ReminderRows, ReceiveSend(n, r)
  PROVE  /\ ReminderInv' /\ OthersNotifier(n)
         /\ r \in DOMAIN reminder
         /\ notifier'[n].at = "delivering" /\ notifier'[n].reminder = r /\ notifier[n].at = "off"
<1> DEFINE x == [Waiting EXCEPT !.at = "delivering", !.reminder = r]
<1>1. x \in NotifierStates /\ x.at = "delivering" /\ x.reminder = r
  BY DEF Waiting, NotifierStates, Outcomes
<1>2. notifier' = [notifier EXCEPT ![n] = x]
  BY DEF ReceiveSend
<1> HIDE DEF x
<1>3. sends[r] > 0 /\ sends' = [sends EXCEPT ![r] = @ - 1] /\ notifier[n].at = "off"
  BY DEF ReceiveSend
<1>4. r \in DOMAIN reminder
  BY <1>3 DEF ReminderInv, SendsTyped
<1>5. /\ Rest /\ Quiet
      /\ UNCHANGED reminder /\ UNCHANGED planner /\ UNCHANGED scan /\ UNCHANGED <<dead, rejected>>
      /\ UNCHANGED <<delivered, repeats>>
  BY DEF ReceiveSend, planning
<1>6. RemindersTyped' /\ RowsKept
  BY <1>5, SameRows
<1>7. NotifiersTyped' /\ notifier'[n] = x /\ \A m \in Notifiers : m # n => notifier'[m] = notifier[m]
  BY <1>1, <1>2, <1>4, <1>6, NotifierBecomes
<1>8. SendsTyped'
  BY <1>3, <1>4, <1>5 DEF ReminderInv, SendsTyped
<1>9. ReminderInv'
  BY <1>5, <1>6, <1>7, <1>8, RestTyped, SamePlanners, SameScans, SameDeliveries DEF ReminderInv
<1> QED BY <1>1, <1>3, <1>4, <1>7, <1>9 DEF OthersNotifier

LEMMA TestSendTyped ==
  ASSUME ReminderInv, NEW n \in Notifiers, TestSend(n)
  PROVE  /\ ReminderInv' /\ OthersNotifier(n)
         /\ notifier[n].at = "off" /\ notifier'[n].at # "stored" /\ notifier'[n].reminder = NoReminder
<1> DEFINE x == [Waiting EXCEPT !.at = "delivering"]
<1>1. x \in NotifierStates /\ x.at = "delivering" /\ x.reminder = NoReminder
  BY DEF Waiting, NotifierStates, Outcomes
<1>2. notifier' = [notifier EXCEPT ![n] = x] /\ notifier[n].at = "off"
  BY DEF TestSend
<1> HIDE DEF x
<1>3. /\ Rest /\ Call
      /\ UNCHANGED reminder /\ UNCHANGED planner /\ UNCHANGED scan /\ UNCHANGED <<sends, dead, rejected>>
      /\ UNCHANGED <<delivered, repeats>>
  BY DEF TestSend, planning
<1>4. RemindersTyped' /\ RowsKept
  BY <1>3, SameRows
<1>5. NotifiersTyped' /\ notifier'[n] = x /\ \A m \in Notifiers : m # n => notifier'[m] = notifier[m]
  BY <1>1, <1>2, <1>4, NotifierBecomes
<1>6. ReminderInv'
  BY <1>3, <1>4, <1>5, RestTyped, SamePlanners, SameScans, SameSends, SameDeliveries DEF ReminderInv
<1> QED BY <1>1, <1>2, <1>5, <1>6 DEF OthersNotifier

LEMMA OutcomeTyped == Outcome \in Outcomes
BY DEF Outcome, PushOutcome, Outcomes

LEMMA PushTyped ==
  ASSUME ReminderInv, NEW n \in Notifiers, Push(n)
  PROVE  /\ ReminderInv' /\ OthersNotifier(n)
         /\ notifier[n].at = "delivering" /\ notifier'[n].at = "pushed"
         /\ notifier'[n].reminder = notifier[n].reminder
<1> DEFINE o == Outcome
           x == [notifier[n] EXCEPT !.at = "pushed", !.outcome = o]
<1>1. notifier[n] \in NotifierStates /\ notifier[n].reminder \in DOMAIN reminder \union {NoReminder}
  BY NotifierOf
<1>2. o \in Outcomes
  BY OutcomeTyped
<1>3. notifier' = [notifier EXCEPT ![n].at = "pushed", ![n].outcome = o] /\ notifier[n].at = "delivering"
  BY DEF Push
<1> HIDE DEF o
<1>4. notifier' = [notifier EXCEPT ![n] = x]
  BY <1>1, <1>3 DEF NotifierStates, ReminderInv, NotifiersTyped
<1>5. x \in NotifierStates /\ x.at = "pushed" /\ x.reminder = notifier[n].reminder
  BY <1>1, <1>2 DEF NotifierStates
<1> HIDE DEF x
<1>6. /\ Rest /\ Quiet
      /\ UNCHANGED reminder /\ UNCHANGED planner /\ UNCHANGED scan /\ UNCHANGED <<sends, dead, rejected>>
      /\ UNCHANGED <<delivered, repeats>>
  BY DEF Push, planning
<1>7. RemindersTyped' /\ RowsKept
  BY <1>6, SameRows
<1>8. NotifiersTyped' /\ notifier'[n] = x /\ \A m \in Notifiers : m # n => notifier'[m] = notifier[m]
  BY <1>1, <1>4, <1>5, <1>7, NotifierBecomes
<1>9. ReminderInv'
  BY <1>6, <1>7, <1>8, RestTyped, SamePlanners, SameScans, SameSends, SameDeliveries DEF ReminderInv
<1> QED BY <1>3, <1>5, <1>8, <1>9 DEF OthersNotifier

\* One more outcome.
LEMMA OutcomeAppended ==
  ASSUME NEW list \in OutcomeLists, NEW o \in Outcomes
  PROVE  /\ Append(list, o) \in OutcomeLists /\ Append(list, o) # <<>>
         /\ Len(list) \in Nat /\ Len(Append(list, o)) = Len(list) + 1
BY DEF OutcomeLists

LEMMA CommitDeliveryTyped ==
  ASSUME ReminderInv, NEW n \in Notifiers, CommitDelivery(n)
  PROVE  /\ ReminderInv' /\ OthersNotifier(n)
         /\ notifier[n].at = "pushed" /\ notifier'[n].at = "stored"
         /\ notifier'[n].reminder = notifier[n].reminder
         /\ \A c \in Charges :
               IF notifier[n].reminder # NoReminder /\ Charge(notifier[n].reminder) = c
               THEN Len(delivered'[c]) = Len(delivered[c]) + 1 /\ delivered'[c] # <<>>
               ELSE delivered'[c] = delivered[c]
<1> DEFINE x == [notifier[n] EXCEPT !.at = "stored"]
           r == notifier[n].reminder
           o == notifier[n].outcome
<1>1. /\ notifier[n] \in NotifierStates /\ r \in DOMAIN reminder \union {NoReminder} /\ o \in Outcomes
      /\ NoReminder \notin DOMAIN reminder
  <2>1. /\ notifier[n] \in NotifierStates /\ r \in DOMAIN reminder \union {NoReminder}
        /\ NoReminder \notin DOMAIN reminder
    BY NotifierOf
  <2> QED BY <2>1 DEF NotifierStates
<1>2. notifier' = [notifier EXCEPT ![n] = x] /\ notifier[n].at = "pushed"
  BY <1>1 DEF CommitDelivery, NotifierStates, ReminderInv, NotifiersTyped
<1>3. x \in NotifierStates /\ x.at = "stored" /\ x.reminder = r
  BY <1>1 DEF NotifierStates
<1> HIDE DEF x
<1>4. /\ Rest /\ Quiet
      /\ UNCHANGED reminder /\ UNCHANGED planner /\ UNCHANGED scan /\ UNCHANGED <<sends, dead, rejected>>
      /\ UNCHANGED repeats
  BY DEF CommitDelivery, planning
<1>5. RemindersTyped' /\ RowsKept
  BY <1>4, SameRows
<1>6. NotifiersTyped' /\ notifier'[n] = x /\ \A m \in Notifiers : m # n => notifier'[m] = notifier[m]
  BY <1>1, <1>2, <1>3, <1>5, NotifierBecomes
<1>7. delivered' = IF r = NoReminder THEN delivered
                   ELSE [delivered EXCEPT ![Charge(r)] = Append(delivered[Charge(r)], o)]
  BY DEF CommitDelivery
<1> HIDE DEF r, o
<1>8. DeliveriesTyped' /\ \A c \in Charges :
         IF r # NoReminder /\ Charge(r) = c
         THEN Len(delivered'[c]) = Len(delivered[c]) + 1 /\ delivered'[c] # <<>>
         ELSE delivered'[c] = delivered[c]
  <2>1. delivered \in [Charges -> OutcomeLists] /\ repeats \in [Charges -> Nat]
    BY DEF ReminderInv, DeliveriesTyped
  <2>2. CASE r = NoReminder
    BY <1>4, <1>7, <2>1, <2>2 DEF DeliveriesTyped
  <2>3. CASE r # NoReminder
    <3> DEFINE k == Charge(r)
               list == Append(delivered[k], o)
    <3>1. k \in Charges
      BY <1>1, <2>3 DEF ReminderInv, RemindersTyped, ReminderStates, Charge
    <3>2. delivered[k] \in OutcomeLists
      BY <2>1, <3>1
    <3>3. list \in OutcomeLists /\ list # <<>> /\ Len(list) = Len(delivered[k]) + 1
      BY <1>1, <3>2, OutcomeAppended
    <3>4. delivered' = [delivered EXCEPT ![k] = list]
      BY <1>7, <2>3
    <3> HIDE DEF list, k
    <3>5. \A c \in Charges : delivered'[c] = IF c = k THEN list ELSE delivered[c]
      BY <2>1, <3>1, <3>4
    <3>6. DeliveriesTyped'
      BY <1>4, <2>1, <3>1, <3>3, <3>4 DEF DeliveriesTyped
    <3> QED BY <2>3, <3>3, <3>5, <3>6 DEF k
  <2> QED BY <2>2, <2>3
<1>9. ReminderInv'
  BY <1>4, <1>5, <1>6, <1>8, RestTyped, SamePlanners, SameScans, SameSends DEF ReminderInv
<1> QED BY <1>2, <1>3, <1>6, <1>8, <1>9 DEF OthersNotifier, r

LEMMA AcknowledgeTyped ==
  ASSUME ReminderInv, NEW n \in Notifiers, Acknowledge(n)
  PROVE  /\ ReminderInv' /\ OthersNotifier(n)
         /\ notifier[n].at = "stored" /\ notifier'[n].at = "off" /\ notifier'[n].reminder = NoReminder
<1>1. /\ Rest /\ Quiet
      /\ UNCHANGED reminder /\ UNCHANGED planner /\ UNCHANGED scan /\ UNCHANGED <<sends, dead, rejected>>
      /\ UNCHANGED <<delivered, repeats>>
      /\ notifier' = [notifier EXCEPT ![n] = Waiting] /\ notifier[n].at = "stored"
  BY DEF Acknowledge, planning
<1>2. RemindersTyped' /\ RowsKept
  BY <1>1, SameRows
<1>3. NotifiersTyped' /\ notifier'[n] = Waiting /\ \A m \in Notifiers : m # n => notifier'[m] = notifier[m]
  BY <1>1, <1>2, Resting3, NotifierBecomes
<1>4. ReminderInv'
  BY <1>1, <1>2, <1>3, RestTyped, SamePlanners, SameScans, SameSends, SameDeliveries DEF ReminderInv
<1> QED BY <1>1, <1>3, <1>4, Resting3 DEF OthersNotifier

\* The message comes again, is dead-lettered, or is lost.
Redelivered(n) ==
    LET r == notifier[n].reminder IN
    /\ r # NoReminder /\ sends' = [sends EXCEPT ![r] = @ + 1] /\ UNCHANGED <<dead, rejected>>
    /\ repeats' = IF notifier[n].at = "stored" THEN [repeats EXCEPT ![Charge(r)] = @ + 1] ELSE repeats
DeadLettered(n) ==
    /\ notifier[n].reminder # NoReminder /\ notifier[n].at # "stored"
    /\ dead' = dead \union {notifier[n].reminder} /\ UNCHANGED <<sends, rejected, repeats>>
RejectedOnFailure(n) ==
    /\ notifier[n].reminder # NoReminder /\ notifier[n].at # "stored"
    /\ rejected' = rejected \union {notifier[n].reminder} /\ UNCHANGED <<sends, dead, repeats>>
TestDropped(n) == notifier[n].reminder = NoReminder /\ UNCHANGED <<sends, dead, rejected, repeats>>

LEMMA DeliveryFailsTyped ==
  ASSUME ReminderInv, NEW n \in Notifiers, DeliveryFails(n)
  PROVE  /\ ReminderInv' /\ OthersNotifier(n)
         /\ notifier[n].at # "off" /\ notifier'[n].at = "off" /\ notifier'[n].reminder = NoReminder
         /\ Redelivered(n) \/ DeadLettered(n) \/ RejectedOnFailure(n) \/ TestDropped(n)
<1> DEFINE r == notifier[n].reminder
<1>1. /\ Rest /\ Fault
      /\ UNCHANGED reminder /\ UNCHANGED planner /\ UNCHANGED scan /\ UNCHANGED delivered
      /\ notifier' = [notifier EXCEPT ![n] = Waiting] /\ notifier[n].at # "off"
  BY DEF DeliveryFails, planning
<1>2. Redelivered(n) \/ DeadLettered(n) \/ RejectedOnFailure(n) \/ TestDropped(n)
  BY DEF DeliveryFails, Redelivered, DeadLettered, RejectedOnFailure, TestDropped
<1>3. RemindersTyped' /\ RowsKept
  BY <1>1, SameRows
<1>4. NotifiersTyped' /\ notifier'[n] = Waiting /\ \A m \in Notifiers : m # n => notifier'[m] = notifier[m]
  BY <1>1, <1>3, Resting3, NotifierBecomes
<1>5. r # NoReminder => r \in DOMAIN reminder /\ r \in ReminderRows /\ Charge(r) \in Charges
  BY NotifierOf DEF ReminderInv, RemindersTyped, ReminderStates, Charge
<1>6. SendsTyped' /\ DeliveriesTyped'
  <2>1. CASE Redelivered(n)
    <3>1. SendsTyped'
      BY <1>1, <1>5, <2>1 DEF Redelivered, ReminderInv, SendsTyped
    <3>2. DeliveriesTyped'
      BY <1>1, <1>5, <2>1 DEF Redelivered, ReminderInv, DeliveriesTyped
    <3> QED BY <3>1, <3>2
  <2>2. CASE DeadLettered(n)
    BY <1>1, <1>5, <2>2 DEF DeadLettered, ReminderInv, SendsTyped, DeliveriesTyped
  <2>3. CASE TestDropped(n)
    BY <1>1, <2>3 DEF TestDropped, ReminderInv, SendsTyped, DeliveriesTyped
  <2>4. CASE RejectedOnFailure(n)
    BY <1>1, <1>5, <2>4 DEF RejectedOnFailure, ReminderInv, SendsTyped, DeliveriesTyped
  <2> QED BY <1>2, <2>1, <2>2, <2>3, <2>4
<1>7. ReminderInv'
  BY <1>1, <1>3, <1>4, <1>6, RestTyped, SamePlanners, SameScans DEF ReminderInv
<1> QED BY <1>1, <1>2, <1>4, <1>7, Resting3 DEF OthersNotifier

LEMMA ChangeExpenseTyped ==
  ASSUME ReminderInv, ChangeExpense, UNCHANGED reminderVars
  PROVE  ReminderInv'
<1>1. ExpenseInv
  BY DEF ReminderInv
<1>2. UserChanged /\ UserStep
  BY <1>1, ChangeExpenseIs
<1>3. CallsTyped'
  BY <1>1, <1>2, CallsCounted DEF UserStep
<1>4. ExpenseInv'
  BY <1>1, <1>2, <1>3 DEF UserChanged, UserStep, ExpenseInv, DetectorsTyped
<1>5. /\ UNCHANGED reminder /\ UNCHANGED planner /\ UNCHANGED scan /\ UNCHANGED <<sends, dead, rejected>>
      /\ UNCHANGED notifier /\ UNCHANGED <<delivered, repeats>>
  BY DEF reminderVars, planning, notifying
<1> QED BY <1>4, <1>5, SameRows, SamePlanners, SameScans, SameSends, SameNotifiers, SameDeliveries
        DEF ReminderInv

LEMMA StutterTyped ==
  ASSUME ReminderInv, UNCHANGED <<expenseVars, reminderVars>>
  PROVE  ReminderInv'
<1>1. /\ UNCHANGED reminder /\ UNCHANGED planner /\ UNCHANGED scan /\ UNCHANGED <<sends, dead, rejected>>
      /\ UNCHANGED notifier /\ UNCHANGED <<delivered, repeats>>
  BY DEF reminderVars, planning, notifying
<1>2. Rest /\ Quiet
  BY DEF expenseVars, Rest, Quiet
<1> QED BY <1>1, <1>2, RestTyped, SameRows, SamePlanners, SameScans, SameSends, SameNotifiers, SameDeliveries
        DEF ReminderInv

LEMMA ReminderNextTyped == ReminderInv /\ [ReminderNext]_<<expenseVars, reminderVars>> => ReminderInv'
<1> SUFFICES ASSUME ReminderInv, [ReminderNext]_<<expenseVars, reminderVars>> PROVE ReminderInv'
  OBVIOUS
<1>1. CASE PlanStep
  BY <1>1, DueTyped, PlanTyped, PlanChargeTyped, CommitPlanTyped, PlanFailsTyped, ScheduleTyped DEF PlanStep
<1>2. ASSUME NEW s \in Scanners, ScanStep(s) PROVE ReminderInv'
  BY <1>2, SelectDueTyped, PublishSendTyped, MarkQueuedTyped, CommitScanTyped, ScanFailsTyped DEF ScanStep
<1>3. ASSUME NEW n \in Notifiers, NotifyStep(n) PROVE ReminderInv'
  BY <1>3, ReceiveSendTyped, TestSendTyped, PushTyped, CommitDeliveryTyped, AcknowledgeTyped,
     DeliveryFailsTyped DEF NotifyStep
<1>4. CASE SetUpPush
  <2>1. ASSUME NEW b \in BOOLEAN, SetPermission(b) PROVE ReminderInv'
    BY <2>1, SetUpTyped DEF SetPermission
  <2>2. ASSUME NEW b \in BOOLEAN, SaveDevice(b) PROVE ReminderInv'
    BY <2>2, SetUpTyped DEF SaveDevice
  <2> QED BY <1>4, <2>1, <2>2 DEF SetUpPush
<1> QED BY <1>1, <1>2, <1>3, <1>4, ChangeExpenseTyped, StutterTyped DEF ReminderNext

\* Every variable of the reminders keeps its type: a scan, the queue, a
\* notifier and the dead-letter queue hold reminders that exist.
THEOREM ReminderTypes == ReminderSpec => []ReminderTypeOK
<1> QED BY InitReminderInv, ReminderNextTyped, ReminderTypesOf, PTL DEF ReminderSpec

-----------------------------------------------------------------------------
(* No queued reminder is lost *)

\* Where a reminder that was published is.
Accounted(r) ==
    \/ sends[r] > 0
    \/ \E n \in Notifiers : notifier[n].reminder = r
    \/ delivered[Charge(r)] # <<>>
    \/ r \in dead
    \/ r \in rejected

\* A scan commits only what it published, and a notifier that has stored its
\* delivery may forget the message.
QueuedAccounted == \A r \in DOMAIN reminder : reminder[r].status = "queued" => Accounted(r)
BegunAccounted == \A s \in Scanners : \A r \in Begun(scan[s]) : Accounted(r)
StoredDelivered ==
    \A n \in Notifiers, r \in ReminderRows :
        notifier[n].at = "stored" /\ notifier[n].reminder = r => delivered[Charge(r)] # <<>>
AccountedInv == ReminderInv /\ QueuedAccounted /\ BegunAccounted /\ StoredDelivered

AccountsKept == \A r \in DOMAIN reminder : Accounted(r) => Accounted(r)'
StoredKept ==
    \A n \in Notifiers, r \in ReminderRows :
        notifier'[n].at = "stored" /\ notifier'[n].reminder = r =>
            /\ notifier[n].reminder = r
            /\ notifier[n].at = "stored" \/ delivered'[Charge(r)] # <<>>

\* Nothing of a reminder that is accounted for moves.
LEMMA AccountsStay ==
  ASSUME ReminderInv, RowsKept, UNCHANGED <<sends, notifier, delivered, dead, rejected>>
  PROVE  AccountsKept /\ StoredKept
<1>1. AccountsKept
  BY DEF AccountsKept, Accounted, RowsKept
<1>2. StoredKept
  BY DEF StoredKept
<1> QED BY <1>1, <1>2

\* What is delivered stays delivered.
DeliveredKept == \A c \in Charges : delivered[c] # <<>> => delivered'[c] # <<>>

LEMMA ChargeTyped ==
  ASSUME ReminderInv, NEW r \in DOMAIN reminder
  PROVE  r \in ReminderRows /\ Charge(r) \in Charges
BY DEF ReminderInv, RemindersTyped, ReminderStates, Charge

LEMMA AccountedKept ==
  ASSUME AccountedInv, ReminderInv', RowsKept, AccountsKept, StoredKept, DeliveredKept,
         \A r \in DOMAIN reminder' : reminder'[r].status = "queued" =>
            /\ r \in DOMAIN reminder
            /\ reminder[r].status = "queued" \/ \E s \in Scanners : r \in Begun(scan[s]),
         \A s \in Scanners : \A r \in Begun(scan'[s]) :
            r \in DOMAIN reminder /\ (sends'[r] > 0 \/ r \in Begun(scan[s]))
  PROVE  AccountedInv'
<1>1. QueuedAccounted'
  BY DEF AccountedInv, QueuedAccounted, BegunAccounted, AccountsKept
<1>2. BegunAccounted'
  <2> SUFFICES ASSUME NEW s \in Scanners, NEW r \in Begun(scan'[s]) PROVE Accounted(r)'
    BY DEF BegunAccounted
  <2>1. CASE sends'[r] > 0
    BY <2>1 DEF Accounted
  <2>2. CASE r \in Begun(scan[s])
    BY <2>2 DEF AccountedInv, BegunAccounted, AccountsKept
  <2> QED BY <2>1, <2>2
<1>3. StoredDelivered'
  <2> SUFFICES ASSUME NEW n \in Notifiers, NEW r \in ReminderRows,
                      notifier'[n].at = "stored", notifier'[n].reminder = r
               PROVE  delivered'[Charge(r)'] # <<>>
    BY DEF StoredDelivered
  <2>1. notifier[n].reminder = r /\ (notifier[n].at = "stored" \/ delivered'[Charge(r)] # <<>>)
    BY DEF StoredKept
  <2>2. r \in DOMAIN reminder
    BY <2>1, NotifierOf, ReminderAssumption DEF AccountedInv
  <2>3. Charge(r) \in Charges /\ Charge(r)' = Charge(r)
    BY <2>2, ChargeTyped DEF AccountedInv, RowsKept
  <2>4. notifier[n].at = "stored" => delivered[Charge(r)] # <<>>
    BY <2>1 DEF AccountedInv, StoredDelivered
  <2> QED BY <2>1, <2>3, <2>4 DEF DeliveredKept
<1> QED BY <1>1, <1>2, <1>3 DEF AccountedInv

\* Planning, scheduling and setting up touch nothing that was published.
LEMMA CalmAccounted ==
  ASSUME AccountedInv, ReminderInv', RowsKept, UNCHANGED <<scan, sends, notifier, delivered, dead, rejected>>,
         \A r \in DOMAIN reminder' :
            (r \in DOMAIN reminder /\ reminder'[r] = reminder[r]) \/ reminder'[r].status # "queued"
  PROVE  AccountedInv'
<1>1. AccountsKept /\ StoredKept /\ DeliveredKept
  BY AccountsStay DEF AccountedInv, DeliveredKept
<1>2. \A s \in Scanners : \A r \in Begun(scan'[s]) : r \in DOMAIN reminder /\ r \in Begun(scan[s])
  BY ScanOf DEF AccountedInv
<1> QED BY <1>1, <1>2, AccountedKept

\* A scan that only goes on: what it has begun it has published.
LEMMA ScanAccounted ==
  ASSUME AccountedInv, ReminderInv', NEW s \in Scanners, OthersScan(s),
         UNCHANGED <<reminder, notifier, delivered, dead, rejected>>,
         \A r \in ReminderRows : sends'[r] >= sends[r],
         \A r \in Begun(scan'[s]) : r \in DOMAIN reminder /\ (sends'[r] > 0 \/ r \in Begun(scan[s]))
  PROVE  AccountedInv'
<1>1. RowsKept
  BY DEF RowsKept, Charge
<1>2. AccountsKept
  <2> SUFFICES ASSUME NEW r \in DOMAIN reminder, Accounted(r) PROVE Accounted(r)'
    BY DEF AccountsKept
  <2>1. r \in ReminderRows /\ sends[r] \in Nat /\ sends'[r] \in Nat
    BY ChargeTyped DEF AccountedInv, ReminderInv, SendsTyped
  <2>2. sends[r] > 0 => sends'[r] > 0
    BY <2>1
  <2> QED BY <2>2 DEF Accounted, Charge
<1>3. StoredKept /\ DeliveredKept
  BY DEF StoredKept, DeliveredKept
<1>4. \A q \in Scanners : \A r \in Begun(scan'[q]) : r \in DOMAIN reminder /\ (sends'[r] > 0 \/ r \in Begun(scan[q]))
  BY ScanOf DEF AccountedInv, OthersScan
<1> QED BY <1>1, <1>2, <1>3, <1>4, AccountedKept

LEMMA SelectDueAccounted ==
  ASSUME AccountedInv, NEW s \in Scanners, NEW due \in SUBSET ReminderRows, SelectDue(s, due)
  PROVE  AccountedInv'
<1>1. ReminderInv' /\ OthersScan(s) /\ Begun(scan'[s]) = {}
  BY SelectDueTyped DEF AccountedInv
<1>2. UNCHANGED <<reminder, notifier, delivered, dead, rejected>> /\ UNCHANGED sends
  BY DEF SelectDue, planning, notifying
<1>3. \A r \in ReminderRows : sends'[r] >= sends[r]
  BY <1>2 DEF AccountedInv, ReminderInv, SendsTyped
<1> QED BY <1>1, <1>2, <1>3, ScanAccounted

LEMMA PublishSendAccounted ==
  ASSUME AccountedInv, NEW s \in Scanners, NEW r \in ReminderRows, PublishSend(s, r)
  PROVE  AccountedInv'
<1>1. /\ ReminderInv' /\ OthersScan(s) /\ r \in DOMAIN reminder
      /\ Begun(scan'[s]) = Begun(scan[s]) \union {r}
  BY PublishSendTyped DEF AccountedInv
<1>2. UNCHANGED <<reminder, notifier, delivered, dead, rejected>> /\ sends' = [sends EXCEPT ![r] = @ + 1]
  BY DEF PublishSend, planning, notifying
<1>3. (\A q \in ReminderRows : sends'[q] >= sends[q]) /\ sends'[r] > 0
  BY <1>2 DEF AccountedInv, ReminderInv, SendsTyped
<1>4. \A q \in Begun(scan'[s]) : q \in DOMAIN reminder /\ (sends'[q] > 0 \/ q \in Begun(scan[s]))
  BY <1>1, <1>3, ScanOf DEF AccountedInv
<1> QED BY <1>1, <1>2, <1>3, <1>4, ScanAccounted

LEMMA MarkQueuedAccounted ==
  ASSUME AccountedInv, NEW s \in Scanners, NEW r \in ReminderRows, MarkQueued(s, r)
  PROVE  AccountedInv'
<1>1. ReminderInv' /\ OthersScan(s) /\ Begun(scan'[s]) = Begun(scan[s])
  BY MarkQueuedTyped DEF AccountedInv
<1>2. UNCHANGED <<reminder, notifier, delivered, dead, rejected>> /\ UNCHANGED sends
  BY DEF MarkQueued, planning, notifying
<1>3. \A q \in ReminderRows : sends'[q] >= sends[q]
  BY <1>2 DEF AccountedInv, ReminderInv, SendsTyped
<1>4. \A q \in Begun(scan'[s]) : q \in DOMAIN reminder /\ (sends'[q] > 0 \/ q \in Begun(scan[s]))
  BY <1>1, ScanOf DEF AccountedInv
<1> QED BY <1>1, <1>2, <1>3, <1>4, ScanAccounted

LEMMA ScanFailsAccounted ==
  ASSUME AccountedInv, NEW s \in Scanners, ScanFails(s)
  PROVE  AccountedInv'
<1>1. ReminderInv' /\ OthersScan(s) /\ Begun(scan'[s]) = {}
  BY ScanFailsTyped DEF AccountedInv
<1>2. UNCHANGED <<reminder, notifier, delivered, dead, rejected>> /\ UNCHANGED sends
  BY DEF ScanFails, planning, notifying
<1>3. \A r \in ReminderRows : sends'[r] >= sends[r]
  BY <1>2 DEF AccountedInv, ReminderInv, SendsTyped
<1> QED BY <1>1, <1>2, <1>3, ScanAccounted

\* What is committed as queued was published by this scan.
LEMMA CommitScanAccounted ==
  ASSUME AccountedInv, NEW s \in Scanners, CommitScan(s)
  PROVE  AccountedInv'
<1>1. /\ ReminderInv' /\ RowsKept /\ OthersScan(s)
      /\ DOMAIN reminder' = DOMAIN reminder
      /\ \A r \in DOMAIN reminder :
            reminder'[r].status = IF r \in Begun(scan[s]) THEN "queued" ELSE reminder[r].status
      /\ Begun(scan'[s]) = {}
  BY CommitScanTyped DEF AccountedInv
<1>2. UNCHANGED <<sends, notifier, delivered, dead, rejected>>
  BY DEF CommitScan, notifying
<1>3. AccountsKept /\ StoredKept /\ DeliveredKept
  BY <1>1, <1>2, AccountsStay DEF AccountedInv, DeliveredKept
<1>4. \A q \in Scanners : \A r \in Begun(scan'[q]) : r \in DOMAIN reminder /\ r \in Begun(scan[q])
  BY <1>1, ScanOf DEF AccountedInv, OthersScan
<1> QED BY <1>1, <1>3, <1>4, AccountedKept

\* A notifier's step: only the accounts are left to show.
LEMMA NotifierAccounted ==
  ASSUME AccountedInv, ReminderInv', UNCHANGED <<reminder, scan>>, AccountsKept, StoredKept, DeliveredKept
  PROVE  AccountedInv'
<1>1. RowsKept
  BY DEF RowsKept, Charge
<1>2. \A q \in Scanners : \A r \in Begun(scan'[q]) : r \in DOMAIN reminder /\ r \in Begun(scan[q])
  BY ScanOf DEF AccountedInv
<1> QED BY <1>1, <1>2, AccountedKept

LEMMA ReceiveSendAccounted ==
  ASSUME AccountedInv, NEW n \in Notifiers, NEW r \in ReminderRows, ReceiveSend(n, r)
  PROVE  AccountedInv'
<1>1. /\ ReminderInv' /\ OthersNotifier(n) /\ notifier'[n].at = "delivering" /\ notifier'[n].reminder = r
      /\ notifier[n].at = "off"
  BY ReceiveSendTyped DEF AccountedInv
<1>2. UNCHANGED <<reminder, scan>> /\ UNCHANGED <<delivered, dead, rejected>> /\ sends' = [sends EXCEPT ![r] = @ - 1]
  BY DEF ReceiveSend, planning
<1>3. notifier[n].reminder = NoReminder
  BY <1>1, NotifierOf DEF AccountedInv
<1>4. AccountsKept
  <2> SUFFICES ASSUME NEW q \in DOMAIN reminder, Accounted(q) PROVE Accounted(q)'
    BY DEF AccountsKept
  <2>1. q \in ReminderRows /\ q # NoReminder
    BY ChargeTyped, ReminderAssumption DEF AccountedInv
  <2>2. q = r => \E m \in Notifiers : notifier'[m].reminder = q
    BY <1>1
  <2>3. q # r => sends'[q] = sends[q]
    BY <1>2, <2>1 DEF AccountedInv, ReminderInv, SendsTyped
  <2>4. \A m \in Notifiers : notifier[m].reminder = q => notifier'[m].reminder = q
    BY <1>1, <1>3, <2>1 DEF OthersNotifier
  <2> QED BY <1>2, <2>2, <2>3, <2>4 DEF Accounted, Charge
<1>5. StoredKept
  BY <1>1 DEF StoredKept, OthersNotifier
<1> QED BY <1>1, <1>2, <1>4, <1>5, NotifierAccounted DEF DeliveredKept

\* A notifier that keeps its reminder, or had none.
LEMMA SameReminderAccounted ==
  ASSUME AccountedInv, ReminderInv', NEW n \in Notifiers, OthersNotifier(n),
         UNCHANGED <<reminder, scan, sends, dead, rejected>>, DeliveredKept,
         notifier[n].reminder = NoReminder \/ notifier'[n].reminder = notifier[n].reminder,
         notifier'[n].at # "stored" \/ notifier'[n].reminder = notifier[n].reminder,
         \A r \in ReminderRows :
            notifier'[n].at = "stored" /\ notifier[n].reminder = r => delivered'[Charge(r)] # <<>>
  PROVE  AccountedInv'
<1>1. AccountsKept
  <2> SUFFICES ASSUME NEW r \in DOMAIN reminder, Accounted(r) PROVE Accounted(r)'
    BY DEF AccountsKept
  <2>1. r \in ReminderRows /\ Charge(r) \in Charges /\ r # NoReminder /\ Charge(r)' = Charge(r)
    BY ChargeTyped, ReminderAssumption DEF AccountedInv, Charge
  <2>2. \A m \in Notifiers : notifier[m].reminder = r => notifier'[m].reminder = r
    BY <2>1 DEF OthersNotifier
  <2>3. delivered[Charge(r)] # <<>> => delivered'[Charge(r)'] # <<>>
    BY <2>1 DEF DeliveredKept
  <2> QED BY <2>2, <2>3 DEF Accounted
<1>2. StoredKept
  <2> SUFFICES ASSUME NEW m \in Notifiers, NEW r \in ReminderRows,
                      notifier'[m].at = "stored", notifier'[m].reminder = r
               PROVE  notifier[m].reminder = r /\ (notifier[m].at = "stored" \/ delivered'[Charge(r)] # <<>>)
    BY DEF StoredKept
  <2>1. CASE m = n
    BY <2>1
  <2>2. CASE m # n
    BY <2>2 DEF OthersNotifier
  <2> QED BY <2>1, <2>2
<1> QED BY <1>1, <1>2, NotifierAccounted

LEMMA TestSendAccounted ==
  ASSUME AccountedInv, NEW n \in Notifiers, TestSend(n)
  PROVE  AccountedInv'
<1>1. /\ ReminderInv' /\ OthersNotifier(n) /\ notifier[n].at = "off" /\ notifier'[n].at # "stored"
  BY TestSendTyped DEF AccountedInv
<1>2. UNCHANGED <<reminder, scan, sends, dead, rejected>> /\ UNCHANGED delivered
  BY DEF TestSend, planning
<1>3. notifier[n].reminder = NoReminder
  BY <1>1, NotifierOf DEF AccountedInv
<1> QED BY <1>1, <1>2, <1>3, SameReminderAccounted DEF DeliveredKept

LEMMA PushAccounted ==
  ASSUME AccountedInv, NEW n \in Notifiers, Push(n)
  PROVE  AccountedInv'
<1>1. /\ ReminderInv' /\ OthersNotifier(n) /\ notifier'[n].at = "pushed"
      /\ notifier'[n].reminder = notifier[n].reminder
  BY PushTyped DEF AccountedInv
<1>2. UNCHANGED <<reminder, scan, sends, dead, rejected>> /\ UNCHANGED delivered
  BY DEF Push, planning
<1> QED BY <1>1, <1>2, SameReminderAccounted DEF DeliveredKept

LEMMA CommitDeliveryAccounted ==
  ASSUME AccountedInv, NEW n \in Notifiers, CommitDelivery(n)
  PROVE  AccountedInv'
<1>1. /\ ReminderInv' /\ OthersNotifier(n)
      /\ notifier'[n].reminder = notifier[n].reminder
      /\ \A c \in Charges :
            IF notifier[n].reminder # NoReminder /\ Charge(notifier[n].reminder) = c
            THEN Len(delivered'[c]) = Len(delivered[c]) + 1 /\ delivered'[c] # <<>>
            ELSE delivered'[c] = delivered[c]
  BY CommitDeliveryTyped DEF AccountedInv
<1>2. UNCHANGED <<reminder, scan, sends, dead, rejected>>
  BY DEF CommitDelivery, planning
<1>3. \A r \in ReminderRows : notifier[n].reminder = r => delivered'[Charge(r)] # <<>>
  <2> SUFFICES ASSUME NEW r \in ReminderRows, notifier[n].reminder = r PROVE delivered'[Charge(r)] # <<>>
    OBVIOUS
  <2>1. r # NoReminder /\ r \in DOMAIN reminder
    BY NotifierOf, ReminderAssumption DEF AccountedInv
  <2>2. Charge(r) \in Charges
    BY <2>1, ChargeTyped DEF AccountedInv
  <2> QED BY <1>1, <2>1, <2>2
<1>4. DeliveredKept
  BY <1>1 DEF DeliveredKept
<1> QED BY <1>1, <1>2, <1>3, <1>4, SameReminderAccounted

\* Whoever acknowledges has stored the delivery.
LEMMA AcknowledgeAccounted ==
  ASSUME AccountedInv, NEW n \in Notifiers, Acknowledge(n)
  PROVE  AccountedInv'
<1>1. /\ ReminderInv' /\ OthersNotifier(n) /\ notifier[n].at = "stored" /\ notifier'[n].at = "off"
  BY AcknowledgeTyped DEF AccountedInv
<1>2. UNCHANGED <<reminder, scan>> /\ UNCHANGED <<sends, dead, rejected, delivered>>
  BY DEF Acknowledge, planning
<1>3. AccountsKept
  <2> SUFFICES ASSUME NEW r \in DOMAIN reminder, Accounted(r) PROVE Accounted(r)'
    BY DEF AccountsKept
  <2>1. r \in ReminderRows
    BY ChargeTyped DEF AccountedInv
  <2>2. \A m \in Notifiers : notifier[m].reminder = r =>
           notifier'[m].reminder = r \/ delivered[Charge(r)] # <<>>
    BY <1>1, <2>1 DEF OthersNotifier, AccountedInv, StoredDelivered
  <2> QED BY <1>2, <2>2 DEF Accounted, Charge
<1>4. StoredKept
  BY <1>1 DEF StoredKept, OthersNotifier
<1> QED BY <1>1, <1>2, <1>3, <1>4, NotifierAccounted DEF DeliveredKept

\* Whoever fails leaves its reminder in the queue or in the dead-letter queue,
\* or loses it.
LEMMA DeliveryFailsAccounted ==
  ASSUME AccountedInv, NEW n \in Notifiers, DeliveryFails(n)
  PROVE  AccountedInv'
<1>1. /\ ReminderInv' /\ OthersNotifier(n) /\ notifier'[n].at = "off"
      /\ Redelivered(n) \/ DeadLettered(n) \/ RejectedOnFailure(n) \/ TestDropped(n)
  BY DeliveryFailsTyped DEF AccountedInv
<1>2. UNCHANGED <<reminder, scan>> /\ UNCHANGED delivered
  BY DEF DeliveryFails, planning
<1>3. AccountsKept
  <2> SUFFICES ASSUME NEW r \in DOMAIN reminder, Accounted(r) PROVE Accounted(r)'
    BY DEF AccountsKept
  <2>1. r \in ReminderRows /\ r # NoReminder
    BY ChargeTyped, ReminderAssumption DEF AccountedInv
  <2>2. sends \in [ReminderRows -> Nat]
    BY DEF AccountedInv, ReminderInv, SendsTyped
  <2>3. sends[r] > 0 => sends'[r] > 0
    BY <1>1, <2>1, <2>2 DEF Redelivered, DeadLettered, RejectedOnFailure, TestDropped
  <2>4. notifier[n].reminder = r => sends'[r] > 0 \/ r \in dead' \/ r \in rejected'
    BY <1>1, <2>1, <2>2 DEF Redelivered, DeadLettered, RejectedOnFailure, TestDropped
  <2>5. dead \subseteq dead' /\ rejected \subseteq rejected'
    BY <1>1 DEF Redelivered, DeadLettered, RejectedOnFailure, TestDropped
  <2>6. \A m \in Notifiers : notifier[m].reminder = r =>
           notifier'[m].reminder = r \/ sends'[r] > 0 \/ r \in dead' \/ r \in rejected'
    BY <1>1, <2>4 DEF OthersNotifier
  <2> QED BY <1>2, <2>3, <2>5, <2>6 DEF Accounted, Charge
<1>4. StoredKept
  BY <1>1 DEF StoredKept, OthersNotifier
<1> QED BY <1>1, <1>2, <1>3, <1>4, NotifierAccounted DEF DeliveredKept

LEMMA SameRowsAccounted ==
  ASSUME AccountedInv, ReminderInv', UNCHANGED <<reminder, scan, sends, notifier, delivered, dead, rejected>>
  PROVE  AccountedInv'
<1>1. RowsKept
  BY DEF RowsKept, Charge
<1> QED BY <1>1, CalmAccounted

LEMMA PlanAccounted ==
  ASSUME AccountedInv, PlanStep
  PROVE  AccountedInv'
<1>0. ReminderInv
  BY DEF AccountedInv
<1>1. ASSUME NEW p \in Planners, NEW due \in {DueExpenses, DueLimits}, Plan(p, due) PROVE AccountedInv'
  <2>1. ReminderInv'
    BY <1>0, <1>1, DueTyped, PlanTyped
  <2>2. UNCHANGED <<reminder, scan, sends, notifier, delivered, dead, rejected>>
    BY <1>1 DEF Plan, notifying
  <2> QED BY <2>1, <2>2, SameRowsAccounted
<1>2. ASSUME NEW p \in Planners, NEW c \in Charges, PlanCharge(p, c) PROVE AccountedInv'
  <2>1. ReminderInv'
    BY <1>0, <1>2, PlanChargeTyped
  <2>2. UNCHANGED <<reminder, scan, sends, notifier, delivered, dead, rejected>>
    BY <1>2 DEF PlanCharge, notifying
  <2> QED BY <2>1, <2>2, SameRowsAccounted
<1>3. ASSUME NEW p \in Planners, NEW rows \in SUBSET FreeRows, CommitPlan(p, rows) PROVE AccountedInv'
  <2>1. /\ ReminderInv' /\ RowsKept
        /\ DOMAIN reminder' = DOMAIN reminder \union rows
        /\ \A r \in DOMAIN reminder : reminder'[r] = reminder[r] /\ r \notin rows
        /\ \A r \in rows : reminder'[r].status = "planned"
    BY <1>0, <1>3, CommitPlanTyped
  <2>2. UNCHANGED <<scan, sends, notifier, delivered, dead, rejected>>
    BY <1>3 DEF CommitPlan, notifying
  <2> QED BY <2>1, <2>2, CalmAccounted
<1>4. ASSUME NEW p \in Planners, PlanFails(p) PROVE AccountedInv'
  <2>1. ReminderInv'
    BY <1>0, <1>4, PlanFailsTyped
  <2>2. UNCHANGED <<reminder, scan, sends, notifier, delivered, dead, rejected>>
    BY <1>4 DEF PlanFails, notifying
  <2> QED BY <2>1, <2>2, SameRowsAccounted
<1>5. ASSUME NEW r \in ReminderRows, NEW due \in Dues, Schedule(r, due) PROVE AccountedInv'
  <2>1. /\ ReminderInv' /\ RowsKept
        /\ DOMAIN reminder' = DOMAIN reminder \union {r}
        /\ reminder'[r].status = "planned"
        /\ \A q \in DOMAIN reminder : reminder'[q] = reminder[q]
    BY <1>0, <1>5, ScheduleTyped
  <2>2. UNCHANGED <<scan, sends, notifier, delivered, dead, rejected>>
    BY <1>5 DEF Schedule, notifying
  <2> QED BY <2>1, <2>2, CalmAccounted
<1> QED BY <1>1, <1>2, <1>3, <1>4, <1>5 DEF PlanStep

LEMMA InitAccounted == ReminderInit => AccountedInv
<1> SUFFICES ASSUME ReminderInit PROVE AccountedInv
  OBVIOUS
<1>1. ReminderInv
  BY InitReminderInv
<1>2. QueuedAccounted
  BY DEF ReminderInit, QueuedAccounted
<1>3. BegunAccounted
  BY Resting3 DEF ReminderInit, BegunAccounted, Begun
<1>4. StoredDelivered
  BY Resting3 DEF ReminderInit, StoredDelivered
<1> QED BY <1>1, <1>2, <1>3, <1>4 DEF AccountedInv

LEMMA ReminderNextAccounted == AccountedInv /\ [ReminderNext]_<<expenseVars, reminderVars>> => AccountedInv'
<1> SUFFICES ASSUME AccountedInv, [ReminderNext]_<<expenseVars, reminderVars>> PROVE AccountedInv'
  OBVIOUS
<1>0. ReminderInv'
  BY ReminderNextTyped DEF AccountedInv
<1>1. CASE UNCHANGED reminderVars
  BY <1>0, <1>1, SameRowsAccounted DEF reminderVars, planning, notifying
<1>2. ASSUME NEW s \in Scanners, ScanStep(s) PROVE AccountedInv'
  BY <1>2, SelectDueAccounted, PublishSendAccounted, MarkQueuedAccounted, CommitScanAccounted,
     ScanFailsAccounted DEF ScanStep
<1>3. ASSUME NEW n \in Notifiers, NotifyStep(n) PROVE AccountedInv'
  BY <1>3, ReceiveSendAccounted, TestSendAccounted, PushAccounted, CommitDeliveryAccounted,
     AcknowledgeAccounted, DeliveryFailsAccounted DEF NotifyStep
<1>4. ASSUME NEW b \in BOOLEAN, SetPermission(b) \/ SaveDevice(b) PROVE AccountedInv'
  <2>1. UNCHANGED <<reminder, scan, sends, notifier, delivered, dead, rejected>>
    BY <1>4 DEF SetPermission, SaveDevice, planning
  <2> QED BY <1>0, <2>1, SameRowsAccounted
<1> QED BY <1>1, <1>2, <1>3, <1>4, PlanAccounted DEF ReminderNext, SetUpPush

LEMMA QueuedIsThere == AccountedInv => QueuedIsAccounted
BY DEF AccountedInv, QueuedAccounted, Accounted, QueuedIsAccounted

\* A reminder is published before it is committed as queued, so that one that
\* is queued, which no scan selects again, is in the queue, at a notifier,
\* delivered or dead-lettered, whatever scans and notifiers died on the way;
\* only a failed publish of its own retry or dead letter loses it.
THEOREM QueuedAreAccounted == ReminderSpec => []QueuedIsAccounted
<1> QED BY InitAccounted, ReminderNextAccounted, QueuedIsThere, PTL DEF ReminderSpec

-----------------------------------------------------------------------------
(* Notifications as background tasks *)

\* A message of the reminder is in the queue, at a notifier or dead-lettered.
IsPending(r) ==
    \/ sends[r] > 0
    \/ \E n \in Notifiers : notifier[n].reminder = r
    \/ r \in dead

PendingCharges == {c \in Charges : \E r \in DOMAIN reminder : Charge(r) = c /\ IsPending(r)}
NotifiedCharges ==
    {c \in Charges : delivered[c] # <<>> \/ \E r \in DOMAIN reminder : Charge(r) = c /\ r \in dead}
\* A message of the charge was lost with its retry or dead letter.
GivenUpCharges == {c \in Charges : \E r \in DOMAIN reminder : Charge(r) = c /\ r \in rejected}

\* The task is to notify the user of a charge: a delivery or a dead letter is
\* its outcome.
Notification == INSTANCE BackgroundTask WITH
    Tasks <- Charges,
    submitted <- PendingCharges \union NotifiedCharges \union GivenUpCharges,
    outstanding <- PendingCharges,
    recorded <- NotifiedCharges,
    abandoned <- GivenUpCharges

NotificationStep == [Notification!Next]_(Notification!vars)

LEMMA PendingIsRow ==
  ASSUME ReminderInv, NEW r, r \in ReminderRows, IsPending(r)
  PROVE  r \in DOMAIN reminder
<1>1. ReminderTypeOK
  BY ReminderTypesOf
<1>2. \A n \in Notifiers : notifier[n].reminder = r => r \in DOMAIN reminder
  BY NotifierOf, ReminderAssumption
<1> QED BY <1>1, <1>2 DEF IsPending, ReminderTypeOK

\* A step that moves one charge only: it is submitted, put back, given its
\* outcome, given up, or forgotten after either.
LEMMA OneChargeMoves ==
  ASSUME NEW k \in Charges,
         \A c \in Charges \ {k} : /\ c \in PendingCharges' <=> c \in PendingCharges
                                  /\ c \in NotifiedCharges' <=> c \in NotifiedCharges
                                  /\ c \in GivenUpCharges' <=> c \in GivenUpCharges,
         k \in NotifiedCharges => k \in NotifiedCharges',
         k \in GivenUpCharges => k \in GivenUpCharges',
         k \in NotifiedCharges' /\ k \notin NotifiedCharges =>
            k \in PendingCharges /\ k \in PendingCharges' /\ (k \in GivenUpCharges' => k \in GivenUpCharges),
         k \in GivenUpCharges' /\ k \notin GivenUpCharges => k \in PendingCharges,
         k \in PendingCharges /\ k \notin PendingCharges' => k \in NotifiedCharges \/ k \in GivenUpCharges'
  PROVE  NotificationStep
<1>0. /\ PendingCharges \subseteq Charges /\ PendingCharges' \subseteq Charges
      /\ NotifiedCharges \subseteq Charges /\ NotifiedCharges' \subseteq Charges
      /\ GivenUpCharges \subseteq Charges /\ GivenUpCharges' \subseteq Charges
  BY DEF PendingCharges, NotifiedCharges, GivenUpCharges, Charges
<1> HIDE DEF PendingCharges, NotifiedCharges, GivenUpCharges
<1>1. CASE k \in NotifiedCharges' /\ k \notin NotifiedCharges
  <2>1. /\ PendingCharges' = PendingCharges /\ NotifiedCharges' = NotifiedCharges \union {k}
        /\ GivenUpCharges' = GivenUpCharges
    BY <1>0, <1>1
  <2>2. Notification!Record(k)
    BY <1>1, <2>1 DEF Notification!Record
  <2> QED BY <2>2 DEF NotificationStep, Notification!Next
<1>2. CASE NotifiedCharges' = NotifiedCharges /\ k \in GivenUpCharges' /\ k \notin GivenUpCharges
  <2>1. /\ GivenUpCharges' = GivenUpCharges \union {k} /\ k \in PendingCharges
        /\ PendingCharges' \in {PendingCharges, PendingCharges \ {k}}
    <3>1. CASE k \in PendingCharges'
      BY <1>0, <1>2, <3>1
    <3>2. CASE k \notin PendingCharges'
      BY <1>0, <1>2, <3>2
    <3> QED BY <3>1, <3>2
  <2>2. Notification!Abandon(k)
    BY <1>2, <2>1 DEF Notification!Abandon
  <2> QED BY <2>2 DEF NotificationStep, Notification!Next
<1> DEFINE quiet == NotifiedCharges' = NotifiedCharges /\ GivenUpCharges' = GivenUpCharges
<1>3. CASE quiet /\ k \in PendingCharges /\ k \notin PendingCharges'
  <2>1. PendingCharges' = PendingCharges \ {k} /\ k \in NotifiedCharges \union GivenUpCharges
    BY <1>0, <1>3
  <2>2. Notification!Retire(k)
    BY <1>3, <2>1 DEF Notification!Retire
  <2> QED BY <2>2 DEF NotificationStep, Notification!Next
<1>4. CASE quiet /\ k \notin PendingCharges /\ k \in PendingCharges'
  <2>1. PendingCharges' = PendingCharges \union {k}
    BY <1>0, <1>4
  <2>2. k \in NotifiedCharges \union GivenUpCharges => Notification!Revive(k)
    BY <1>4, <2>1 DEF Notification!Revive
  <2>3. k \notin NotifiedCharges \union GivenUpCharges => Notification!Submit(k)
    BY <1>4, <2>1 DEF Notification!Submit
  <2> QED BY <2>2, <2>3 DEF NotificationStep, Notification!Next
<1>5. CASE quiet /\ PendingCharges' = PendingCharges
  BY <1>5 DEF NotificationStep, Notification!vars
<1>6. k \in NotifiedCharges' <=> k \in NotifiedCharges => NotifiedCharges' = NotifiedCharges
  BY <1>0
<1>7. k \in PendingCharges' <=> k \in PendingCharges => PendingCharges' = PendingCharges
  BY <1>0
<1>8. k \in GivenUpCharges' <=> k \in GivenUpCharges => GivenUpCharges' = GivenUpCharges
  BY <1>0
<1> QED BY <1>1, <1>2, <1>3, <1>4, <1>5, <1>6, <1>7, <1>8

RowStays(q) ==
    /\ IsPending(q)' <=> IsPending(q)
    /\ q \in dead' <=> q \in dead
    /\ q \in rejected' <=> q \in rejected
OthersStay(r) ==
    /\ \A q \in DOMAIN reminder \ {r} : RowStays(q)
    /\ \A c \in Charges \ {Charge(r)} : delivered'[c] = delivered[c]

\* A step about one row, whose message is forgotten only after its delivery or
\* its loss, and has its outcome while it is at its notifier.
LEMMA OneRowMoves ==
  ASSUME ReminderInv, ReminderInv', UNCHANGED reminder, NEW r \in DOMAIN reminder, DeliveredKept,
         dead \subseteq dead', rejected \subseteq rejected', OthersStay(r),
         IsPending(r) /\ ~IsPending(r)' => delivered[Charge(r)] # <<>> \/ r \in rejected',
         delivered'[Charge(r)] # delivered[Charge(r)] \/ (r \in dead' /\ r \notin dead)
            => IsPending(r) /\ IsPending(r)' /\ UNCHANGED rejected,
         r \in rejected' /\ r \notin rejected => IsPending(r)
  PROVE  NotificationStep
<1> DEFINE k == Charge(r)
<1>1. /\ k \in Charges /\ \A q \in DOMAIN reminder : Charge(q)' = Charge(q)
      /\ \A q \in DOMAIN reminder \ {r} : (IsPending(q)' <=> IsPending(q)) /\ (q \in dead' <=> q \in dead)
      /\ \A q \in DOMAIN reminder \ {r} : q \in rejected' <=> q \in rejected
      /\ \A c \in Charges \ {k} : delivered'[c] = delivered[c]
  BY ChargeTyped DEF Charge, OthersStay, RowStays
<1>2. \A c \in Charges \ {k} : c \in PendingCharges' <=> c \in PendingCharges
  BY <1>1 DEF PendingCharges, Charges
<1>3. \A c \in Charges \ {k} : c \in NotifiedCharges' <=> c \in NotifiedCharges
  BY <1>1 DEF NotifiedCharges, Charges
<1>4. \A c \in Charges \ {k} : c \in GivenUpCharges' <=> c \in GivenUpCharges
  BY <1>1 DEF GivenUpCharges, Charges
<1>5. k \in NotifiedCharges => k \in NotifiedCharges'
  BY <1>1 DEF NotifiedCharges, Charges, DeliveredKept
<1>6. k \in GivenUpCharges => k \in GivenUpCharges'
  BY <1>1 DEF GivenUpCharges, Charges
<1>7. ASSUME k \in NotifiedCharges', k \notin NotifiedCharges
      PROVE  k \in PendingCharges /\ k \in PendingCharges' /\ (k \in GivenUpCharges' => k \in GivenUpCharges)
  <2>1. IsPending(r) /\ IsPending(r)' /\ UNCHANGED rejected
    BY <1>1, <1>7 DEF NotifiedCharges, Charges
  <2> QED BY <1>1, <2>1 DEF PendingCharges, GivenUpCharges, Charges
<1>8. k \in GivenUpCharges' /\ k \notin GivenUpCharges => k \in PendingCharges
  BY <1>1 DEF GivenUpCharges, PendingCharges, Charges
<1>9. k \in PendingCharges /\ k \notin PendingCharges' => k \in NotifiedCharges \/ k \in GivenUpCharges'
  BY <1>1 DEF NotifiedCharges, PendingCharges, GivenUpCharges, Charges
<1> HIDE DEF k
<1> QED BY <1>1, <1>2, <1>3, <1>4, <1>5, <1>6, <1>7, <1>8, <1>9, OneChargeMoves

\* No message moves: a row that is new has none.
LEMMA NoMessageMoves ==
  ASSUME ReminderInv, ReminderInv', RowsKept, UNCHANGED <<sends, notifier, delivered, dead, rejected>>
  PROVE  NotificationStep
<1>1. /\ \A r \in ReminderRows : (IsPending(r)' <=> IsPending(r)) /\ (r \in dead' <=> r \in dead)
      /\ rejected' = rejected /\ rejected \subseteq DOMAIN reminder
  BY DEF IsPending, ReminderInv, SendsTyped
<1>2. \A r \in ReminderRows : IsPending(r) => r \in DOMAIN reminder
  BY PendingIsRow
<1>3. /\ DOMAIN reminder \subseteq DOMAIN reminder' /\ DOMAIN reminder' \subseteq ReminderRows
      /\ \A r \in DOMAIN reminder : Charge(r)' = Charge(r)
  BY DEF RowsKept, ReminderInv, RemindersTyped
<1>4. \A r \in dead : IsPending(r)
  BY DEF IsPending
<1>5. PendingCharges' = PendingCharges
  <2>1. \A c \in Charges : c \in PendingCharges' <=> c \in PendingCharges
    BY <1>1, <1>2, <1>3 DEF PendingCharges, Charges
  <2> QED BY <2>1 DEF PendingCharges, Charges
<1>6. NotifiedCharges' = NotifiedCharges
  <2>1. \A c \in Charges : c \in NotifiedCharges' <=> c \in NotifiedCharges
    BY <1>1, <1>2, <1>3, <1>4 DEF NotifiedCharges, Charges
  <2> QED BY <2>1 DEF NotifiedCharges, Charges
<1>7. GivenUpCharges' = GivenUpCharges
  <2>1. \A c \in Charges : c \in GivenUpCharges' <=> c \in GivenUpCharges
    BY <1>1, <1>3 DEF GivenUpCharges, Charges
  <2> QED BY <2>1 DEF GivenUpCharges, Charges
<1> QED BY <1>5, <1>6, <1>7 DEF NotificationStep, Notification!vars

LEMMA ScanNotifies ==
  ASSUME AccountedInv, AccountedInv', NEW s \in Scanners, ScanStep(s)
  PROVE  NotificationStep
<1>0. ReminderInv /\ ReminderInv'
  BY DEF AccountedInv
<1>1. ASSUME NEW r \in ReminderRows, PublishSend(s, r) PROVE NotificationStep
  <2>1. /\ UNCHANGED <<reminder, notifier, delivered, dead, rejected>> /\ r \in scan[s].todo
        /\ sends' = [sends EXCEPT ![r] = @ + 1]
    BY <1>1 DEF PublishSend, planning, notifying
  <2>2. r \in DOMAIN reminder
    BY <1>0, <2>1, ReminderTypesOf DEF ReminderTypeOK
  <2>3. sends'[r] > 0 /\ \A q \in ReminderRows \ {r} : sends'[q] = sends[q]
    BY <1>0, <2>1 DEF ReminderInv, SendsTyped
  <2>4. IsPending(r)'
    BY <2>3 DEF IsPending
  <2>5. \A q \in DOMAIN reminder \ {r} : IsPending(q)' <=> IsPending(q)
    BY <1>0, <2>1, <2>3, ChargeTyped DEF IsPending
  <2>6. OthersStay(r) /\ DeliveredKept
    BY <2>1, <2>5 DEF OthersStay, RowStays, DeliveredKept
  <2> QED BY <1>0, <2>1, <2>2, <2>4, <2>6, OneRowMoves
<1>2. ASSUME UNCHANGED <<sends, notifier, delivered, dead, rejected>>, RowsKept PROVE NotificationStep
  BY <1>0, <1>2, NoMessageMoves
<1>3. ASSUME NEW due \in SUBSET ReminderRows, SelectDue(s, due) PROVE NotificationStep
  BY <1>2, <1>3 DEF SelectDue, planning, notifying, RowsKept, Charge
<1>4. ASSUME NEW r \in ReminderRows, MarkQueued(s, r) PROVE NotificationStep
  BY <1>2, <1>4 DEF MarkQueued, planning, notifying, RowsKept, Charge
<1>5. CASE CommitScan(s)
  BY <1>0, <1>2, <1>5, CommitScanTyped DEF CommitScan, notifying
<1>6. CASE ScanFails(s)
  BY <1>2, <1>6 DEF ScanFails, planning, notifying, RowsKept, Charge
<1> QED BY <1>1, <1>3, <1>4, <1>5, <1>6 DEF ScanStep

\* A notifier works on its row, or on none for a test.
LEMMA NotifierNotifies ==
  ASSUME AccountedInv, AccountedInv', NEW n \in Notifiers, NotifyStep(n)
  PROVE  NotificationStep
<1>0. ReminderInv /\ ReminderInv'
  BY DEF AccountedInv
<1>r. PICK r : r = notifier[n].reminder
  OBVIOUS
<1>a. r # NoReminder => r \in DOMAIN reminder /\ r \in ReminderRows /\ Charge(r) \in Charges
  BY <1>0, <1>r, NotifierOf, ChargeTyped
<1>b. r # NoReminder => IsPending(r)
  BY <1>r DEF IsPending
<1>c. \A q \in DOMAIN reminder : q \in ReminderRows /\ q # NoReminder
  BY <1>0, ChargeTyped, ReminderAssumption
<1>d. ASSUME OthersNotifier(n), notifier'[n].reminder \in {r, NoReminder}
      PROVE  \A q \in DOMAIN reminder : q # r =>
                ((\E m \in Notifiers : notifier'[m].reminder = q) <=> (\E m \in Notifiers : notifier[m].reminder = q))
  <2> SUFFICES ASSUME NEW q \in DOMAIN reminder, q # r
               PROVE  (\E m \in Notifiers : notifier'[m].reminder = q) <=> (\E m \in Notifiers : notifier[m].reminder = q)
    OBVIOUS
  <2>1. notifier'[n].reminder # q /\ notifier[n].reminder # q
    BY <1>c, <1>d, <1>r
  <2>2. \A m \in Notifiers : m # n => notifier'[m] = notifier[m]
    BY <1>d DEF OthersNotifier
  <2> QED BY <2>1, <2>2
<1>e. ASSUME OthersNotifier(n), notifier'[n].reminder = r
      PROVE  \A q \in DOMAIN reminder :
                (\E m \in Notifiers : notifier'[m].reminder = q) <=> (\E m \in Notifiers : notifier[m].reminder = q)
  <2>1. \A m \in Notifiers : notifier'[m].reminder = notifier[m].reminder
    BY <1>e, <1>r DEF OthersNotifier
  <2> QED BY <2>1
<1>1. ASSUME NEW q \in ReminderRows, ReceiveSend(n, q) PROVE NotificationStep
  <2>1. /\ OthersNotifier(n) /\ notifier'[n].reminder = q /\ r = NoReminder
    BY <1>0, <1>1, <1>r, ReceiveSendTyped, NotifierOf
  <2>2. /\ UNCHANGED <<reminder, delivered, dead, rejected>> /\ sends[q] > 0
        /\ sends' = [sends EXCEPT ![q] = @ - 1]
    BY <1>1 DEF ReceiveSend, planning
  <2>3. IsPending(q) /\ IsPending(q)'
    BY <2>1, <2>2 DEF IsPending
  <2>4. q \in DOMAIN reminder
    BY <1>0, <2>3, PendingIsRow
  <2>5. \A p \in DOMAIN reminder \ {q} : sends'[p] = sends[p]
    BY <1>0, <1>c, <2>2 DEF ReminderInv, SendsTyped
  <2>6. ASSUME NEW p \in DOMAIN reminder \ {q} PROVE IsPending(p)' <=> IsPending(p)
    <3>1. notifier'[n].reminder # p /\ notifier[n].reminder # p
      BY <1>c, <1>r, <2>1
    <3>2. \A m \in Notifiers : m # n => notifier'[m] = notifier[m]
      BY <2>1 DEF OthersNotifier
    <3> QED BY <2>2, <2>5, <3>1, <3>2 DEF IsPending
  <2>7. OthersStay(q) /\ DeliveredKept
    BY <2>2, <2>6 DEF OthersStay, RowStays, DeliveredKept
  <2> QED BY <1>0, <2>2, <2>3, <2>4, <2>7, OneRowMoves
<1>2. ASSUME OthersNotifier(n), notifier'[n].reminder = r, UNCHANGED <<reminder, sends, delivered, dead, rejected>>
      PROVE  NotificationStep
  <2>1. \A q \in DOMAIN reminder : IsPending(q)' <=> IsPending(q)
    BY <1>2, <1>e DEF IsPending
  <2>2. \A q \in DOMAIN reminder : Charge(q)' = Charge(q)
    BY <1>2 DEF Charge
  <2>3. /\ PendingCharges' = PendingCharges /\ NotifiedCharges' = NotifiedCharges
        /\ GivenUpCharges' = GivenUpCharges
    BY <1>2, <2>1, <2>2 DEF PendingCharges, NotifiedCharges, GivenUpCharges, Charges
  <2> QED BY <2>3 DEF NotificationStep, Notification!vars
<1>3. CASE TestSend(n)
  <2>1. /\ OthersNotifier(n) /\ notifier'[n].reminder = NoReminder /\ r = NoReminder
    BY <1>0, <1>3, <1>r, TestSendTyped, NotifierOf DEF TestSend, Waiting, ReminderInv, NotifiersTyped
  <2> QED BY <1>2, <1>3, <2>1 DEF TestSend, planning
<1>4. CASE Push(n)
  <2>1. OthersNotifier(n) /\ notifier'[n].reminder = r
    BY <1>0, <1>4, <1>r, PushTyped
  <2> QED BY <1>2, <1>4, <2>1 DEF Push, planning
<1>5. CASE CommitDelivery(n)
  <2>1. /\ OthersNotifier(n) /\ notifier'[n].reminder = r
        /\ \A c \in Charges :
              IF r # NoReminder /\ Charge(r) = c
              THEN Len(delivered'[c]) = Len(delivered[c]) + 1 /\ delivered'[c] # <<>>
              ELSE delivered'[c] = delivered[c]
    BY <1>0, <1>5, <1>r, CommitDeliveryTyped
  <2>2. UNCHANGED <<reminder, sends, dead, rejected>>
    BY <1>5 DEF CommitDelivery, planning
  <2>3. CASE r = NoReminder
    BY <1>2, <1>5, <2>1, <2>2, <2>3 DEF CommitDelivery
  <2>4. CASE r # NoReminder
    <3>1. \A q \in DOMAIN reminder : IsPending(q)' <=> IsPending(q)
      BY <1>e, <2>1, <2>2 DEF IsPending
    <3>2. OthersStay(r) /\ DeliveredKept
      BY <2>1, <2>2, <3>1 DEF OthersStay, RowStays, DeliveredKept
    <3> QED BY <1>0, <1>a, <1>b, <2>2, <2>4, <3>1, <3>2, OneRowMoves
  <2> QED BY <2>3, <2>4
<1>6. CASE Acknowledge(n)
  <2>1. OthersNotifier(n) /\ notifier[n].at = "stored" /\ notifier'[n].reminder = NoReminder
    BY <1>0, <1>6, AcknowledgeTyped, NotifierOf DEF Acknowledge, Waiting, ReminderInv, NotifiersTyped
  <2>2. UNCHANGED <<reminder, sends, dead, rejected, delivered>>
    BY <1>6 DEF Acknowledge, planning
  <2>3. CASE r = NoReminder
    BY <1>2, <2>1, <2>2, <2>3
  <2>4. CASE r # NoReminder
    <3>1. delivered[Charge(r)] # <<>>
      BY <1>a, <1>r, <2>1, <2>4 DEF AccountedInv, StoredDelivered
    <3>2. \A q \in DOMAIN reminder \ {r} : IsPending(q)' <=> IsPending(q)
      BY <1>d, <2>1, <2>2 DEF IsPending
    <3>3. OthersStay(r) /\ DeliveredKept
      BY <2>2, <3>2 DEF OthersStay, RowStays, DeliveredKept
    <3> QED BY <1>0, <1>a, <2>2, <2>4, <3>1, <3>3, OneRowMoves
  <2> QED BY <2>3, <2>4
<1>7. CASE DeliveryFails(n)
  <2>1. /\ OthersNotifier(n) /\ notifier'[n].reminder = NoReminder
        /\ Redelivered(n) \/ DeadLettered(n) \/ RejectedOnFailure(n) \/ TestDropped(n)
    BY <1>0, <1>7, DeliveryFailsTyped DEF DeliveryFails, Waiting, ReminderInv, NotifiersTyped
  <2>2. UNCHANGED <<reminder, delivered>> /\ sends \in [ReminderRows -> Nat]
    BY <1>0, <1>7 DEF DeliveryFails, planning, ReminderInv, SendsTyped
  <2>3. CASE r = NoReminder
    BY <1>2, <1>r, <2>1, <2>2, <2>3 DEF TestDropped, Redelivered, DeadLettered, RejectedOnFailure
  <2>4. CASE r # NoReminder
    <3>1. /\ sends'[r] > 0 \/ r \in dead' \/ r \in rejected'
          /\ r \in dead' /\ r \notin dead => UNCHANGED rejected
          /\ dead \subseteq dead' /\ rejected \subseteq rejected'
          /\ \A q \in ReminderRows \ {r} :
                sends'[q] = sends[q] /\ (q \in dead' <=> q \in dead) /\ (q \in rejected' <=> q \in rejected)
      BY <1>a, <1>r, <2>1, <2>2, <2>4 DEF TestDropped, Redelivered, DeadLettered, RejectedOnFailure
    <3>2. /\ IsPending(r)' \/ r \in rejected'
          /\ r \in dead' => IsPending(r)'
      BY <3>1 DEF IsPending
    <3>3. \A q \in DOMAIN reminder \ {r} : RowStays(q)
      BY <1>c, <1>d, <2>1, <3>1 DEF IsPending, RowStays
    <3>4. OthersStay(r) /\ DeliveredKept
      BY <2>2, <3>3 DEF OthersStay, RowStays, DeliveredKept
    <3>5. r \in DOMAIN reminder /\ IsPending(r)
      BY <1>a, <1>b, <2>4
    <3>6. UNCHANGED reminder /\ UNCHANGED delivered /\ dead \subseteq dead' /\ rejected \subseteq rejected'
      BY <2>2, <3>1
    <3> QED BY <1>0, <3>1, <3>2, <3>4, <3>5, <3>6, OneRowMoves
  <2> QED BY <2>3, <2>4
<1> QED BY <1>1, <1>3, <1>4, <1>5, <1>6, <1>7 DEF NotifyStep

LEMMA PlanNotifies ==
  ASSUME AccountedInv, AccountedInv', PlanStep
  PROVE  NotificationStep
<1>0. ReminderInv /\ ReminderInv'
  BY DEF AccountedInv
<1>1. UNCHANGED <<sends, notifier, delivered, dead, rejected>>
  BY DEF PlanStep, Plan, PlanCharge, CommitPlan, PlanFails, Schedule, notifying
<1>2. RowsKept
  <2>1. ASSUME NEW p \in Planners, NEW rows \in SUBSET FreeRows, CommitPlan(p, rows) PROVE RowsKept
    BY <1>0, <2>1, CommitPlanTyped
  <2>2. ASSUME NEW r \in ReminderRows, NEW due \in Dues, Schedule(r, due) PROVE RowsKept
    BY <1>0, <2>2, ScheduleTyped
  <2>3. UNCHANGED reminder => RowsKept
    BY DEF RowsKept, Charge
  <2> QED BY <2>1, <2>2, <2>3 DEF PlanStep, Plan, PlanCharge, PlanFails
<1> QED BY <1>0, <1>1, <1>2, NoMessageMoves

LEMMA ReminderNextNotifies ==
  AccountedInv /\ AccountedInv' /\ [ReminderNext]_<<expenseVars, reminderVars>> => NotificationStep
<1> SUFFICES ASSUME AccountedInv, AccountedInv', [ReminderNext]_<<expenseVars, reminderVars>>
             PROVE  NotificationStep
  OBVIOUS
<1>0. ReminderInv /\ ReminderInv'
  BY DEF AccountedInv
<1>1. ASSUME UNCHANGED <<reminder, sends, notifier, delivered, dead, rejected>> PROVE NotificationStep
  BY <1>0, <1>1, NoMessageMoves DEF RowsKept, Charge
<1>2. CASE UNCHANGED reminderVars
  BY <1>1, <1>2 DEF reminderVars, planning, notifying
<1>3. CASE SetUpPush
  BY <1>1, <1>3 DEF SetUpPush, SetPermission, SaveDevice, planning
<1> QED BY <1>2, <1>3, PlanNotifies, ScanNotifies, NotifierNotifies DEF ReminderNext

\* The bus, scheduler_service and notification_service together keep the
\* promise of BackgroundTask for the notification about each charge: once its
\* message is published it stays somebody's to handle until a delivery or a dead
\* letter is on record, whatever scans and notifiers fail on the way; it is given
\* up only by a failed publish of its own retry or dead letter.
THEOREM NotificationsAreTasks == ReminderSpec => Notification!Spec
<1>1. ReminderInit => Notification!Init
  <2> SUFFICES ASSUME ReminderInit PROVE Notification!Init
    OBVIOUS
  <2>1. DOMAIN reminder = {} /\ \A c \in Charges : delivered[c] = <<>>
    BY DEF ReminderInit
  <2>2. PendingCharges = {} /\ NotifiedCharges = {} /\ GivenUpCharges = {}
    BY <2>1 DEF PendingCharges, NotifiedCharges, GivenUpCharges
  <2> QED BY <2>2 DEF Notification!Init
<1> QED BY <1>1, InitAccounted, ReminderNextAccounted, ReminderNextNotifies, PTL
        DEF ReminderSpec, NotificationStep, Notification!Spec

-----------------------------------------------------------------------------
(* How often a charge is delivered *)

\* The deliveries of a charge still to come: the copies of its messages in the
\* queue, the notifiers about to store one, the rows no scan has published, the
\* scans that selected a row which another has committed meanwhile, and the
\* plannings that have found no row.
RowsOf(c) == {r \in DOMAIN reminder : Charge(r) = c}
CopiesOf(c) == {k \in ReminderRows \X (Nat \ {0}) : k[1] \in RowsOf(c) /\ k[2] <= sends[k[1]]}
Delivering(c) == {n \in Notifiers : notifier[n].at \in {"delivering", "pushed"} /\ notifier[n].reminder \in RowsOf(c)}
Unpublished(c) ==
    {r \in ReminderRows : r \in RowsOf(c) /\ reminder[r].status = "planned" /\ \A s \in Scanners : r \notin Begun(scan[s])}
Belated(c) ==
    {k \in Scanners \X ReminderRows :
        k[2] \in RowsOf(c) /\ reminder[k[2]].status = "queued" /\ k[2] \in scan[k[1]].todo}
Missing(c) == {p \in Planners : c \in planner[p].new}
Expected(c) == IF RowsOf(c) = {} THEN 1 ELSE Cardinality(Missing(c))

CopiesFinite == \A c \in Charges : IsFiniteSet(CopiesOf(c))
WithinBudget(c) ==
    Len(delivered[c]) + Cardinality(CopiesOf(c)) + Cardinality(Delivering(c)) + Cardinality(Unpublished(c))
        + Cardinality(Belated(c)) + Expected(c) <= 1 + repeats[c]
BudgetInv == ReminderInv /\ CopiesFinite /\ \A c \in Charges : c[1] # Manual => WithinBudget(c)

\* Everything counted is finite.
Counted(c) ==
    /\ IsFiniteSet(CopiesOf(c)) /\ Cardinality(CopiesOf(c)) \in Nat
    /\ IsFiniteSet(Delivering(c)) /\ Cardinality(Delivering(c)) \in Nat
    /\ IsFiniteSet(Unpublished(c)) /\ Cardinality(Unpublished(c)) \in Nat
    /\ IsFiniteSet(Belated(c)) /\ Cardinality(Belated(c)) \in Nat
    /\ IsFiniteSet(Missing(c)) /\ Cardinality(Missing(c)) \in Nat
    /\ Expected(c) \in Nat /\ Len(delivered[c]) \in Nat /\ repeats[c] \in Nat

LEMMA EachCounted ==
  ASSUME ReminderInv, CopiesFinite, NEW c \in Charges
  PROVE  Counted(c)
<1>1. IsFiniteSet(CopiesOf(c)) /\ Cardinality(CopiesOf(c)) \in Nat
  BY FS_CardinalityType DEF CopiesFinite
<1>2. IsFiniteSet(Delivering(c)) /\ Cardinality(Delivering(c)) \in Nat
  <2>1. Delivering(c) \subseteq Notifiers
    BY DEF Delivering
  <2> QED BY <2>1, FiniteThreads, FiniteSubset
<1>3. IsFiniteSet(Unpublished(c)) /\ Cardinality(Unpublished(c)) \in Nat
  <2>1. Unpublished(c) \subseteq ReminderRows
    BY DEF Unpublished
  <2> QED BY <2>1, FiniteThreads, FiniteSubset
<1>4. IsFiniteSet(Belated(c)) /\ Cardinality(Belated(c)) \in Nat
  <2>1. Belated(c) \subseteq Scanners \X ReminderRows
    BY DEF Belated
  <2>2. IsFiniteSet(Scanners \X ReminderRows)
    BY FiniteThreads, FS_Product
  <2> QED BY <2>1, <2>2, FiniteSubset
<1>5. IsFiniteSet(Missing(c)) /\ Cardinality(Missing(c)) \in Nat
  <2>1. Missing(c) \subseteq Planners
    BY DEF Missing
  <2> QED BY <2>1, FiniteThreads, FiniteSubset
<1>6. Expected(c) \in Nat
  BY <1>5 DEF Expected
<1>7. Len(delivered[c]) \in Nat /\ repeats[c] \in Nat
  BY DEF ReminderInv, DeliveriesTyped, OutcomeLists
<1> QED BY <1>1, <1>2, <1>3, <1>4, <1>5, <1>6, <1>7 DEF Counted

LEMMA AllCounted == ReminderInv /\ CopiesFinite => \A c \in Charges : Counted(c)
BY EachCounted

LEMMA AllCountedNext == ReminderInv' /\ CopiesFinite' => (\A c \in Charges : Counted(c))'
BY AllCounted, PTL

\* What is counted grows by one, or by as much as is added.
LEMMA OneMoreCounted ==
  ASSUME NEW S, NEW T, NEW x, IsFiniteSet(S), T = S \union {x}, x \notin S
  PROVE  IsFiniteSet(T) /\ Cardinality(T) = Cardinality(S) + 1
BY FS_AddElement

LEMMA OneLessCounted ==
  ASSUME NEW S, NEW T, NEW x, IsFiniteSet(S), T = S \ {x}, x \in S
  PROVE  IsFiniteSet(T) /\ Cardinality(T) = Cardinality(S) - 1
BY FS_RemoveElement

LEMMA OneRemoved ==
  ASSUME NEW S, NEW T, NEW x, IsFiniteSet(S), T = S \ {x}
  PROVE  /\ Cardinality(T) <= Cardinality(S) + 0
         /\ x \in S => Cardinality(T) <= Cardinality(S) + (-1)
<1>1. Cardinality(T) = IF x \in S THEN Cardinality(S) - 1 ELSE Cardinality(S)
  BY FS_RemoveElement
<1>2. Cardinality(S) \in Nat
  BY FS_CardinalityType
<1> QED BY <1>1, <1>2

LEMMA NoneAdded ==
  ASSUME NEW S, NEW T, IsFiniteSet(S), T \subseteq S
  PROVE  Cardinality(T) <= Cardinality(S) + 0
<1>1. Cardinality(T) <= Cardinality(S) /\ Cardinality(T) \in Nat /\ Cardinality(S) \in Nat
  BY FiniteSubset, FS_CardinalityType
<1> QED BY <1>1

LEMMA AtMostAdded ==
  ASSUME NEW S, NEW T, NEW U, IsFiniteSet(S), IsFiniteSet(U), T \subseteq S \union U
  PROVE  Cardinality(T) <= Cardinality(S) + Cardinality(U)
<1>1. IsFiniteSet(S \union U) /\ Cardinality(S \union U) = Cardinality(S) + Cardinality(U) - Cardinality(S \cap U)
  BY FS_Union
<1>2. Cardinality(T) <= Cardinality(S \union U) /\ Cardinality(T) \in Nat /\ Cardinality(S \union U) \in Nat
  BY <1>1, FiniteSubset, FS_CardinalityType
<1>3. IsFiniteSet(S \cap U)
  BY FS_Intersection
<1>4. Cardinality(S) \in Nat /\ Cardinality(U) \in Nat /\ Cardinality(S \cap U) \in Nat
  BY <1>3, FS_CardinalityType
<1> QED BY <1>1, <1>2, <1>4

\* By how much each count of a charge changes, at most, and repeats, at least.
Changes(c, l, q, d, u, b, e, r) ==
    /\ Len(delivered'[c]) <= Len(delivered[c]) + l
    /\ Cardinality(CopiesOf(c)') <= Cardinality(CopiesOf(c)) + q
    /\ Cardinality(Delivering(c)') <= Cardinality(Delivering(c)) + d
    /\ Cardinality(Unpublished(c)') <= Cardinality(Unpublished(c)) + u
    /\ Cardinality(Belated(c)') <= Cardinality(Belated(c)) + b
    /\ Expected(c)' <= Expected(c) + e
    /\ repeats'[c] >= repeats[c] + r

Kept(c, l, q, d, u, b, e, r) ==
    /\ l \in Int /\ q \in Int /\ d \in Int /\ u \in Int /\ b \in Int /\ e \in Int /\ r \in Int
    /\ Changes(c, l, q, d, u, b, e, r)
    /\ l + q + d + u + b + e <= r

\* A step that counts no more of a charge than what it adds to repeats.
LEMMA BudgetKept ==
  ASSUME BudgetInv, ReminderInv', CopiesFinite', NEW c \in Charges, c[1] # Manual,
         NEW l, NEW q, NEW d, NEW u, NEW b, NEW e, NEW r, Kept(c, l, q, d, u, b, e, r)
  PROVE  WithinBudget(c)'
<1>0. /\ l \in Int /\ q \in Int /\ d \in Int /\ u \in Int /\ b \in Int /\ e \in Int /\ r \in Int
      /\ Changes(c, l, q, d, u, b, e, r) /\ l + q + d + u + b + e <= r
  BY DEF Kept
<1> DEFINE l0 == Len(delivered[c])           l1 == Len(delivered'[c])
           q0 == Cardinality(CopiesOf(c))    q1 == Cardinality(CopiesOf(c)')
           d0 == Cardinality(Delivering(c))  d1 == Cardinality(Delivering(c)')
           u0 == Cardinality(Unpublished(c)) u1 == Cardinality(Unpublished(c)')
           b0 == Cardinality(Belated(c))     b1 == Cardinality(Belated(c)')
           e0 == Expected(c)                 e1 == Expected(c)'
           r0 == repeats[c]                  r1 == repeats'[c]
<1>1. l0 \in Nat /\ q0 \in Nat /\ d0 \in Nat /\ u0 \in Nat /\ b0 \in Nat /\ e0 \in Nat /\ r0 \in Nat
  BY AllCounted DEF BudgetInv, Counted
<1>2. l1 \in Nat /\ q1 \in Nat /\ d1 \in Nat /\ u1 \in Nat /\ b1 \in Nat /\ e1 \in Nat /\ r1 \in Nat
  <2>1. Counted(c)'
    BY AllCountedNext
  <2> QED BY <2>1 DEF Counted
<1>3. l0 + q0 + d0 + u0 + b0 + e0 <= 1 + r0
  BY DEF BudgetInv, WithinBudget
<1>4. /\ l1 <= l0 + l /\ q1 <= q0 + q /\ d1 <= d0 + d /\ u1 <= u0 + u /\ b1 <= b0 + b /\ e1 <= e0 + e
      /\ r1 >= r0 + r
  BY <1>0 DEF Changes
<1>5. WithinBudget(c)' <=> l1 + q1 + d1 + u1 + b1 + e1 <= 1 + r1
  BY DEF WithinBudget
<1> HIDE DEF l0, q0, d0, u0, b0, e0, r0, l1, q1, d1, u1, b1, e1, r1
<1>6. l1 + q1 + d1 + u1 + b1 + e1 <= 1 + r1
  BY <1>0, <1>1, <1>2, <1>3, <1>4
<1> QED BY <1>5, <1>6

\* What stays while rows are added: a new row is in no queue, at no notifier and
\* in no scan.
LEMMA RowsOfKept ==
  ASSUME RowsKept, NEW c
  PROVE  RowsOf(c) \subseteq RowsOf(c)' /\ \A r \in DOMAIN reminder : r \in RowsOf(c)' <=> r \in RowsOf(c)
BY DEF RowsKept, RowsOf

LEMMA CopiesStay ==
  ASSUME ReminderInv, RowsKept, UNCHANGED sends, NEW c
  PROVE  CopiesOf(c)' = CopiesOf(c)
<1>1. \A k \in ReminderRows \X (Nat \ {0}) : k[2] <= sends[k[1]] => k[1] \in DOMAIN reminder
  <2> SUFFICES ASSUME NEW r \in ReminderRows, NEW i \in Nat \ {0}, i <= sends[r] PROVE r \in DOMAIN reminder
    OBVIOUS
  <2>1. sends[r] \in Nat /\ (sends[r] > 0 => r \in DOMAIN reminder)
    BY DEF ReminderInv, SendsTyped
  <2> QED BY <2>1
<1>2. \A k \in ReminderRows \X (Nat \ {0}) : k[2] <= sends[k[1]] => (k[1] \in RowsOf(c)' <=> k[1] \in RowsOf(c))
  BY <1>1, RowsOfKept
<1> QED BY <1>2 DEF CopiesOf

LEMMA CopiesStayFinite ==
  ASSUME BudgetInv, RowsKept, UNCHANGED sends
  PROVE  CopiesFinite'
BY CopiesStay DEF BudgetInv, CopiesFinite

LEMMA DeliveringStays ==
  ASSUME ReminderInv, ReminderInv', RowsKept, UNCHANGED notifier, NEW c
  PROVE  Delivering(c)' = Delivering(c)
<1>1. NoReminder \notin RowsOf(c) /\ NoReminder \notin RowsOf(c)'
  BY ReminderAssumption DEF RowsOf, ReminderInv, RemindersTyped
<1>2. \A n \in Notifiers : notifier[n].reminder \in DOMAIN reminder \union {NoReminder}
  BY NotifierOf
<1>3. \A r \in DOMAIN reminder : r \in RowsOf(c)' <=> r \in RowsOf(c)
  BY RowsOfKept
<1>4. \A n \in Notifiers : notifier[n].reminder \in RowsOf(c)' <=> notifier[n].reminder \in RowsOf(c)
  BY <1>1, <1>2, <1>3
<1> QED BY <1>4 DEF Delivering

LEMMA UnpublishedStays ==
  ASSUME UNCHANGED reminder, \A s \in Scanners : Begun(scan'[s]) = Begun(scan[s]), NEW c
  PROVE  Unpublished(c)' = Unpublished(c)
<1>1. RowsOf(c)' = RowsOf(c)
  BY DEF RowsOf, Charge
<1> QED BY <1>1 DEF Unpublished, Begun

LEMMA BelatedStays ==
  ASSUME UNCHANGED reminder, \A s \in Scanners : scan'[s].todo = scan[s].todo, NEW c
  PROVE  Belated(c)' = Belated(c)
<1>1. RowsOf(c)' = RowsOf(c)
  BY DEF RowsOf, Charge
<1> QED BY <1>1 DEF Belated

LEMMA ExpectedStays ==
  ASSUME UNCHANGED <<reminder, planner>>, NEW c
  PROVE  Expected(c)' = Expected(c)
BY DEF Expected, RowsOf, Charge, Missing

\* Nothing that is counted moves, but for plannings that find fewer missing.
LEMMA CalmBudget ==
  ASSUME BudgetInv, ReminderInv', UNCHANGED <<reminder, sends, notifier, delivered, repeats>>,
         \A s \in Scanners : scan'[s].todo = scan[s].todo /\ Begun(scan'[s]) = Begun(scan[s]),
         \A c \in Charges : RowsOf(c) # {} => Missing(c)' \subseteq Missing(c)
  PROVE  BudgetInv'
<1>1. RowsKept
  BY DEF RowsKept, Charge
<1>2. CopiesFinite'
  BY <1>1, CopiesStayFinite
<1>3. ASSUME NEW c \in Charges, c[1] # Manual PROVE WithinBudget(c)'
  <2>1. Counted(c)
    BY AllCounted DEF BudgetInv
  <2>2. CopiesOf(c)' = CopiesOf(c) /\ Delivering(c)' = Delivering(c)
    BY <1>1, CopiesStay, DeliveringStays DEF BudgetInv
  <2>3. Unpublished(c)' = Unpublished(c) /\ Belated(c)' = Belated(c)
    BY UnpublishedStays, BelatedStays
  <2>4. Expected(c)' <= Expected(c)
    <3>1. RowsOf(c)' = RowsOf(c)
      BY DEF RowsOf, Charge
    <3>2. RowsOf(c) # {} => Cardinality(Missing(c)') <= Cardinality(Missing(c))
      BY <2>1, FiniteSubset DEF Counted
    <3> QED BY <3>1, <3>2 DEF Expected
  <2>5. Changes(c, 0, 0, 0, 0, 0, 0, 0)
    <3>1. Len(delivered'[c]) <= Len(delivered[c]) + 0 /\ repeats'[c] >= repeats[c] + 0
      BY <2>1 DEF Counted
    <3>2. Cardinality(CopiesOf(c)') <= Cardinality(CopiesOf(c)) + 0
      BY <2>1, <2>2 DEF Counted
    <3>3. Cardinality(Delivering(c)') <= Cardinality(Delivering(c)) + 0
      BY <2>1, <2>2 DEF Counted
    <3>4. Cardinality(Unpublished(c)') <= Cardinality(Unpublished(c)) + 0
      BY <2>1, <2>3 DEF Counted
    <3>5. Cardinality(Belated(c)') <= Cardinality(Belated(c)) + 0
      BY <2>1, <2>3 DEF Counted
    <3>6. Expected(c)' <= Expected(c) + 0
      BY <2>1, <2>4 DEF Counted
    <3> QED BY <3>1, <3>2, <3>3, <3>4, <3>5, <3>6 DEF Changes
  <2>6. Kept(c, 0, 0, 0, 0, 0, 0, 0)
    BY <2>5 DEF Kept
  <2> QED BY <1>2, <1>3, <2>6, BudgetKept
<1> QED BY <1>2, <1>3 DEF BudgetInv

\* A scan's step: what notifiers and plannings count stays.
ScanChanges(c, q, u, b, r) ==
    /\ Cardinality(CopiesOf(c)') <= Cardinality(CopiesOf(c)) + q
    /\ Cardinality(Unpublished(c)') <= Cardinality(Unpublished(c)) + u
    /\ Cardinality(Belated(c)') <= Cardinality(Belated(c)) + b
    /\ repeats'[c] >= repeats[c] + r

LEMMA ScanBudget ==
  ASSUME BudgetInv, ReminderInv', CopiesFinite', NEW c \in Charges, c[1] # Manual,
         RowsKept, DOMAIN reminder' = DOMAIN reminder, UNCHANGED <<planner, notifier, delivered>>,
         NEW q \in Int, NEW u \in Int, NEW b \in Int, NEW r \in Int,
         ScanChanges(c, q, u, b, r), q + u + b <= r
  PROVE  WithinBudget(c)'
<1>1. Counted(c)
  BY AllCounted DEF BudgetInv
<1>2. Delivering(c)' = Delivering(c)
  BY DeliveringStays DEF BudgetInv
<1>3. RowsOf(c)' = RowsOf(c)
  <2>1. RowsOf(c)' \subseteq DOMAIN reminder /\ RowsOf(c) \subseteq DOMAIN reminder
    BY DEF RowsOf
  <2> QED BY <2>1, RowsOfKept
<1>4. Expected(c)' = Expected(c)
  BY <1>3 DEF Expected, Missing
<1>5. Len(delivered'[c]) <= Len(delivered[c]) + 0
  BY <1>1 DEF Counted
<1>6. Cardinality(Delivering(c)') <= Cardinality(Delivering(c)) + 0
  BY <1>1, <1>2, NoneAdded DEF Counted
<1>7. Expected(c)' <= Expected(c) + 0
  <2>1. Expected(c) \in Nat
    BY <1>1 DEF Counted
  <2>2. Expected(c) <= Expected(c) + 0
    BY <2>1
  <2> QED BY <1>4, <2>2
<1>8. Changes(c, 0, q, 0, u, b, 0, r)
  BY <1>5, <1>6, <1>7 DEF Changes, ScanChanges
<1>9. Kept(c, 0, q, 0, u, b, 0, r)
  BY <1>8 DEF Kept
<1> QED BY <1>9, BudgetKept

LEMMA MarkQueuedBudget ==
  ASSUME BudgetInv, NEW s \in Scanners, NEW r \in ReminderRows, MarkQueued(s, r)
  PROVE  BudgetInv'
<1>1. /\ ReminderInv' /\ OthersScan(s)
      /\ scan'[s].todo = scan[s].todo /\ Begun(scan'[s]) = Begun(scan[s])
  BY MarkQueuedTyped DEF BudgetInv
<1>2. UNCHANGED <<reminder, sends, notifier, delivered, repeats>> /\ UNCHANGED planner
  BY DEF MarkQueued, planning, notifying
<1>3. \A q \in Scanners : scan'[q].todo = scan[q].todo /\ Begun(scan'[q]) = Begun(scan[q])
  BY <1>1 DEF OthersScan
<1>4. \A c \in Charges : Missing(c)' = Missing(c)
  BY <1>2 DEF Missing
<1> QED BY <1>1, <1>2, <1>3, <1>4, CalmBudget

LEMMA SelectDueBudget ==
  ASSUME BudgetInv, NEW s \in Scanners, NEW due \in SUBSET ReminderRows, SelectDue(s, due)
  PROVE  BudgetInv'
<1>1. /\ ReminderInv' /\ OthersScan(s)
      /\ Begun(scan[s]) = {} /\ Begun(scan'[s]) = {}
      /\ \A r \in scan'[s].todo : reminder[r].status = "planned"
  BY SelectDueTyped DEF BudgetInv
<1>2. UNCHANGED reminder /\ UNCHANGED sends /\ UNCHANGED <<planner, notifier, delivered>> /\ UNCHANGED repeats
  BY DEF SelectDue, planning, notifying
<1>3. RowsKept
  BY <1>2 DEF RowsKept, Charge
<1>4. CopiesFinite'
  BY <1>2, <1>3, CopiesStayFinite
<1>5. ASSUME NEW c \in Charges, c[1] # Manual PROVE WithinBudget(c)'
  <2>1. Counted(c)
    BY AllCounted DEF BudgetInv
  <2>2. CopiesOf(c)' = CopiesOf(c)
    BY <1>2, <1>3, CopiesStay DEF BudgetInv
  <2>3. \A q \in Scanners : Begun(scan'[q]) = Begun(scan[q])
    BY <1>1 DEF OthersScan
  <2>4. Unpublished(c)' = Unpublished(c)
    BY <1>2, <2>3, UnpublishedStays
  <2>5. Belated(c)' \subseteq Belated(c)
    <3>1. RowsOf(c)' = RowsOf(c)
      BY <1>2 DEF RowsOf, Charge
    <3> QED BY <1>1, <1>2, <3>1 DEF Belated, OthersScan
  <2>6. Cardinality(CopiesOf(c)') <= Cardinality(CopiesOf(c)) + 0
    BY <2>1, <2>2 DEF Counted
  <2>7. Cardinality(Unpublished(c)') <= Cardinality(Unpublished(c)) + 0
    BY <2>1, <2>4 DEF Counted
  <2>8. Cardinality(Belated(c)') <= Cardinality(Belated(c)) + 0
    BY <2>1, <2>5, FiniteSubset DEF Counted
  <2>9. repeats'[c] >= repeats[c] + 0
    BY <1>2, <2>1 DEF Counted
  <2>10. ScanChanges(c, 0, 0, 0, 0)
    BY <2>6, <2>7, <2>8, <2>9 DEF ScanChanges
  <2> QED BY <1>1, <1>2, <1>3, <1>4, <1>5, <2>10, ScanBudget
<1> QED BY <1>1, <1>4, <1>5 DEF BudgetInv

\* One more copy of a message in the queue, or one less.
LEMMA CopyAdded ==
  ASSUME ReminderInv, CopiesFinite, NEW r \in DOMAIN reminder, UNCHANGED reminder,
         sends' = [sends EXCEPT ![r] = @ + 1]
  PROVE  \A c \in Charges : IsFiniteSet(CopiesOf(c)') /\ Cardinality(CopiesOf(c)') =
            IF c = Charge(r) THEN Cardinality(CopiesOf(c)) + 1 ELSE Cardinality(CopiesOf(c))
<1>1. r \in ReminderRows
  BY ChargeTyped
<1>2. sends' = [sends EXCEPT ![r] = @ + 1]
  OBVIOUS
<1>3. \A c : RowsOf(c)' = RowsOf(c)
  BY DEF RowsOf, Charge
<1>4. r \in RowsOf(Charge(r)) /\ \A c : r \in RowsOf(c) => c = Charge(r)
  BY DEF RowsOf
<1> DEFINE copy == <<r, sends[r] + 1>>
<1>5. sends \in [ReminderRows -> Nat]
  BY DEF ReminderInv, SendsTyped
<1>6. \A c : CopiesOf(c)' = IF c = Charge(r) THEN CopiesOf(c) \union {copy} ELSE CopiesOf(c)
  <2> SUFFICES ASSUME NEW c
               PROVE  CopiesOf(c)' = IF c = Charge(r) THEN CopiesOf(c) \union {copy} ELSE CopiesOf(c)
    OBVIOUS
  <2>1. \A q \in ReminderRows, i \in Nat \ {0} :
           (q \in RowsOf(c) /\ i <= sends'[q]) <=>
              ((q \in RowsOf(c) /\ i <= sends[q]) \/ (c = Charge(r) /\ q = r /\ i = sends[r] + 1))
    <3>1. ASSUME NEW q \in ReminderRows, NEW i \in Nat \ {0}, q # r
          PROVE  i <= sends'[q] <=> i <= sends[q]
      BY <1>2, <1>5, <3>1
    <3>2. ASSUME NEW i \in Nat \ {0}
          PROVE  i <= sends'[r] <=> i <= sends[r] \/ i = sends[r] + 1
      BY <1>1, <1>2, <1>5
    <3>3. r \in RowsOf(c) <=> c = Charge(r)
      BY <1>4
    <3> SUFFICES ASSUME NEW q \in ReminderRows, NEW i \in Nat \ {0}
                 PROVE  (q \in RowsOf(c) /\ i <= sends'[q]) <=>
                           ((q \in RowsOf(c) /\ i <= sends[q]) \/ (c = Charge(r) /\ q = r /\ i = sends[r] + 1))
      OBVIOUS
    <3>4. CASE q # r
      BY <3>1, <3>4
    <3>5. CASE q = r
      BY <3>2, <3>3, <3>5
    <3> QED BY <3>4, <3>5
  <2>2. \A q \in ReminderRows, i \in Nat \ {0} : <<q, i>> = copy <=> q = r /\ i = sends[r] + 1
    OBVIOUS
  <2>3. copy \in ReminderRows \X (Nat \ {0})
    BY <1>1, <1>5
  <2> HIDE DEF copy
  <2>4. \A k \in ReminderRows \X (Nat \ {0}) :
           (k[1] \in RowsOf(c) /\ k[2] <= sends'[k[1]]) <=>
              ((k[1] \in RowsOf(c) /\ k[2] <= sends[k[1]]) \/ (c = Charge(r) /\ k = copy))
    <3> SUFFICES ASSUME NEW q \in ReminderRows, NEW i \in Nat \ {0}
                 PROVE  (q \in RowsOf(c) /\ i <= sends'[q]) <=>
                           ((q \in RowsOf(c) /\ i <= sends[q]) \/ (c = Charge(r) /\ <<q, i>> = copy))
      OBVIOUS
    <3>1. <<q, i>> = copy <=> q = r /\ i = sends[r] + 1
      BY <2>2
    <3> QED BY <2>1, <3>1
  <2>5. CopiesOf(c)' = {k \in ReminderRows \X (Nat \ {0}) : k[1] \in RowsOf(c) /\ k[2] <= sends'[k[1]]}
    BY <1>3 DEF CopiesOf
  <2> QED BY <2>3, <2>4, <2>5 DEF CopiesOf
<1>7. \A c : copy \notin CopiesOf(c)
  BY <1>5 DEF CopiesOf
<1> HIDE DEF copy
<1> QED BY <1>6, <1>7, OneMoreCounted DEF CopiesFinite

LEMMA CopyRemoved ==
  ASSUME ReminderInv, CopiesFinite, NEW r \in DOMAIN reminder, UNCHANGED reminder, sends[r] > 0,
         sends' = [sends EXCEPT ![r] = @ - 1]
  PROVE  \A c \in Charges : IsFiniteSet(CopiesOf(c)') /\ Cardinality(CopiesOf(c)') =
            IF c = Charge(r) THEN Cardinality(CopiesOf(c)) - 1 ELSE Cardinality(CopiesOf(c))
<1>1. r \in ReminderRows
  BY ChargeTyped
<1>2. sends' = [sends EXCEPT ![r] = @ - 1]
  OBVIOUS
<1>3. \A c : RowsOf(c)' = RowsOf(c)
  BY DEF RowsOf, Charge
<1>4. r \in RowsOf(Charge(r)) /\ \A c : r \in RowsOf(c) => c = Charge(r)
  BY DEF RowsOf
<1> DEFINE copy == <<r, sends[r]>>
<1>5. sends \in [ReminderRows -> Nat]
  BY DEF ReminderInv, SendsTyped
<1>6. \A c : CopiesOf(c)' = IF c = Charge(r) THEN CopiesOf(c) \ {copy} ELSE CopiesOf(c)
  <2> SUFFICES ASSUME NEW c
               PROVE  CopiesOf(c)' = IF c = Charge(r) THEN CopiesOf(c) \ {copy} ELSE CopiesOf(c)
    OBVIOUS
  <2>1. \A q \in ReminderRows, i \in Nat \ {0} :
           (q \in RowsOf(c) /\ i <= sends'[q]) <=>
              ((q \in RowsOf(c) /\ i <= sends[q]) /\ ~(c = Charge(r) /\ q = r /\ i = sends[r]))
    <3>1. ASSUME NEW q \in ReminderRows, NEW i \in Nat \ {0}, q # r
          PROVE  i <= sends'[q] <=> i <= sends[q]
      BY <1>2, <1>5, <3>1
    <3>2. ASSUME NEW i \in Nat \ {0}
          PROVE  i <= sends'[r] <=> i <= sends[r] /\ i # sends[r]
      BY <1>1, <1>2, <1>5
    <3>3. r \in RowsOf(c) <=> c = Charge(r)
      BY <1>4
    <3> SUFFICES ASSUME NEW q \in ReminderRows, NEW i \in Nat \ {0}
                 PROVE  (q \in RowsOf(c) /\ i <= sends'[q]) <=>
                           ((q \in RowsOf(c) /\ i <= sends[q]) /\ ~(c = Charge(r) /\ q = r /\ i = sends[r]))
      OBVIOUS
    <3>4. CASE q # r
      BY <3>1, <3>4
    <3>5. CASE q = r
      BY <3>2, <3>3, <3>5
    <3> QED BY <3>4, <3>5
  <2>2. \A q \in ReminderRows, i \in Nat \ {0} : <<q, i>> = copy <=> q = r /\ i = sends[r]
    OBVIOUS
  <2>3. copy \in ReminderRows \X (Nat \ {0})
    BY <1>1, <1>5
  <2> HIDE DEF copy
  <2>4. \A k \in ReminderRows \X (Nat \ {0}) :
           (k[1] \in RowsOf(c) /\ k[2] <= sends'[k[1]]) <=>
              ((k[1] \in RowsOf(c) /\ k[2] <= sends[k[1]]) /\ ~(c = Charge(r) /\ k = copy))
    <3> SUFFICES ASSUME NEW q \in ReminderRows, NEW i \in Nat \ {0}
                 PROVE  (q \in RowsOf(c) /\ i <= sends'[q]) <=>
                           ((q \in RowsOf(c) /\ i <= sends[q]) /\ ~(c = Charge(r) /\ <<q, i>> = copy))
      OBVIOUS
    <3>1. <<q, i>> = copy <=> q = r /\ i = sends[r]
      BY <2>2
    <3> QED BY <2>1, <3>1
  <2>5. CopiesOf(c)' = {k \in ReminderRows \X (Nat \ {0}) : k[1] \in RowsOf(c) /\ k[2] <= sends'[k[1]]}
    BY <1>3 DEF CopiesOf
  <2> QED BY <2>3, <2>4, <2>5 DEF CopiesOf
<1>7. copy \in CopiesOf(Charge(r))
  BY <1>1, <1>4, <1>5 DEF CopiesOf
<1> HIDE DEF copy
<1> QED BY <1>6, <1>7, OneLessCounted DEF CopiesFinite

\* What a scan publishes was unpublished, or belated, or another has published it.
LEMMA PublishSendBudget ==
  ASSUME BudgetInv, NEW s \in Scanners, NEW r \in ReminderRows, PublishSend(s, r)
  PROVE  BudgetInv'
<1>1. /\ ReminderInv' /\ OthersScan(s)
      /\ r \in DOMAIN reminder /\ r \in scan[s].todo /\ r \notin Begun(scan[s])
      /\ scan'[s].todo = scan[s].todo \ {r} /\ Begun(scan'[s]) = Begun(scan[s]) \union {r}
  BY PublishSendTyped DEF BudgetInv
<1>2. /\ UNCHANGED reminder /\ UNCHANGED <<planner, notifier, delivered>>
      /\ sends' = [sends EXCEPT ![r] = @ + 1]
      /\ repeats' = IF Others(s, r) = {} THEN repeats ELSE [repeats EXCEPT ![Charge(r)] = @ + 1]
  BY DEF PublishSend, planning, notifying
<1>3. RowsKept /\ \A c : RowsOf(c)' = RowsOf(c)
  BY <1>2 DEF RowsKept, RowsOf, Charge
<1>4. Charge(r) \in Charges /\ r \in RowsOf(Charge(r)) /\ \A c : r \in RowsOf(c) => c = Charge(r)
  BY <1>1, ChargeTyped DEF BudgetInv, RowsOf
<1>8. \A c \in Charges : IsFiniteSet(CopiesOf(c)') /\ Cardinality(CopiesOf(c)') =
         IF c = Charge(r) THEN Cardinality(CopiesOf(c)) + 1 ELSE Cardinality(CopiesOf(c))
  BY <1>1, <1>2, CopyAdded DEF BudgetInv
<1>9. CopiesFinite'
  BY <1>8 DEF CopiesFinite
<1> DEFINE late == <<s, r>>
<1>10. \A c : Unpublished(c)' = Unpublished(c) \ {r}
  <2>1. \A q \in ReminderRows : (\A x \in Scanners : q \notin Begun(scan'[x])) <=>
           q # r /\ \A x \in Scanners : q \notin Begun(scan[x])
    BY <1>1 DEF OthersScan
  <2>2. \A c : Unpublished(c)' =
           {q \in ReminderRows : q \in RowsOf(c) /\ reminder[q].status = "planned"
                                 /\ \A x \in Scanners : q \notin Begun(scan'[x])}
    BY <1>2, <1>3 DEF Unpublished, Begun
  <2> QED BY <2>1, <2>2 DEF Unpublished
<1>11. \A c : Belated(c)' = Belated(c) \ {late}
  <2>1. \A x \in Scanners, q \in ReminderRows :
           q \in scan'[x].todo <=> q \in scan[x].todo /\ ~(x = s /\ q = r)
    BY <1>1 DEF OthersScan
  <2>2. \A k \in Scanners \X ReminderRows : k = late <=> k[1] = s /\ k[2] = r
    OBVIOUS
  <2> HIDE DEF late
  <2>3. \A k \in Scanners \X ReminderRows : k[2] \in scan'[k[1]].todo <=> k[2] \in scan[k[1]].todo /\ k # late
    BY <2>1, <2>2
  <2>4. \A c : Belated(c)' =
           {k \in Scanners \X ReminderRows :
              k[2] \in RowsOf(c) /\ reminder[k[2]].status = "queued" /\ k[2] \in scan'[k[1]].todo}
    BY <1>2, <1>3 DEF Belated
  <2> QED BY <2>3, <2>4 DEF Belated
<1>12. late \in Scanners \X ReminderRows /\ late[1] = s /\ late[2] = r
  OBVIOUS
<1> HIDE DEF late
<1>13. ASSUME NEW c \in Charges, c[1] # Manual PROVE WithinBudget(c)'
  <2>1. Counted(c)
    BY AllCounted DEF BudgetInv
  <2>2. /\ Cardinality(Unpublished(c)') <= Cardinality(Unpublished(c)) + 0
        /\ r \in Unpublished(c) => Cardinality(Unpublished(c)') <= Cardinality(Unpublished(c)) + (-1)
    BY <1>10, <2>1, OneRemoved DEF Counted
  <2>3. /\ Cardinality(Belated(c)') <= Cardinality(Belated(c)) + 0
        /\ late \in Belated(c) => Cardinality(Belated(c)') <= Cardinality(Belated(c)) + (-1)
    BY <1>11, <2>1, OneRemoved DEF Counted
  <2>4. repeats \in [Charges -> Nat]
    BY DEF BudgetInv, ReminderInv, DeliveriesTyped
  <2>5. CASE c # Charge(r)
    <3>1. Cardinality(CopiesOf(c)') <= Cardinality(CopiesOf(c)) + 0
      BY <1>8, <2>1, <2>5 DEF Counted
    <3>2. repeats'[c] >= repeats[c] + 0
      BY <1>2, <2>4, <2>5
    <3>3. ScanChanges(c, 0, 0, 0, 0)
      BY <2>2, <2>3, <3>1, <3>2 DEF ScanChanges
    <3> QED BY <1>1, <1>2, <1>3, <1>9, <1>13, <3>3, ScanBudget
  <2>6. CASE c = Charge(r) /\ Others(s, r) # {}
    <3>1. Cardinality(CopiesOf(c)') <= Cardinality(CopiesOf(c)) + 1
      BY <1>8, <2>1, <2>6 DEF Counted
    <3>2. repeats'[c] >= repeats[c] + 1
      BY <1>2, <2>4, <2>6
    <3>3. ScanChanges(c, 1, 0, 0, 1)
      BY <2>2, <2>3, <3>1, <3>2 DEF ScanChanges
    <3> QED BY <1>1, <1>2, <1>3, <1>9, <1>13, <3>3, ScanBudget
  <2>7. CASE c = Charge(r) /\ Others(s, r) = {}
    <3>1. Cardinality(CopiesOf(c)') <= Cardinality(CopiesOf(c)) + 1
      BY <1>8, <2>1, <2>7 DEF Counted
    <3>2. repeats'[c] >= repeats[c] + 0
      BY <1>2, <2>4, <2>7
    <3>3. \A x \in Scanners : r \notin Begun(scan[x])
      BY <1>1, <2>7 DEF Others, Begun
    <3>4. r \in RowsOf(c) /\ reminder[r].status \in {"planned", "queued"}
      BY <1>1, <1>4, <2>7 DEF BudgetInv, ReminderInv, RemindersTyped, ReminderStates
    <3>5. CASE reminder[r].status = "planned"
      <4>1. r \in Unpublished(c)
        BY <3>3, <3>4, <3>5 DEF Unpublished
      <4>2. ScanChanges(c, 1, -1, 0, 0)
        BY <2>2, <2>3, <3>1, <3>2, <4>1 DEF ScanChanges
      <4> QED BY <1>1, <1>2, <1>3, <1>9, <1>13, <4>2, ScanBudget
    <3>6. CASE reminder[r].status = "queued"
      <4>1. late \in Belated(c)
        BY <1>1, <1>12, <3>4, <3>6 DEF Belated
      <4>2. ScanChanges(c, 1, 0, -1, 0)
        BY <2>2, <2>3, <3>1, <3>2, <4>1 DEF ScanChanges
      <4> QED BY <1>1, <1>2, <1>3, <1>9, <1>13, <4>2, ScanBudget
    <3> QED BY <3>4, <3>5, <3>6
  <2> QED BY <2>5, <2>6, <2>7
<1> QED BY <1>1, <1>9, <1>13 DEF BudgetInv

\* A row that a scan commits is belated for the scans that have selected it.
LEMMA CommitScanBudget ==
  ASSUME BudgetInv, NEW s \in Scanners, CommitScan(s)
  PROVE  BudgetInv'
<1>1. /\ ReminderInv' /\ RowsKept /\ OthersScan(s)
      /\ DOMAIN reminder' = DOMAIN reminder
      /\ \A r \in DOMAIN reminder :
            reminder'[r].status = IF r \in Begun(scan[s]) THEN "queued" ELSE reminder[r].status
      /\ scan[s].todo = {} /\ scan'[s].todo = {} /\ Begun(scan'[s]) = {} /\ scan[s].marked = Begun(scan[s])
      /\ \A c \in Charges : repeats'[c] = repeats[c] + Cardinality(LateSends(s, c))
  BY CommitScanTyped DEF BudgetInv
<1>2. UNCHANGED sends /\ UNCHANGED <<planner, notifier, delivered>>
  BY DEF CommitScan, notifying
<1>3. CopiesFinite'
  BY <1>1, <1>2, CopiesStayFinite
<1>4. \A c : RowsOf(c)' = RowsOf(c)
  <2>1. \A c : RowsOf(c)' \subseteq DOMAIN reminder /\ RowsOf(c) \subseteq DOMAIN reminder
    BY <1>1 DEF RowsOf
  <2>2. \A c : \A r \in DOMAIN reminder : r \in RowsOf(c)' <=> r \in RowsOf(c)
    BY <1>1, RowsOfKept
  <2> QED BY <2>1, <2>2
<1>5. ASSUME NEW c \in Charges, c[1] # Manual PROVE WithinBudget(c)'
  <2>1. Counted(c)
    BY AllCounted DEF BudgetInv
  <2>2. CopiesOf(c)' = CopiesOf(c)
    BY <1>1, <1>2, CopiesStay DEF BudgetInv
  <2>3. Unpublished(c)' \subseteq Unpublished(c)
    <3> SUFFICES ASSUME NEW r \in Unpublished(c)' PROVE r \in Unpublished(c)
      OBVIOUS
    <3>1. /\ r \in ReminderRows /\ r \in RowsOf(c) /\ reminder'[r].status = "planned"
          /\ \A x \in Scanners : r \notin Begun(scan'[x])
      BY <1>4 DEF Unpublished, Begun
    <3>2. r \in DOMAIN reminder
      BY <3>1 DEF RowsOf
    <3>3. r \notin Begun(scan[s]) /\ reminder[r].status = "planned"
      BY <1>1, <3>1, <3>2
    <3>4. \A x \in Scanners : r \notin Begun(scan[x])
      BY <1>1, <3>1, <3>3 DEF OthersScan
    <3> QED BY <3>1, <3>3, <3>4 DEF Unpublished
  <2>4. Belated(c)' \subseteq Belated(c) \union LateSends(s, c)
    <3> SUFFICES ASSUME NEW x \in Scanners, NEW r \in ReminderRows, <<x, r>> \in Belated(c)'
                 PROVE  <<x, r>> \in Belated(c) \union LateSends(s, c)
      BY DEF Belated
    <3>1. r \in RowsOf(c) /\ reminder'[r].status = "queued" /\ r \in scan'[x].todo
      BY <1>4 DEF Belated
    <3>2. r \in DOMAIN reminder /\ Charge(r) = c
      BY <3>1 DEF RowsOf
    <3>3. x # s /\ r \in scan[x].todo
      BY <1>1, <3>1 DEF OthersScan
    <3>4. CASE r \in Begun(scan[s])
      <4>1. r \in scan[s].marked /\ x \in Late(s, r)
        BY <1>1, <3>3, <3>4 DEF Late
      <4> QED BY <3>2, <4>1 DEF LateSends
    <3>5. CASE r \notin Begun(scan[s])
      <4>1. reminder[r].status = "queued"
        BY <1>1, <3>1, <3>2, <3>5
      <4> QED BY <3>1, <3>3, <4>1 DEF Belated
    <3> QED BY <3>4, <3>5
  <2> DEFINE late == Cardinality(LateSends(s, c))
  <2>5. IsFiniteSet(LateSends(s, c)) /\ late \in Nat
    BY LateSendsCount DEF BudgetInv
  <2>6. Cardinality(CopiesOf(c)') <= Cardinality(CopiesOf(c)) + 0
    BY <2>1, <2>2, NoneAdded DEF Counted
  <2>7. Cardinality(Unpublished(c)') <= Cardinality(Unpublished(c)) + 0
    BY <2>1, <2>3, NoneAdded DEF Counted
  <2>8. Cardinality(Belated(c)') <= Cardinality(Belated(c)) + late
    BY <2>1, <2>4, <2>5, AtMostAdded DEF Counted
  <2>9. repeats'[c] = repeats[c] + late /\ repeats[c] \in Nat
    BY <1>1, <2>1 DEF Counted
  <2> HIDE DEF late
  <2>10. repeats'[c] >= repeats[c] + late
    BY <2>5, <2>9
  <2>11. ScanChanges(c, 0, 0, late, late)
    BY <2>6, <2>7, <2>8, <2>10 DEF ScanChanges
  <2>12. late \in Int /\ 0 + 0 + late <= late
    BY <2>5
  <2> QED BY <1>1, <1>2, <1>3, <1>5, <2>11, <2>12, ScanBudget
<1> QED BY <1>1, <1>3, <1>5 DEF BudgetInv

\* What a scan that fails has published will be published again.
LEMMA ScanFailsBudget ==
  ASSUME BudgetInv, NEW s \in Scanners, ScanFails(s)
  PROVE  BudgetInv'
<1>1. /\ ReminderInv' /\ OthersScan(s)
      /\ scan'[s].todo = {} /\ Begun(scan'[s]) = {}
      /\ \A c \in Charges : repeats'[c] = repeats[c] + Cardinality(Repeated(s, c))
  BY ScanFailsTyped DEF BudgetInv
<1>2. UNCHANGED reminder /\ UNCHANGED sends /\ UNCHANGED <<planner, notifier, delivered>>
  BY DEF ScanFails, planning, notifying
<1>3. RowsKept /\ \A c : RowsOf(c)' = RowsOf(c)
  BY <1>2 DEF RowsKept, RowsOf, Charge
<1>4. CopiesFinite'
  BY <1>2, <1>3, CopiesStayFinite
<1>5. ASSUME NEW c \in Charges, c[1] # Manual PROVE WithinBudget(c)'
  <2>1. Counted(c)
    BY AllCounted DEF BudgetInv
  <2>2. CopiesOf(c)' = CopiesOf(c)
    BY <1>2, <1>3, CopiesStay DEF BudgetInv
  <2>3. Unpublished(c)' \subseteq Unpublished(c) \union Repeated(s, c)
    <3> SUFFICES ASSUME NEW r \in Unpublished(c)' PROVE r \in Unpublished(c) \union Repeated(s, c)
      OBVIOUS
    <3>1. /\ r \in ReminderRows /\ r \in RowsOf(c) /\ reminder[r].status = "planned"
          /\ \A x \in Scanners : r \notin Begun(scan'[x])
      BY <1>2, <1>3 DEF Unpublished, Begun
    <3>2. CASE r \in Begun(scan[s])
      BY <3>1, <3>2 DEF Repeated, Begun, RowsOf
    <3>3. CASE r \notin Begun(scan[s])
      <4>1. \A x \in Scanners : r \notin Begun(scan[x])
        BY <1>1, <3>1, <3>3 DEF OthersScan
      <4> QED BY <3>1, <4>1 DEF Unpublished
    <3> QED BY <3>2, <3>3
  <2>4. Belated(c)' \subseteq Belated(c)
    <3>1. \A x \in Scanners : scan'[x].todo \subseteq scan[x].todo
      BY <1>1 DEF OthersScan
    <3> QED BY <1>2, <1>3, <3>1 DEF Belated
  <2> DEFINE again == Cardinality(Repeated(s, c))
  <2>5. IsFiniteSet(Repeated(s, c)) /\ again \in Nat
    BY RepeatedCount DEF BudgetInv
  <2>6. Cardinality(CopiesOf(c)') <= Cardinality(CopiesOf(c)) + 0
    BY <2>1, <2>2, NoneAdded DEF Counted
  <2>7. Cardinality(Unpublished(c)') <= Cardinality(Unpublished(c)) + again
    BY <2>1, <2>3, <2>5, AtMostAdded DEF Counted
  <2>8. Cardinality(Belated(c)') <= Cardinality(Belated(c)) + 0
    BY <2>1, <2>4, NoneAdded DEF Counted
  <2>9. repeats'[c] = repeats[c] + again /\ repeats[c] \in Nat
    BY <1>1, <2>1 DEF Counted
  <2> HIDE DEF again
  <2>10. repeats'[c] >= repeats[c] + again
    BY <2>5, <2>9
  <2>11. ScanChanges(c, 0, again, 0, again)
    BY <2>6, <2>7, <2>8, <2>10 DEF ScanChanges
  <2>12. again \in Int /\ 0 + again + 0 <= again
    BY <2>5
  <2> QED BY <1>1, <1>2, <1>3, <1>4, <1>5, <2>11, <2>12, ScanBudget
<1> QED BY <1>1, <1>4, <1>5 DEF BudgetInv

\* A notifier's step: what scans and plannings count stays.
NotifierChanges(c, l, q, d, r) ==
    /\ Len(delivered'[c]) <= Len(delivered[c]) + l
    /\ Cardinality(CopiesOf(c)') <= Cardinality(CopiesOf(c)) + q
    /\ Cardinality(Delivering(c)') <= Cardinality(Delivering(c)) + d
    /\ repeats'[c] >= repeats[c] + r

LEMMA NotifierBudget ==
  ASSUME BudgetInv, ReminderInv', CopiesFinite', NEW c \in Charges, c[1] # Manual,
         UNCHANGED <<reminder, planner, scan>>,
         NEW l \in Int, NEW q \in Int, NEW d \in Int, NEW r \in Int,
         NotifierChanges(c, l, q, d, r), l + q + d <= r
  PROVE  WithinBudget(c)'
<1>1. Counted(c)
  BY AllCounted DEF BudgetInv
<1>2. Unpublished(c)' = Unpublished(c) /\ Belated(c)' = Belated(c)
  BY UnpublishedStays, BelatedStays
<1>3. Expected(c)' = Expected(c)
  BY ExpectedStays
<1>4. Cardinality(Unpublished(c)') <= Cardinality(Unpublished(c)) + 0
  BY <1>1, <1>2, NoneAdded DEF Counted
<1>5. Cardinality(Belated(c)') <= Cardinality(Belated(c)) + 0
  BY <1>1, <1>2, NoneAdded DEF Counted
<1>6. Expected(c)' <= Expected(c) + 0
  BY <1>1, <1>3 DEF Counted
<1>7. Changes(c, l, q, d, 0, 0, 0, r)
  BY <1>4, <1>5, <1>6 DEF Changes, NotifierChanges
<1>8. Kept(c, l, q, d, 0, 0, 0, r)
  BY <1>7 DEF Kept
<1> QED BY <1>8, BudgetKept

\* Whether a notifier is about to store a delivery of a charge.
LEMMA DeliveringChanges ==
  ASSUME BudgetInv, UNCHANGED reminder, NEW n \in Notifiers, OthersNotifier(n), NEW c \in Charges
  PROVE  /\ n \notin Delivering(c)' => Cardinality(Delivering(c)') <= Cardinality(Delivering(c)) + 0
         /\ n \notin Delivering(c)' /\ n \in Delivering(c) =>
               Cardinality(Delivering(c)') <= Cardinality(Delivering(c)) + (-1)
         /\ n \in Delivering(c) => Cardinality(Delivering(c)') <= Cardinality(Delivering(c)) + 0
         /\ Cardinality(Delivering(c)') <= Cardinality(Delivering(c)) + 1
<1>1. RowsOf(c)' = RowsOf(c)
  BY DEF RowsOf, Charge
<1>2. \A m \in Notifiers : m # n => (m \in Delivering(c)' <=> m \in Delivering(c))
  BY <1>1 DEF Delivering, OthersNotifier
<1>3. Delivering(c) \subseteq Notifiers /\ Delivering(c)' \subseteq Notifiers
  BY DEF Delivering
<1> DEFINE S == Delivering(c)
           T == Delivering(c)'
<1>4. IsFiniteSet(S) /\ Cardinality(S) \in Nat
  BY AllCounted DEF BudgetInv, Counted
<1>5. \A m \in Notifiers : m # n => (m \in T <=> m \in S)
  BY <1>2
<1>6. S \subseteq Notifiers /\ T \subseteq Notifiers
  BY <1>3
<1> HIDE DEF S, T
<1>7. ASSUME n \notin T PROVE T = S \ {n}
  BY <1>5, <1>6, <1>7
<1>8. ASSUME n \notin T
      PROVE  Cardinality(T) <= Cardinality(S) + 0 /\ (n \in S => Cardinality(T) <= Cardinality(S) + (-1))
  BY <1>4, <1>7, <1>8, OneRemoved
<1>9. ASSUME n \in S PROVE Cardinality(T) <= Cardinality(S) + 0
  <2>1. T \subseteq S
    BY <1>5, <1>6, <1>9
  <2> QED BY <1>4, <2>1, NoneAdded
<1>10. Cardinality(T) <= Cardinality(S) + 1
  <2>1. T \subseteq S \union {n}
    BY <1>5, <1>6
  <2>2. IsFiniteSet({n}) /\ Cardinality({n}) = 1
    BY FS_Singleton
  <2> QED BY <1>4, <2>1, <2>2, AtMostAdded
<1> QED BY <1>8, <1>9, <1>10 DEF S, T

\* What a notifier receives is one copy less in the queue.
LEMMA ReceiveSendBudget ==
  ASSUME BudgetInv, NEW n \in Notifiers, NEW r \in ReminderRows, ReceiveSend(n, r)
  PROVE  BudgetInv'
<1>1. /\ ReminderInv' /\ OthersNotifier(n) /\ r \in DOMAIN reminder
      /\ notifier'[n].at = "delivering" /\ notifier'[n].reminder = r /\ notifier[n].at = "off"
  BY ReceiveSendTyped DEF BudgetInv
<1>2. /\ UNCHANGED reminder /\ UNCHANGED <<reminder, planner, scan>> /\ UNCHANGED <<delivered, repeats>>
      /\ sends[r] > 0 /\ sends' = [sends EXCEPT ![r] = @ - 1]
  BY DEF ReceiveSend, planning
<1>3. \A c \in Charges : IsFiniteSet(CopiesOf(c)') /\ Cardinality(CopiesOf(c)') =
         IF c = Charge(r) THEN Cardinality(CopiesOf(c)) - 1 ELSE Cardinality(CopiesOf(c))
  BY <1>1, <1>2, CopyRemoved DEF BudgetInv
<1>4. CopiesFinite'
  BY <1>3 DEF CopiesFinite
<1>5. ASSUME NEW c \in Charges, c[1] # Manual PROVE WithinBudget(c)'
  <2>1. Counted(c)
    BY AllCounted DEF BudgetInv
  <2>2. Len(delivered'[c]) <= Len(delivered[c]) + 0 /\ repeats'[c] >= repeats[c] + 0
    BY <1>2, <2>1 DEF Counted
  <2>3. CASE c = Charge(r)
    <3>1. Cardinality(CopiesOf(c)') <= Cardinality(CopiesOf(c)) + (-1)
      BY <1>3, <2>1, <2>3 DEF Counted
    <3>2. Cardinality(Delivering(c)') <= Cardinality(Delivering(c)) + 1
      BY <1>1, <1>2, DeliveringChanges
    <3>3. NotifierChanges(c, 0, -1, 1, 0)
      BY <2>2, <3>1, <3>2 DEF NotifierChanges
    <3> QED BY <1>1, <1>2, <1>4, <1>5, <3>3, NotifierBudget
  <2>4. CASE c # Charge(r)
    <3>1. Cardinality(CopiesOf(c)') <= Cardinality(CopiesOf(c)) + 0
      BY <1>3, <2>1, <2>4 DEF Counted
    <3>2. n \notin Delivering(c)'
      BY <1>1, <1>2, <2>4 DEF Delivering, RowsOf, Charge
    <3>3. Cardinality(Delivering(c)') <= Cardinality(Delivering(c)) + 0
      BY <1>1, <1>2, <3>2, DeliveringChanges
    <3>4. NotifierChanges(c, 0, 0, 0, 0)
      BY <2>2, <3>1, <3>3 DEF NotifierChanges
    <3> QED BY <1>1, <1>2, <1>4, <1>5, <3>4, NotifierBudget
  <2> QED BY <2>3, <2>4
<1> QED BY <1>1, <1>4, <1>5 DEF BudgetInv

\* A notifier that leaves the queue alone and delivers nothing more.
LEMMA SameQueueBudget ==
  ASSUME BudgetInv, ReminderInv', NEW n \in Notifiers, OthersNotifier(n),
         UNCHANGED <<reminder, planner, scan>>, UNCHANGED <<sends, delivered, repeats>>,
         \A c \in Charges : n \in Delivering(c)' => n \in Delivering(c)
  PROVE  BudgetInv'
<1>1. UNCHANGED reminder /\ UNCHANGED sends /\ UNCHANGED delivered /\ UNCHANGED repeats
  OBVIOUS
<1>2. RowsKept
  BY <1>1 DEF RowsKept, Charge
<1>3. CopiesFinite'
  BY <1>1, <1>2, CopiesStayFinite
<1>4. ASSUME NEW c \in Charges, c[1] # Manual PROVE WithinBudget(c)'
  <2>1. Counted(c)
    BY AllCounted DEF BudgetInv
  <2>2. CopiesOf(c)' = CopiesOf(c)
    BY <1>1, <1>2, CopiesStay DEF BudgetInv
  <2>3. Len(delivered'[c]) <= Len(delivered[c]) + 0 /\ repeats'[c] >= repeats[c] + 0
    BY <1>1, <2>1 DEF Counted
  <2>4. Cardinality(CopiesOf(c)') <= Cardinality(CopiesOf(c)) + 0
    BY <2>1, <2>2, NoneAdded DEF Counted
  <2>5. Cardinality(Delivering(c)') <= Cardinality(Delivering(c)) + 0
    BY <1>1, DeliveringChanges
  <2>6. NotifierChanges(c, 0, 0, 0, 0)
    BY <2>3, <2>4, <2>5 DEF NotifierChanges
  <2> QED BY <1>3, <1>4, <2>6, NotifierBudget
<1> QED BY <1>3, <1>4 DEF BudgetInv

LEMMA TestSendBudget ==
  ASSUME BudgetInv, NEW n \in Notifiers, TestSend(n)
  PROVE  BudgetInv'
<1>1. ReminderInv' /\ OthersNotifier(n) /\ notifier'[n].reminder = NoReminder
  BY TestSendTyped DEF BudgetInv
<1>2. UNCHANGED <<reminder, planner, scan>> /\ UNCHANGED <<sends, delivered, repeats>>
  BY DEF TestSend, planning
<1>3. \A c \in Charges : n \notin Delivering(c)'
  BY <1>1, ReminderAssumption DEF Delivering, RowsOf, ReminderInv, RemindersTyped
<1> QED BY <1>1, <1>2, <1>3, SameQueueBudget

LEMMA PushBudget ==
  ASSUME BudgetInv, NEW n \in Notifiers, Push(n)
  PROVE  BudgetInv'
<1>1. /\ ReminderInv' /\ OthersNotifier(n) /\ notifier[n].at = "delivering" /\ notifier'[n].at = "pushed"
      /\ notifier'[n].reminder = notifier[n].reminder
  BY PushTyped DEF BudgetInv
<1>2. UNCHANGED <<reminder, planner, scan>> /\ UNCHANGED <<sends, delivered, repeats>> /\ UNCHANGED reminder
  BY DEF Push, planning
<1>3. \A c \in Charges : n \in Delivering(c)' => n \in Delivering(c)
  BY <1>1, <1>2 DEF Delivering, RowsOf, Charge
<1> QED BY <1>1, <1>2, <1>3, SameQueueBudget

LEMMA AcknowledgeBudget ==
  ASSUME BudgetInv, NEW n \in Notifiers, Acknowledge(n)
  PROVE  BudgetInv'
<1>1. ReminderInv' /\ OthersNotifier(n) /\ notifier'[n].at = "off"
  BY AcknowledgeTyped DEF BudgetInv
<1>2. UNCHANGED <<reminder, planner, scan>> /\ UNCHANGED <<sends, delivered, repeats>>
  BY DEF Acknowledge, planning
<1>3. \A c \in Charges : n \notin Delivering(c)'
  BY <1>1 DEF Delivering
<1> QED BY <1>1, <1>2, <1>3, SameQueueBudget

\* What is stored is no longer to be stored.
LEMMA CommitDeliveryBudget ==
  ASSUME BudgetInv, NEW n \in Notifiers, CommitDelivery(n)
  PROVE  BudgetInv'
<1>1. /\ ReminderInv' /\ OthersNotifier(n)
      /\ notifier[n].at = "pushed" /\ notifier'[n].at = "stored"
      /\ \A c \in Charges :
            IF notifier[n].reminder # NoReminder /\ Charge(notifier[n].reminder) = c
            THEN Len(delivered'[c]) = Len(delivered[c]) + 1 /\ delivered'[c] # <<>>
            ELSE delivered'[c] = delivered[c]
  BY CommitDeliveryTyped DEF BudgetInv
<1>2. UNCHANGED reminder /\ UNCHANGED <<reminder, planner, scan>> /\ UNCHANGED sends /\ UNCHANGED repeats
  BY DEF CommitDelivery, planning
<1>3. RowsKept
  BY <1>2 DEF RowsKept, Charge
<1>4. CopiesFinite'
  BY <1>2, <1>3, CopiesStayFinite
<1>5. \A c \in Charges : n \notin Delivering(c)'
  BY <1>1 DEF Delivering
<1>6. ASSUME NEW c \in Charges, c[1] # Manual PROVE WithinBudget(c)'
  <2>1. Counted(c)
    BY AllCounted DEF BudgetInv
  <2>2. CopiesOf(c)' = CopiesOf(c)
    BY <1>2, <1>3, CopiesStay DEF BudgetInv
  <2>3. Cardinality(CopiesOf(c)') <= Cardinality(CopiesOf(c)) + 0
    BY <2>1, <2>2, NoneAdded DEF Counted
  <2>4. repeats'[c] >= repeats[c] + 0
    BY <1>2, <2>1 DEF Counted
  <2>5. CASE notifier[n].reminder # NoReminder /\ Charge(notifier[n].reminder) = c
    <3>1. n \in Delivering(c)
      BY <1>1, <2>5, NotifierOf DEF BudgetInv, Delivering, RowsOf
    <3>2. Cardinality(Delivering(c)') <= Cardinality(Delivering(c)) + (-1)
      BY <1>1, <1>2, <1>5, <3>1, DeliveringChanges
    <3>3. Len(delivered'[c]) <= Len(delivered[c]) + 1
      BY <1>1, <2>1, <2>5 DEF Counted
    <3>4. NotifierChanges(c, 1, 0, -1, 0)
      BY <2>3, <2>4, <3>2, <3>3 DEF NotifierChanges
    <3> QED BY <1>1, <1>2, <1>4, <1>6, <3>4, NotifierBudget
  <2>6. CASE ~(notifier[n].reminder # NoReminder /\ Charge(notifier[n].reminder) = c)
    <3>1. Cardinality(Delivering(c)') <= Cardinality(Delivering(c)) + 0
      BY <1>1, <1>2, <1>5, DeliveringChanges
    <3>2. delivered'[c] = delivered[c]
      BY <1>1, <2>6
    <3>3. Len(delivered'[c]) <= Len(delivered[c]) + 0
      BY <2>1, <3>2 DEF Counted
    <3>4. NotifierChanges(c, 0, 0, 0, 0)
      BY <2>3, <2>4, <3>1, <3>3 DEF NotifierChanges
    <3> QED BY <1>1, <1>2, <1>4, <1>6, <3>4, NotifierBudget
  <2> QED BY <2>5, <2>6
<1> QED BY <1>1, <1>4, <1>6 DEF BudgetInv

\* A message that comes again was to be stored, or is a repeat.
LEMMA DeliveryFailsBudget ==
  ASSUME BudgetInv, NEW n \in Notifiers, DeliveryFails(n)
  PROVE  BudgetInv'
<1> DEFINE r == notifier[n].reminder
<1>1. /\ ReminderInv' /\ OthersNotifier(n) /\ notifier[n].at # "off" /\ notifier'[n].at = "off"
      /\ Redelivered(n) \/ DeadLettered(n) \/ RejectedOnFailure(n) \/ TestDropped(n)
  BY DeliveryFailsTyped DEF BudgetInv
<1>2. UNCHANGED reminder /\ UNCHANGED <<reminder, planner, scan>> /\ UNCHANGED delivered
  BY DEF DeliveryFails, planning
<1>3. \A c \in Charges : n \notin Delivering(c)'
  BY <1>1 DEF Delivering
<1>6. ReminderInv' /\ UNCHANGED <<reminder, planner, scan>>
  BY <1>1, <1>2
<1>4. CASE DeadLettered(n) \/ RejectedOnFailure(n) \/ TestDropped(n)
  <2>1. UNCHANGED <<sends, delivered, repeats>>
    BY <1>2, <1>4 DEF DeadLettered, RejectedOnFailure, TestDropped
  <2> QED BY <1>1, <1>2, <1>3, <2>1, SameQueueBudget
<1>5. CASE Redelivered(n)
  <2>1. /\ r # NoReminder /\ sends' = [sends EXCEPT ![r] = @ + 1]
        /\ repeats' = IF notifier[n].at = "stored" THEN [repeats EXCEPT ![Charge(r)] = @ + 1] ELSE repeats
    BY <1>5 DEF Redelivered
  <2>2. r \in DOMAIN reminder /\ notifier[n].at \in {"delivering", "pushed", "stored"}
    BY <1>1, <2>1, NotifierOf DEF BudgetInv, NotifierStates
  <2> HIDE DEF r
  <2>3. \A c \in Charges : IsFiniteSet(CopiesOf(c)') /\ Cardinality(CopiesOf(c)') =
           IF c = Charge(r) THEN Cardinality(CopiesOf(c)) + 1 ELSE Cardinality(CopiesOf(c))
    BY <1>2, <2>1, <2>2, CopyAdded DEF BudgetInv
  <2>4. CopiesFinite'
    BY <2>3 DEF CopiesFinite
  <2>5. repeats \in [Charges -> Nat] /\ Charge(r) \in Charges
    BY <2>2, ChargeTyped DEF BudgetInv, ReminderInv, DeliveriesTyped
  <2>6. ASSUME NEW c \in Charges, c[1] # Manual PROVE WithinBudget(c)'
    <3>1. Counted(c)
      BY AllCounted DEF BudgetInv
    <3>2. Len(delivered'[c]) <= Len(delivered[c]) + 0
      BY <1>2, <3>1 DEF Counted
    <3>3. Cardinality(Delivering(c)') <= Cardinality(Delivering(c)) + 0
      BY <1>1, <1>2, <1>3, DeliveringChanges
    <3>4. repeats'[c] >= repeats[c] + 0
      BY <2>1, <2>5
    <3>5. CASE c # Charge(r)
      <4>1. Cardinality(CopiesOf(c)') <= Cardinality(CopiesOf(c)) + 0
        BY <2>3, <3>1, <3>5 DEF Counted
      <4>2. NotifierChanges(c, 0, 0, 0, 0)
        BY <3>2, <3>3, <3>4, <4>1 DEF NotifierChanges
      <4> QED BY <1>6, <2>4, <2>6, <4>2, NotifierBudget
    <3>6. CASE c = Charge(r) /\ notifier[n].at = "stored"
      <4>1. Cardinality(CopiesOf(c)') <= Cardinality(CopiesOf(c)) + 1
        BY <2>3, <3>1, <3>6 DEF Counted
      <4>2. repeats'[c] >= repeats[c] + 1
        BY <2>1, <2>5, <3>6
      <4>3. NotifierChanges(c, 0, 1, 0, 1)
        BY <3>2, <3>3, <4>1, <4>2 DEF NotifierChanges
      <4>5. 0 + 1 + 0 <= 1
        OBVIOUS
      <4> QED BY <1>6, <2>4, <2>6, <4>3, <4>5, NotifierBudget
    <3>7. CASE c = Charge(r) /\ notifier[n].at # "stored"
      <4>1. Cardinality(CopiesOf(c)') <= Cardinality(CopiesOf(c)) + 1
        BY <2>3, <3>1, <3>7 DEF Counted
      <4>2. n \in Delivering(c)
        BY <2>2, <3>7 DEF Delivering, RowsOf, r
      <4>3. Cardinality(Delivering(c)') <= Cardinality(Delivering(c)) + (-1)
        BY <1>1, <1>2, <1>3, <4>2, DeliveringChanges
      <4>4. NotifierChanges(c, 0, 1, -1, 0)
        BY <3>2, <3>4, <4>1, <4>3 DEF NotifierChanges
      <4>5. 0 + 1 + (-1) <= 0
        OBVIOUS
      <4> QED BY <1>6, <2>4, <2>6, <4>4, <4>5, NotifierBudget
    <3> QED BY <3>5, <3>6, <3>7
  <2> QED BY <1>1, <2>4, <2>6 DEF BudgetInv
<1> QED BY <1>1, <1>4, <1>5

\* Rows are added, of other charges.
LEMMA OtherChargeBudget ==
  ASSUME BudgetInv, ReminderInv', CopiesFinite', RowsKept, UNCHANGED <<scan, sends, notifier, delivered>>,
         \A q \in DOMAIN reminder : reminder'[q] = reminder[q],
         NEW c \in Charges, c[1] # Manual,
         RowsOf(c)' = RowsOf(c), Missing(c)' = Missing(c), repeats'[c] = repeats[c]
  PROVE  WithinBudget(c)'
<1>1. Counted(c)
  BY AllCounted DEF BudgetInv
<1>2. CopiesOf(c)' = CopiesOf(c) /\ Delivering(c)' = Delivering(c)
  BY CopiesStay, DeliveringStays DEF BudgetInv
<1>3. \A r \in RowsOf(c) : reminder'[r] = reminder[r]
  BY DEF RowsOf
<1>4. Unpublished(c)' = Unpublished(c)
  BY <1>3 DEF Unpublished, Begun
<1>5. Belated(c)' = Belated(c)
  BY <1>3 DEF Belated
<1>6. Expected(c)' = Expected(c)
  BY DEF Expected
<1>7. Len(delivered'[c]) <= Len(delivered[c]) + 0 /\ repeats'[c] >= repeats[c] + 0
  BY <1>1 DEF Counted
<1>8. Cardinality(CopiesOf(c)') <= Cardinality(CopiesOf(c)) + 0
  BY <1>1, <1>2, NoneAdded DEF Counted
<1>9. Cardinality(Delivering(c)') <= Cardinality(Delivering(c)) + 0
  BY <1>1, <1>2, NoneAdded DEF Counted
<1>10. Cardinality(Unpublished(c)') <= Cardinality(Unpublished(c)) + 0
  BY <1>1, <1>4, NoneAdded DEF Counted
<1>11. Cardinality(Belated(c)') <= Cardinality(Belated(c)) + 0
  BY <1>1, <1>5, NoneAdded DEF Counted
<1>12. Expected(c)' <= Expected(c) + 0
  BY <1>1, <1>6 DEF Counted
<1>13. Changes(c, 0, 0, 0, 0, 0, 0, 0)
  BY <1>7, <1>8, <1>9, <1>10, <1>11, <1>12 DEF Changes
<1>14. Kept(c, 0, 0, 0, 0, 0, 0, 0)
  BY <1>13 DEF Kept
<1> QED BY <1>14, BudgetKept

LEMMA ScheduleBudget ==
  ASSUME BudgetInv, NEW r \in ReminderRows, NEW due \in Dues, Schedule(r, due)
  PROVE  BudgetInv'
<1>1. /\ ReminderInv' /\ RowsKept
      /\ DOMAIN reminder' = DOMAIN reminder \union {r}
      /\ Charge(r)' = <<Manual, due>>
      /\ \A q \in DOMAIN reminder : reminder'[q] = reminder[q]
  BY ScheduleTyped DEF BudgetInv
<1>2. UNCHANGED <<scan, sends, notifier, delivered>> /\ UNCHANGED sends /\ UNCHANGED <<planner, repeats>>
  BY DEF Schedule, notifying
<1>3. CopiesFinite'
  BY <1>1, <1>2, CopiesStayFinite
<1>4. ASSUME NEW c \in Charges, c[1] # Manual PROVE WithinBudget(c)'
  <2>1. RowsOf(c)' = RowsOf(c)
    <3>1. r \notin RowsOf(c)'
      BY <1>1, <1>4 DEF RowsOf
    <3>2. \A q : q \in RowsOf(c)' => q \in DOMAIN reminder
      BY <1>1, <3>1 DEF RowsOf
    <3>3. RowsOf(c) \subseteq DOMAIN reminder
      BY DEF RowsOf
    <3>4. \A q \in DOMAIN reminder : q \in RowsOf(c)' <=> q \in RowsOf(c)
      BY <1>1, RowsOfKept
    <3> QED BY <3>2, <3>3, <3>4
  <2>2. Missing(c)' = Missing(c) /\ repeats'[c] = repeats[c]
    BY <1>2 DEF Missing
  <2> QED BY <1>1, <1>2, <1>3, <1>4, <2>1, <2>2, OtherChargeBudget
<1> QED BY <1>1, <1>3, <1>4 DEF BudgetInv

\* What a planning commits is the first row of its charge, or a repeat.
LEMMA CommitPlanBudget ==
  ASSUME BudgetInv, NEW p \in Planners, NEW rows \in SUBSET FreeRows, CommitPlan(p, rows)
  PROVE  BudgetInv'
<1>1. /\ ReminderInv' /\ RowsKept
      /\ DOMAIN reminder' = DOMAIN reminder \union rows
      /\ \A r \in DOMAIN reminder : reminder'[r] = reminder[r] /\ r \notin rows
      /\ \A r \in rows : Charge(r)' \in planner[p].new /\ reminder'[r].status = "planned"
      /\ \A c \in planner[p].new : \E r \in rows : rows \intersect {q \in DOMAIN reminder' : Charge(q)' = c} = {r}
      /\ planner'[p].new = {} /\ \A q \in Planners : q # p => planner'[q] = planner[q]
  BY CommitPlanTyped DEF BudgetInv
<1>2. /\ UNCHANGED <<scan, sends, notifier, delivered>> /\ UNCHANGED sends /\ UNCHANGED notifier /\ UNCHANGED scan
      /\ UNCHANGED delivered
      /\ repeats' = [c \in Charges |->
            IF c \in planner[p].new THEN repeats[c] + Cardinality(AlsoMissing(p, c)) ELSE repeats[c]]
  BY DEF CommitPlan, notifying
<1>3. CopiesFinite'
  BY <1>1, <1>2, CopiesStayFinite
<1>4. \A c : \A q \in DOMAIN reminder : q \in RowsOf(c)' <=> q \in RowsOf(c)
  BY <1>1, RowsOfKept
<1>5. \A c : RowsOf(c) \subseteq DOMAIN reminder
  BY DEF RowsOf
<1>6. \A c : Missing(c)' = AlsoMissing(p, c)
  BY <1>1 DEF Missing, AlsoMissing
<1>7. ASSUME NEW c \in Charges, c[1] # Manual PROVE WithinBudget(c)'
  <2>1. CASE c \notin planner[p].new
    <3>1. \A q \in rows : q \notin RowsOf(c)'
      BY <1>1, <2>1 DEF RowsOf
    <3>2. RowsOf(c)' \subseteq DOMAIN reminder \union rows
      BY <1>1 DEF RowsOf
    <3>3. RowsOf(c)' = RowsOf(c)
      BY <1>4, <1>5, <3>1, <3>2
    <3>4. Missing(c)' = Missing(c)
      BY <1>6, <2>1 DEF Missing, AlsoMissing
    <3>5. repeats'[c] = repeats[c]
      BY <1>2, <2>1
    <3> QED BY <1>1, <1>2, <1>3, <1>7, <3>3, <3>4, <3>5, OtherChargeBudget
  <2>2. CASE c \in planner[p].new
    <3> DEFINE also == Cardinality(AlsoMissing(p, c))
    <3>1. Counted(c)
      BY AllCounted DEF BudgetInv
    <3>2. also \in Nat /\ IsFiniteSet(AlsoMissing(p, c))
      BY AlsoMissingCounts, FiniteThreads, FiniteSubset DEF AlsoMissing
    <3>3. PICK r \in rows : rows \intersect {q \in DOMAIN reminder' : Charge(q)' = c} = {r}
      BY <1>1, <2>2
    <3>4. r \in RowsOf(c)' /\ r \notin DOMAIN reminder /\ r \in ReminderRows /\ \A q \in rows : q \in RowsOf(c)' => q = r
      BY <1>1, <3>3 DEF RowsOf, FreeRows
    <3>5. \A q \in DOMAIN reminder : reminder'[q] = reminder[q]
      BY <1>1
    <3>6. \A q : q \in RowsOf(c)' <=> q \in RowsOf(c) \/ q = r
      <4>1. RowsOf(c)' \subseteq DOMAIN reminder \union rows
        BY <1>1 DEF RowsOf
      <4> QED BY <1>4, <1>5, <3>4, <4>1
    <3>7. CopiesOf(c)' = CopiesOf(c) /\ Delivering(c)' = Delivering(c)
      BY <1>1, <1>2, CopiesStay, DeliveringStays DEF BudgetInv
    <3>8. Unpublished(c)' \subseteq Unpublished(c) \union {r}
      <4> SUFFICES ASSUME NEW q \in Unpublished(c)', q # r PROVE q \in Unpublished(c)
        OBVIOUS
      <4>1. /\ q \in ReminderRows /\ q \in RowsOf(c)' /\ reminder'[q].status = "planned"
            /\ \A s \in Scanners : q \notin Begun(scan[s])
        BY <1>2 DEF Unpublished, Begun
      <4>2. q \in RowsOf(c) /\ q \in DOMAIN reminder
        BY <1>5, <3>6, <4>1
      <4> QED BY <3>5, <4>1, <4>2 DEF Unpublished
    <3>9. Belated(c)' \subseteq Belated(c)
      <4> SUFFICES ASSUME NEW s \in Scanners, NEW q \in ReminderRows, <<s, q>> \in Belated(c)'
                   PROVE  <<s, q>> \in Belated(c)
        BY DEF Belated
      <4>1. q \in RowsOf(c)' /\ reminder'[q].status = "queued" /\ q \in scan[s].todo
        BY <1>2 DEF Belated
      <4>2. q \in DOMAIN reminder
        BY <4>1, ScanOf DEF BudgetInv
      <4> QED BY <1>4, <3>5, <4>1, <4>2 DEF Belated
    <3>10. Expected(c)' = also
      BY <1>6, <3>4 DEF Expected
    <3>11. Expected(c) = 1 \/ Expected(c) = also + 1
      <4>1. Missing(c) = AlsoMissing(p, c) \union {p} /\ p \notin AlsoMissing(p, c)
        BY <2>2 DEF Missing, AlsoMissing
      <4>2. Cardinality(Missing(c)) = also + 1
        BY <3>2, <4>1, OneMoreCounted
      <4> QED BY <4>2 DEF Expected
    <3>12. repeats'[c] = repeats[c] + also
      BY <1>2, <2>2
    <3>13. Len(delivered'[c]) <= Len(delivered[c]) + 0
      BY <1>2, <3>1 DEF Counted
    <3>14. Cardinality(CopiesOf(c)') <= Cardinality(CopiesOf(c)) + 0
      BY <3>1, <3>7, NoneAdded DEF Counted
    <3>15. Cardinality(Delivering(c)') <= Cardinality(Delivering(c)) + 0
      BY <3>1, <3>7, NoneAdded DEF Counted
    <3>16. Cardinality(Unpublished(c)') <= Cardinality(Unpublished(c)) + 1
      <4>1. IsFiniteSet({r}) /\ Cardinality({r}) = 1
        BY FS_Singleton
      <4> QED BY <3>1, <3>8, <4>1, AtMostAdded DEF Counted
    <3>17. Cardinality(Belated(c)') <= Cardinality(Belated(c)) + 0
      BY <3>1, <3>9, NoneAdded DEF Counted
    <3> HIDE DEF also
    <3>18. Expected(c)' <= Expected(c) + (also - 1)
      BY <3>2, <3>10, <3>11
    <3>19. repeats'[c] >= repeats[c] + also
      BY <3>1, <3>2, <3>12 DEF Counted
    <3>20. Changes(c, 0, 0, 0, 1, 0, also - 1, also)
      BY <3>13, <3>14, <3>15, <3>16, <3>17, <3>18, <3>19 DEF Changes
    <3>21. Kept(c, 0, 0, 0, 1, 0, also - 1, also)
      BY <3>2, <3>20 DEF Kept
    <3> QED BY <1>1, <1>3, <1>7, <3>21, BudgetKept
  <2> QED BY <2>1, <2>2
<1> QED BY <1>1, <1>3, <1>7 DEF BudgetInv

\* A step of a planning that commits nothing.
LEMMA PlannerBudget ==
  ASSUME BudgetInv, ReminderInv', UNCHANGED <<reminder, scan, sends, notifier, delivered, repeats>>,
         NEW p \in Planners, \A q \in Planners : q # p => planner'[q] = planner[q],
         \A c \in Charges : RowsOf(c) # {} /\ c \in planner'[p].new => c \in planner[p].new
  PROVE  BudgetInv'
<1>1. UNCHANGED scan /\ UNCHANGED <<reminder, sends, notifier, delivered, repeats>>
  OBVIOUS
<1>2. \A s \in Scanners : scan'[s].todo = scan[s].todo /\ Begun(scan'[s]) = Begun(scan[s])
  BY <1>1
<1>3. \A c \in Charges : RowsOf(c) # {} => Missing(c)' \subseteq Missing(c)
  BY DEF Missing
<1> QED BY <1>1, <1>2, <1>3, CalmBudget

\* Nobody plans, scans or delivers.
LEMMA RestBudget ==
  ASSUME BudgetInv, ReminderInv', UNCHANGED <<planner, reminder, scan, sends, notifier, delivered, repeats>>
  PROVE  BudgetInv'
<1>1. UNCHANGED scan /\ UNCHANGED planner /\ UNCHANGED <<reminder, sends, notifier, delivered, repeats>>
  OBVIOUS
<1>2. \A s \in Scanners : scan'[s].todo = scan[s].todo /\ Begun(scan'[s]) = Begun(scan[s])
  BY <1>1
<1>3. \A c \in Charges : RowsOf(c) # {} => Missing(c)' \subseteq Missing(c)
  BY <1>1 DEF Missing
<1> QED BY <1>1, <1>2, <1>3, CalmBudget

LEMMA PlanBudget ==
  ASSUME BudgetInv, PlanStep
  PROVE  BudgetInv'
<1>0. ReminderInv
  BY DEF BudgetInv
<1>1. ASSUME NEW p \in Planners, NEW due \in {DueExpenses, DueLimits}, Plan(p, due) PROVE BudgetInv'
  <2>1. ReminderInv' /\ planner'[p].new = {} /\ \A q \in Planners : q # p => planner'[q] = planner[q]
    BY <1>0, <1>1, DueTyped, PlanTyped
  <2>2. UNCHANGED <<reminder, scan, sends, notifier, delivered, repeats>>
    BY <1>1 DEF Plan, notifying
  <2> QED BY <2>1, <2>2, PlannerBudget
<1>2. ASSUME NEW p \in Planners, NEW c \in Charges, PlanCharge(p, c) PROVE BudgetInv'
  <2>1. /\ ReminderInv'
        /\ planner'[p].new = IF IsScheduled(c) THEN planner[p].new ELSE planner[p].new \union {c}
        /\ \A q \in Planners : q # p => planner'[q] = planner[q]
    BY <1>0, <1>2, PlanChargeTyped
  <2>2. UNCHANGED <<reminder, scan, sends, notifier, delivered, repeats>>
    BY <1>2 DEF PlanCharge, notifying
  <2>3. RowsOf(c) # {} => IsScheduled(c)
    BY DEF RowsOf, IsScheduled
  <2>4. \A d \in Charges : RowsOf(d) # {} /\ d \in planner'[p].new => d \in planner[p].new
    BY <2>1, <2>3
  <2> QED BY <2>1, <2>2, <2>4, PlannerBudget
<1>3. ASSUME NEW p \in Planners, PlanFails(p) PROVE BudgetInv'
  <2>1. ReminderInv' /\ planner'[p].new = {} /\ \A q \in Planners : q # p => planner'[q] = planner[q]
    BY <1>0, <1>3, PlanFailsTyped
  <2>2. UNCHANGED <<reminder, scan, sends, notifier, delivered, repeats>>
    BY <1>3 DEF PlanFails, notifying
  <2> QED BY <2>1, <2>2, PlannerBudget
<1> QED BY <1>1, <1>2, <1>3, CommitPlanBudget, ScheduleBudget DEF PlanStep

LEMMA InitBudget == ReminderInit => BudgetInv
<1> SUFFICES ASSUME ReminderInit PROVE BudgetInv
  OBVIOUS
<1>1. ReminderInv
  BY InitReminderInv
<1>2. \A c : RowsOf(c) = {}
  BY DEF ReminderInit, RowsOf
<1>3. \A c : CopiesOf(c) = {} /\ Delivering(c) = {} /\ Unpublished(c) = {} /\ Belated(c) = {}
  BY <1>2 DEF CopiesOf, Delivering, Unpublished, Belated
<1>4. \A c : Expected(c) = 1
  BY <1>2 DEF Expected
<1>5. IsFiniteSet({}) /\ Cardinality({}) = 0
  BY FS_EmptySet
<1>6. CopiesFinite
  BY <1>3, <1>5 DEF CopiesFinite
<1>7. ASSUME NEW c \in Charges PROVE WithinBudget(c)
  <2>1. Len(delivered[c]) = 0 /\ repeats[c] = 0
    BY DEF ReminderInit
  <2>2. Cardinality(CopiesOf(c)) = 0 /\ Cardinality(Delivering(c)) = 0 /\ Cardinality(Unpublished(c)) = 0
        /\ Cardinality(Belated(c)) = 0 /\ Expected(c) = 1
    BY <1>3, <1>4, <1>5
  <2> QED BY <2>1, <2>2 DEF WithinBudget
<1> QED BY <1>1, <1>6, <1>7 DEF BudgetInv

LEMMA ReminderNextBudget == BudgetInv /\ [ReminderNext]_<<expenseVars, reminderVars>> => BudgetInv'
<1> SUFFICES ASSUME BudgetInv, [ReminderNext]_<<expenseVars, reminderVars>> PROVE BudgetInv'
  OBVIOUS
<1>0. ReminderInv'
  BY ReminderNextTyped DEF BudgetInv
<1>1. CASE UNCHANGED reminderVars
  BY <1>0, <1>1, RestBudget DEF reminderVars, planning, notifying
<1>2. ASSUME NEW s \in Scanners, ScanStep(s) PROVE BudgetInv'
  BY <1>2, SelectDueBudget, PublishSendBudget, MarkQueuedBudget, CommitScanBudget, ScanFailsBudget DEF ScanStep
<1>3. ASSUME NEW n \in Notifiers, NotifyStep(n) PROVE BudgetInv'
  BY <1>3, ReceiveSendBudget, TestSendBudget, PushBudget, CommitDeliveryBudget, AcknowledgeBudget,
     DeliveryFailsBudget DEF NotifyStep
<1>4. ASSUME NEW b \in BOOLEAN, SetPermission(b) \/ SaveDevice(b) PROVE BudgetInv'
  <2>1. UNCHANGED <<planner, reminder, scan, sends, notifier, delivered, repeats>>
    BY <1>4 DEF SetPermission, SaveDevice, planning
  <2> QED BY <1>0, <2>1, RestBudget
<1> QED BY <1>1, <1>2, <1>3, <1>4, PlanBudget DEF ReminderNext, SetUpPush

LEMMA WithinBudgetOnce == BudgetInv => DeliveredOncePerCharge
<1> SUFFICES ASSUME BudgetInv, NEW c \in Charges, c[1] # Manual PROVE Len(delivered[c]) <= 1 + repeats[c]
  BY DEF DeliveredOncePerCharge
<1> DEFINE l == Len(delivered[c])          q == Cardinality(CopiesOf(c))     d == Cardinality(Delivering(c))
           u == Cardinality(Unpublished(c)) b == Cardinality(Belated(c))     e == Expected(c)
           r == repeats[c]
<1>1. l \in Nat /\ q \in Nat /\ d \in Nat /\ u \in Nat /\ b \in Nat /\ e \in Nat /\ r \in Nat
  BY AllCounted DEF BudgetInv, Counted
<1>2. l + q + d + u + b + e <= 1 + r
  BY DEF BudgetInv, WithinBudget
<1> HIDE DEF l, q, d, u, b, e, r
<1>3. l <= 1 + r
  BY <1>1, <1>2
<1> QED BY <1>3 DEF l, r

\* Planning inserts a reminder it finds missing and scans select planned ones:
\* a charge is delivered once, and once more for each overlap of plannings or
\* scans, scan that failed after it published, and notifier that failed after
\* its commit, which are all that "repeats" counts.
THEOREM DeliveriesAreLimited == ReminderSpec => []DeliveredOncePerCharge
<1> QED BY InitBudget, ReminderNextBudget, WithinBudgetOnce, PTL DEF ReminderSpec

===============================================================================
