------------------------ MODULE VikunjaBridgeProofs ------------------------
(* Theorems about VikunjaBridge, for any tasks, board, parents and cap. *)
EXTENDS VikunjaBridge, TLAPS

USE DEF Steps, Verdicts, Comments, CardStates, Timers, Dwells, OptionalColumns, Buckets

LEMMA InitIInv == Init => IInv
  BY BridgeAssumption
  DEF Init, IInv, TypeOK, InHand, LedgerInMemory, VerdictHolds, TakeoverHolds, NoTimers,
      Reporting, TakingOver

LEMMA StepIInv == IInv /\ [Next]_vars => IInv'
<1> SUFFICES ASSUME IInv, [Next]_vars PROVE IInv'
  OBVIOUS
<1> USE DEF IInv, TypeOK, InHand, LedgerInMemory, VerdictHolds, TakeoverHolds, Reporting, TakingOver, RoomLeft,
           world, kept, boardVars, hermesVars, fileVars, laneVars, snapVars, loopVars
<1>1. CASE StartTick
  BY BridgeAssumption, <1>1 DEF StartTick
<1>2. ASSUME NEW t \in Tasks, ReconcileSkip(t) PROVE IInv'
  BY <1>2 DEF ReconcileSkip, Pass
<1>3. ASSUME NEW t \in Tasks, ReconcileJudge(t) PROVE IInv'
  BY <1>3 DEF ReconcileJudge, Judge, Settled, Ok, OutcomeOf, Relay!Truthful
<1>4. CASE ReconcileComment
  BY BridgeAssumption, <1>4 DEF ReconcileComment
<1>5. CASE ReconcileMove
  BY <1>5 DEF ReconcileMove, AfterMove, Moved, Target
<1>6. CASE ReconcileDone
  BY <1>6 DEF ReconcileDone
<1>7. CASE ReconcileSave
  BY <1>7 DEF ReconcileSave, RetryStamp, Untracked
<1>8. CASE ReconcileEnd
  BY <1>8 DEF ReconcileEnd
<1>9. ASSUME NEW t \in Tasks, RequeueSkip(t) PROVE IInv'
  BY <1>9 DEF RequeueSkip, Pass
<1>10. ASSUME NEW t \in Tasks, RequeueMove(t) PROVE IInv'
  BY <1>10 DEF RequeueMove, Moved
<1>11. CASE RequeueComment
  BY <1>11 DEF RequeueComment
<1>12. CASE RequeueEnd
  BY <1>12 DEF RequeueEnd, StampsKept
<1>13. ASSUME NEW t \in Tasks, TriageWait(t) PROVE IInv'
  BY <1>13 DEF TriageWait
<1>14. ASSUME NEW t \in Tasks, TriageComment(t) PROVE IInv'
  BY <1>14 DEF TriageComment
<1>15. CASE TriageMove
  BY <1>15 DEF TriageMove, Moved
<1>16. CASE SaveLanes
  BY BridgeAssumption, <1>16 DEF SaveLanes, Rest, NoTimers
<1>17. ASSUME NEW t \in Tasks, IntakeSkip(t) PROVE IInv'
  BY <1>17 DEF IntakeSkip, Pass
<1>18. ASSUME NEW t \in Tasks, IntakeCreate(t) PROVE IInv'
  BY <1>18 DEF IntakeCreate, Actionable, Created, OutcomeOf, Relay!Truthful
<1>19. CASE IntakeSave
  BY <1>19 DEF IntakeSave
<1>20. CASE IntakeComment
  BY <1>20 DEF IntakeComment
<1>21. CASE IntakeMove
  BY BridgeAssumption, <1>21 DEF IntakeMove, Moved
<1>22. CASE IntakeEnd
  BY BridgeAssumption, <1>22 DEF IntakeEnd, Rest, NoTimers
<1>23. CASE NotFound
  BY BridgeAssumption, <1>23 DEF NotFound, Rest, NoTimers
<1>24. CASE Abort
  BY BridgeAssumption, <1>24 DEF Abort, Rest, NoTimers
<1>25. ASSUME NEW t \in Tasks, IntakeRefused(t) PROVE IInv'
  BY <1>25 DEF IntakeRefused, Actionable, Created
<1>26. ASSUME NEW t \in Tasks, ReconcileUnread(t) PROVE IInv'
  BY <1>26 DEF ReconcileUnread, Pass
<1>27. ASSUME NEW t \in Tasks, OperatorFile(t) PROVE IInv'
  BY <1>27 DEF OperatorFile, daemonVars
<1>28. ASSUME NEW t \in Tasks, NEW b \in Buckets, OperatorMove(t, b) PROVE IInv'
  BY <1>28 DEF OperatorMove, daemonVars
<1>29. ASSUME NEW t \in Tasks, OperatorFinish(t) PROVE IInv'
  BY <1>29 DEF OperatorFinish, daemonVars
<1>30. ASSUME NEW t \in Tasks, OperatorDelete(t) PROVE IInv'
  BY <1>30 DEF OperatorDelete, daemonVars
<1>31. CASE LedgerDiscarded
  BY <1>31 DEF LedgerDiscarded
<1>32. ASSUME NEW t \in Tasks, CardSettles(t) PROVE IInv'
  BY <1>32 DEF CardSettles, CardMay, daemonVars, OutcomeOf, Relay!Truthful
<1>33. ASSUME NEW t \in Tasks, CardParks(t) PROVE IInv'
  BY <1>33 DEF CardParks, CardMay, daemonVars, OutcomeOf, Relay!Truthful
<1>34. ASSUME NEW t \in Tasks, CardUnparks(t) PROVE IInv'
  BY <1>34 DEF CardUnparks, CardMay, daemonVars, OutcomeOf, Relay!Truthful
<1>35. ASSUME NEW t \in Tasks, CardArchived(t) PROVE IInv'
  BY <1>35 DEF CardArchived, CardMay, daemonVars, OutcomeOf, Relay!Truthful
<1>36. CASE ProbeChanges
  BY <1>36 DEF ProbeChanges, daemonVars
<1>37. ASSUME NEW t \in Tasks, BusyTimerExpires(t) PROVE IInv'
  BY <1>37 DEF BusyTimerExpires, Later
<1>38. ASSUME NEW t \in Tasks, BlockedAges(t) PROVE IInv'
  BY <1>38 DEF BlockedAges, Later
<1>39. CASE UNCHANGED vars
  BY <1>39 DEF vars, OutcomeOf
<1>40. QED
  BY <1>1, <1>2, <1>3, <1>4, <1>5, <1>6, <1>7, <1>8, <1>9, <1>10, <1>11, <1>12, <1>13, <1>14, <1>15, <1>16, <1>17, <1>18, <1>19, <1>20, <1>21, <1>22, <1>23, <1>24, <1>25, <1>26, <1>27, <1>28, <1>29, <1>30, <1>31, <1>32, <1>33, <1>34, <1>35, <1>36, <1>37, <1>38, <1>39
  DEF Next, Bridge, Reconcile, Requeue, Triage, Intake, Fault, Operator, Hermes, Clock

-----------------------------------------------------------------------------

\* The variables of a tick stay in their sets, a step that works on a task has
\* one in hand, the memory agrees with the ledger and a verdict is true of its
\* card, in every reachable state: the daemon's loop as a whole.
THEOREM BridgeInvariant == Spec => []IInv
<1>1. Init => IInv
  BY InitIInv
<1>2. IInv /\ [Next]_vars => IInv'
  BY StepIInv
<1>3. QED
  BY <1>1, <1>2, PTL DEF Spec

\* Every variable keeps its type; intake never exceeds its cap.
THEOREM BridgeType == Spec => []TypeOK
<1>1. IInv => TypeOK
  BY DEF IInv
<1>2. QED
  BY <1>1, BridgeInvariant, PTL

-----------------------------------------------------------------------------
(* The ledger and the comments.  No ledger is lost in these.               *)

LedgerKept == "discard_ledger" \notin OperatorMay

LEMMA WhoTouches ==
    ASSUME LedgerKept, [Next]_vars
    PROVE  \/ UNCHANGED <<said, ledger>>
           \/ ReconcileComment \/ ReconcileSave
           \/ RequeueComment \/ \E t \in Tasks : TriageComment(t)
           \/ IntakeSave \/ IntakeComment
<1> USE DEF world, kept, boardVars, hermesVars, fileVars, laneVars, snapVars, loopVars,
            daemonVars
<1>1. Bridge => \/ UNCHANGED <<said, ledger>>
                \/ ReconcileComment \/ ReconcileSave
                \/ RequeueComment \/ \E t \in Tasks : TriageComment(t)
                \/ IntakeSave \/ IntakeComment
  BY DEF Bridge, StartTick, NotFound, Pass,
         Reconcile, ReconcileSkip, ReconcileJudge, ReconcileMove, ReconcileDone, ReconcileEnd,
         Requeue, RequeueSkip, RequeueMove, RequeueEnd,
         Triage, TriageWait, TriageMove, SaveLanes,
         Intake, IntakeSkip, IntakeCreate, IntakeMove, IntakeEnd
<1>2. Fault => UNCHANGED <<said, ledger>>
  BY DEF Fault, Abort, IntakeRefused, ReconcileUnread, Pass
<1>3. Operator \/ Hermes \/ Clock => UNCHANGED <<said, ledger>>
  BY DEF LedgerKept, Operator, OperatorFile, OperatorMove, OperatorFinish, OperatorDelete,
         LedgerDiscarded, Hermes, CardSettles, CardParks, CardUnparks, CardArchived, CardMay,
         ProbeChanges, Clock, BusyTimerExpires, BlockedAges
<1>4. UNCHANGED vars => UNCHANGED <<said, ledger>>
  BY DEF vars
<1>5. QED
  BY <1>1, <1>2, <1>3, <1>4 DEF Next

LEMMA StepPickedUp ==
    ASSUME LedgerKept, IInv, PickedUpIsTracked, [Next]_vars
    PROVE  PickedUpIsTracked'
<1> USE DEF PickedUpIsTracked, IInv, TypeOK
<1>1. CASE UNCHANGED <<said, ledger>>
  BY <1>1
<1>2. CASE ReconcileComment
  BY <1>2 DEF ReconcileComment, fileVars, VerdictHolds, Reporting, Relay!Truthful
<1>3. CASE ReconcileSave
  BY <1>3 DEF ReconcileSave, Untracked, boardVars, LedgerInMemory, VerdictHolds, Reporting,
              Relay!Truthful
<1>4. CASE RequeueComment
  BY <1>4 DEF RequeueComment, fileVars
<1>5. CASE \E t \in Tasks : TriageComment(t)
  BY <1>5 DEF TriageComment, fileVars
<1>6. CASE IntakeSave
  BY <1>6 DEF IntakeSave, LedgerInMemory
<1>7. CASE IntakeComment
  BY <1>7 DEF IntakeComment, fileVars, TakeoverHolds
<1>8. QED
  BY <1>1, <1>2, <1>3, <1>4, <1>5, <1>6, <1>7, WhoTouches

\* A task the board says was picked up is in the ledger, whatever aborts the
\* daemon: nothing announced is ever forgotten by reconcile.
THEOREM PickedUpTheorem == LedgerKept => (Spec => []PickedUpIsTracked)
<1> SUFFICES ASSUME LedgerKept PROVE Spec => []PickedUpIsTracked
  OBVIOUS
<1>1. Init => PickedUpIsTracked
  BY DEF Init, PickedUpIsTracked
<1>2. IInv /\ PickedUpIsTracked /\ [Next]_vars => PickedUpIsTracked'
  BY StepPickedUp
<1>3. QED
  BY <1>1, <1>2, BridgeInvariant, PTL DEF Spec

-----------------------------------------------------------------------------
(* The done flag.                                                          *)

LEMMA DoneGrows ==
    ASSUME IInv, [Next]_vars, NEW t \in Tasks
    PROVE  /\ done[t] => done'[t]
           /\ Gone(t) => Gone(t)'
<1> USE DEF world, kept, boardVars, hermesVars, fileVars, laneVars, snapVars, loopVars,
            daemonVars, IInv, TypeOK, Moved, Target, Gone
<1>1. CASE Reconcile \/ StartTick \/ NotFound
  BY <1>1 DEF StartTick, NotFound, Rest, Pass, Reconcile, ReconcileSkip, ReconcileJudge,
              ReconcileComment, ReconcileMove, ReconcileDone, ReconcileSave, ReconcileEnd
<1>2. CASE Requeue \/ Triage
  BY <1>2 DEF Requeue, RequeueSkip, RequeueMove, RequeueComment, RequeueEnd, Pass,
              Triage, TriageWait, TriageComment, TriageMove, SaveLanes
<1>3. CASE Intake \/ Fault
  BY <1>3 DEF Intake, IntakeSkip, IntakeCreate, IntakeSave, IntakeComment, IntakeMove,
              IntakeEnd, Pass, Fault, Abort, IntakeRefused, ReconcileUnread
<1>4. CASE Operator
  BY <1>4 DEF Operator, OperatorFile, OperatorMove, OperatorFinish, OperatorDelete,
              LedgerDiscarded
<1>5. CASE Hermes \/ Clock
  BY <1>5 DEF Hermes, CardSettles, CardParks, CardUnparks, CardArchived, CardMay,
              ProbeChanges, Clock, BusyTimerExpires, BlockedAges
<1>6. CASE UNCHANGED vars
  BY <1>6 DEF vars
<1>7. QED
  BY <1>1, <1>2, <1>3, <1>4, <1>5, <1>6 DEF Next, Bridge

LEMMA StepClosed ==
    ASSUME LedgerKept, IInv, CompletedIsClosed, [Next]_vars
    PROVE  CompletedIsClosed'
<1> USE DEF CompletedIsClosed, IInv, TypeOK
<1>1. CASE UNCHANGED <<said, ledger>>
  BY <1>1, DoneGrows
<1>2. CASE ReconcileComment
  BY <1>2 DEF ReconcileComment, fileVars, VerdictHolds, Reporting
<1>3. CASE ReconcileSave
  BY <1>3 DEF ReconcileSave, Untracked, boardVars, LedgerInMemory, VerdictHolds, Reporting
<1>4. CASE RequeueComment
  BY <1>4, DoneGrows DEF RequeueComment, fileVars
<1>5. CASE \E t \in Tasks : TriageComment(t)
  BY <1>5, DoneGrows DEF TriageComment, fileVars
<1>6. CASE IntakeSave
  BY <1>6, DoneGrows DEF IntakeSave, LedgerInMemory
<1>7. CASE IntakeComment
  BY <1>7, DoneGrows DEF IntakeComment, fileVars
<1>8. QED
  BY <1>1, <1>2, <1>3, <1>4, <1>5, <1>6, <1>7, WhoTouches

\* A task that was reported as completed and has left the ledger is closed on
\* the board, whichever of the four calls of reconcile a crash fell between.
THEOREM ClosedTheorem == LedgerKept => (Spec => []CompletedIsClosed)
<1> SUFFICES ASSUME LedgerKept PROVE Spec => []CompletedIsClosed
  OBVIOUS
<1>1. Init => CompletedIsClosed
  BY DEF Init, CompletedIsClosed
<1>2. IInv /\ CompletedIsClosed /\ [Next]_vars => CompletedIsClosed'
  BY StepClosed
<1>3. QED
  BY <1>1, <1>2, BridgeInvariant, PTL DEF Spec

-----------------------------------------------------------------------------
(* The cards.                                                              *)

LEMMA CardBorn ==
    ASSUME IInv, [Next]_vars, NEW t \in Tasks, card[t] = "none", card'[t] # "none"
    PROVE  ~HasUndoneParent(t)
<1> USE DEF world, kept, boardVars, hermesVars, fileVars, laneVars, snapVars, loopVars,
            daemonVars, IInv, TypeOK
<1>1. CASE Reconcile \/ StartTick \/ NotFound
  BY <1>1 DEF StartTick, NotFound, Rest, Pass, Reconcile, ReconcileSkip, ReconcileJudge,
              ReconcileComment, ReconcileMove, ReconcileDone, ReconcileSave, ReconcileEnd
<1>2. CASE Requeue \/ Triage
  BY <1>2 DEF Requeue, RequeueSkip, RequeueMove, RequeueComment, RequeueEnd, Pass,
              Triage, TriageWait, TriageComment, TriageMove, SaveLanes
<1>3. CASE Intake \/ Fault
  BY <1>3 DEF Intake, IntakeSkip, IntakeCreate, IntakeSave, IntakeComment, IntakeMove,
              IntakeEnd, Pass, Fault, Abort, IntakeRefused, ReconcileUnread, Actionable
<1>4. CASE Operator
  BY <1>4 DEF Operator, OperatorFile, OperatorMove, OperatorFinish, OperatorDelete,
              LedgerDiscarded
<1>5. CASE Hermes \/ Clock
  BY <1>5 DEF Hermes, CardSettles, CardParks, CardUnparks, CardArchived, CardMay,
              ProbeChanges, Clock, BusyTimerExpires, BlockedAges
<1>6. CASE UNCHANGED vars
  BY <1>6 DEF vars
<1>7. QED
  BY <1>1, <1>2, <1>3, <1>4, <1>5, <1>6 DEF Next, Bridge

\* A hard-dep task has a card only if all its parents are done (or deleted).
THEOREM HardDepTheorem == Spec => []HardDepRespected
<1>1. Init => HardDepRespected
  BY DEF Init, HardDepRespected
<1>2. IInv /\ HardDepRespected /\ [Next]_vars => HardDepRespected'
  <2> SUFFICES ASSUME IInv, HardDepRespected, [Next]_vars,
                      NEW t \in Tasks, card'[t] # "none", NEW p \in Parents[t]
               PROVE  done'[p] \/ Gone(p)'
    BY DEF HardDepRespected
  <2>1. p \in Tasks
    BY BridgeAssumption DEF BridgeAssumption
  <2>2. done[p] \/ Gone(p)
    BY CardBorn DEF HardDepRespected, HasUndoneParent
  <2>3. QED
    BY <2>1, <2>2, DoneGrows
<1>3. QED
  BY <1>1, <1>2, BridgeInvariant, PTL DEF Spec

\* The bridge sets the done flag of a task only if its card's run completed.
THEOREM ClosedMeansTheorem == Spec => ClosedMeansCompleted
<1>1. IInv /\ [Next]_vars => [\A t \in Tasks : done'[t] /\ ~done[t] /\ pc = "r_done" /\ cur = t
                                => OutcomeOf(card[t]) = "good"]_vars
  BY DEF IInv, VerdictHolds, Reporting, Relay!Truthful
<1>2. QED
  BY <1>1, BridgeInvariant, PTL DEF Spec, ClosedMeansCompleted

-----------------------------------------------------------------------------
(* The refinement of ResultRelay.                                          *)

\* Who else can change what the abstract specification sees.
LEMMA WhoTouchesCards ==
    ASSUME LedgerKept, [Next]_vars
    PROVE  \/ UNCHANGED <<said, ledger, card>>
           \/ ReconcileComment \/ ReconcileSave
           \/ RequeueComment \/ \E t \in Tasks : TriageComment(t)
           \/ IntakeSave \/ IntakeComment
           \/ \E t \in Tasks : IntakeCreate(t) \/ IntakeRefused(t)
           \/ \E t \in Tasks :
                CardSettles(t) \/ CardParks(t) \/ CardUnparks(t) \/ CardArchived(t)
<1> USE DEF world, kept, boardVars, hermesVars, fileVars, laneVars, snapVars, loopVars,
            daemonVars
<1>1. Bridge => \/ UNCHANGED <<said, ledger, card>>
                \/ ReconcileComment \/ ReconcileSave
                \/ RequeueComment \/ \E t \in Tasks : TriageComment(t)
                \/ IntakeSave \/ IntakeComment
                \/ \E t \in Tasks : IntakeCreate(t)
  BY DEF Bridge, StartTick, NotFound, Pass,
         Reconcile, ReconcileSkip, ReconcileJudge, ReconcileMove, ReconcileDone, ReconcileEnd,
         Requeue, RequeueSkip, RequeueMove, RequeueEnd,
         Triage, TriageWait, TriageMove, SaveLanes,
         Intake, IntakeSkip, IntakeMove, IntakeEnd
<1>2. Fault => UNCHANGED <<said, ledger, card>> \/ \E t \in Tasks : IntakeRefused(t)
  BY DEF Fault, Abort, ReconcileUnread, Pass
<1>3. Operator \/ Clock => UNCHANGED <<said, ledger, card>>
  BY DEF LedgerKept, Operator, OperatorFile, OperatorMove, OperatorFinish, OperatorDelete,
         LedgerDiscarded, Clock, BusyTimerExpires, BlockedAges
<1>4. Hermes => \/ UNCHANGED <<said, ledger, card>>
                \/ \E t \in Tasks :
                     CardSettles(t) \/ CardParks(t) \/ CardUnparks(t) \/ CardArchived(t)
  BY DEF Hermes, ProbeChanges
<1>5. UNCHANGED vars => UNCHANGED <<said, ledger, card>>
  BY DEF vars
<1>6. QED
  BY <1>1, <1>2, <1>3, <1>4, <1>5 DEF Next

LEMMA OutcomeMoves ==
    ASSUME card \in [Tasks -> CardStates], NEW t \in Tasks, NEW c,
           card' = [card EXCEPT ![t] = c]
    PROVE  [u \in Tasks |-> OutcomeOf(card'[u])]
            = [[u \in Tasks |-> OutcomeOf(card[u])] EXCEPT ![t] = OutcomeOf(c)]
  OBVIOUS

LEMMA OutcomeStays ==
    ASSUME card \in [Tasks -> CardStates], NEW t \in Tasks, NEW c,
           card' = [card EXCEPT ![t] = c], OutcomeOf(c) = OutcomeOf(card[t])
    PROVE  UNCHANGED [u \in Tasks |-> OutcomeOf(card[u])]
  OBVIOUS

CardBecomes(t, c) ==
    /\ card' = [card EXCEPT ![t] = c]
    /\ \/ OutcomeOf(c) = OutcomeOf(card[t])
       \/ OutcomeOf(card[t]) = "pending" /\ OutcomeOf(c) \in {"good", "bad"}

LEMMA StepRelay ==
    ASSUME LedgerKept, IInv, [Next]_vars
    PROVE  [Relay!RelayNext]_(Relay!relayVars)
<1> USE DEF IInv, TypeOK, Relay!relayVars, ReportOf
<1>1. CASE UNCHANGED <<said, ledger, card>>
  BY <1>1
<1>2. CASE ReconcileComment
  <2>1. PICK t \in Tasks : t = cur
    BY <1>2 DEF ReconcileComment, InHand, Reporting
  <2>2. t \in ledger /\ verdict \in Relay!Reports /\ Relay!Truthful(verdict, OutcomeOf(card[t]))
    <3>1. verdict \in Relay!Reports /\ Relay!Truthful(verdict, OutcomeOf(card[t]))
      BY <1>2, <2>1 DEF ReconcileComment, VerdictHolds, Reporting, Relay!Truthful, Relay!Reports
    <3>2. t \in ledger
      BY <1>2, <2>1 DEF ReconcileComment, VerdictHolds, Reporting
    <3>3. QED
      BY <3>1, <3>2
  <2>3. \A u \in Tasks : ReportOf(u)' = IF u = t THEN verdict ELSE ReportOf(u)
    BY <1>2, <2>1, <2>2 DEF ReconcileComment, Relay!Reports
  <2>4. UNCHANGED <<ledger, card>>
    BY <1>2 DEF ReconcileComment, hermesVars, fileVars
  <2>5. Relay!Report(t)
    <3> HIDE DEF IInv, TypeOK
    <3>1. QED
      BY <2>2, <2>3, <2>4 DEF Relay!Report
  <2>6. QED
    BY <2>5 DEF Relay!RelayNext
<1>3. CASE ReconcileSave
  <2>1. PICK t \in Tasks : t = cur
    BY <1>3 DEF ReconcileSave, InHand, Reporting, TakingOver
  <2>2. Relay!Release(t)
    BY <1>3, <2>1 DEF ReconcileSave, Untracked, boardVars, hermesVars, LedgerInMemory,
              VerdictHolds, Reporting, Relay!Release, Relay!Truthful
  <2>3. QED
    BY <2>2 DEF Relay!RelayNext
<1>4. CASE RequeueComment
  <2>1. PICK t \in Tasks : t = cur
    BY <1>4 DEF RequeueComment, InHand, Reporting, TakingOver
  <2>2. Relay!Remark(t)
    BY <1>4, <2>1 DEF RequeueComment, hermesVars, fileVars, Relay!Remark
  <2>3. QED
    BY <2>2 DEF Relay!RelayNext
<1>5. ASSUME NEW t \in Tasks, TriageComment(t) PROVE Relay!RelayNext
  <2>1. Relay!Remark(t)
    BY <1>5 DEF TriageComment, hermesVars, fileVars, Relay!Remark
  <2>2. QED
    BY <2>1 DEF Relay!RelayNext
<1>6. CASE IntakeSave
  <2>1. PICK t \in Tasks : t = cur
    BY <1>6 DEF IntakeSave, InHand, Reporting, TakingOver
  <2>2. Relay!Accept(t)
    BY <1>6, <2>1 DEF IntakeSave, hermesVars, LedgerInMemory, TakeoverHolds, Relay!Accept
  <2>3. QED
    BY <2>2 DEF Relay!RelayNext
<1>7. CASE IntakeComment
  <2>1. PICK t \in Tasks : t = cur
    BY <1>7 DEF IntakeComment, InHand, Reporting, TakingOver
  <2>2. Relay!Remark(t)
    BY <1>7, <2>1 DEF IntakeComment, hermesVars, fileVars, Relay!Remark
  <2>3. QED
    BY <2>2 DEF Relay!RelayNext
<1>8. ASSUME NEW t \in Tasks, IntakeCreate(t) \/ IntakeRefused(t)
      PROVE  [Relay!RelayNext]_(Relay!relayVars)
  <2>1. t \notin ledger /\ UNCHANGED <<said, ledger>>
    BY <1>8 DEF IntakeCreate, IntakeRefused, Actionable, boardVars, fileVars, LedgerInMemory
  <2>2. card' = card \/ card' = [card EXCEPT ![t] = Created(card[t])]
    BY <1>8 DEF IntakeCreate, IntakeRefused
  <2>3. CASE card' = card
    BY <2>1, <2>3
  <2>4. CASE card' = [card EXCEPT ![t] = Created(card[t])]
    <3>1. OutcomeOf(Created(card[t])) = OutcomeOf(card[t]) \/ OutcomeOf(Created(card[t])) = "pending"
      BY DEF Created, OutcomeOf
    <3>2. CASE OutcomeOf(Created(card[t])) = OutcomeOf(card[t])
      BY <2>1, <2>4, <3>2, OutcomeStays
    <3>3. CASE OutcomeOf(Created(card[t])) = "pending"
      <4>1. Relay!Reopen(t)
        BY <2>1, <2>4, <3>3, OutcomeMoves DEF Relay!Reopen
      <4>2. QED
        BY <4>1 DEF Relay!RelayNext
    <3>4. QED
      BY <3>1, <3>2, <3>3
  <2>5. QED
    BY <2>2, <2>3, <2>4
<1>9. ASSUME NEW t \in Tasks,
             CardSettles(t) \/ CardParks(t) \/ CardUnparks(t) \/ CardArchived(t)
      PROVE  [Relay!RelayNext]_(Relay!relayVars)
  <2>1. UNCHANGED <<said, ledger>>
    BY <1>9 DEF CardSettles, CardParks, CardUnparks, CardArchived, CardMay, boardVars,
                daemonVars, fileVars
  <2>2. PICK c \in CardStates : CardBecomes(t, c)
    BY <1>9 DEF CardSettles, CardParks, CardUnparks, CardArchived, CardMay, OutcomeOf,
                CardBecomes
  <2>3. CASE OutcomeOf(c) = OutcomeOf(card[t])
    BY <2>1, <2>2, <2>3, OutcomeStays DEF CardBecomes
  <2>4. CASE OutcomeOf(card[t]) = "pending" /\ OutcomeOf(c) \in {"good", "bad"}
    <3>1. Relay!Finish(t)
      BY <2>1, <2>2, <2>4, OutcomeMoves DEF CardBecomes, Relay!Finish
    <3>2. QED
      BY <3>1 DEF Relay!RelayNext
  <2>5. QED
    BY <2>2, <2>3, <2>4 DEF CardBecomes
<1>10. QED
  BY <1>1, <1>2, <1>3, <1>4, <1>5, <1>6, <1>7, <1>8, <1>9, WhoTouchesCards

\* The daemon, with every crash, refusal and operator in it, does nothing the
\* contract does not allow: no task is let go before a true report of its card
\* stands on the board.
THEOREM RelayTheorem == LedgerKept => (Spec => RelayContract)
<1> SUFFICES ASSUME LedgerKept PROVE Spec => RelayContract
  OBVIOUS
<1>1. Init => Relay!RelayInit
  BY DEF Init, Relay!RelayInit, ReportOf, OutcomeOf
<1>2. IInv /\ [Next]_vars => [Relay!RelayNext]_(Relay!relayVars)
  BY StepRelay
<1>3. QED
  BY <1>1, <1>2, BridgeInvariant, PTL DEF Spec, RelayContract, Relay!RelaySpec

-----------------------------------------------------------------------------
(* The board, in ticks that nothing cuts short, with or without its other optional *)
(* columns, that the operator only files tasks on: for any tasks, parents, cap,    *)
(* probe readings and cards, and with refused intakes and unreadable cards.  On a  *)
(* board without In Progress a task that was handed over lies in READY still, and  *)
(* the snapshot of a tick offers it once more after it was let go.                 *)

Undisturbed ==
    /\ OperatorMay = {}
    /\ "abort" \notin MayFail
    /\ "in_progress" \in Columns

\* The retry stamp that counts: the file's, except in a tick before save_lanes.
AfterSaveLanes == {"idle", "intake", "i_save", "i_comment", "i_move"}
Stamp(t) == IF pc \in AfterSaveLanes THEN busyFile[t] ELSE busyTasks[t]

\* Where a task lies that no step is at work on: one that is tracked is announced and in
\* progress, any other lies where its last comment says, and waits under a stamp if busy.
Lies(t, comment, column) == said[t] = comment /\ bucket[t] = column

\* Where a verdict's move leaves a task that was in progress.
Place(v) == IF Target(v) \in Columns THEN Target(v) ELSE "in_progress"

Rests(t) ==
    \/ t \in ledger /\ Lies(t, "picked_up", "in_progress") /\ Stamp(t) = "none"
    \/ t \notin ledger /\ Lies(t, "busy", "busy") /\ Stamp(t) # "none"
    \/ /\ t \notin ledger /\ Stamp(t) = "none"
       /\ \/ Lies(t, "none", "elsewhere") \/ Lies(t, "none", "ready")
          \/ Lies(t, "completed", Place("completed")) \/ Lies(t, "FAILED", Place("FAILED"))
          \/ Lies(t, "requeued", "ready") \/ Lies(t, "triaged", "needs_triage")

\* The task in hand on its way from one place to the next.
Moving == {"r_move", "r_done", "r_save", "q_comment", "t_move", "i_comment", "i_move"}
Moves ==
    /\ pc = "r_move" => cur \in ledger /\ Lies(cur, verdict, "in_progress") /\ Stamp(cur) = "none"
    /\ pc \in {"r_done", "r_save"} => cur \in ledger /\ Lies(cur, verdict, Place(verdict)) /\ Stamp(cur) = "none"
    /\ pc = "q_comment" => cur \notin ledger /\ Lies(cur, "busy", "ready") /\ Stamp(cur) # "none"
    /\ pc = "t_move" => cur \notin ledger /\ Lies(cur, "triaged", "blocked") /\ Stamp(cur) = "none"
    /\ pc = "i_comment" => cur \in ledger /\ Lies(cur, "none", "ready") /\ Stamp(cur) = "none"
    /\ pc = "i_move" => cur \in ledger /\ Lies(cur, "picked_up", "ready") /\ Stamp(cur) = "none"

\* What needs a column happens only on a board that has it.
ColumnsHold ==
    /\ pc \in Reporting /\ verdict = "busy" => "busy" \in Columns
    /\ ~({"blocked", "needs_triage"} \subseteq Columns) => pc # "t_move" /\ (pc = "triage" => todo = {})

\* The snapshot of the tick is still true of what the tick has not been at yet.
Intaking == {"intake", "i_save", "i_comment", "i_move"}
SnapshotHolds ==
    /\ pc # "idle" => \A t \in snapReady : t \notin ledger => bucket[t] = "ready"
    /\ pc \notin Intaking \union {"idle"} => snapReady \intersect ledger = {}
    /\ pc \in Intaking => todo \subseteq snapReady
    /\ pc \in Intaking \ {"intake"} => cur \in snapReady
    /\ pc \notin Intaking \union {"idle", "triage", "t_move"} => \A t \in snapBlocked : bucket[t] = "blocked"
    /\ pc \in {"triage", "t_move"} => \A t \in todo : bucket[t] = "blocked"

BoardHolds ==
    /\ \A t \in Tasks : t # cur \/ pc \notin Moving => Rests(t)
    /\ Moves
    /\ ColumnsHold
    /\ SnapshotHolds

-----------------------------------------------------------------------------

LEMMA InitBoard == Init => BoardHolds
  BY DEF Init, BoardHolds, Moves, ColumnsHold, Reporting, SnapshotHolds, Rests, Lies, Stamp, AfterSaveLanes, NoTimers,
         Moving, Intaking

\* Where tasks lie, none is deleted.
LEMMA NoneIsGone == BoardHolds /\ IInv => \A t \in Tasks : ~Gone(t)
  BY DEF BoardHolds, IInv, TypeOK, InHand, VerdictHolds, Moves, Rests, Lies, Moving, Reporting,
         TakingOver, Gone, Target, Place

LEMMA StepBoard == ASSUME Undisturbed, IInv, BoardHolds, [Next]_vars PROVE BoardHolds'
<1> USE DEF Undisturbed, IInv, TypeOK, InHand, LedgerInMemory, VerdictHolds, TakeoverHolds,
            Reporting, TakingOver, BoardHolds, Moves, ColumnsHold, SnapshotHolds, Rests, Lies, Stamp,
            AfterSaveLanes, Moving, Intaking,
            world, kept, boardVars, hermesVars, fileVars, laneVars, snapVars, loopVars
<1>1. CASE StartTick
  BY <1>1 DEF StartTick
<1>2. ASSUME NEW t \in Tasks, ReconcileSkip(t) PROVE BoardHolds'
  BY <1>2 DEF ReconcileSkip, Pass
<1>3. ASSUME NEW t \in Tasks, ReconcileJudge(t) PROVE BoardHolds'
  BY <1>3 DEF ReconcileJudge, Judge
<1>4. CASE ReconcileComment
  BY <1>4 DEF ReconcileComment
<1>5. CASE ReconcileMove
  BY <1>5 DEF ReconcileMove, AfterMove, Moved, Target, Place
<1>6. CASE ReconcileDone
  BY <1>6 DEF ReconcileDone, Target, Place
<1>7. CASE ReconcileSave
  <2>1. /\ pc = "r_save" /\ pc' = "reconcile" /\ cur \in Tasks
        /\ busyTasks' = IF verdict = "busy" THEN [busyTasks EXCEPT ![cur] = "waiting"] ELSE busyTasks
        /\ ledger' = ledger \ {cur}
        /\ UNCHANGED <<bucket, said, snapReady, snapBlocked>>
    BY <1>7 DEF ReconcileSave, RetryStamp, Untracked
  <2>2. cur \in ledger /\ Lies(cur, verdict, Place(verdict)) /\ busyTasks[cur] = "none"
    BY <2>1
  <2>3. verdict \in Verdicts
    BY <2>1 DEF Relay!Truthful
  <2>4. ASSUME NEW t \in Tasks, t = cur PROVE Rests(t)'
    <3>1. said'[t] = verdict /\ bucket'[t] = Place(verdict) /\ t \notin ledger'
      BY <2>1, <2>2, <2>4
    <3>2. Stamp(t)' = IF verdict = "busy" THEN "waiting" ELSE "none"
      BY <2>1, <2>2, <2>4
    <3>3. CASE verdict = "busy"
      BY <2>1, <3>1, <3>2, <3>3 DEF Target, Place
    <3>4. CASE verdict \in {"completed", "FAILED"}
      BY <3>1, <3>2, <3>4
    <3>5. QED
      BY <2>3, <3>3, <3>4
  <2>5. ASSUME NEW t \in Tasks \ {cur} PROVE Rests(t)'
    <3>1. Rests(t) /\ busyTasks'[t] = busyTasks[t]
      BY <2>1
    <3>2. Stamp(t)' = Stamp(t) /\ (t \in ledger' <=> t \in ledger)
      BY <2>1, <3>1
    <3>3. said'[t] = said[t] /\ bucket'[t] = bucket[t]
      BY <2>1
    <3>4. QED
      BY <3>1, <3>2, <3>3
  <2>6. SnapshotHolds'
    BY <2>1
  <2>7. \A t \in Tasks : Rests(t)'
    BY <2>4, <2>5
  <2>8. QED
    BY <2>1, <2>6, <2>7
<1>8. CASE ReconcileEnd
  BY <1>8 DEF ReconcileEnd
<1>9. ASSUME NEW t \in Tasks, RequeueSkip(t) PROVE BoardHolds'
  BY <1>9 DEF RequeueSkip, Pass
<1>10. ASSUME NEW t \in Tasks, RequeueMove(t) PROVE BoardHolds'
  BY <1>10 DEF RequeueMove, Moved
<1>11. CASE RequeueComment
  BY <1>11 DEF RequeueComment
<1>12. CASE RequeueEnd
  BY <1>12 DEF RequeueEnd
<1>13. ASSUME NEW t \in Tasks, TriageWait(t) PROVE BoardHolds'
  BY <1>13 DEF TriageWait
<1>14. ASSUME NEW t \in Tasks, TriageComment(t) PROVE BoardHolds'
  BY <1>14 DEF TriageComment
<1>15. CASE TriageMove
  BY <1>15 DEF TriageMove, Moved
<1>16. CASE SaveLanes
  BY <1>16 DEF SaveLanes, Rest
<1>17. ASSUME NEW t \in Tasks, IntakeSkip(t) PROVE BoardHolds'
  BY <1>17 DEF IntakeSkip, Pass
<1>18. ASSUME NEW t \in Tasks, IntakeCreate(t) PROVE BoardHolds'
  BY <1>18 DEF IntakeCreate, Actionable
<1>19. CASE IntakeSave
  BY <1>19 DEF IntakeSave
<1>20. CASE IntakeComment
  BY <1>20 DEF IntakeComment
<1>21. CASE IntakeMove
  BY <1>21 DEF IntakeMove, Moved
<1>22. CASE IntakeEnd
  BY <1>22 DEF IntakeEnd, Rest
<1>23. CASE NotFound
  BY NoneIsGone, <1>23 DEF NotFound, Gone
<1>24. CASE Abort
  BY <1>24 DEF Abort
<1>25. ASSUME NEW t \in Tasks, IntakeRefused(t) PROVE BoardHolds'
  BY <1>25 DEF IntakeRefused
<1>26. ASSUME NEW t \in Tasks, ReconcileUnread(t) PROVE BoardHolds'
  BY <1>26 DEF ReconcileUnread, Pass
<1>27. ASSUME NEW t \in Tasks, OperatorFile(t) PROVE BoardHolds'
  <2>1. /\ bucket[t] = "elsewhere" /\ bucket' = [bucket EXCEPT ![t] = "ready"]
        /\ UNCHANGED <<said, ledger, busyFile, busyTasks, snapReady, snapBlocked, pc, todo, cur, verdict>>
    BY <1>27 DEF OperatorFile, daemonVars
  <2>2. pc \in Moving => cur \in Tasks /\ t # cur
    BY <2>1 DEF Target, Place
  <2>3. \A u \in Tasks : u # cur \/ pc \notin Moving => Rests(u)'
    BY <2>1 DEF Target, Place
  <2>4. Moves'
    BY <2>1, <2>2
  <2>5. SnapshotHolds'
    BY <2>1
  <2>6. QED
    BY <2>1, <2>3, <2>4, <2>5
<1>28. CASE (\E t \in Tasks : OperatorFinish(t) \/ OperatorDelete(t) \/ \E b \in Buckets : OperatorMove(t, b))
            \/ LedgerDiscarded
  BY <1>28 DEF OperatorMove, OperatorFinish, OperatorDelete, LedgerDiscarded
<1>29. CASE Hermes
  BY <1>29 DEF Hermes, CardSettles, CardParks, CardUnparks, CardArchived, CardMay, ProbeChanges, daemonVars
<1>30. ASSUME NEW t \in Tasks, BusyTimerExpires(t) PROVE BoardHolds'
  BY <1>30 DEF BusyTimerExpires, Later
<1>31. ASSUME NEW t \in Tasks, BlockedAges(t) PROVE BoardHolds'
  BY <1>31 DEF BlockedAges, Later
<1>32. CASE UNCHANGED vars
  BY <1>32 DEF vars
<1>33. QED
  BY <1>1, <1>2, <1>3, <1>4, <1>5, <1>6, <1>7, <1>8, <1>9, <1>10, <1>11, <1>12, <1>13, <1>14, <1>15, <1>16,
     <1>17, <1>18, <1>19, <1>20, <1>21, <1>22, <1>23, <1>24, <1>25, <1>26, <1>27, <1>28, <1>29, <1>30, <1>31, <1>32
  DEF Next, Bridge, Reconcile, Requeue, Triage, Intake, Fault, Operator, Hermes, Clock

-----------------------------------------------------------------------------

\* Every task lies where its last comment says, or is on its way there in the step at work,
\* and one that waits for the brain waits under a stamp that requeue_busy will see.
THEOREM BoardInvariant == Undisturbed => (Spec => []BoardHolds)
<1> SUFFICES ASSUME Undisturbed PROVE Spec => []BoardHolds
  OBVIOUS
<1>1. IInv /\ BoardHolds /\ [Next]_vars => BoardHolds'
  BY StepBoard
<1>2. QED
  BY <1>1, InitBoard, BridgeInvariant, PTL DEF Spec

\* Between ticks the board shows the verdicts: what the ledger has let go lies in the column
\* of its report, and whatever is in BUSY has its retry stamp on disk.
THEOREM BoardTheorem == Undisturbed => (Spec => []BoardAgrees)
<1> SUFFICES ASSUME Undisturbed PROVE Spec => []BoardAgrees
  OBVIOUS
<1>1. BoardHolds => BoardAgrees
  BY DEF BoardHolds, Rests, Lies, Stamp, AfterSaveLanes, Moving, BoardAgrees, BusyIsStamped, Place, Target
<1>2. QED
  BY <1>1, BoardInvariant, PTL

\* No card is reported twice, with the same verdict or with another, and none before its task
\* was announced: a task that reconcile is about to comment on is tracked and at rest, which
\* for a tracked task means that "picked_up" is the last that was said of it.
THEOREM OneReportTheorem == Undisturbed => (Spec => OneReportPerPickup)
<1> SUFFICES ASSUME Undisturbed PROVE Spec => OneReportPerPickup
  OBVIOUS
<1>1. ASSUME IInv, BoardHolds, pc = "r_comment"
      PROVE  said[cur] = "picked_up"
  <2>1. cur \in Tasks /\ cur \in ledger
    BY <1>1 DEF IInv, TypeOK, InHand, VerdictHolds, Reporting
  <2>2. Rests(cur)
    BY <1>1, <2>1 DEF BoardHolds, Moving
  <2>3. QED
    BY <2>1, <2>2 DEF Rests, Lies
<1>2. IInv /\ BoardHolds /\ [Next]_vars
        => [pc = "r_comment" /\ pc' = "r_move" => said[cur] = "picked_up"]_vars
  BY <1>1
<1>3. QED
  BY <1>2, BoardInvariant, BridgeInvariant, PTL DEF Spec, OneReportPerPickup
=============================================================================
