--------------------------- MODULE CronDrainProofs ---------------------------
(***************************************************************************)
(* What CronDrain keeps for any stores and any faults when the wrapper     *)
(* runs once at a time, the operator only pauses stores and the job        *)
(* records can be read: a restart after a completed drain ends nobody's    *)
(* run, and the operator's pauses outlive every run.                       *)
(***************************************************************************)
EXTENDS CronDrain, TLAPS

\* A run that is about to write, or to count a store as its own, has one in hand.
InHand == \A r \in Runs : pc[r] \in {"write", "take"} => hand[r] # NoStore

\* Every variable keeps its type, with any number of runs and any operator.
THEOREM DrainType == Spec => []TypeOK
<1>1. Init => TypeOK /\ InHand
  BY DEF Init, TypeOK, EstopStates, Steps, InHand
<1>2. TypeOK /\ InHand /\ [Next]_vars => (TypeOK /\ InHand)'
  <2> SUFFICES ASSUME TypeOK, InHand, [Next]_vars PROVE (TypeOK /\ InHand)'
    OBVIOUS
  <2> USE DrainAssumption DEF TypeOK, InHand, EstopStates, Steps, runVars
  <2>1. ASSUME NEW r \in Runs, NEW s \in Stores, Look(r, s) \/ Release(r, s)
        PROVE  (TypeOK /\ InHand)'
    BY <2>1 DEF Look, Release
  <2>2. ASSUME NEW r \in Runs, Begin(r)
        PROVE  (TypeOK /\ InHand)'
    <3>1. todo' \in [Runs -> SUBSET Stores]
      BY <2>2 DEF Begin
    <3> QED
      BY <2>2, <3>1 DEF Begin
  <2>9. ASSUME NEW r \in Runs, Quiesced(r)
        PROVE  (TypeOK /\ InHand)'
    BY <2>9 DEF Quiesced
  <2>8. ASSUME NEW r \in Runs, Write(r) PROVE (TypeOK /\ InHand)'
    BY <2>8 DEF Write
  <2>7. ASSUME NEW r \in Runs, Take(r) PROVE (TypeOK /\ InHand)'
    <3>1. ours[r] \union {hand[r]} \in SUBSET Stores
      BY <2>7 DEF Take
    <3> QED
      BY <2>7, <3>1 DEF Take
  <2>3. ASSUME NEW r \in Runs, Drained(r) \/ BoundExpires(r) \/ Restart(r) \/ End(r)
        PROVE  (TypeOK /\ InHand)'
    <3>1. CASE Drained(r)
      BY <3>1 DEF Drained
    <3>2. CASE BoundExpires(r)
      BY <3>2 DEF BoundExpires
    <3>3. CASE Restart(r)
      BY <3>3 DEF Restart
    <3>4. CASE End(r)
      BY <3>4 DEF End
    <3> QED
      BY <2>3, <3>1, <3>2, <3>3, <3>4
  <2>4. ASSUME NEW r \in Runs, Fault(r) PROVE (TypeOK /\ InHand)'
    BY <2>4 DEF Fault, Signal, Kill, RestartFails, MaybeTorn
  <2>5. ASSUME NEW s \in Stores, Fleet(s) \/ Operator(s) \/ EstopAges(s)
        PROVE  (TypeOK /\ InHand)'
    <3>1. CASE Fleet(s)
      BY <3>1 DEF Fleet, Dispatch, Finish, RunnerDies, ClaimExpires
    <3>2. CASE Operator(s)
      BY <3>2 DEF Operator, OperatorPauses, OperatorClears
    <3>3. CASE EstopAges(s)
      BY <3>3 DEF EstopAges
    <3> QED
      BY <2>5, <3>1, <3>2, <3>3
  <2>6. CASE UNCHANGED vars
    BY <2>6 DEF vars
  <2> QED
    BY <2>1, <2>2, <2>3, <2>4, <2>5, <2>6, <2>7, <2>8, <2>9
    DEF Next, Wrapper
<1> QED
  BY <1>1, <1>2, PTL DEF Spec

-----------------------------------------------------------------------------

\* One run at a time, an operator who only pauses, and job records that can be
\* read.
OneAtATime == \A r1, r2 \in Runs : r1 = r2
Calm == OperatorMay \subseteq {"pause"} /\ "unread" \notin MayFail

\* The part of the invariant that is not about types.
Kept == HandHolds /\ OursArePaused /\ AllPaused /\ DrainHolds

\* Every step of the wrapper, of the world around it and of a fault keeps it.
LEMMA KeptStep ==
    ASSUME OneAtATime, Calm, IInv, TypeOK', [Next]_vars
    PROVE  Kept'
<1> USE DrainAssumption
    DEF OneAtATime, Calm, IInv, TypeOK, EstopStates, Steps, runVars, Kept,
        HandHolds, OursArePaused, AllPaused, Quiet, DrainHolds, Free
<1>1. ASSUME NEW r \in Runs, Begin(r) PROVE Kept'
  BY <1>1 DEF Begin
<1>2. ASSUME NEW r \in Runs, NEW s \in Stores, Look(r, s) PROVE Kept'
  BY <1>2 DEF Look
<1>3. ASSUME NEW r \in Runs, Write(r) PROVE Kept'
  BY <1>3 DEF Write
<1>4. ASSUME NEW r \in Runs, Take(r) PROVE Kept'
  <2>1. /\ hand[r] \in Stores /\ estop[hand[r]] = "fresh"
        /\ ours' = [ours EXCEPT ![r] = ours[r] \union {hand[r]}]
        /\ hand' = [hand EXCEPT ![r] = NoStore]
        /\ pc' = [pc EXCEPT ![r] = "engage"]
        /\ UNCHANGED <<estop, claim, todo, drained>>
    BY <1>4 DEF Take
  <2>2. HandHolds'
    BY <2>1
  <2>3. OursArePaused'
    BY <2>1
  <2>4. AllPaused'
    BY <2>1
  <2>5. DrainHolds'
    BY <2>1
  <2> QED
    BY <2>2, <2>3, <2>4, <2>5
<1>5. ASSUME NEW r \in Runs, Quiesced(r) PROVE Kept'
  BY <1>5 DEF Quiesced
<1>6. ASSUME NEW r \in Runs, Drained(r) PROVE Kept'
  BY <1>6 DEF Drained, Watched
<1>7. ASSUME NEW r \in Runs, BoundExpires(r) PROVE Kept'
  BY <1>7 DEF BoundExpires
<1>8. ASSUME NEW r \in Runs, Restart(r) \/ RestartFails(r) PROVE Kept'
  <2>1. /\ pc[r] = "restart"
        /\ pc' = [pc EXCEPT ![r] = "release"]
        /\ UNCHANGED <<estop, todo, hand, ours, drained>>
    BY <1>8 DEF Restart, RestartFails
  <2>2. HandHolds'
    BY <2>1
  <2>3. OursArePaused'
    BY <2>1
  <2>4. AllPaused'
    BY <2>1
  <2>5. DrainHolds'
    BY <2>1
  <2> QED
    BY <2>2, <2>3, <2>4, <2>5
<1>9. ASSUME NEW r \in Runs, NEW s \in Stores, Release(r, s) PROVE Kept'
  BY <1>9 DEF Release
<1>10. ASSUME NEW r \in Runs, End(r) PROVE Kept'
  BY <1>10 DEF End
<1>11. ASSUME NEW r \in Runs, Signal(r) \/ Kill(r) PROVE Kept'
  BY <1>11 DEF Signal, Kill, MaybeTorn
<1>12. ASSUME NEW s \in Stores, Fleet(s) PROVE Kept'
  BY <1>12 DEF Fleet, Dispatch, Finish, RunnerDies, ClaimExpires
<1>13. ASSUME NEW s \in Stores, Operator(s) PROVE Kept'
  BY <1>13 DEF Operator, OperatorPauses, OperatorClears
<1>14. ASSUME NEW s \in Stores, EstopAges(s) PROVE Kept'
  BY <1>14 DEF EstopAges, Abandoned
<1>15. CASE UNCHANGED vars
  BY <1>15 DEF vars
<1> QED
  BY <1>1, <1>2, <1>3, <1>4, <1>5, <1>6, <1>7, <1>8, <1>9, <1>10, <1>11, <1>12,
     <1>13, <1>14, <1>15
  DEF Next, Wrapper, Fault

\* The inductive invariant of a wrapper that runs once at a time.
THEOREM DrainInvariant ==
    ASSUME OneAtATime, Calm PROVE Spec => []IInv
<1>1. Init => Kept
  BY DrainAssumption DEF Init, Kept, HandHolds, OursArePaused, AllPaused, Quiet, DrainHolds
<1>2. IInv /\ TypeOK' /\ [Next]_vars => Kept'
  BY KeptStep
<1>3. IInv <=> TypeOK /\ Kept
  BY DEF IInv, Kept
<1> QED
  BY DrainType, <1>1, <1>2, <1>3, PTL DEF Spec

\* A restart that followed a completed drain ends nobody's run.
THEOREM DrainTheorem ==
    ASSUME OneAtATime, Calm PROVE Spec => DrainedRestartHurtsNobody
<1>1. IInv /\ [Next]_vars =>
        [\A r \in Runs : Restart(r) /\ drained[r] => claim' = claim]_vars
  BY DrainAssumption DEF IInv, TypeOK, DrainHolds, Restart
<1> QED
  BY DrainInvariant, <1>1, PTL DEF Spec, DrainedRestartHurtsNobody

\* An operator's pause outlives every run that finds it.
THEOREM OperatorTheorem ==
    ASSUME OneAtATime, Calm PROVE Spec => OperatorPauseKept
<1>1. IInv /\ [Next]_vars =>
        [\A s \in Stores : estop[s] = "operator" /\ ~OperatorClears(s)
            => estop'[s] = "operator"]_vars
  <2> SUFFICES ASSUME IInv, Next, NEW s \in Stores, estop[s] = "operator",
                      ~OperatorClears(s)
               PROVE  estop'[s] = "operator"
    OBVIOUS
  <2> USE DrainAssumption DEF IInv, TypeOK, EstopStates, runVars, HandHolds,
                              OursArePaused, AllPaused, Free
  <2>1. ASSUME NEW r \in Runs, Begin(r) \/ Wrapper(r) PROVE estop'[s] = "operator"
    BY <2>1 DEF Begin, Wrapper, Write, Take, Quiesced, Drained, BoundExpires,
                Restart, End, Look, Release
  <2>2. ASSUME NEW r \in Runs, Fault(r) PROVE estop'[s] = "operator"
    BY <2>2 DEF Fault, Signal, Kill, RestartFails, MaybeTorn
  <2>3. ASSUME NEW q \in Stores, Fleet(q) \/ Operator(q) \/ EstopAges(q)
        PROVE  estop'[s] = "operator"
    BY <2>3 DEF Fleet, Dispatch, Finish, RunnerDies, ClaimExpires, Operator,
                OperatorPauses, OperatorClears, EstopAges
  <2> QED
    BY <2>1, <2>2, <2>3 DEF Next
<1> QED
  BY DrainInvariant, <1>1, PTL DEF Spec, OperatorPauseKept

=============================================================================
