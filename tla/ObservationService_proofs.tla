--------------------- MODULE ObservationService_proofs ---------------------
(***************************************************************************)
(* Proofs about ObservationService, for any number of requests and of done *)
(* channels: its safety, and that its steps are those of RefreshContract.  *)
(***************************************************************************)
EXTENDS ObservationService, TLAPS

USE DEF InRefresh, Leading, Callers

-----------------------------------------------------------------------------
(* The inductive invariant.                                                *)

\* A goroutine refers to a channel exactly while it is inside Refresh.
ChanInRefresh == \A g \in Callers : done[g] # NoChan <=> InRefresh(g)

\* Service.running is the channel of the one goroutine that leads a scan.
RunningIsLed ==
    /\ \A g \in Callers : Leading(g) => done[g] = running
    /\ running # NoChan => \E g \in Callers : Leading(g)

\* Only channels some goroutine still waits on are kept as closed, and the one
\* of the scan in flight is not among them.
ClosedAwaited ==
    \A c \in closed : c # running /\ \E g \in Callers : done[g] = c

\* From the moment the scan a joiner waits for has ended, the last outcome is
\* that of a scan which ended after the joiner's call.
JoinerInform ==
    \A g \in Callers :
        pc[g] = "waiting" /\ done[g] # running => lastOutcome \in fresh[g]

\* Once the service runs, every scan runs on its context.
ScansOnService == \A g \in Callers : Leading(g) => scanCtx[g] = "service"

\* A scan that has ended has an outcome.
ScannedHasOutcome == \A g \in Callers : pc[g] = "scanned" => outcome[g] \in Results

\* A goroutine outside Refresh has no history.
IdleIsClean == \A g \in Callers : pc[g] = "idle" => fresh[g] = {}

IInv ==
    /\ TypeOK
    /\ ChanInRefresh
    /\ RunningIsLed
    /\ ClosedAwaited
    /\ SingleScan
    /\ JoinerInform
    /\ ScannedHasOutcome
    /\ ScansOnService
    /\ IdleIsClean
    /\ FreshOutcome
    /\ OnlyShutdownAborts
    /\ DailyOnlyAfterSuccess

-----------------------------------------------------------------------------

LEMMA InitIInv == Init => IInv
<1> SUFFICES ASSUME Init PROVE IInv
  OBVIOUS
<1>1. TypeOK
  BY DEF Init, TypeOK
<1>2. ChanInRefresh /\ RunningIsLed /\ ClosedAwaited
  BY DEF Init, ChanInRefresh, RunningIsLed, ClosedAwaited
<1>3. SingleScan /\ JoinerInform /\ ScansOnService /\ ScannedHasOutcome
  BY DEF Init, SingleScan, JoinerInform, ScansOnService, ScannedHasOutcome
<1>4. IdleIsClean /\ FreshOutcome /\ OnlyShutdownAborts /\ DailyOnlyAfterSuccess
  BY ScheduleAssumption
     DEF Init, IdleIsClean, FreshOutcome, OnlyShutdownAborts, DailyOnlyAfterSuccess
<1>5. QED
  BY <1>1, <1>2, <1>3, <1>4 DEF IInv

LEMMA TypeStep == IInv /\ [Next]_vars => TypeOK'
<1> SUFFICES ASSUME TypeOK, ChanInRefresh, ScannedHasOutcome, [Next]_vars
             PROVE  TypeOK'
  BY DEF IInv
<1> USE DEF TypeOK, control, service, history, Results
<1>1. CASE Start
  BY <1>1 DEF Start
<1>2. CASE Shutdown
  BY <1>2 DEF Shutdown
<1>3. CASE ScheduleStep
  <2>1. CASE Sleep
    BY <2>1 DEF Sleep
  <2>2. CASE TimerFires
    BY <2>2 DEF TimerFires
  <2>3. CASE SelectTimer
    BY <2>3 DEF SelectTimer, Idle
  <2>4. CASE SelectDone
    BY <2>4 DEF SelectDone
  <2>5. QED
    BY <1>3, <2>1, <2>2, <2>3, <2>4 DEF ScheduleStep
<1>4. ASSUME NEW g \in Callers, CallerStep(g) PROVE TypeOK'
  <2>1. CASE Join(g)
    BY <2>1 DEF Join
  <2>2. CASE Lead(g)
    BY <2>2 DEF Lead
  <2>2b. CASE ScanBegins(g)
    BY <2>2b DEF ScanBegins
  <2>3. CASE ScanEnds(g)
    <3>1. PICK o \in Results : outcome' = [outcome EXCEPT ![g] = o]
      BY <2>3 DEF ScanEnds
    <3>2. QED
      BY <2>3, <3>1 DEF ScanEnds
  <2>4. CASE ScanAborts(g)
    BY <2>4, FailuresAssumption DEF ScanAborts
  <2>5. CASE Finish(g)
    <3>1. outcome[g] \in Results
      BY <2>5 DEF Finish, ScannedHasOutcome
    <3>2. fresh' \in [Callers -> SUBSET Results]
      BY <2>5, <3>1 DEF Finish, Ended
    <3>3. theirs' \in [Callers -> Results \cup {"never"}]
      BY <2>5, <3>1 DEF Finish, Ended
    <3>4. lastOutcome' \in Results \cup {"never"} /\ closed' \subseteq Chans
      <4>1. done[g] \in Chans
        BY <2>5 DEF Finish, ChanInRefresh
      <4>2. QED
        BY <2>5, <3>1, <4>1 DEF Finish
    <3>5. QED
      BY <2>5, <3>2, <3>3, <3>4 DEF Finish, Leave, Ended
  <2>6. CASE Wake(g)
    BY <2>6 DEF Wake, Leave
  <2>7. CASE Disconnect(g)
    BY <2>7 DEF Disconnect
  <2>8. CASE Respond(g)
    BY <2>8 DEF Respond, Idle
  <2>9. QED
    BY <1>4, <2>1, <2>2, <2>2b, <2>3, <2>4, <2>5, <2>6, <2>7, <2>8 DEF CallerStep
<1>5. CASE UNCHANGED vars
  BY <1>5 DEF vars
<1>6. QED
  BY <1>1, <1>2, <1>3, <1>4, <1>5 DEF Next

\* The steps that touch neither a call of Refresh nor its outcome.
LEMMA QuietStep ==
    ASSUME IInv, [Next]_vars,
           UNCHANGED <<running, closed, lastOutcome, pc, done, scanCtx, outcome,
                       delay, fresh, aborted>>,
           shutdown => shutdown'
    PROVE  IInv'
<1>1. TypeOK'
  BY TypeStep
<1>2. QED
  BY <1>1
     DEF IInv, ChanInRefresh, RunningIsLed, ClosedAwaited, SingleScan, JoinerInform,
         ScansOnService, ScannedHasOutcome, IdleIsClean, FreshOutcome,
         OnlyShutdownAborts, DailyOnlyAfterSuccess

\* Every step keeps the invariant.
LEMMA StepIInv == IInv /\ [Next]_vars => IInv'
<1> SUFFICES ASSUME IInv, [Next]_vars PROVE IInv'
  OBVIOUS
<1>0. TypeOK'
  BY TypeStep
<1> USE ScheduleAssumption, NoChanAssumption
<1> USE DEF IInv, TypeOK, ChanInRefresh, RunningIsLed, ClosedAwaited, SingleScan,
            JoinerInform, ScansOnService, ScannedHasOutcome, IdleIsClean,
            FreshOutcome, OnlyShutdownAborts, DailyOnlyAfterSuccess,
            control, service, history
<1>1. ASSUME NEW g \in Callers, Join(g) PROVE IInv'
  <2>1. ChanInRefresh'
    BY <1>1 DEF Join, MayCall
  <2>2. RunningIsLed'
    BY <1>1 DEF Join, MayCall
  <2>3. ClosedAwaited'
    BY <1>1 DEF Join, MayCall
  <2>4. SingleScan'
    BY <1>1 DEF Join, MayCall
  <2>5. JoinerInform'
    BY <1>1 DEF Join, MayCall
  <2>6. ScansOnService' /\ ScannedHasOutcome'
    BY <1>1 DEF Join, MayCall
  <2>7. IdleIsClean' /\ FreshOutcome'
    BY <1>1 DEF Join, MayCall
  <2>8. OnlyShutdownAborts' /\ DailyOnlyAfterSuccess'
    BY <1>1 DEF Join, MayCall
  <2>9. QED
    BY <1>0, <2>1, <2>2, <2>3, <2>4, <2>5, <2>6, <2>7, <2>8 DEF IInv
<1>2. ASSUME NEW g \in Callers, Lead(g) PROVE IInv'
  <2>1. ChanInRefresh'
    BY <1>2 DEF Lead, MayCall, Unreferenced
  <2>2. RunningIsLed'
    BY <1>2 DEF Lead, MayCall, Unreferenced
  <2>3. ClosedAwaited'
    BY <1>2 DEF Lead, MayCall, Unreferenced
  <2>4. SingleScan'
    BY <1>2 DEF Lead, MayCall, Unreferenced
  <2>5. JoinerInform'
    BY <1>2 DEF Lead, MayCall, Unreferenced
  <2>6. ScansOnService' /\ ScannedHasOutcome'
    BY <1>2 DEF Lead, MayCall, Unreferenced
  <2>7. IdleIsClean' /\ FreshOutcome'
    BY <1>2 DEF Lead, MayCall, Unreferenced
  <2>8. OnlyShutdownAborts' /\ DailyOnlyAfterSuccess'
    BY <1>2 DEF Lead, MayCall, Unreferenced
  <2>9. QED
    BY <1>0, <2>1, <2>2, <2>3, <2>4, <2>5, <2>6, <2>7, <2>8 DEF IInv
<1>2b. ASSUME NEW g \in Callers, ScanBegins(g) PROVE IInv'
  <2>1. ChanInRefresh'
    BY <1>2b DEF ScanBegins
  <2>2. RunningIsLed'
    BY <1>2b DEF ScanBegins
  <2>3. ClosedAwaited'
    BY <1>2b DEF ScanBegins
  <2>4. SingleScan'
    BY <1>2b DEF ScanBegins
  <2>5. JoinerInform'
    BY <1>2b DEF ScanBegins
  <2>6. ScansOnService' /\ ScannedHasOutcome'
    BY <1>2b DEF ScanBegins
  <2>7. IdleIsClean' /\ FreshOutcome'
    BY <1>2b DEF ScanBegins
  <2>8. OnlyShutdownAborts' /\ DailyOnlyAfterSuccess'
    BY <1>2b DEF ScanBegins
  <2>9. QED
    BY <1>0, <2>1, <2>2, <2>3, <2>4, <2>5, <2>6, <2>7, <2>8 DEF IInv
<1>3. ASSUME NEW g \in Callers, ScanEnds(g) PROVE IInv'
  <2>1. ChanInRefresh'
    BY <1>3 DEF ScanEnds
  <2>2. RunningIsLed'
    BY <1>3 DEF ScanEnds
  <2>3. ClosedAwaited'
    BY <1>3 DEF ScanEnds
  <2>4. SingleScan'
    BY <1>3 DEF ScanEnds
  <2>5. JoinerInform'
    BY <1>3 DEF ScanEnds
  <2>6. ScansOnService' /\ ScannedHasOutcome'
    BY <1>3 DEF ScanEnds
  <2>7. IdleIsClean' /\ FreshOutcome'
    BY <1>3 DEF ScanEnds
  <2>8. OnlyShutdownAborts' /\ DailyOnlyAfterSuccess'
    BY <1>3 DEF ScanEnds
  <2>9. QED
    BY <1>0, <2>1, <2>2, <2>3, <2>4, <2>5, <2>6, <2>7, <2>8 DEF IInv
<1>4. ASSUME NEW g \in Callers, ScanAborts(g) PROVE IInv'
  <2>1. ChanInRefresh'
    BY <1>4 DEF ScanAborts, Cancelled, Results
  <2>2. RunningIsLed'
    BY <1>4 DEF ScanAborts, Cancelled, Results
  <2>3. ClosedAwaited'
    BY <1>4 DEF ScanAborts, Cancelled, Results
  <2>4. SingleScan'
    BY <1>4 DEF ScanAborts, Cancelled, Results
  <2>5. JoinerInform'
    BY <1>4 DEF ScanAborts, Cancelled, Results
  <2>6. ScansOnService' /\ ScannedHasOutcome'
    BY <1>4, FailuresAssumption DEF ScanAborts, Cancelled, Results
  <2>7. IdleIsClean' /\ FreshOutcome'
    BY <1>4 DEF ScanAborts, Cancelled, Results
  <2>8. OnlyShutdownAborts' /\ DailyOnlyAfterSuccess'
    BY <1>4 DEF ScanAborts, Cancelled, Results
  <2>9. QED
    BY <1>0, <2>1, <2>2, <2>3, <2>4, <2>5, <2>6, <2>7, <2>8 DEF IInv
<1>5. ASSUME NEW g \in Callers, Finish(g) PROVE IInv'
  <2>1. ChanInRefresh'
    BY <1>5 DEF Finish, Leave, Awaited, Ended
  <2>2. RunningIsLed'
    BY <1>5 DEF Finish, Leave, Awaited, Ended
  <2>3. ClosedAwaited'
    BY <1>5 DEF Finish, Leave, Awaited, Ended
  <2>4. SingleScan'
    BY <1>5 DEF Finish, Leave, Awaited, Ended
  <2>5. JoinerInform'
    BY <1>5 DEF Finish, Leave, Awaited, Ended
  <2>6. ScansOnService' /\ ScannedHasOutcome'
    BY <1>5 DEF Finish, Leave, Awaited, Ended
  <2>7. IdleIsClean' /\ FreshOutcome'
    BY <1>5 DEF Finish, Leave, Awaited, Ended
  <2>8. OnlyShutdownAborts' /\ DailyOnlyAfterSuccess'
    BY <1>5 DEF Finish, Leave, Awaited, Ended
  <2>9. QED
    BY <1>0, <2>1, <2>2, <2>3, <2>4, <2>5, <2>6, <2>7, <2>8 DEF IInv
<1>6. ASSUME NEW g \in Callers, Wake(g) PROVE IInv'
  <2>1. ChanInRefresh'
    BY <1>6 DEF Wake, Leave, Awaited
  <2>2. RunningIsLed'
    BY <1>6 DEF Wake, Leave, Awaited
  <2>3. ClosedAwaited'
    BY <1>6 DEF Wake, Leave, Awaited
  <2>4. SingleScan'
    BY <1>6 DEF Wake, Leave, Awaited
  <2>5. JoinerInform'
    BY <1>6 DEF Wake, Leave, Awaited
  <2>6. ScansOnService' /\ ScannedHasOutcome'
    BY <1>6 DEF Wake, Leave, Awaited
  <2>7. IdleIsClean' /\ FreshOutcome'
    BY <1>6 DEF Wake, Leave, Awaited
  <2>8. OnlyShutdownAborts' /\ DailyOnlyAfterSuccess'
    BY <1>6 DEF Wake, Leave, Awaited
  <2>9. QED
    BY <1>0, <2>1, <2>2, <2>3, <2>4, <2>5, <2>6, <2>7, <2>8 DEF IInv
<1>7. ASSUME NEW g \in Callers, Respond(g) PROVE IInv'
  <2>1. ChanInRefresh'
    BY <1>7 DEF Respond, Idle
  <2>2. RunningIsLed'
    BY <1>7 DEF Respond, Idle
  <2>3. ClosedAwaited'
    BY <1>7 DEF Respond, Idle
  <2>4. SingleScan'
    BY <1>7 DEF Respond, Idle
  <2>5. JoinerInform'
    BY <1>7 DEF Respond, Idle
  <2>6. ScansOnService' /\ ScannedHasOutcome'
    BY <1>7 DEF Respond, Idle
  <2>7. IdleIsClean' /\ FreshOutcome'
    BY <1>7 DEF Respond, Idle
  <2>8. OnlyShutdownAborts' /\ DailyOnlyAfterSuccess'
    BY <1>7 DEF Respond, Idle
  <2>9. QED
    BY <1>0, <2>1, <2>2, <2>3, <2>4, <2>5, <2>6, <2>7, <2>8 DEF IInv
<1>8. CASE Sleep
  <2>1. ChanInRefresh'
    BY <1>8 DEF Sleep
  <2>2. RunningIsLed'
    BY <1>8 DEF Sleep
  <2>3. ClosedAwaited'
    BY <1>8 DEF Sleep
  <2>4. SingleScan'
    BY <1>8 DEF Sleep
  <2>5. JoinerInform'
    BY <1>8 DEF Sleep
  <2>6. ScansOnService' /\ ScannedHasOutcome'
    BY <1>8 DEF Sleep
  <2>7. IdleIsClean' /\ FreshOutcome'
    BY <1>8 DEF Sleep
  <2>8. OnlyShutdownAborts' /\ DailyOnlyAfterSuccess'
    BY <1>8 DEF Sleep
  <2>9. QED
    BY <1>0, <2>1, <2>2, <2>3, <2>4, <2>5, <2>6, <2>7, <2>8 DEF IInv
<1>9. CASE SelectTimer
  <2>1. ChanInRefresh'
    BY <1>9 DEF SelectTimer, Idle
  <2>2. RunningIsLed'
    BY <1>9 DEF SelectTimer, Idle
  <2>3. ClosedAwaited'
    BY <1>9 DEF SelectTimer, Idle
  <2>4. SingleScan'
    BY <1>9 DEF SelectTimer, Idle
  <2>5. JoinerInform'
    BY <1>9 DEF SelectTimer, Idle
  <2>6. ScansOnService' /\ ScannedHasOutcome'
    BY <1>9 DEF SelectTimer, Idle
  <2>7. IdleIsClean' /\ FreshOutcome'
    BY <1>9 DEF SelectTimer, Idle
  <2>8. OnlyShutdownAborts' /\ DailyOnlyAfterSuccess'
    BY <1>9 DEF SelectTimer, Idle
  <2>9. QED
    BY <1>0, <2>1, <2>2, <2>3, <2>4, <2>5, <2>6, <2>7, <2>8 DEF IInv
<1>10. CASE SelectDone
  <2>1. ChanInRefresh'
    BY <1>10 DEF SelectDone
  <2>2. RunningIsLed'
    BY <1>10 DEF SelectDone
  <2>3. ClosedAwaited'
    BY <1>10 DEF SelectDone
  <2>4. SingleScan'
    BY <1>10 DEF SelectDone
  <2>5. JoinerInform'
    BY <1>10 DEF SelectDone
  <2>6. ScansOnService' /\ ScannedHasOutcome'
    BY <1>10 DEF SelectDone
  <2>7. IdleIsClean' /\ FreshOutcome'
    BY <1>10 DEF SelectDone
  <2>8. OnlyShutdownAborts' /\ DailyOnlyAfterSuccess'
    BY <1>10 DEF SelectDone
  <2>9. QED
    BY <1>0, <2>1, <2>2, <2>3, <2>4, <2>5, <2>6, <2>7, <2>8 DEF IInv
<1>11. CASE Start \/ Shutdown \/ TimerFires
  BY <1>11, QuietStep DEF Start, Shutdown, TimerFires
<1>12. ASSUME NEW g \in Callers, Disconnect(g) PROVE IInv'
  BY <1>12, QuietStep DEF Disconnect
<1>13. CASE UNCHANGED vars
  BY <1>13, QuietStep DEF vars
<1>14. QED
  BY <1>1, <1>2, <1>2b, <1>3, <1>4, <1>5, <1>6, <1>7, <1>8, <1>9, <1>10, <1>11,
     <1>12, <1>13
     DEF Next, ScheduleStep, CallerStep

LEMMA Inductive == Spec => []IInv
  BY InitIInv, StepIInv, PTL DEF Spec

-----------------------------------------------------------------------------
(* The safety of the service.                                              *)

\* Every variable of the service keeps its type.
THEOREM TypeCorrect == Spec => []TypeOK
<1>1. IInv => TypeOK
  BY DEF IInv
<1>2. QED
  BY <1>1, Inductive, PTL

\* However many goroutines call Refresh, at most one of them runs a scan.
THEOREM OneScanAtATime == Spec => []SingleScan
<1>1. IInv => SingleScan
  BY DEF IInv
<1>2. QED
  BY <1>1, Inductive, PTL

\* What Refresh returns is the outcome of a scan that ended after the call.
THEOREM NeverAnOlderOutcome == Spec => []FreshOutcome
<1>1. IInv => FreshOutcome
  BY DEF IInv
<1>2. QED
  BY <1>1, Inductive, PTL

\* A scan is cut short by the shutdown of the service alone, never by the
\* disconnection of the request that happened to lead it.
THEOREM DisconnectSparesScan == Spec => []OnlyShutdownAborts
<1>1. IInv => OnlyShutdownAborts
  BY DEF IInv
<1>2. QED
  BY <1>1, Inductive, PTL

\* The schedule slows to the daily cadence only on a success it asked for.
THEOREM DailyCadenceIsEarned == Spec => []DailyOnlyAfterSuccess
<1>1. IInv => DailyOnlyAfterSuccess
  BY DEF IInv
<1>2. QED
  BY <1>1, Inductive, PTL

-----------------------------------------------------------------------------
(* The contract: each step of the service is a step of RefreshContract or  *)
(* leaves the contract's variables as they are.                            *)

\* The contract's variables, as the refinement mapping defines them.
LeaderBar ==
    IF \E g \in Callers : Leading(g)
    THEN CHOOSE g \in Callers : Leading(g) ELSE NoCaller
PhaseBar ==
    [g \in Callers |->
        CASE Leading(g)          -> "leading"
          [] pc[g] = "waiting"   -> "joined"
          [] pc[g] = "returned"  -> "answered"
          [] OTHER               -> "out"]
MayBar == [g \in Callers |-> IF pc[g] = "waiting" THEN fresh[g] ELSE {}]
AnswerBar == [g \in Callers |-> IF pc[g] = "returned" THEN {outcome[g]} ELSE {}]

\* The mapped leader is the one goroutine that leads a scan, and there is none
\* exactly while Service.running is nil.
LEMMA LeaderMapped ==
    ASSUME IInv
    PROVE  /\ \A g \in Callers : Leading(g) => LeaderBar = g /\ LeaderBar # NoCaller
           /\ running # NoChan => LeaderBar \in Callers /\ LeaderBar # NoCaller
           /\ running = NoChan => LeaderBar = NoCaller
<1>1. \A g \in Callers : Leading(g) => LeaderBar = g
  BY DEF IInv, SingleScan, LeaderBar
<1>2. running # NoChan => \E g \in Callers : Leading(g)
  BY DEF IInv, RunningIsLed
<1>3. running = NoChan => ~\E g \in Callers : Leading(g)
  BY DEF IInv, RunningIsLed, ChanInRefresh
<1>4. QED
  BY <1>1, <1>2, <1>3, NoCallerAssumption DEF LeaderBar

\* The same of the next state.
LEMMA LeaderMappedNext ==
    ASSUME IInv'
    PROVE  /\ \A g \in Callers : Leading(g)' => LeaderBar' = g
           /\ running' = NoChan => LeaderBar' = NoCaller
<1>1. \A g \in Callers : Leading(g)' => LeaderBar' = g
  BY DEF IInv, SingleScan, LeaderBar
<1>2. running' = NoChan => ~\E g \in Callers : Leading(g)'
  BY DEF IInv, RunningIsLed, ChanInRefresh
<1>3. QED
  BY <1>1, <1>2 DEF LeaderBar

\* The leader stays the same while nobody begins or ends a scan.
LEMMA SameLeader ==
    ASSUME IInv, IInv', running' = running,
           \A g \in Callers : Leading(g) => Leading(g)'
    PROVE  LeaderBar' = LeaderBar
<1>1. CASE running = NoChan
  BY <1>1, LeaderMapped, LeaderMappedNext
<1>2. CASE running # NoChan
  <2>1. PICK g \in Callers : Leading(g)
    BY <1>2 DEF IInv, RunningIsLed
  <2>2. LeaderBar = g /\ LeaderBar' = g
    BY <2>1, LeaderMapped, LeaderMappedNext
  <2>3. QED
    BY <2>2
<1>3. QED
  BY <1>1, <1>2

\* The two actions of the contract that carry an outcome.
LEMMA EndsOrAnswers ==
    ASSUME NEW g \in Callers, NEW o \in Results,
           Contract!End(g, o) \/ Contract!Answer(g, o)
    PROVE  Contract!Next
  BY Zenon DEF Contract!Next

\* Initially nobody has called.
LEMMA ContractInit == Init => Contract!Init
<1> SUFFICES ASSUME Init PROVE Contract!Init
  OBVIOUS
<1>1. LeaderBar = NoCaller
  BY DEF Init, LeaderBar
<1>2. PhaseBar = [g \in Callers |-> "out"]
  BY DEF Init, PhaseBar
<1>3. MayBar = [g \in Callers |-> {}] /\ AnswerBar = [g \in Callers |-> {}]
  BY DEF Init, MayBar, AnswerBar
<1>4. QED
  BY <1>1, <1>2, <1>3 DEF Contract!Init, LeaderBar, PhaseBar, MayBar, AnswerBar

\* Each step of the service is a step of the contract or a stutter.
LEMMA ContractStep ==
    IInv /\ IInv' /\ [Next]_vars => [Contract!Next]_(Contract!vars)
<1> SUFFICES ASSUME IInv, IInv', [Next]_vars
             PROVE  [Contract!Next]_(Contract!vars)
  OBVIOUS
<1> USE DEF IInv, TypeOK, control, service, history
<1>a. UNCHANGED <<LeaderBar, PhaseBar, MayBar, AnswerBar>> => UNCHANGED Contract!vars
  BY DEF Contract!vars, LeaderBar, PhaseBar, MayBar, AnswerBar
<1>1. ASSUME NEW g \in Callers, Join(g) PROVE Contract!Join(g)
  <2>1. PhaseBar[g] = "out" /\ LeaderBar # NoCaller
    BY <1>1, LeaderMapped DEF Join, MayCall, PhaseBar
  <2>2. LeaderBar' = LeaderBar
    BY <1>1, SameLeader DEF Join, MayCall
  <2>3. PhaseBar' = [PhaseBar EXCEPT ![g] = "joined"]
    BY <1>1 DEF Join, MayCall, PhaseBar
  <2>4. MayBar' = MayBar /\ AnswerBar' = AnswerBar
    <3>1. MayBar' = MayBar
      BY <1>1 DEF Join, MayCall, MayBar, IdleIsClean
    <3>2. AnswerBar' = AnswerBar
      BY <1>1 DEF Join, MayCall, AnswerBar
    <3>3. QED
      BY <3>1, <3>2
  <2>5. QED
    BY <2>1, <2>2, <2>3, <2>4 DEF Contract!Join, LeaderBar, PhaseBar, MayBar, AnswerBar
<1>2. ASSUME NEW g \in Callers, Lead(g) PROVE Contract!Lead(g)
  <2>1. PhaseBar[g] = "out" /\ LeaderBar = NoCaller
    BY <1>2, LeaderMapped DEF Lead, MayCall, PhaseBar
  <2>2. LeaderBar' = g
    BY <1>2, LeaderMappedNext DEF Lead
  <2>3. PhaseBar' = [PhaseBar EXCEPT ![g] = "leading"]
    BY <1>2 DEF Lead, MayCall, PhaseBar
  <2>4. MayBar' = MayBar /\ AnswerBar' = AnswerBar
    BY <1>2 DEF Lead, MayCall, MayBar, AnswerBar
  <2>5. QED
    BY <2>1, <2>2, <2>3, <2>4 DEF Contract!Lead, LeaderBar, PhaseBar, MayBar, AnswerBar
<1>3. ASSUME NEW g \in Callers, ScanBegins(g) \/ ScanEnds(g) \/ ScanAborts(g)
      PROVE  UNCHANGED Contract!vars
  <2>1. /\ pc[g] \in {"leading", "scanning"}
        /\ \E s \in {"scanning", "scanned"} : pc' = [pc EXCEPT ![g] = s]
        /\ running' = running /\ fresh' = fresh
        /\ \A h \in Callers \ {g} : outcome'[h] = outcome[h]
    BY <1>3 DEF ScanBegins, ScanEnds, ScanAborts
  <2>2. LeaderBar' = LeaderBar
    BY <2>1, SameLeader
  <2>3. PhaseBar' = PhaseBar
    BY <2>1 DEF PhaseBar
  <2>4. MayBar' = MayBar
    BY <2>1 DEF MayBar
  <2>5. AnswerBar' = AnswerBar
    BY <2>1 DEF AnswerBar
  <2>6. QED
    BY <2>2, <2>3, <2>4, <2>5, <1>a
<1>4. ASSUME NEW g \in Callers, Finish(g), NEW o \in Results, o = outcome[g]
      PROVE  Contract!End(g, o)
  <2>1. LeaderBar = g
    BY <1>4, LeaderMapped DEF Finish
  <2>2. LeaderBar' = NoCaller
    BY <1>4, LeaderMappedNext DEF Finish
  <2>3. PhaseBar' = [PhaseBar EXCEPT ![g] = "answered"]
    BY <1>4 DEF Finish, Leave, PhaseBar
  <2>4. AnswerBar' = [AnswerBar EXCEPT ![g] = {o}]
    BY <1>4 DEF Finish, Leave, AnswerBar
  <2>5. MayBar' = [h \in Callers |-> IF PhaseBar[h] = "joined"
                                     THEN MayBar[h] \cup {o} ELSE MayBar[h]]
    BY <1>4 DEF Finish, Leave, Ended, PhaseBar, MayBar
  <2>6. QED
    BY <2>1, <2>2, <2>3, <2>4, <2>5
       DEF Contract!End, LeaderBar, PhaseBar, MayBar, AnswerBar
<1>5. ASSUME NEW g \in Callers, Wake(g), NEW o \in Results, o = lastOutcome
      PROVE  Contract!Answer(g, o)
  <2>1. PhaseBar[g] = "joined" /\ o \in MayBar[g]
    BY <1>5 DEF Wake, PhaseBar, MayBar, JoinerInform, ClosedAwaited
  <2>2. LeaderBar' = LeaderBar
    BY <1>5, SameLeader DEF Wake, Leave
  <2>3. PhaseBar' = [PhaseBar EXCEPT ![g] = "answered"]
    BY <1>5 DEF Wake, Leave, PhaseBar
  <2>4. AnswerBar' = [AnswerBar EXCEPT ![g] = {o}]
    BY <1>5 DEF Wake, Leave, AnswerBar
  <2>5. MayBar' = [MayBar EXCEPT ![g] = {}]
    BY <1>5 DEF Wake, Leave, MayBar
  <2>6. QED
    BY <2>1, <2>2, <2>3, <2>4, <2>5
       DEF Contract!Answer, LeaderBar, PhaseBar, MayBar, AnswerBar
<1>6. ASSUME NEW g \in Callers, Respond(g) \/ (g = Schedule /\ Sleep)
      PROVE  Contract!Leave(g)
  <2>1. /\ pc[g] = "returned"
        /\ running' = running
        /\ \E s \in {"idle", "sleeping"} : pc' = [pc EXCEPT ![g] = s]
        /\ \A h \in Callers \ {g} : fresh'[h] = fresh[h] /\ outcome'[h] = outcome[h]
    BY <1>6 DEF Respond, Sleep, Idle
  <2>2. PhaseBar[g] = "answered"
    BY <2>1 DEF PhaseBar
  <2>3. LeaderBar' = LeaderBar
    BY <2>1, SameLeader
  <2>4. PhaseBar' = [PhaseBar EXCEPT ![g] = "out"]
    <3>1. PICK s \in {"idle", "sleeping"} : pc' = [pc EXCEPT ![g] = s]
      BY <2>1
    <3>2. \A h \in Callers : PhaseBar'[h] = IF h = g THEN "out" ELSE PhaseBar[h]
      BY <3>1 DEF PhaseBar
    <3>3. QED
      BY <3>2 DEF PhaseBar
  <2>5. MayBar' = MayBar
    BY <2>1 DEF MayBar
  <2>6. AnswerBar' = [AnswerBar EXCEPT ![g] = {}]
    BY <2>1 DEF AnswerBar
  <2>7. QED
    BY <2>2, <2>3, <2>4, <2>5, <2>6
       DEF Contract!Leave, LeaderBar, PhaseBar, MayBar, AnswerBar
<1>7. CASE SelectTimer \/ SelectDone
  <2>1. /\ Schedule \in Callers
        /\ pc[Schedule] = "sleeping"
        /\ running' = running
        /\ \E s \in {"idle", "stopped"} : pc' = [pc EXCEPT ![Schedule] = s]
        /\ \A h \in Callers \ {Schedule} : fresh'[h] = fresh[h] /\ outcome'[h] = outcome[h]
    BY <1>7 DEF SelectTimer, SelectDone, Idle
  <2>2. LeaderBar' = LeaderBar
    BY <2>1, SameLeader
  <2>3. PhaseBar' = PhaseBar
    BY <2>1 DEF PhaseBar
  <2>4. MayBar' = MayBar
    BY <2>1 DEF MayBar
  <2>5. AnswerBar' = AnswerBar
    BY <2>1 DEF AnswerBar
  <2>6. QED
    BY <2>2, <2>3, <2>4, <2>5, <1>a
<1>8. ASSUME UNCHANGED <<pc, fresh, outcome>> PROVE UNCHANGED Contract!vars
  BY <1>8, <1>a DEF LeaderBar, PhaseBar, MayBar, AnswerBar
<1>9. CASE Start \/ Shutdown \/ TimerFires \/ UNCHANGED vars
  BY <1>8, <1>9 DEF Start, Shutdown, TimerFires, vars
<1>10. ASSUME NEW g \in Callers, Disconnect(g) PROVE UNCHANGED Contract!vars
  BY <1>8, <1>10 DEF Disconnect
<1>11. \A g \in Callers : pc[g] = "scanned" => outcome[g] \in Results
  BY DEF ScannedHasOutcome
<1>12. \A g \in Callers : Wake(g) => lastOutcome \in Results
  BY DEF Wake, JoinerInform, ClosedAwaited
<1>13. \A g \in Callers : CallerStep(g) => [Contract!Next]_(Contract!vars)
  <2>1. SUFFICES ASSUME NEW g \in Callers, CallerStep(g)
                 PROVE  [Contract!Next]_(Contract!vars)
    OBVIOUS
  <2>2. CASE Join(g)
    BY <2>2, <1>1 DEF Contract!Next
  <2>3. CASE Lead(g)
    BY <2>3, <1>2 DEF Contract!Next
  <2>4. CASE ScanBegins(g) \/ ScanEnds(g) \/ ScanAborts(g)
    BY <2>4, <1>3
  <2>5. CASE Finish(g)
    <3>1. PICK o \in Results : o = outcome[g]
      BY <2>5, <1>11 DEF Finish
    <3>2. Contract!End(g, o)
      BY <2>5, <1>4, <3>1
    <3>3. QED
      BY <3>2, EndsOrAnswers
  <2>6. CASE Wake(g)
    <3>1. PICK o \in Results : o = lastOutcome
      BY <2>6, <1>12
    <3>2. Contract!Answer(g, o)
      BY <2>6, <1>5, <3>1
    <3>3. QED
      BY <3>2, EndsOrAnswers
  <2>7. CASE Disconnect(g)
    BY <2>7, <1>10
  <2>8. CASE Respond(g)
    BY <2>8, <1>6 DEF Contract!Next
  <2>9. QED
    BY <2>1, <2>2, <2>3, <2>4, <2>5, <2>6, <2>7, <2>8 DEF CallerStep
<1>14. CASE ScheduleStep
  <2>1. CASE Sleep
    BY <2>1, <1>6 DEF Contract!Next
  <2>2. CASE SelectTimer \/ SelectDone
    BY <2>2, <1>7
  <2>3. CASE TimerFires
    BY <2>3, <1>9
  <2>4. QED
    BY <1>14, <2>1, <2>2, <2>3 DEF ScheduleStep
<1>15. QED
  BY <1>9, <1>13, <1>14 DEF Next

\* Service keeps the contract of Refresh: one scan at a time, joined by whoever
\* comes while it runs, leaders told their own outcome and joiners that of a
\* scan that ended after their call.
THEOREM ServiceKeepsContract == Spec => ContractSteps
<1>1. Init => Contract!Init
  BY ContractInit
<1>2. IInv /\ IInv' /\ [Next]_vars => [Contract!Next]_(Contract!vars)
  BY ContractStep
<1>3. QED
  BY <1>1, <1>2, Inductive, PTL DEF Spec, ContractSteps

=============================================================================
