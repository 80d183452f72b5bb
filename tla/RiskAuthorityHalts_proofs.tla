---------------------- MODULE RiskAuthorityHalts_proofs ----------------------
(***************************************************************************)
(* RiskAuthority implements DeskHalt.                                      *)
(***************************************************************************)
EXTENDS RiskAuthorityHalts, RiskAuthority_proofs

(* A gate the authority was not configured with is never in force, neither *)
(* now nor in the snapshot.                                                *)

Unused(kill_tripped, breaker_tripped, trades) ==
  /\ "kill" \notin Gates => ~kill_tripped
  /\ "breaker" \notin Gates => ~breaker_tripped
  /\ "window" \notin Gates => trades = <<>>

UnusedGatesClear ==
  /\ Unused(ks_tripped, cb_tripped, history)
  /\ saved # None =>
       Unused(saved.kill_switch.tripped, saved.timed_breaker.tripped,
              saved.consecutive_loss_gate)

HaltInv == TypeOK /\ UnusedGatesClear

LEMMA UnusedInit == Init => UnusedGatesClear
BY DEF Init, Kill!Init, Breaker!Init, Window!Init, Window!New, Unused, UnusedGatesClear

(* An evaluation works none but the gates there are.                       *)
LEMMA UnusedEvaluate ==
  ASSUME UnusedGatesClear, NEW now, EvaluateWithState(now)
  PROVE  UnusedGatesClear'
<1> USE DEF UnusedGatesClear, Unused
<1>1. "breaker" \notin Gates => cb_tripped' = cb_tripped
  BY DEF EvaluateWithState, AskBreaker, BreakerAsked, breaker
<1>2. "kill" \notin Gates => ks_tripped' = ks_tripped
  BY DEF EvaluateWithState, Reject, MaybeFireTrip, OnTrip, EvaluateStateless, kill
<1>3. history' = history /\ saved' = saved
  BY DEF EvaluateWithState
<1>4. QED
  BY <1>1, <1>2, <1>3

LEMMA UnusedStep ==
  TypeOK /\ UnusedGatesClear /\ [Next]_vars => UnusedGatesClear'
<1> SUFFICES ASSUME TypeOK, UnusedGatesClear, [Next]_vars
             PROVE  UnusedGatesClear'
  OBVIOUS
<1> USE DEF UnusedGatesClear, Unused
<1>1. CASE \E now \in Datetimes : EvaluateWithState(now)
  BY <1>1, UnusedEvaluate
<1>2. CASE \E pnl \in Pnls, at \in Datetimes : RecordResolvedTrade(pnl, at)
  BY <1>2 DEF RecordResolvedTrade, kill, breaker
<1>3. CASE \E at \in Datetimes : TripKillSwitch(at)
  BY <1>3 DEF TripKillSwitch, breaker
<1>4. CASE ResetKillSwitch
  BY <1>4 DEF ResetKillSwitch, Kill!Reset, Kill!FromState, Kill!New, breaker
<1>5. CASE ResetBreaker
  BY <1>5 DEF ResetBreaker, Breaker!Reset, Breaker!FromState, Breaker!New, kill
<1>6. CASE ResetWindow
  BY <1>6 DEF ResetWindow, Window!Reset, Window!FromState, Window!New, kill, breaker
<1>7. CASE SnapshotState
  BY <1>7 DEF SnapshotState, Kill!ToState, Breaker!ToState, Window!ToState, kill, breaker
<1>8. CASE Restart
  BY <1>8 DEF Restart, Kill!FromState, Breaker!FromState, Window!FromState,
              Kill!New, Breaker!New, Window!New
<1>9. CASE Tick
  BY <1>9 DEF Tick, kill, breaker
<1>10. CASE UNCHANGED vars
  BY <1>10 DEF vars, kill, breaker
<1>11. QED
  BY <1>1, <1>2, <1>3, <1>4, <1>5, <1>6, <1>7, <1>8, <1>9, <1>10 DEF Next

LEMMA HaltInvariant == Spec => []HaltInv
<1>1. Init => HaltInv
  BY TypeInit, UnusedInit DEF HaltInv
<1>2. HaltInv /\ [Next]_vars => HaltInv'
  BY TypeStep, UnusedStep DEF HaltInv
<1>3. QED
  BY <1>1, <1>2, PTL DEF Spec

-----------------------------------------------------------------------------
(* The refinement mapping, read from the gates before and after a step.    *)

LEMMA HaltsMembers ==
  /\ Halts \subseteq {"kill", "breaker", "window"}
  /\ "kill" \in Halts <=> ks_tripped
  /\ "breaker" \in Halts <=> cb_tripped
  /\ "window" \in Halts <=> Window!TooManyLosses(history)
  /\ Halts' \subseteq {"kill", "breaker", "window"}
  /\ "kill" \in Halts' <=> ks_tripped'
  /\ "breaker" \in Halts' <=> cb_tripped'
  /\ "window" \in Halts' <=> Window!TooManyLosses(history')
BY DEF Halts, CausesIn, Window!TooManyLosses, Window!Losses

LEMMA SameHalts ==
  ASSUME \A cause \in {"kill", "breaker", "window"} :
           cause \in Halts' <=> cause \in Halts
  PROVE  Halts' = Halts
<1>1. \A cause : cause \in Halts' <=> cause \in Halts
  BY HaltsMembers
<1>2. QED
  BY <1>1, Zenon

LEMMA HaltsKept ==
  ASSUME UNCHANGED <<kill, breaker, history>>
  PROVE  Halts' = Halts
<1>1. ks_tripped' = ks_tripped /\ cb_tripped' = cb_tripped /\ history' = history
  BY DEF kill, breaker
<1>2. Window!TooManyLosses(history') <=> Window!TooManyLosses(history)
  BY <1>1
<1>3. \A cause \in {"kill", "breaker", "window"} : cause \in Halts' <=> cause \in Halts
  BY <1>1, <1>2, HaltsMembers
<1>4. QED
  BY <1>3, SameHalts

LEMMA VerdictValues ==
  /\ result' = None => Verdict' = "none"
  /\ result' = OK => Verdict' = "approved"
  /\ result' \in StatelessCodes \X {0} => Verdict' = "refused"
  /\ result' \notin {None, OK} \cup (StatelessCodes \X {0}) => Verdict' = "halted"
<1>1. OK \in Reasons /\ StatelessCodes \X {0} \subseteq Reasons
  BY DEF OK, Reasons, Codes, StatelessCodes
<1>2. None \notin Reasons
  BY NoneAssumption
<1>3. OK \notin StatelessCodes \X {0}
  BY DEF OK, StatelessCodes
<1>4. QED
  BY <1>1, <1>2, <1>3 DEF Verdict

(* No stateful gate gives a reason that reads as an approval.              *)
LEMMA StatefulReasons ==
  ASSUME TypeOK, NEW now
  PROVE  \A reason \in {Kill!Reason, Breaker!Reason(now), Window!Reason} :
           reason \notin {None, OK} \cup (StatelessCodes \X {0})
<1>1. loss_streak \in Nat /\ history \in Seq(BOOLEAN)
  BY DEF TypeOK, Breaker!ToState, Breaker!States, Window!States
<1>2. Kill!Reason # None /\ Breaker!Reason(now) # None /\ Window!Reason # None
  BY <1>1, KillReasonType, BreakerReasonType, WindowReasonType, NoneAssumption
<1>3. Kill!Reason \notin {OK} \cup (StatelessCodes \X {0})
  BY DEF Kill!Reason, OK, StatelessCodes
<1>4. Breaker!Reason(now) \notin {OK} \cup (StatelessCodes \X {0})
  BY DEF Breaker!Reason, Breaker!MixedZones, OK, StatelessCodes
<1>5. Window!Reason \notin {OK} \cup (StatelessCodes \X {0})
  BY DEF Window!Reason, OK, StatelessCodes
<1>6. QED
  BY <1>2, <1>3, <1>4, <1>5

(* An evaluation never trips the breaker, and clears it only if asked.     *)
LEMMA AskedBreaker ==
  ASSUME TypeOK, NEW now, AskBreaker(now)
  PROVE  /\ cb_tripped' => cb_tripped
         /\ KillStops => cb_tripped' = cb_tripped
         /\ BreakerStops(now) => cb_tripped /\ cb_tripped'
         /\ BreakerAsked /\ ~BreakerStops(now) => ~cb_tripped'
<1>1. cb_tripped \in BOOLEAN
  BY DEF TypeOK, Breaker!ToState, Breaker!States
<1>2. CASE BreakerAsked
  <2>1. /\ Breaker!Expired(now) => ~cb_tripped'
        /\ ~Breaker!Expired(now) => cb_tripped' = cb_tripped
    BY <1>2 DEF AskBreaker, BreakerAsked, Breaker!Check, Breaker!FromState,
                Breaker!New, Breaker!breaker
  <2>2. ~KillStops
    BY <1>2 DEF BreakerAsked
  <2>3. BreakerStops(now) <=> cb_tripped /\ ~Breaker!Expired(now)
    BY <1>2 DEF BreakerStops, Breaker!Blocks
  <2>4. QED
    BY <1>1, <1>2, <2>1, <2>2, <2>3
<1>3. CASE ~BreakerAsked
  BY <1>3 DEF AskBreaker, BreakerStops, breaker
<1>4. QED
  BY <1>2, <1>3

LEMMA EvaluateRefines ==
  ASSUME HaltInv, NEW now, EvaluateWithState(now)
  PROVE  Desk!Judge \/ Desk!Halt
<1> USE HaltsMembers
<1>1. /\ ks_tripped \in BOOLEAN /\ cb_tripped \in BOOLEAN /\ TypeOK
      /\ Unused(ks_tripped, cb_tripped, history)
  BY DEF HaltInv, UnusedGatesClear, TypeOK, Kill!ToState, Kill!States,
         Breaker!ToState, Breaker!States
<1>2. history' = history /\ saved' = saved /\ AskBreaker(now)
  BY DEF EvaluateWithState
<1>3. Durable' = Durable
  BY <1>2 DEF Durable, CausesIn, Window!TooManyLosses, Window!Losses
<1>4. ~Window!TooManyLosses(<<>>)
  BY WindowAssumption DEF Window!TooManyLosses
<1>5. CASE KillStops /\ Reject(Kill!Reason)
  <2>1. ks_tripped /\ ks_tripped'
    BY <1>1, <1>5, RejectKeepsKill DEF KillStops, Kill!Blocks
  <2>2. Halts' = Halts
    <3>1. cb_tripped' = cb_tripped
      BY <1>1, <1>2, <1>5, AskedBreaker
    <3>2. \A cause \in {"kill", "breaker", "window"} :
            cause \in Halts' <=> cause \in Halts
      BY <1>2, <2>1, <3>1
    <3>3. QED
      BY <3>2, SameHalts
  <2>3. Verdict' = "halted"
    BY <1>1, <1>5, StatefulReasons, VerdictValues DEF Reject
  <2>4. QED
    BY <1>3, <2>1, <2>2, <2>3 DEF Desk!Halt
<1>6. CASE BreakerStops(now) /\ Reject(Breaker!Reason(now))
  <2>1. cb_tripped /\ cb_tripped' /\ ~ks_tripped
    BY <1>1, <1>2, <1>6, AskedBreaker
       DEF BreakerStops, BreakerAsked, KillStops, Kill!Blocks, Unused
  <2>2. Verdict' = "halted"
    BY <1>1, <1>6, StatefulReasons, VerdictValues DEF Reject
  <2>3. QED
    BY <1>2, <1>3, <2>1, <2>2 DEF Desk!Halt
<1>7. CASE WindowStops(now) /\ Reject(Window!Reason)
  <2>1. Window!TooManyLosses(history) /\ ~ks_tripped
    BY <1>1, <1>7 DEF WindowStops, Window!Blocks, KillStops, Kill!Blocks, Unused
  <2>2. Verdict' = "halted"
    BY <1>1, <1>7, StatefulReasons, VerdictValues DEF Reject
  <2>3. cb_tripped' => cb_tripped
    BY <1>1, <1>2, AskedBreaker
  <2>4. QED
    BY <1>2, <1>3, <2>1, <2>2, <2>3 DEF Desk!Halt
<1>8. CASE ~Stopped(now) /\ EvaluateStateless
  <2>1. ~ks_tripped /\ ~ks_tripped'
    BY <1>1, <1>8 DEF Stopped, KillStops, Kill!Blocks, EvaluateStateless, kill, Unused
  <2>2. ~cb_tripped'
    BY <1>1, <1>2, <1>8, <2>1, AskedBreaker
       DEF Stopped, BreakerAsked, KillStops, Kill!Blocks, Unused
  <2>3. ~Window!TooManyLosses(history)
    BY <1>1, <1>4, <1>8 DEF Stopped, WindowStops, Window!Blocks, Unused
  <2>4. Verdict' \in {"approved", "refused"}
    BY <1>8, VerdictValues DEF EvaluateStateless
  <2>5. QED
    BY <1>2, <1>3, <2>1, <2>2, <2>3, <2>4 DEF Desk!Judge
<1>9. QED
  BY <1>5, <1>6, <1>7, <1>8 DEF EvaluateWithState

(* Nothing a settled trade can do clears the breaker.                      *)
LEMMA RecordRefines ==
  ASSUME HaltInv, NEW pnl, NEW at, RecordResolvedTrade(pnl, at)
  PROVE  Desk!Operate
<1> USE HaltsMembers
<1>1. cb_tripped => cb_tripped'
  BY DEF RecordResolvedTrade, Breaker!Record, Breaker!breaker, breaker
<1>2. ks_tripped' = ks_tripped
  BY DEF RecordResolvedTrade, kill
<1>3. Durable' = Durable
  BY DEF RecordResolvedTrade, Durable, CausesIn, Window!TooManyLosses, Window!Losses
<1>4. Verdict' = "none"
  BY VerdictValues DEF RecordResolvedTrade, NoOutputs
<1>5. Desk!Settle
  BY <1>1, <1>2 DEF Desk!Settle, Desk!Causes
<1>6. QED
  BY <1>3, <1>4, <1>5 DEF Desk!Operate

LEMMA OperatorRefines ==
  ASSUME HaltInv,
         \/ \E at \in Datetimes : TripKillSwitch(at)
         \/ ResetKillSwitch \/ ResetBreaker \/ ResetWindow
  PROVE  Desk!Operate \/ UNCHANGED Desk!haltVars
<1> USE HaltsMembers
<1>1. Verdict' = "none"
  BY VerdictValues
     DEF TripKillSwitch, ResetKillSwitch, ResetBreaker, ResetWindow, NoOutputs
<1>2. Durable' = Durable
  BY DEF TripKillSwitch, ResetKillSwitch, ResetBreaker, ResetWindow, Durable,
         CausesIn, Window!TooManyLosses, Window!Losses
<1>3. ASSUME NEW at \in Datetimes, TripKillSwitch(at)
      PROVE  Desk!Pull
  <2>1. ks_tripped'
    BY <1>3 DEF TripKillSwitch, Kill!Trip, Kill!switch
  <2>2. history' = history /\ cb_tripped' = cb_tripped
    BY <1>3 DEF TripKillSwitch, breaker
  <2>3. QED
    BY <2>1, <2>2 DEF Desk!Pull
<1>4. ASSUME ResetKillSwitch
      PROVE  Halts' = Halts \ {"kill"}
  BY <1>4 DEF ResetKillSwitch, Kill!Reset, Kill!FromState, Kill!New, breaker
<1>5. ASSUME ResetBreaker
      PROVE  Halts' = Halts \ {"breaker"}
  BY <1>5 DEF ResetBreaker, Breaker!Reset, Breaker!FromState, Breaker!New, kill
<1>6. ASSUME ResetWindow
      PROVE  Halts' = Halts \ {"window"}
  <2>1. ~Window!TooManyLosses(history')
    BY <1>6, WindowAssumption
       DEF ResetWindow, Window!Reset, Window!FromState, Window!New, Window!TooManyLosses
  <2>2. QED
    BY <1>6, <2>1 DEF ResetWindow, kill, breaker
<1>7. Desk!Pull \/ Desk!Lift
  BY <1>3, <1>4, <1>5, <1>6 DEF Desk!Lift, Desk!Causes
<1>8. QED
  BY <1>1, <1>2, <1>7 DEF Desk!Operate

LEMMA PersistRefines ==
  ASSUME HaltInv, SnapshotState
  PROVE  Desk!Persist
<1>1. saved' \in Snapshots
  BY DEF SnapshotState, Snapshots, Window!ToState, HaltInv, TypeOK
<1>2. saved' # None
  BY <1>1, SnapshotAssumption
<1>3. Durable' = Halts
  BY <1>2 DEF SnapshotState, Durable, Halts, CausesIn, Kill!ToState,
              Breaker!ToState, Window!ToState, Window!TooManyLosses, Window!Losses
<1>4. Halts' = Halts
  BY HaltsKept DEF SnapshotState
<1>5. QED
  BY <1>3, <1>4, VerdictValues DEF SnapshotState, NoOutputs, Desk!Persist

(* A crash leaves exactly the causes that the last snapshot holds.         *)
LEMMA RestartRefines ==
  ASSUME HaltInv, Restart
  PROVE  Desk!Recover
<1>1. Durable' = Durable
  BY DEF Restart, Durable, CausesIn, Window!TooManyLosses, Window!Losses
<1>2. Halts' = Durable
  <2>1. CASE saved = None
    <3>1. ~ks_tripped' /\ ~cb_tripped' /\ history' = <<>>
      BY <2>1 DEF Restart, Kill!FromState, Kill!New, Breaker!FromState,
                  Breaker!New, Window!FromState, Window!New
    <3>2. ~Window!TooManyLosses(history')
      BY <3>1, WindowAssumption DEF Window!TooManyLosses
    <3>3. QED
      BY <2>1, <3>1, <3>2, HaltsMembers DEF Durable
  <2>2. CASE saved # None
    BY <2>2 DEF Restart, Durable, Halts, CausesIn, Kill!FromState,
                Breaker!FromState, Window!FromState, Window!TooManyLosses,
                Window!Losses
  <2>3. QED
    BY <2>1, <2>2
<1>3. QED
  BY <1>1, <1>2, VerdictValues DEF Restart, NoOutputs, Desk!Recover

(* A step that moves no gate and no snapshot, and returns nothing.         *)
LEMMA QuietRefines ==
  ASSUME HaltInv, NoOutputs, UNCHANGED <<kill, breaker, history, saved>>
  PROVE  Desk!Operate
<1>1. Halts' = Halts
  BY HaltsKept
<1>2. Durable' = Durable
  BY DEF Durable, CausesIn, Window!TooManyLosses, Window!Losses
<1>3. Verdict' = "none"
  BY VerdictValues DEF NoOutputs
<1>4. Desk!Settle
  BY <1>1, HaltsMembers DEF Desk!Settle, Desk!Causes
<1>5. QED
  BY <1>2, <1>3, <1>4 DEF Desk!Operate

LEMMA StutterRefines ==
  ASSUME UNCHANGED vars
  PROVE  UNCHANGED Desk!haltVars
<1>1. Halts' = Halts
  BY HaltsKept DEF vars
<1>2. Durable' = Durable
  BY DEF vars, Durable, CausesIn, Window!TooManyLosses, Window!Losses
<1>3. Verdict' = Verdict
  BY DEF vars, outputs, Verdict
<1>4. QED
  BY <1>1, <1>2, <1>3 DEF Desk!haltVars

LEMMA StepRefines ==
  HaltInv /\ [Next]_vars => [Desk!Next]_Desk!haltVars
<1> SUFFICES ASSUME HaltInv, [Next]_vars
             PROVE  [Desk!Next]_Desk!haltVars
  OBVIOUS
<1> USE DEF Desk!Next
<1>1. CASE \E now \in Datetimes : EvaluateWithState(now)
  BY <1>1, EvaluateRefines
<1>2. CASE \E pnl \in Pnls, at \in Datetimes : RecordResolvedTrade(pnl, at)
  BY <1>2, RecordRefines
<1>3. CASE \/ \E at \in Datetimes : TripKillSwitch(at)
           \/ ResetKillSwitch \/ ResetBreaker \/ ResetWindow
  BY <1>3, OperatorRefines
<1>4. CASE SnapshotState
  BY <1>4, PersistRefines
<1>5. CASE Restart
  BY <1>5, RestartRefines
<1>6. CASE Tick
  BY <1>6, QuietRefines DEF Tick
<1>7. CASE UNCHANGED vars
  BY <1>7, StutterRefines
<1>8. QED
  BY <1>1, <1>2, <1>3, <1>4, <1>5, <1>6, <1>7 DEF Next

LEMMA InitRefines == Init => Desk!Init
<1> SUFFICES ASSUME Init PROVE Desk!Init
  OBVIOUS
<1>1. ~ks_tripped /\ ~cb_tripped /\ history = <<>>
  BY DEF Init, Kill!Init, Breaker!Init, Window!Init, Window!New
<1>2. ~Window!TooManyLosses(history)
  BY <1>1, WindowAssumption DEF Window!TooManyLosses
<1>3. Halts = {}
  BY <1>1, <1>2, HaltsMembers
<1>4. Durable = {}
  BY DEF Init, Durable
<1>5. result = None
  BY DEF Init
<1>6. Verdict = "none"
  <2>1. {OK} \cup (StatelessCodes \X {0}) \subseteq Reasons
    BY DEF OK, Reasons, Codes, StatelessCodes
  <2>2. QED
    BY <1>5, <2>1, NoneAssumption DEF Verdict
<1>7. QED
  BY <1>3, <1>4, <1>6 DEF Desk!Init

(* Whatever the thresholds, the cooldown, the window, the lag of callers   *)
(* and the gates configured, the authority implements DeskHalt: no trade   *)
(* is let through a halt, evaluations and settled trades lift only what    *)
(* they may, and a crash loses what the last snapshot does not hold.       *)
THEOREM Implements == Spec => ImplementsDeskHalt
<1>1. Init => Desk!Init
  BY InitRefines
<1>2. HaltInv /\ [Next]_vars => [Desk!Next]_Desk!haltVars
  BY StepRefines
<1>3. Init /\ [][Next]_vars => []HaltInv
  BY HaltInvariant DEF Spec
<1>4. QED
  BY <1>1, <1>2, <1>3, PTL DEF Spec, ImplementsDeskHalt, Desk!Spec
=============================================================================
