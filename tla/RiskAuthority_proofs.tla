------------------------ MODULE RiskAuthority_proofs ------------------------
(***************************************************************************)
(* Type correctness of RiskAuthority.                                      *)
(***************************************************************************)
EXTENDS RiskAuthority, FiniteSetTheorems, TLAPS

(* The operators of RiskValues mean the same inside the gates' modules.    *)
LEMMA SameValues ==
  /\ Kill!Stamps = Stamps /\ Breaker!Stamps = Stamps
  /\ \A p : Breaker!IsFinite(p) = IsFinite(p)
  /\ \A p : Breaker!IsLoss(p) = IsLoss(p)
  /\ \A p : Window!IsFinite(p) = IsFinite(p)
  /\ \A p : Window!IsLoss(p) = IsLoss(p)
BY DEF Kill!Stamps, Kill!Instants, Breaker!Stamps, Breaker!Instants, Stamps,
       Instants, Breaker!IsFinite, IsFinite, Breaker!IsLoss, IsLoss,
       Window!IsFinite, Window!IsLoss

(* A datetime that a caller passes is a stamp or None.                     *)
LEMMA DatetimesType == \A at \in Datetimes : at \in Stamps \cup {None}
BY DEF Datetimes

(* The reasons the stateful gates give are reason codes.                   *)
LEMMA KillReasonType == Kill!Reason \in Reasons
BY DEF Kill!Reason, Reasons, Codes

LEMMA SameCardinality == \A S : Window!Cardinality(S) = Cardinality(S)
BY DEF Window!Cardinality, Cardinality

LEMMA LossesType ==
  ASSUME NEW s \in Seq(BOOLEAN)
  PROVE  Window!Losses(s) \in Nat
<1>1. IsFiniteSet(DOMAIN s)
  BY FS_Interval, DOMAIN s = 1 .. Len(s), Len(s) \in Nat
<1>2. IsFiniteSet({i \in DOMAIN s : s[i]})
  BY <1>1, FS_Subset
<1>3. QED
  BY <1>2, FS_CardinalityType, SameCardinality DEF Window!Losses

LEMMA WindowReasonType ==
  ASSUME history \in Seq(BOOLEAN)
  PROVE  Window!Reason \in Reasons
BY LossesType DEF Window!Reason, Reasons, Codes

LEMMA BreakerReasonType ==
  ASSUME NEW now, loss_streak \in Nat
  PROVE  Breaker!Reason(now) \in Reasons
BY DEF Breaker!Reason, Breaker!MixedZones, Reasons, Codes

(* The trim of the window.                                                 *)
LEMMA LastTradesType ==
  ASSUME NEW s \in Seq(BOOLEAN)
  PROVE  Window!LastTrades(s) \in Window!States
BY WindowAssumption
   DEF Window!LastTrades, Window!States, Window!ValidState

-----------------------------------------------------------------------------
(* What the operations of each gate do to its type.                        *)

LEMMA KillTyped ==
  ASSUME Kill!ToState \in Kill!States
  PROVE  /\ \A at \in Datetimes : Kill!Trip(at) => Kill!ToState' \in Kill!States
         /\ Kill!Reset => Kill!ToState' \in Kill!States
         /\ \A s \in Kill!States : Kill!FromState(s) => Kill!ToState' \in Kill!States
         /\ UNCHANGED kill => Kill!ToState' \in Kill!States
BY SameValues, DatetimesType
   DEF Kill!Trip, Kill!switch, Kill!Reset, Kill!New, Kill!FromState,
       Kill!ToState, Kill!States, kill

LEMMA BreakerTyped ==
  ASSUME Breaker!ToState \in Breaker!States
  PROVE  /\ \A pnl, at : at \in Datetimes /\ Breaker!Record(pnl, at) =>
              Breaker!ToState' \in Breaker!States
         /\ \A now : Breaker!Check(now) => Breaker!ToState' \in Breaker!States
         /\ Breaker!Reset => Breaker!ToState' \in Breaker!States
         /\ \A s \in Breaker!States :
              Breaker!FromState(s) => Breaker!ToState' \in Breaker!States
         /\ UNCHANGED breaker => Breaker!ToState' \in Breaker!States
<1> USE SameValues DEF Breaker!ToState, Breaker!States
<1>1. /\ loss_streak \in Nat /\ cb_tripped \in BOOLEAN
      /\ cb_tripped_at \in Stamps \cup {None}
  OBVIOUS
<1>2. \A s \in Breaker!States : Breaker!FromState(s) => Breaker!ToState' \in Breaker!States
  BY DEF Breaker!FromState
<1>3. UNCHANGED Breaker!breaker => Breaker!ToState' \in Breaker!States
  BY <1>1 DEF Breaker!breaker
<1>4. Breaker!New \in Breaker!States
  BY DEF Breaker!New
<1>5. ASSUME NEW pnl, NEW at \in Datetimes, Breaker!Record(pnl, at)
      PROVE  Breaker!ToState' \in Breaker!States
  <2>1. loss_streak' \in Nat
    BY <1>1, <1>5 DEF Breaker!Record, Breaker!breaker
  <2>2. cb_tripped' \in BOOLEAN
    <3>1. (loss_streak' >= Threshold) \in BOOLEAN
      OBVIOUS
    <3>2. cb_tripped' = (loss_streak' >= Threshold) \/ cb_tripped' = cb_tripped
      BY <1>5, Zenon DEF Breaker!Record, Breaker!breaker
    <3>3. QED
      BY <1>1, <3>1, <3>2, Zenon
  <2>3. cb_tripped_at' \in Stamps \cup {None}
    BY <1>1, <1>5, DatetimesType DEF Breaker!Record, Breaker!breaker
  <2>4. QED
    BY <2>1, <2>2, <2>3
<1>6. \A now : Breaker!Check(now) => Breaker!ToState' \in Breaker!States
  BY <1>2, <1>3, <1>4 DEF Breaker!Check
<1>7. Breaker!Reset => Breaker!ToState' \in Breaker!States
  BY <1>2, <1>4 DEF Breaker!Reset
<1>8. UNCHANGED breaker => Breaker!ToState' \in Breaker!States
  BY <1>3 DEF breaker, Breaker!breaker
<1>9. QED
  BY <1>2, <1>5, <1>6, <1>7, <1>8

LEMMA WindowTyped ==
  ASSUME history \in Window!States
  PROVE  /\ \A pnl : Window!Record(pnl) => history' \in Window!States
         /\ Window!Reset => history' \in Window!States
         /\ \A s \in Window!States : Window!FromState(s) => history' \in Window!States
         /\ UNCHANGED history => history' \in Window!States
<1>1. ASSUME NEW pnl, Window!Record(pnl)
      PROVE  history' \in Window!States
  <2>1. IsLoss(pnl) \in BOOLEAN /\ history \in Seq(BOOLEAN)
    BY DEF IsLoss, Window!States
  <2>2. Append(history, IsLoss(pnl)) \in Seq(BOOLEAN)
    BY <2>1
  <2>3. QED
    BY <1>1, <2>2, LastTradesType, SameValues DEF Window!Record
<1>2. Window!New \in Window!States
  BY WindowAssumption DEF Window!New, Window!States, Window!ValidState
<1>3. QED
  BY <1>1, <1>2 DEF Window!Reset, Window!FromState

-----------------------------------------------------------------------------

(* What a gate's New value is, of the type of a snapshot of it.            *)
LEMMA NewTyped ==
  /\ Kill!New \in Kill!States
  /\ Breaker!New \in Breaker!States
  /\ Window!New \in Window!States
BY WindowAssumption
   DEF Kill!New, Kill!States, Breaker!New, Breaker!States,
       Window!New, Window!States, Window!ValidState

LEMMA TypeInit == Init => TypeOK
<1> SUFFICES ASSUME Init PROVE TypeOK
  OBVIOUS
<1>1. Kill!ToState = Kill!New
  BY DEF Init, Kill!Init, Kill!ToState, Kill!New
<1>2. Breaker!ToState = Breaker!New
  BY DEF Init, Breaker!Init, Breaker!ToState, Breaker!New
<1>3. history = Window!New
  BY DEF Init, Window!Init
<1>4. clock \in Instants
  BY MaxTimeAssumption DEF Init, Instants
<1>5. QED
  BY <1>1, <1>2, <1>3, <1>4, NewTyped DEF Init, TypeOK

(* What an evaluation returns and announces is a reason code, whatever     *)
(* datetime it is given.                                                   *)
LEMMA EvaluateTyped ==
  ASSUME TypeOK, NEW now, EvaluateWithState(now)
  PROVE  TypeOK'
<1>1. /\ Kill!ToState \in Kill!States /\ Breaker!ToState \in Breaker!States
      /\ history \in Window!States /\ last_trip_reason \in Reasons \cup {None}
      /\ clock \in Instants /\ saved \in Snapshots \cup {None}
  BY DEF TypeOK
<1>2. Breaker!ToState' \in Breaker!States
  BY <1>1, BreakerTyped DEF EvaluateWithState, AskBreaker
<1>3. UNCHANGED <<history, clock, saved>>
  BY DEF EvaluateWithState
<1>4. ASSUME NEW reason \in Reasons, Reject(reason)
      PROVE  /\ Kill!ToState' \in Kill!States
             /\ last_trip_reason' \in Reasons \cup {None}
             /\ result' \in Reasons /\ alert' \in Reasons \cup {None}
  <2>1. Kill!ToState' \in Kill!States
    BY <1>1, <1>4, KillTyped DEF Reject, MaybeFireTrip, OnTrip, kill
  <2>2. QED
    BY <1>1, <1>4, <2>1 DEF Reject, MaybeFireTrip
<1>5. ASSUME EvaluateStateless
      PROVE  /\ Kill!ToState' \in Kill!States
             /\ last_trip_reason' \in Reasons \cup {None}
             /\ result' \in Reasons /\ alert' = None
  <2>1. {OK} \cup (StatelessCodes \X {0}) \subseteq Reasons
    BY DEF OK, StatelessCodes, Reasons, Codes
  <2>2. QED
    BY <1>1, <1>5, <2>1, KillTyped DEF EvaluateStateless, kill
<1>6. Kill!Reason \in Reasons /\ Breaker!Reason(now) \in Reasons /\ Window!Reason \in Reasons
  <2>1. loss_streak \in Nat /\ history \in Seq(BOOLEAN)
    BY <1>1 DEF Breaker!ToState, Breaker!States, Window!States
  <2>2. QED
    BY <2>1, KillReasonType, BreakerReasonType, WindowReasonType
<1>7. /\ Kill!ToState' \in Kill!States
      /\ last_trip_reason' \in Reasons \cup {None}
      /\ result' \in Reasons /\ alert' \in Reasons \cup {None}
  BY <1>4, <1>5, <1>6 DEF EvaluateWithState
<1>8. QED
  BY <1>1, <1>2, <1>3, <1>7 DEF TypeOK

(* The callback can only pull the kill switch.                             *)
LEMMA RejectKeepsKill ==
  ASSUME TypeOK, NEW reason, Reject(reason)
  PROVE  ks_tripped => ks_tripped'
<1>1. ks_tripped \in BOOLEAN
  BY DEF TypeOK, Kill!ToState, Kill!States
<1>2. QED
  BY <1>1 DEF Reject, MaybeFireTrip, OnTrip, Kill!Trip, Kill!switch, kill

(* The other steps leave result and alert at None.                         *)
LEMMA QuietTyped ==
  ASSUME TypeOK, NoOutputs,
         Kill!ToState' \in Kill!States, Breaker!ToState' \in Breaker!States,
         history' \in Window!States, last_trip_reason' \in {last_trip_reason, None},
         clock' \in Instants, saved' \in Snapshots \cup {None}
  PROVE  TypeOK'
BY DEF TypeOK, NoOutputs

LEMMA TypeStep == TypeOK /\ [Next]_vars => TypeOK'
<1> SUFFICES ASSUME TypeOK, [Next]_vars PROVE TypeOK'
  OBVIOUS
<1> USE DEF TypeOK
<1>1. CASE \E now \in Datetimes : EvaluateWithState(now)
  BY <1>1, EvaluateTyped
<1>2. CASE \E pnl \in Pnls, at \in Datetimes : RecordResolvedTrade(pnl, at)
  BY <1>2, KillTyped, BreakerTyped, WindowTyped, QuietTyped
     DEF RecordResolvedTrade
<1>3. CASE \E at \in Datetimes : TripKillSwitch(at)
  BY <1>3, KillTyped, BreakerTyped, WindowTyped, QuietTyped DEF TripKillSwitch
<1>4. CASE ResetKillSwitch
  BY <1>4, KillTyped, BreakerTyped, WindowTyped, QuietTyped DEF ResetKillSwitch
<1>5. CASE ResetBreaker
  BY <1>5, KillTyped, BreakerTyped, WindowTyped, QuietTyped DEF ResetBreaker
<1>6. CASE ResetWindow
  BY <1>6, KillTyped, BreakerTyped, WindowTyped, QuietTyped DEF ResetWindow
<1>7. CASE SnapshotState
  <2>1. saved' \in Snapshots
    BY <1>7 DEF SnapshotState, Snapshots, Window!ToState
  <2>2. QED
    BY <1>7, <2>1, KillTyped, BreakerTyped, WindowTyped, QuietTyped DEF SnapshotState
<1>8. CASE Restart
  <2>1. CASE saved = None
    BY <1>8, <2>1, NewTyped, KillTyped, BreakerTyped, WindowTyped, QuietTyped
       DEF Restart
  <2>2. CASE saved # None
    <3>1. /\ saved.kill_switch \in Kill!States
          /\ saved.timed_breaker \in Breaker!States
          /\ saved.consecutive_loss_gate \in Window!States
      BY <2>2 DEF Snapshots
    <3>2. QED
      BY <1>8, <2>2, <3>1, KillTyped, BreakerTyped, WindowTyped, QuietTyped
         DEF Restart
  <2>3. QED
    BY <2>1, <2>2
<1>9. CASE Tick
  <2>1. clock' \in Instants
    BY <1>9, MaxTimeAssumption DEF Tick, Instants
  <2>2. QED
    BY <1>9, <2>1, KillTyped, BreakerTyped, WindowTyped, QuietTyped DEF Tick
<1>10. CASE UNCHANGED vars
  BY <1>10, KillTyped, BreakerTyped DEF vars, outputs
<1>11. QED
  BY <1>1, <1>2, <1>3, <1>4, <1>5, <1>6, <1>7, <1>8, <1>9, <1>10 DEF Next

(* The authority, its outputs and its snapshots keep their types through   *)
(* every interleaving of calls, crashes and restores.                      *)
THEOREM TypeCorrect == Spec => []TypeOK
BY TypeInit, TypeStep, PTL DEF Spec
=============================================================================
