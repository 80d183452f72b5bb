--------------------- MODULE RiskAuthorityAudit_proofs ---------------------
(***************************************************************************)
(* The gates of RiskAuthority agree with the records of settled trades,    *)
(* and a tripped breaker lasts for its cooldown.                           *)
(***************************************************************************)
EXTENDS RiskAuthorityAudit, RiskAuthority_proofs

-----------------------------------------------------------------------------
(* Runs of losses in a log that grows.                                     *)

LEMMA EndsShorter ==
  ASSUME NEW log \in Seq(BOOLEAN), NEW k \in Nat, NEW j \in 0 .. k,
         EndsInLosses(log, k)
  PROVE  EndsInLosses(log, j)
BY DEF EndsInLosses

LEMMA EndsAppendLoss ==
  ASSUME NEW log \in Seq(BOOLEAN), NEW k \in Nat
  PROVE  EndsInLosses(Append(log, TRUE), k + 1) <=> EndsInLosses(log, k)
<1> DEFINE grown == Append(log, TRUE)
<1>1. /\ Len(grown) = Len(log) + 1 /\ Len(log) \in Nat
      /\ \A i \in 1 .. Len(log) : grown[i] = log[i]
      /\ grown[Len(log) + 1] = TRUE
  OBVIOUS
<1> HIDE DEF grown
<1>2. EndsInLosses(grown, k + 1) => EndsInLosses(log, k)
  BY <1>1 DEF EndsInLosses
<1>3. EndsInLosses(log, k) => EndsInLosses(grown, k + 1)
  BY <1>1 DEF EndsInLosses
<1>4. QED
  BY <1>2, <1>3 DEF grown

LEMMA EndsAppendWin ==
  ASSUME NEW log \in Seq(BOOLEAN), NEW k \in Nat
  PROVE  EndsInLosses(Append(log, FALSE), k) <=> k = 0
<1> DEFINE grown == Append(log, FALSE)
<1>1. /\ Len(grown) = Len(log) + 1 /\ Len(log) \in Nat
      /\ grown[Len(log) + 1] = FALSE
  OBVIOUS
<1> HIDE DEF grown
<1>2. EndsInLosses(grown, 0)
  BY <1>1 DEF EndsInLosses
<1>3. EndsInLosses(grown, k) => k = 0
  BY <1>1 DEF EndsInLosses
<1>4. QED
  BY <1>2, <1>3 DEF grown

(* A run that is already in the log stays there, and the only new run is   *)
(* one that ends in the outcome just appended.                             *)
LEMMA RunAppend ==
  ASSUME NEW log \in Seq(BOOLEAN), NEW loss \in BOOLEAN
  PROVE  HasLossRun(Append(log, loss)) <=>
           HasLossRun(log) \/ EndsInLosses(Append(log, loss), Threshold)
<1> DEFINE grown == Append(log, loss)
<1>1. /\ Len(grown) = Len(log) + 1 /\ Len(log) \in Nat
      /\ \A i \in 1 .. Len(log) : grown[i] = log[i]
  OBVIOUS
<1>2. Threshold \in Nat \ {0}
  BY BreakerAssumption
<1> HIDE DEF grown
<1>3. HasLossRun(log) => HasLossRun(grown)
  BY <1>1, <1>2 DEF HasLossRun
<1>4. EndsInLosses(grown, Threshold) => HasLossRun(grown)
  BY <1>1, <1>2 DEF HasLossRun, EndsInLosses
<1>5. ASSUME HasLossRun(grown), ~EndsInLosses(grown, Threshold)
      PROVE  HasLossRun(log)
  <2>1. PICK n \in Threshold .. Len(grown) :
          \A i \in n - Threshold + 1 .. n : grown[i]
    BY <1>5 DEF HasLossRun
  <2>2. n # Len(grown)
    BY <1>1, <1>2, <1>5, <2>1 DEF EndsInLosses
  <2>3. \A i \in n - Threshold + 1 .. n : log[i]
    BY <1>1, <1>2, <2>1, <2>2
  <2>4. QED
    BY <1>1, <1>2, <2>2, <2>3 DEF HasLossRun
<1>6. QED
  BY <1>3, <1>4, <1>5 DEF grown

LEMMA EmptyLog ==
  /\ ~HasLossRun(<<>>)
  /\ EndsInLosses(<<>>, 0) /\ ~EndsInLosses(<<>>, 1)
BY BreakerAssumption DEF HasLossRun, EndsInLosses

-----------------------------------------------------------------------------
(* record() keeps the breaker in agreement with its log.                   *)
LEMMA BreakerRecordAgrees ==
  ASSUME NEW pnl, NEW at, Breaker!Record(pnl, at), IsFinite(pnl),
         "breaker" \in Gates,
         Breaker!ToState \in Breaker!States, since_clear \in Seq(BOOLEAN),
         BreakerAgrees(Breaker!ToState, since_clear)
  PROVE  BreakerAgrees(Breaker!ToState', Append(since_clear, IsLoss(pnl)))
<1> DEFINE log == Append(since_clear, IsLoss(pnl))
<1> SUFFICES /\ cb_tripped' <=> HasLossRun(log)
             /\ cb_tripped' => loss_streak' = Threshold
             /\ ~cb_tripped' =>
                  /\ EndsInLosses(log, loss_streak')
                  /\ ~EndsInLosses(log, loss_streak' + 1)
  BY DEF BreakerAgrees, Breaker!ToState
<1>1. /\ loss_streak \in Nat /\ cb_tripped \in BOOLEAN
      /\ IsLoss(pnl) \in BOOLEAN /\ Threshold \in Nat \ {0}
  BY BreakerAssumption DEF Breaker!ToState, Breaker!States, IsLoss
<1>2. /\ cb_tripped <=> HasLossRun(since_clear)
      /\ cb_tripped => loss_streak = Threshold
      /\ ~cb_tripped =>
           /\ EndsInLosses(since_clear, loss_streak)
           /\ ~EndsInLosses(since_clear, loss_streak + 1)
  BY DEF BreakerAgrees, Breaker!ToState
<1>3. HasLossRun(log) <=> HasLossRun(since_clear) \/ EndsInLosses(log, Threshold)
  BY <1>1, RunAppend
<1> HIDE DEF log
<1>4. CASE cb_tripped
  <2>1. cb_tripped' = cb_tripped /\ loss_streak' = loss_streak
    BY <1>4 DEF Breaker!Record, Breaker!breaker
  <2>2. QED
    BY <1>2, <1>3, <1>4, <2>1
<1>5. CASE ~cb_tripped /\ IsLoss(pnl)
  <2>1. loss_streak' = loss_streak + 1 /\ cb_tripped' = (loss_streak' >= Threshold)
    BY <1>5, SameValues DEF Breaker!Record
  <2>2. log = Append(since_clear, TRUE)
    BY <1>1, <1>5 DEF log
  <2>3. /\ EndsInLosses(log, loss_streak + 1)
        /\ ~EndsInLosses(log, loss_streak + 1 + 1)
    <3>1. EndsInLosses(log, loss_streak + 1) <=> EndsInLosses(since_clear, loss_streak)
      BY <1>1, <2>2, EndsAppendLoss
    <3>2. loss_streak + 1 \in Nat
      BY <1>1
    <3>3. EndsInLosses(log, loss_streak + 1 + 1) <=>
            EndsInLosses(since_clear, loss_streak + 1)
      BY <2>2, <3>2, EndsAppendLoss
    <3>4. QED
      BY <1>2, <1>5, <3>1, <3>3
  <2>4. log \in Seq(BOOLEAN)
    BY <1>1 DEF log
  <2>5. loss_streak < Threshold
    <3>1. SUFFICES ASSUME Threshold <= loss_streak PROVE FALSE
      BY <1>1
    <3>2. EndsInLosses(since_clear, Threshold)
      BY <1>1, <1>2, <1>5, <3>1, EndsShorter
    <3>3. HasLossRun(since_clear)
      <4>1. /\ Len(since_clear) \in Threshold .. Len(since_clear)
            /\ \A i \in Len(since_clear) - Threshold + 1 .. Len(since_clear) :
                 since_clear[i]
        BY <1>1, <3>2 DEF EndsInLosses
      <4>2. QED
        BY <4>1 DEF HasLossRun
    <3>4. QED
      BY <1>2, <1>5, <3>3
  <2>6. CASE loss_streak + 1 = Threshold
    <3>1. cb_tripped' /\ loss_streak' = Threshold
      <4>1. loss_streak' = Threshold /\ loss_streak' >= Threshold
        BY <1>1, <2>1, <2>6
      <4>2. QED
        BY <2>1, <4>1, Zenon
    <3>2. HasLossRun(log)
      BY <1>3, <2>3, <2>6
    <3>3. QED
      BY <3>1, <3>2
  <2>7. CASE loss_streak + 1 < Threshold
    <3>1. ~EndsInLosses(log, Threshold)
      <4>1. loss_streak + 1 + 1 \in 0 .. Threshold
        BY <1>1, <2>7
      <4>2. QED
        BY <1>1, <2>3, <2>4, <4>1, EndsShorter
    <3>2. ~cb_tripped' /\ ~HasLossRun(log)
      <4>1. ~cb_tripped'
        <5>1. ~(loss_streak' >= Threshold)
          BY <1>1, <2>1, <2>7
        <5>2. QED
          BY <2>1, <5>1, Zenon
      <4>2. QED
        BY <1>2, <1>3, <1>5, <3>1, <4>1
    <3>3. QED
      BY <1>1, <2>1, <2>3, <3>2
  <2>8. QED
    BY <1>1, <2>5, <2>6, <2>7
<1>6. CASE ~cb_tripped /\ ~IsLoss(pnl)
  <2>1. loss_streak' = 0 /\ cb_tripped' = cb_tripped
    BY <1>6, SameValues DEF Breaker!Record, Breaker!breaker
  <2>2. log = Append(since_clear, FALSE)
    BY <1>1, <1>6 DEF log
  <2>3. /\ EndsInLosses(log, 0) /\ ~EndsInLosses(log, 1)
        /\ ~EndsInLosses(log, Threshold)
    <3>1. \A k \in Nat : EndsInLosses(log, k) <=> k = 0
      BY <2>2, EndsAppendWin
    <3>2. QED
      BY <1>1, <3>1
  <2>4. QED
    BY <1>2, <1>3, <1>6, <2>1, <2>3
<1>7. QED
  BY <1>1, <1>4, <1>5, <1>6

(* The append and trim of record() keep the window in agreement.           *)
LEMMA WindowAppendAgrees ==
  ASSUME NEW trades \in Window!States, NEW log \in Seq(BOOLEAN), NEW loss \in BOOLEAN,
         WindowAgrees(trades, log)
  PROVE  WindowAgrees(Window!LastTrades(Append(trades, loss)), Append(log, loss))
<1> SUFFICES ASSUME "window" \in Gates
             PROVE  WindowAgrees(Window!LastTrades(Append(trades, loss)),
                                 Append(log, loss))
  BY DEF WindowAgrees
<1> DEFINE longer == Append(trades, loss)
           grown == Append(log, loss)
           kept == Window!LastTrades(longer)
<1>1. WindowTrades \in Nat \ {0}
  BY WindowAssumption
<1>2. /\ trades \in Seq(BOOLEAN) /\ Len(trades) <= WindowTrades
      /\ Len(trades) \in Nat /\ Len(log) \in Nat
  BY DEF Window!States, Window!ValidState
<1>3. /\ Len(trades) = IF Len(log) < WindowTrades THEN Len(log) ELSE WindowTrades
      /\ \A i \in 1 .. Len(trades) : trades[i] = log[Len(log) - Len(trades) + i]
  BY DEF WindowAgrees
<1>4. /\ longer \in Seq(BOOLEAN) /\ Len(longer) = Len(trades) + 1
      /\ \A i \in 1 .. Len(trades) : longer[i] = trades[i]
      /\ longer[Len(trades) + 1] = loss
  BY <1>2
<1>5. /\ Len(grown) = Len(log) + 1
      /\ \A i \in 1 .. Len(log) : grown[i] = log[i]
      /\ grown[Len(log) + 1] = loss
  OBVIOUS
<1>6. CASE Len(trades) < WindowTrades
  <2>1. kept = longer /\ Len(trades) = Len(log)
    <3> HIDE DEF longer
    <3>1. ~(Len(longer) > WindowTrades)
      BY <1>1, <1>2, <1>4, <1>6
    <3>2. QED
      BY <1>1, <1>2, <1>3, <1>6, <3>1 DEF Window!LastTrades
  <2>2. \A i \in 1 .. Len(longer) : longer[i] = grown[i]
    <3> HIDE DEF longer, grown, kept
    <3>1. \A i \in 1 .. Len(trades) : trades[i] = log[i]
      <4>1. \A i \in 1 .. Len(trades) : Len(log) - Len(trades) + i = i
        BY <1>2, <2>1
      <4>2. QED
        BY <1>3, <4>1
    <3>2. QED
      BY <1>2, <1>4, <1>5, <2>1, <3>1
  <2>3. QED
    BY SMTT(60), <1>1, <1>2, <1>4, <1>5, <1>6, <2>1, <2>2 DEF WindowAgrees
<1>7. CASE Len(trades) = WindowTrades
  <2>1. /\ Len(kept) = WindowTrades
        /\ \A i \in 1 .. WindowTrades : kept[i] = longer[i + 1]
    BY <1>1, <1>4, <1>7 DEF Window!LastTrades
  <2>2. Len(log) >= WindowTrades
    BY <1>1, <1>2, <1>3, <1>7
  <2>3. \A i \in 1 .. WindowTrades :
          kept[i] = grown[Len(grown) - WindowTrades + i]
    <3>1. SUFFICES ASSUME NEW i \in 1 .. WindowTrades
                   PROVE  kept[i] = grown[Len(grown) - WindowTrades + i]
      OBVIOUS
    <3> HIDE DEF longer, grown, kept
    <3>2. CASE i < WindowTrades
      <4>1. kept[i] = log[Len(log) - WindowTrades + (i + 1)]
        <5>1. i + 1 \in 1 .. Len(trades)
          BY <1>1, <1>7, <3>2
        <5>2. QED
          BY <1>3, <1>4, <1>7, <2>1, <5>1
      <4>2. Len(log) - WindowTrades + (i + 1) \in 1 .. Len(log)
        BY <1>1, <1>2, <2>2, <3>2
      <4>3. grown[Len(log) - WindowTrades + (i + 1)] = log[Len(log) - WindowTrades + (i + 1)]
        BY <1>5, <4>2
      <4>4. Len(grown) - WindowTrades + i = Len(log) - WindowTrades + (i + 1)
        BY <1>1, <1>2, <1>5
      <4>5. QED
        BY <4>1, <4>3, <4>4
    <3>3. CASE i = WindowTrades
      <4>1. Len(grown) - WindowTrades + i = Len(log) + 1
        BY <1>1, <1>2, <1>5, <3>3
      <4>2. QED
        BY <1>4, <1>5, <1>7, <2>1, <3>3, <4>1
    <3>4. QED
      BY <1>1, <3>2, <3>3
  <2>4. QED
    <3> HIDE DEF longer, grown, kept
    <3>1. ~(Len(grown) < WindowTrades)
      BY <1>1, <1>2, <1>5, <2>2
    <3>2. WindowAgrees(kept, grown)
      BY <2>1, <2>3, <3>1 DEF WindowAgrees
    <3>3. QED
      BY <3>2 DEF longer, grown, kept
<1>8. QED
  BY <1>1, <1>2, <1>6, <1>7

LEMMA NewAgrees ==
  BreakerAgrees(Breaker!New, <<>>) /\ WindowAgrees(Window!New, <<>>)
<1>1. BreakerAgrees(Breaker!New, <<>>)
  BY EmptyLog DEF BreakerAgrees, Breaker!New
<1>2. WindowAgrees(Window!New, <<>>)
  BY WindowAssumption DEF WindowAgrees, Window!New
<1>3. QED
  BY <1>1, <1>2

-----------------------------------------------------------------------------
(* The inductive invariant: the gates, and the snapshot on disk, agree     *)
(* with the records.  A trip is dated by its caller at most MaxLag before  *)
(* the wall clock showed it.                                               *)

HaltDated(b, at) ==
  b.tripped => at \in Instants /\ (b.tripped_at # None => b.tripped_at.t >= at - MaxLag)

Agrees(k, b, trades, a) ==
  /\ k.tripped = a.killed
  /\ BreakerAgrees(b, a.since_clear)
  /\ HaltDated(b, a.halted_at)
  /\ WindowAgrees(trades, a.since_reset)

GatesAgree == Agrees(Kill!ToState, Breaker!ToState, history, Logs)

SnapshotAgrees ==
  /\ saved = None => archive = NewLogs
  /\ saved # None =>
       Agrees(saved.kill_switch, saved.timed_breaker, saved.consecutive_loss_gate,
              archive)

AuditInv == AuditTypeOK /\ GatesAgree /\ SnapshotAgrees

LEMMA AuditInitially == AuditInit => AuditInv
<1> SUFFICES ASSUME AuditInit PROVE AuditInv
  OBVIOUS
<1>1. TypeOK
  BY TypeInit DEF AuditInit
<1>2. AuditTypeOK
  <2>1. <<>> \in Seq(BOOLEAN)
    OBVIOUS
  <2>2. archive \in [since_clear : Seq(BOOLEAN), since_reset : Seq(BOOLEAN),
                    halted_at : Instants \cup {None}, killed : BOOLEAN]
    BY <2>1 DEF AuditInit, NewLogs
  <2>3. QED
    BY <1>1, <2>1, <2>2 DEF AuditInit, AuditTypeOK
<1>3. /\ Kill!ToState = Kill!New /\ Breaker!ToState = Breaker!New
      /\ history = Window!New /\ Logs = NewLogs
  BY DEF AuditInit, Init, Kill!Init, Kill!ToState, Kill!New, Breaker!Init,
         Breaker!ToState, Breaker!New, Window!Init, Logs, NewLogs
<1>4. Agrees(Kill!New, Breaker!New, Window!New, NewLogs)
  BY NewAgrees DEF Agrees, NewLogs, HaltDated, Breaker!New, Kill!New
<1>5. SnapshotAgrees
  BY DEF AuditInit, Init, SnapshotAgrees
<1>6. QED
  BY <1>2, <1>3, <1>4, <1>5 DEF AuditInv, GatesAgree

(* Every step of the audit is a step of the authority.                     *)
LEMMA AuditStepIsStep == [AuditNext]_auditVars => [Next]_vars
BY DEF AuditNext, NotSettle, Judge, Settle, Pull, Release, ClearBreaker,
       ClearWindow, Persist, Recover, Wait, Next, auditVars, vars

LEMMA AuditTypeStep == AuditTypeOK /\ [AuditNext]_auditVars => AuditTypeOK'
<1> SUFFICES ASSUME AuditTypeOK, [AuditNext]_auditVars PROVE AuditTypeOK'
  OBVIOUS
<1> USE DEF AuditTypeOK
<1>1. TypeOK'
  BY AuditStepIsStep, TypeStep
<1>2. clock \in Instants /\ alert' \in Reasons \cup {None}
  BY <1>1 DEF TypeOK
<1>3. ks_tripped' \in BOOLEAN
  BY <1>1 DEF TypeOK, Kill!ToState, Kill!States
<1>4. CASE \E now \in Datetimes : Judge(now)
  <2>1. PICK now \in Datetimes : Judge(now)
    BY <1>4
  <2>2. since_clear' \in Seq(BOOLEAN) /\ halted_at' \in Instants \cup {None}
    <3>1. \/ since_clear' = <<>> /\ halted_at' = None
          \/ since_clear' = since_clear /\ halted_at' = halted_at
      BY <2>1 DEF Judge
    <3>2. <<>> \in Seq(BOOLEAN)
      OBVIOUS
    <3>3. QED
      BY <3>1, <3>2
  <2>3. alerted' \subseteq Reasons
    BY <1>2, <2>1 DEF Judge, Heard
  <2>4. killed' \in BOOLEAN
    BY <1>3, <2>1, Zenon DEF Judge
  <2>5. since_reset' = since_reset /\ archive' = archive
    BY <2>1 DEF Judge
  <2>6. QED
    BY <1>1, <2>2, <2>3, <2>4, <2>5
<1>5. CASE \E pnl \in Pnls, at \in Datetimes : Settle(pnl, at)
  <2>1. PICK pnl \in Pnls, at \in Datetimes : Settle(pnl, at)
    BY <1>5
  <2>2. IsLoss(pnl) \in BOOLEAN
    BY DEF IsLoss
  <2>3. since_clear' \in Seq(BOOLEAN) /\ since_reset' \in Seq(BOOLEAN)
    <3>1. \/ /\ since_clear' = Append(since_clear, IsLoss(pnl))
             /\ since_reset' = Append(since_reset, IsLoss(pnl))
          \/ since_clear' = since_clear /\ since_reset' = since_reset
      BY <2>1 DEF Settle
    <3>2. /\ Append(since_clear, IsLoss(pnl)) \in Seq(BOOLEAN)
          /\ Append(since_reset, IsLoss(pnl)) \in Seq(BOOLEAN)
      BY <2>2
    <3>3. QED
      BY <3>1, <3>2
  <2>4. halted_at' \in Instants \cup {None}
    BY <1>2, <2>1 DEF Settle
  <2>5. UNCHANGED <<killed, alerted, archive>>
    BY <2>1 DEF Settle
  <2>6. QED
    BY <1>1, <2>3, <2>4, <2>5
<1>6. CASE \E at \in Datetimes : Pull(at)
  BY <1>1, <1>6 DEF Pull
<1>7. CASE Release \/ ClearBreaker \/ ClearWindow
  BY <1>1, <1>7, <<>> \in Seq(BOOLEAN) DEF Release, ClearBreaker, ClearWindow
<1>8. CASE Persist
  BY <1>1, <1>8 DEF Persist, logs, Logs
<1>9. CASE Recover
  BY <1>1, <1>9 DEF Recover, LogsFrom
<1>10. CASE Wait \/ UNCHANGED auditVars
  BY <1>1, <1>10 DEF Wait, auditVars, logs
<1>11. QED
  BY <1>4, <1>5, <1>6, <1>7, <1>8, <1>9, <1>10 DEF AuditNext, NotSettle

-----------------------------------------------------------------------------
(* What each step does to the agreement of the gates.                      *)

LEMMA BreakerKept ==
  ASSUME UNCHANGED breaker
  PROVE  Breaker!ToState' = Breaker!ToState
BY DEF breaker, Breaker!ToState

LEMMA KillKept ==
  ASSUME UNCHANGED kill
  PROVE  Kill!ToState' = Kill!ToState
BY DEF kill, Kill!ToState

LEMMA AgreesParts ==
  ASSUME GatesAgree
  PROVE  /\ ks_tripped = killed
         /\ BreakerAgrees(Breaker!ToState, since_clear)
         /\ HaltDated(Breaker!ToState, halted_at)
         /\ WindowAgrees(history, since_reset)
BY DEF GatesAgree, Agrees, Logs, Kill!ToState

LEMMA AgreesFromParts ==
  ASSUME ks_tripped' = killed',
         BreakerAgrees(Breaker!ToState', since_clear'),
         HaltDated(Breaker!ToState', halted_at'),
         WindowAgrees(history', since_reset')
  PROVE  GatesAgree'
BY DEF GatesAgree, Agrees, Logs, Kill!ToState

(* An evaluation clears the breaker and its log together.                  *)
LEMMA JudgeAgrees ==
  ASSUME AuditInv, NEW now \in Datetimes, Judge(now)
  PROVE  GatesAgree'
<1>1. /\ TypeOK /\ cb_tripped \in BOOLEAN /\ ks_tripped \in BOOLEAN
      /\ killed \in BOOLEAN
  BY DEF AuditInv, AuditTypeOK, TypeOK, Breaker!ToState, Breaker!States,
         Kill!ToState, Kill!States
<1>2. /\ ks_tripped = killed
      /\ BreakerAgrees(Breaker!ToState, since_clear)
      /\ HaltDated(Breaker!ToState, halted_at)
      /\ WindowAgrees(history, since_reset)
  BY AgreesParts DEF AuditInv
<1>3. ks_tripped' = killed'
  <2>1. TypeOK'
    BY <1>1, EvaluateTyped DEF Judge
  <2>2. ks_tripped' \in BOOLEAN
    BY <2>1 DEF TypeOK, Kill!ToState, Kill!States
  <2>3. ks_tripped => ks_tripped'
    BY <1>1, RejectKeepsKill
       DEF Judge, EvaluateWithState, EvaluateStateless, kill
  <2>4. killed' = (killed \/ ks_tripped')
    BY DEF Judge
  <2>5. QED
    BY <1>1, <1>2, <2>2, <2>3, <2>4, Zenon
<1>4. WindowAgrees(history', since_reset')
  BY <1>2 DEF Judge, EvaluateWithState
<1>5. \/ UNCHANGED breaker
      \/ cb_tripped /\ Breaker!FromState(Breaker!New)
  BY DEF Judge, EvaluateWithState, AskBreaker, Breaker!Check, Breaker!Expired,
         Breaker!Dated, Breaker!breaker, breaker
<1>6. CASE UNCHANGED breaker
  <2>1. UNCHANGED <<since_clear, halted_at>>
    BY <1>6 DEF Judge, breaker
  <2>2. QED
    BY <1>2, <1>3, <1>4, <1>6, <2>1, BreakerKept, AgreesFromParts
<1>7. CASE cb_tripped /\ Breaker!FromState(Breaker!New)
  <2>1. Breaker!ToState' = Breaker!New
    BY <1>7 DEF Breaker!FromState, Breaker!New, Breaker!ToState
  <2>2. since_clear' = <<>>
    BY <1>7 DEF Judge, Breaker!FromState, Breaker!New
  <2>3. HaltDated(Breaker!ToState', halted_at')
    BY <2>1 DEF HaltDated, Breaker!New
  <2>4. QED
    BY <1>3, <1>4, <2>1, <2>2, <2>3, NewAgrees, AgreesFromParts
<1>8. QED
  BY <1>5, <1>6, <1>7

(* A trip is dated with a datetime that is at most MaxLag old.             *)
LEMMA TripDated ==
  ASSUME AuditInv, NEW pnl, NEW at \in Datetimes, Settle(pnl, at)
  PROVE  HaltDated(Breaker!ToState', halted_at')
<1>1. /\ cb_tripped \in BOOLEAN /\ clock \in Instants /\ clock \in Nat
      /\ HaltDated(Breaker!ToState, halted_at) /\ MaxLag \in Nat
  BY AgreesParts, HostAssumption, MaxTimeAssumption
     DEF AuditInv, AuditTypeOK, TypeOK, Breaker!ToState, Breaker!States, Instants
<1>2. CASE UNCHANGED <<cb_tripped, cb_tripped_at>>
  <2>1. halted_at' = halted_at
    BY <1>1, <1>2 DEF Settle
  <2>2. QED
    BY <1>1, <1>2, <2>1 DEF HaltDated, Breaker!ToState
<1>3. CASE ~cb_tripped /\ ~cb_tripped'
  BY <1>3 DEF HaltDated, Breaker!ToState
<1>4. CASE ~cb_tripped /\ cb_tripped' /\ cb_tripped_at' = at
  <2>1. halted_at' = clock
    BY <1>4 DEF Settle
  <2>2. at # None => at.t >= clock - MaxLag
    BY <1>1 DEF Datetimes, Stamps, Instants
  <2>3. QED
    BY <1>1, <1>4, <2>1, <2>2 DEF HaltDated, Breaker!ToState
<1>5. \/ UNCHANGED <<cb_tripped, cb_tripped_at>>
      \/ ~cb_tripped /\ ~cb_tripped'
      \/ ~cb_tripped /\ cb_tripped' /\ cb_tripped_at' = at
  BY DEF Settle, RecordResolvedTrade, Breaker!Record, Breaker!breaker, breaker
<1>6. QED
  BY <1>2, <1>3, <1>4, <1>5

LEMMA SettleAgrees ==
  ASSUME AuditInv, NEW pnl, NEW at \in Datetimes, Settle(pnl, at)
  PROVE  GatesAgree'
<1>1. /\ ks_tripped = killed
      /\ BreakerAgrees(Breaker!ToState, since_clear)
      /\ WindowAgrees(history, since_reset)
  BY AgreesParts DEF AuditInv
<1>2. /\ Breaker!ToState \in Breaker!States /\ history \in Window!States
      /\ since_clear \in Seq(BOOLEAN) /\ since_reset \in Seq(BOOLEAN)
  BY DEF AuditInv, AuditTypeOK, TypeOK
<1>3. RecordResolvedTrade(pnl, at)
  BY DEF Settle
<1>4. ks_tripped' = killed'
  BY <1>1, <1>3 DEF Settle, RecordResolvedTrade, kill
<1>5. BreakerAgrees(Breaker!ToState', since_clear')
  <2>1. CASE "breaker" \notin Gates
    BY <2>1 DEF BreakerAgrees
  <2>2. CASE "breaker" \in Gates /\ IsFinite(pnl)
    <3>1. Breaker!Record(pnl, at) /\ since_clear' = Append(since_clear, IsLoss(pnl))
      BY <1>3, <2>2 DEF RecordResolvedTrade, Settle
    <3>2. QED
      BY <1>1, <1>2, <2>2, <3>1, BreakerRecordAgrees
  <2>3. CASE "breaker" \in Gates /\ ~IsFinite(pnl)
    <3>1. UNCHANGED breaker /\ since_clear' = since_clear
      BY <1>3, <2>3, SameValues
         DEF RecordResolvedTrade, Settle, Breaker!Record, Breaker!breaker, breaker
    <3>2. QED
      BY <1>1, <3>1, BreakerKept
  <2>4. QED
    BY <2>1, <2>2, <2>3
<1>6. WindowAgrees(history', since_reset')
  <2>1. CASE "window" \notin Gates
    BY <2>1 DEF WindowAgrees
  <2>2. CASE "window" \in Gates /\ IsFinite(pnl)
    <3>1. /\ history' = Window!LastTrades(Append(history, IsLoss(pnl)))
          /\ since_reset' = Append(since_reset, IsLoss(pnl))
      BY <1>3, <2>2, SameValues DEF RecordResolvedTrade, Settle, Window!Record
    <3>2. IsLoss(pnl) \in BOOLEAN
      BY DEF IsLoss
    <3>3. QED
      BY <1>1, <1>2, <3>1, <3>2, WindowAppendAgrees
  <2>3. CASE "window" \in Gates /\ ~IsFinite(pnl)
    <3>1. history' = history /\ since_reset' = since_reset
      BY <1>3, <2>3, SameValues DEF RecordResolvedTrade, Settle, Window!Record
    <3>2. QED
      BY <1>1, <3>1
  <2>4. QED
    BY <2>1, <2>2, <2>3
<1>7. QED
  BY <1>4, <1>5, <1>6, TripDated, AgreesFromParts

LEMMA PullAgrees ==
  ASSUME AuditInv, NEW at \in Datetimes, Pull(at)
  PROVE  GatesAgree'
<1>1. killed' = TRUE /\ ks_tripped' = TRUE
  <2>1. ks_tripped \in BOOLEAN
    BY DEF AuditInv, AuditTypeOK, TypeOK, Kill!ToState, Kill!States
  <2>2. QED
    BY <2>1 DEF Pull, TripKillSwitch, Kill!Trip, Kill!switch
<1>2. UNCHANGED <<breaker, history, since_clear, since_reset, halted_at>>
  BY DEF Pull, TripKillSwitch
<1>3. QED
  BY <1>1, <1>2, AgreesParts, BreakerKept, AgreesFromParts DEF AuditInv

LEMMA ReleaseAgrees ==
  ASSUME AuditInv, Release
  PROVE  GatesAgree'
<1>1. killed' = FALSE /\ ks_tripped' = FALSE
  BY DEF Release, ResetKillSwitch, Kill!Reset, Kill!FromState, Kill!New
<1>2. UNCHANGED <<breaker, history, since_clear, since_reset, halted_at>>
  BY DEF Release, ResetKillSwitch
<1>3. QED
  BY <1>1, <1>2, AgreesParts, BreakerKept, AgreesFromParts DEF AuditInv

LEMMA ClearBreakerAgrees ==
  ASSUME AuditInv, ClearBreaker
  PROVE  GatesAgree'
<1>1. Breaker!ToState' = Breaker!New /\ since_clear' = <<>>
  BY DEF ClearBreaker, ResetBreaker, Breaker!Reset, Breaker!FromState,
         Breaker!New, Breaker!ToState
<1>2. UNCHANGED <<kill, history, killed, since_reset>>
  BY DEF ClearBreaker, ResetBreaker
<1>3. HaltDated(Breaker!ToState', halted_at')
  BY <1>1 DEF HaltDated, Breaker!New
<1>4. ks_tripped' = killed'
  BY <1>2, AgreesParts DEF AuditInv, kill
<1>5. QED
  BY <1>1, <1>2, <1>3, <1>4, NewAgrees, AgreesParts, AgreesFromParts DEF AuditInv

LEMMA ClearWindowAgrees ==
  ASSUME AuditInv, ClearWindow
  PROVE  GatesAgree'
<1>1. history' = Window!New /\ since_reset' = <<>>
  BY DEF ClearWindow, ResetWindow, Window!Reset, Window!FromState
<1>2. UNCHANGED <<kill, breaker, killed, since_clear, halted_at>>
  BY DEF ClearWindow, ResetWindow
<1>3. ks_tripped' = killed'
  BY <1>2, AgreesParts DEF AuditInv, kill
<1>4. QED
  BY <1>1, <1>2, <1>3, NewAgrees, AgreesParts, BreakerKept, AgreesFromParts DEF AuditInv

(* A restart restores gates and records of the same moment.                *)
LEMMA RecoverAgrees ==
  ASSUME AuditInv, Recover
  PROVE  GatesAgree'
<1>1. /\ Restart
      /\ since_clear' = archive.since_clear /\ since_reset' = archive.since_reset
      /\ halted_at' = archive.halted_at /\ killed' = archive.killed
  BY DEF Recover, LogsFrom
<1>2. CASE saved = None
  <2>1. archive = NewLogs
    BY <1>2 DEF AuditInv, SnapshotAgrees
  <2>2. /\ ks_tripped' = FALSE /\ Breaker!ToState' = Breaker!New
        /\ history' = Window!New
    BY <1>1, <1>2
       DEF Restart, Kill!FromState, Kill!New, Breaker!FromState, Breaker!New,
           Breaker!ToState, Window!FromState
  <2>3. /\ since_clear' = <<>> /\ since_reset' = <<>> /\ killed' = FALSE
    BY <1>1, <2>1 DEF NewLogs
  <2>4. HaltDated(Breaker!ToState', halted_at')
    BY <2>2 DEF HaltDated, Breaker!New
  <2>5. QED
    BY <2>2, <2>3, <2>4, NewAgrees, AgreesFromParts
<1>3. CASE saved # None
  <2>1. Agrees(saved.kill_switch, saved.timed_breaker, saved.consecutive_loss_gate,
               archive)
    BY <1>3 DEF AuditInv, SnapshotAgrees
  <2>2. saved.timed_breaker \in Breaker!States
    BY <1>3 DEF AuditInv, AuditTypeOK, TypeOK, Snapshots
  <2>3. /\ ks_tripped' = saved.kill_switch.tripped
        /\ loss_streak' = saved.timed_breaker.loss_streak
        /\ cb_tripped' = saved.timed_breaker.tripped
        /\ cb_tripped_at' = saved.timed_breaker.tripped_at
        /\ history' = saved.consecutive_loss_gate
    BY <1>1, <1>3 DEF Restart, Kill!FromState, Breaker!FromState, Window!FromState
  <2>4. Breaker!ToState' = saved.timed_breaker
    BY <2>2, <2>3 DEF Breaker!ToState, Breaker!States
  <2>5. QED
    BY <1>1, <2>1, <2>3, <2>4, AgreesFromParts DEF Agrees
<1>4. QED
  BY <1>2, <1>3

LEMMA QuietAgrees ==
  ASSUME AuditInv, UNCHANGED <<kill, breaker, history, logs>>
  PROVE  GatesAgree'
<1>1. /\ ks_tripped' = killed' /\ history' = history
      /\ UNCHANGED <<since_clear, since_reset, halted_at, breaker>>
  BY AgreesParts DEF AuditInv, kill, logs
<1>2. QED
  BY <1>1, AgreesParts, BreakerKept, AgreesFromParts DEF AuditInv

LEMMA GatesStep == AuditInv /\ [AuditNext]_auditVars => GatesAgree'
<1> SUFFICES ASSUME AuditInv, [AuditNext]_auditVars PROVE GatesAgree'
  OBVIOUS
<1>1. CASE \E now \in Datetimes : Judge(now)
  BY <1>1, JudgeAgrees
<1>2. CASE \E pnl \in Pnls, at \in Datetimes : Settle(pnl, at)
  BY <1>2, SettleAgrees
<1>3. CASE \E at \in Datetimes : Pull(at)
  BY <1>3, PullAgrees
<1>4. CASE Release
  BY <1>4, ReleaseAgrees
<1>5. CASE ClearBreaker
  BY <1>5, ClearBreakerAgrees
<1>6. CASE ClearWindow
  BY <1>6, ClearWindowAgrees
<1>7. CASE Persist
  BY <1>7, QuietAgrees DEF Persist, SnapshotState
<1>8. CASE Recover
  BY <1>8, RecoverAgrees
<1>9. CASE Wait
  BY <1>9, QuietAgrees DEF Wait, Tick
<1>10. CASE UNCHANGED auditVars
  BY <1>10, QuietAgrees DEF auditVars, vars
<1>11. QED
  BY <1>1, <1>2, <1>3, <1>4, <1>5, <1>6, <1>7, <1>8, <1>9, <1>10
     DEF AuditNext, NotSettle

LEMMA SnapshotStep == AuditInv /\ [AuditNext]_auditVars => SnapshotAgrees'
<1> SUFFICES ASSUME AuditInv, [AuditNext]_auditVars PROVE SnapshotAgrees'
  OBVIOUS
<1>1. CASE Persist
  <2>1. saved' = [kill_switch |-> Kill!ToState, timed_breaker |-> Breaker!ToState,
                  consecutive_loss_gate |-> history]
    BY <1>1 DEF Persist, SnapshotState, Window!ToState
  <2>2. saved' # None
    BY <2>1, SnapshotAssumption DEF AuditInv, AuditTypeOK, TypeOK, Snapshots
  <2>3. archive' = Logs
    BY <1>1 DEF Persist
  <2>4. QED
    BY <2>1, <2>2, <2>3 DEF AuditInv, GatesAgree, SnapshotAgrees
<1>2. CASE UNCHANGED <<saved, archive>>
  BY <1>2 DEF AuditInv, SnapshotAgrees
<1>3. Persist \/ UNCHANGED <<saved, archive>>
  BY DEF AuditNext, NotSettle, Judge, EvaluateWithState, Settle,
         RecordResolvedTrade, Pull, TripKillSwitch, Release, ResetKillSwitch,
         ClearBreaker, ResetBreaker, ClearWindow, ResetWindow, Recover, Restart,
         Wait, Tick, auditVars, vars
<1>4. QED
  BY <1>1, <1>2, <1>3

LEMMA AuditInvariant == AuditSpec => []AuditInv
<1>1. AuditInit => AuditInv
  BY AuditInitially
<1>2. AuditInv /\ [AuditNext]_auditVars => AuditInv'
  BY AuditTypeStep, GatesStep, SnapshotStep DEF AuditInv
<1>3. QED
  BY <1>1, <1>2, PTL DEF AuditSpec

-----------------------------------------------------------------------------

(* Through every interleaving of trades, evaluations, resets, crashes and  *)
(* restores, the breaker is tripped exactly when Threshold losses in a row *)
(* were settled since it was last cleared.                                 *)
THEOREM BreakerCorrect == AuditSpec => []BreakerMatchesLog
<1>1. AuditInv => BreakerMatchesLog
  BY AgreesParts DEF AuditInv, BreakerMatchesLog
<1>2. QED
  BY <1>1, AuditInvariant, PTL

(* The loss window always holds the most recent outcomes.                  *)
THEOREM WindowCorrect == AuditSpec => []WindowMatchesLog
<1>1. AuditInv => WindowMatchesLog
  BY AgreesParts DEF AuditInv, WindowMatchesLog
<1>2. QED
  BY <1>1, AuditInvariant, PTL

(* Every snapshot on disk can be restored, and restores the gates as they  *)
(* were when it was taken.                                                 *)
THEOREM SnapshotCorrect == AuditSpec => []SnapshotRestorable
<1>1. AuditInv => SnapshotRestorable
  <2>1. SUFFICES ASSUME AuditInv, saved # None
                 PROVE  /\ Restorable(saved)
                        /\ Agrees(saved.kill_switch, saved.timed_breaker,
                                  saved.consecutive_loss_gate, archive)
    BY DEF SnapshotRestorable, Agrees
  <2>2. /\ saved.timed_breaker \in Breaker!States
        /\ saved.consecutive_loss_gate \in Window!States
    BY <2>1 DEF AuditInv, AuditTypeOK, TypeOK, Snapshots
  <2>3. Restorable(saved)
    BY <2>2 DEF Restorable, Breaker!States, Breaker!ValidState, Window!States
  <2>4. QED
    BY <2>1, <2>3 DEF AuditInv, SnapshotAgrees
<1>2. QED
  BY <1>1, AuditInvariant, PTL

(* No evaluation shortens a halt: the breaker clears itself no earlier     *)
(* than Cooldown after the trip, less the lag of the callers' datetimes.   *)
THEOREM CooldownCorrect == AuditSpec => HaltLastsCooldown
<1>1. ASSUME AuditInv, NEW now \in Datetimes, Judge(now), cb_tripped, ~cb_tripped'
      PROVE  clock >= halted_at + Cooldown - MaxLag
  <2>1. Breaker!Expired(now)
    BY <1>1 DEF Judge, EvaluateWithState, AskBreaker, Breaker!Check,
                Breaker!breaker, breaker
  <2>2. /\ now # None /\ cb_tripped_at # None
        /\ now.t - cb_tripped_at.t >= Cooldown
    BY <2>1 DEF Breaker!Expired, Breaker!Dated
  <2>3. /\ halted_at \in Instants /\ cb_tripped_at \in Stamps
        /\ cb_tripped_at.t >= halted_at - MaxLag
    BY <1>1, <2>2, SameValues, AgreesParts
       DEF AuditInv, AuditTypeOK, TypeOK, HaltDated, Breaker!ToState, Breaker!States
  <2>4. now \in Stamps /\ now.t <= clock
    BY <2>2 DEF Datetimes
  <2>5. clock \in Instants
    BY <1>1 DEF AuditInv, AuditTypeOK, TypeOK
  <2>6. QED
    BY <2>2, <2>3, <2>4, <2>5, BreakerAssumption, HostAssumption,
       MaxTimeAssumption DEF Stamps, Instants
<1>2. AuditInv /\ [AuditNext]_auditVars =>
        [\A now \in Datetimes :
           Judge(now) /\ cb_tripped /\ ~cb_tripped' =>
             clock >= halted_at + Cooldown - MaxLag]_auditVars
  BY <1>1
<1>3. QED
  BY <1>2, AuditInvariant, PTL DEF AuditSpec, HaltLastsCooldown

-----------------------------------------------------------------------------

(* A full window counts the losses among the last WindowTrades outcomes.   *)
LEMMA LossesAgree ==
  ASSUME NEW trades \in Window!States, NEW log \in Seq(BOOLEAN),
         "window" \in Gates, WindowAgrees(trades, log), Len(log) >= WindowTrades
  PROVE  Len(trades) = WindowTrades /\ Window!Losses(trades) = RecentLosses(log)
<1> DEFINE S == {i \in DOMAIN trades : trades[i]}
           T == {i \in DOMAIN log : Len(log) - i < WindowTrades /\ log[i]}
           shift == Len(log) - WindowTrades
           f == [i \in S |-> shift + i]
<1>1. /\ WindowTrades \in Nat \ {0} /\ Len(log) \in Nat
      /\ trades \in Seq(BOOLEAN) /\ shift \in Nat
  BY WindowAssumption DEF Window!States
<1> HIDE DEF S, T, f
<1>2. /\ Len(trades) = WindowTrades
      /\ \A i \in 1 .. WindowTrades : trades[i] = log[shift + i]
  <2>1. /\ Len(trades) = IF Len(log) < WindowTrades THEN Len(log) ELSE WindowTrades
        /\ \A i \in 1 .. Len(trades) : trades[i] = log[Len(log) - Len(trades) + i]
    BY DEF WindowAgrees
  <2>2. Len(trades) = WindowTrades
    <3> HIDE DEF shift
    <3> QED BY <1>1, <2>1
  <2>3. \A i \in 1 .. Len(trades) : trades[i] = log[Len(log) - WindowTrades + i]
    BY ONLY <2>1, <2>2
  <2> QED BY ONLY <2>2, <2>3 DEF shift
<1>3. DOMAIN trades = 1 .. WindowTrades /\ DOMAIN log = 1 .. Len(log)
  BY <1>1, <1>2
<1>4. IsFiniteSet(S)
  <2>1. IsFiniteSet(1 .. WindowTrades)
    BY <1>1, FS_Interval
  <2>2. S \subseteq 1 .. WindowTrades
    BY <1>3 DEF S
  <2>3. QED
    BY <2>1, <2>2, FS_Subset
<1>5. f \in Injection(S, T)
  <2>1. \A i \in S : shift + i \in T
    BY <1>1, <1>2, <1>3 DEF S, T
  <2>2. f \in [S -> T]
    BY <2>1 DEF f
  <2>3. \A i, j \in S : f[i] = f[j] => i = j
    BY <1>1, <1>3 DEF S, f
  <2>4. QED
    BY <2>2, <2>3 DEF Injection, IsInjective
<1>6. f \in Surjection(S, T)
  <2>1. f \in [S -> T] /\ \A i \in S : f[i] = shift + i
    BY <1>5 DEF f, Injection
  <2>2. ASSUME NEW j \in T
        PROVE  \E i \in S : f[i] = j
    <3>1. j - shift \in 1 .. WindowTrades /\ shift + (j - shift) = j
      BY <1>1, <1>3 DEF T
    <3>2. j - shift \in S
      BY <1>2, <1>3, <3>1 DEF S, T
    <3>3. QED
      BY <2>1, <3>1, <3>2
  <2>3. QED
    BY <2>1, <2>2 DEF Surjection
<1>7. ExistsBijection(S, T)
  BY <1>5, <1>6 DEF ExistsBijection, Bijection
<1>8. Cardinality(T) = Cardinality(S)
  BY <1>4, <1>7, FS_Bijection
<1>9. QED
  BY <1>2, <1>8, SameCardinality DEF Window!Losses, RecentLosses, S, T

(* An evaluation that approves a trade finds every gate clear.             *)
LEMMA ApprovalClear ==
  ASSUME TypeOK, NEW now, EvaluateWithState(now), result' = OK
  PROVE  ~Stopped(now) /\ EvaluateStateless /\ AskBreaker(now)
<1>1. loss_streak \in Nat /\ history \in Seq(BOOLEAN)
  BY DEF TypeOK, Breaker!ToState, Breaker!States, Window!States
<1>2. Kill!Reason # OK /\ Breaker!Reason(now) # OK /\ Window!Reason # OK
  BY DEF Kill!Reason, Breaker!Reason, Breaker!MixedZones, Window!Reason, OK
<1>3. QED
  BY <1>2 DEF EvaluateWithState, Reject

ApprovalInv == AuditInv /\ ApprovedMeansClear

LEMMA ApprovalStep == ApprovalInv /\ [AuditNext]_auditVars => ApprovedMeansClear'
<1> SUFFICES ASSUME ApprovalInv, [AuditNext]_auditVars, result' = OK,
                    ~UNCHANGED auditVars
             PROVE  ApprovedMeansClear'
  <2>1. CASE UNCHANGED auditVars
    BY <2>1 DEF ApprovalInv, ApprovedMeansClear, auditVars, vars, outputs, logs,
                HasLossRun, RecentLosses
  <2>2. QED
    BY <2>1 DEF ApprovedMeansClear
<1>1. OK # None
  BY NoneAssumption DEF OK, Reasons, Codes
<1>2. PICK now \in Datetimes : Judge(now)
  BY <1>1 DEF AuditNext, NotSettle, Settle, RecordResolvedTrade, Pull, TripKillSwitch,
         Release, ResetKillSwitch, ClearBreaker, ResetBreaker, ClearWindow,
         ResetWindow, Persist, SnapshotState, Recover, Restart, Wait, Tick, NoOutputs
<1>3. /\ AuditInv /\ TypeOK /\ GatesAgree' /\ cb_tripped \in BOOLEAN
  BY GatesStep DEF ApprovalInv, AuditInv, AuditTypeOK, TypeOK, Breaker!ToState,
                   Breaker!States
<1>4. ~Stopped(now) /\ EvaluateStateless /\ AskBreaker(now)
  BY <1>2, <1>3, ApprovalClear DEF Judge
<1>5. "kill" \in Gates => ~killed'
  <2>1. "kill" \in Gates => ~ks_tripped'
    BY <1>4 DEF Stopped, KillStops, Kill!Blocks, EvaluateStateless, kill
  <2>2. QED
    BY <1>3, <2>1 DEF GatesAgree, Agrees, Kill!ToState, Logs
<1>6. "breaker" \in Gates => ~HasLossRun(since_clear')
  <2>1. "breaker" \in Gates => ~cb_tripped'
    BY <1>3, <1>4
       DEF Stopped, BreakerStops, BreakerAsked, AskBreaker, Breaker!Blocks,
           Breaker!Check, Breaker!FromState, Breaker!New, Breaker!breaker
  <2>2. QED
    BY <1>3, <2>1 DEF GatesAgree, Agrees, BreakerAgrees, Breaker!ToState, Logs
<1>7. ASSUME "window" \in Gates, Len(since_reset') >= WindowTrades
      PROVE  RecentLosses(since_reset') <= MaxLosses
  <2>1. since_reset' = since_reset
    BY <1>2 DEF Judge
  <2>2. /\ history \in Window!States /\ since_reset \in Seq(BOOLEAN)
        /\ WindowAgrees(history, since_reset)
    BY <1>3, AgreesParts DEF AuditInv, AuditTypeOK, TypeOK
  <2>3. /\ Len(history) = WindowTrades
        /\ Window!Losses(history) = RecentLosses(since_reset)
    BY <1>7, <2>1, <2>2, LossesAgree
  <2>4. ~Window!Blocks
    BY <1>4, <1>7 DEF Stopped, WindowStops
  <2>5. Window!Losses(history) \in Nat /\ MaxLosses \in Nat /\ WindowTrades \in Nat
    BY <2>2, LossesType, WindowAssumption DEF Window!States
  <2>6. QED
    BY <2>1, <2>3, <2>4, <2>5 DEF Window!Blocks, Window!TooManyLosses
<1>8. QED
  BY <1>5, <1>6, <1>7 DEF ApprovedMeansClear, HasLossRun, RecentLosses

(* A trade is approved only when no desk-level halt is in force by the     *)
(* records of what was settled, pulled and reset.                          *)
THEOREM ApprovalCorrect == AuditSpec => []ApprovedMeansClear
<1>1. AuditInit => ApprovedMeansClear
  BY NoneAssumption DEF AuditInit, Init, ApprovedMeansClear, OK, Reasons, Codes
<1>2. AuditInv /\ ApprovedMeansClear /\ [AuditNext]_auditVars => ApprovedMeansClear'
  BY ApprovalStep DEF ApprovalInv
<1>3. QED
  BY <1>1, <1>2, AuditInvariant, PTL DEF AuditSpec

(* The types of the records.                                               *)
THEOREM AuditTypeCorrect == AuditSpec => []AuditTypeOK
<1>1. AuditInv => AuditTypeOK
  BY DEF AuditInv
<1>2. QED
  BY <1>1, AuditInvariant, PTL

-----------------------------------------------------------------------------

(* The reason that is remembered has been announced in the life of this    *)
(* process: a restart forgets both.                                        *)
RememberedHeard ==
  HasCallback /\ last_trip_reason # None => last_trip_reason \in alerted

LEMMA RejectAnnounces ==
  ASSUME RememberedHeard, Heard, NEW reason \in Reasons, Reject(reason)
  PROVE  RememberedHeard' /\ HaltAnnounced'
<1>1. reason # None
  BY NoneAssumption
<1>2. CASE HasCallback /\ reason # last_trip_reason
  <2>1. alert' = reason /\ last_trip_reason' = reason /\ result' = reason
    BY <1>2 DEF Reject, MaybeFireTrip
  <2>2. reason \in alerted'
    BY <1>1, <2>1 DEF Heard
  <2>3. QED
    BY <2>1, <2>2 DEF RememberedHeard, HaltAnnounced
<1>3. CASE ~HasCallback
  BY <1>3 DEF RememberedHeard, HaltAnnounced
<1>4. CASE HasCallback /\ reason = last_trip_reason
  <2>1. last_trip_reason' = reason /\ result' = reason
    BY <1>4 DEF Reject, MaybeFireTrip
  <2>2. reason \in alerted'
    BY <1>1, <1>4 DEF RememberedHeard, Heard
  <2>3. QED
    BY <2>1, <2>2 DEF RememberedHeard, HaltAnnounced
<1>5. QED
  BY <1>2, <1>3, <1>4

LEMMA JudgeAnnounces ==
  ASSUME TypeOK, RememberedHeard, NEW now \in Datetimes, Judge(now)
  PROVE  RememberedHeard' /\ HaltAnnounced'
<1>1. Heard /\ EvaluateWithState(now)
  BY DEF Judge
<1>2. /\ Kill!Reason \in Reasons /\ Breaker!Reason(now) \in Reasons
      /\ Window!Reason \in Reasons
  <2>1. loss_streak \in Nat /\ history \in Seq(BOOLEAN)
    BY DEF TypeOK, Breaker!ToState, Breaker!States, Window!States
  <2>2. QED
    BY <2>1, KillReasonType, BreakerReasonType, WindowReasonType
<1>3. CASE EvaluateStateless
  <2>1. /\ result' \in {OK} \cup (StatelessCodes \X {0})
        /\ alerted' = alerted /\ last_trip_reason' = last_trip_reason
    BY <1>1, <1>3 DEF EvaluateStateless, Heard
  <2>2. QED
    BY <2>1 DEF RememberedHeard, HaltAnnounced
<1>4. ASSUME NEW reason \in Reasons, Reject(reason)
      PROVE  RememberedHeard' /\ HaltAnnounced'
  BY <1>1, <1>4, RejectAnnounces
<1>5. QED
  BY <1>1, <1>2, <1>3, <1>4 DEF EvaluateWithState

LEMMA AnnouncedStep ==
  TypeOK /\ RememberedHeard /\ HaltAnnounced /\ [AuditNext]_auditVars
    => RememberedHeard' /\ HaltAnnounced'
<1> SUFFICES ASSUME TypeOK, RememberedHeard, HaltAnnounced, [AuditNext]_auditVars
             PROVE  RememberedHeard' /\ HaltAnnounced'
  OBVIOUS
<1>1. CASE UNCHANGED auditVars
  BY <1>1 DEF RememberedHeard, HaltAnnounced, auditVars, vars, outputs
<1>2. ASSUME NoOutputs,
             \/ UNCHANGED <<last_trip_reason, alerted>>
             \/ last_trip_reason' = None
      PROVE  RememberedHeard' /\ HaltAnnounced'
  BY <1>2 DEF RememberedHeard, HaltAnnounced, NoOutputs
<1>3. ASSUME AuditNext, \A now \in Datetimes : ~Judge(now)
      PROVE  /\ NoOutputs
             /\ \/ UNCHANGED <<last_trip_reason, alerted>>
                \/ last_trip_reason' = None
  BY <1>3 DEF AuditNext, NotSettle, Settle, RecordResolvedTrade, Pull,
         TripKillSwitch, Release, ResetKillSwitch, ClearBreaker, ResetBreaker,
         ClearWindow, ResetWindow, Persist, SnapshotState, Recover, Restart,
         Wait, Tick
<1>4. QED
  BY <1>1, <1>2, <1>3, JudgeAnnounces

(* Every halt that a trade meets has been announced, for every set of      *)
(* gates and whatever the callback does to the kill switch.                *)
THEOREM AlertCorrect == AuditSpec => []HaltAnnounced
<1>1. AuditInit => RememberedHeard /\ HaltAnnounced
  BY DEF AuditInit, Init, RememberedHeard, HaltAnnounced
<1>2. AuditInv => TypeOK
  BY DEF AuditInv, AuditTypeOK
<1>3. QED
  BY <1>1, <1>2, AnnouncedStep, AuditInvariant, PTL DEF AuditSpec
=============================================================================
