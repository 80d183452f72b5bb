------------------------- MODULE RiskAuthorityAudit -------------------------
(***************************************************************************)
(* RiskAuthority with the records an auditor would keep beside it, and the *)
(* properties that compare its decisions with those records.  No action of *)
(* RiskAuthority is restricted except by the bound MaxTrades.              *)
(***************************************************************************)
EXTENDS RiskAuthority

CONSTANT MaxTrades  \* bound on the length of the two logs

ASSUME MaxTradesAssumption == MaxTrades \in Nat

VARIABLES
  since_clear, \* outcomes settled since the breaker was last cleared
  since_reset, \* outcomes settled since the window was last reset
  halted_at,   \* wall clock when the breaker tripped, None when it is clear
  killed,      \* whether the kill switch was pulled and not reset since
  alerted,     \* reasons passed to on_trip in the life of this process
  archive      \* the records as they were when saved was taken

logs == <<since_clear, since_reset, halted_at, killed>>
auditVars == <<vars, logs, alerted, archive>>

NewLogs ==
  [since_clear |-> <<>>, since_reset |-> <<>>, halted_at |-> None,
   killed |-> FALSE]

Logs ==
  [since_clear |-> since_clear, since_reset |-> since_reset,
   halted_at |-> halted_at, killed |-> killed]

LogsFrom(a) ==
  /\ since_clear' = a.since_clear
  /\ since_reset' = a.since_reset
  /\ halted_at' = a.halted_at
  /\ killed' = a.killed

AuditInit ==
  /\ Init
  /\ since_clear = <<>> /\ since_reset = <<>>
  /\ halted_at = None
  /\ killed = FALSE
  /\ alerted = {}
  /\ archive = NewLogs

-----------------------------------------------------------------------------
(* What each step of the authority writes into the records.                *)

Heard == alerted' = alerted \cup (IF alert' = None THEN {} ELSE {alert'})

(* The callback can pull the kill switch, and the breaker can lapse.       *)
Judge(now) ==
  /\ EvaluateWithState(now)
  /\ killed' = (killed \/ ks_tripped')
  /\ IF cb_tripped /\ ~cb_tripped'
     THEN since_clear' = <<>> /\ halted_at' = None
     ELSE UNCHANGED <<since_clear, halted_at>>
  /\ Heard
  /\ UNCHANGED <<since_reset, archive>>

Settle(pnl, at) ==
  /\ Len(since_clear) < MaxTrades /\ Len(since_reset) < MaxTrades
  /\ RecordResolvedTrade(pnl, at)
  /\ IF IsFinite(pnl)
     THEN /\ since_clear' = Append(since_clear, IsLoss(pnl))
          /\ since_reset' = Append(since_reset, IsLoss(pnl))
     ELSE UNCHANGED <<since_clear, since_reset>>
  /\ halted_at' = IF cb_tripped' /\ ~cb_tripped THEN clock ELSE halted_at
  /\ UNCHANGED <<killed, alerted, archive>>

Pull(at) ==
  /\ TripKillSwitch(at)
  /\ killed' = TRUE
  /\ UNCHANGED <<since_clear, since_reset, halted_at, alerted, archive>>

Release ==
  /\ ResetKillSwitch
  /\ killed' = FALSE
  /\ UNCHANGED <<since_clear, since_reset, halted_at, alerted, archive>>

ClearBreaker ==
  /\ ResetBreaker
  /\ since_clear' = <<>> /\ halted_at' = None
  /\ UNCHANGED <<since_reset, killed, alerted, archive>>

ClearWindow ==
  /\ ResetWindow
  /\ since_reset' = <<>>
  /\ UNCHANGED <<since_clear, halted_at, killed, alerted, archive>>

Persist ==
  /\ SnapshotState
  /\ archive' = Logs
  /\ UNCHANGED <<logs, alerted>>

Recover ==
  /\ Restart
  /\ LogsFrom(archive)
  /\ alerted' = {}
  /\ UNCHANGED archive

Wait == Tick /\ UNCHANGED <<logs, alerted, archive>>

NotSettle ==
  \/ \E now \in Datetimes : Judge(now)
  \/ \E at \in Datetimes : Pull(at)
  \/ Release
  \/ ClearBreaker
  \/ ClearWindow
  \/ Persist
  \/ Recover
  \/ Wait

AuditNext ==
  NotSettle \/ \E pnl \in Pnls, at \in Datetimes : Settle(pnl, at)

AuditSpec == AuditInit /\ [][AuditNext]_auditVars

(* Time passes, and in each time zone mode that callers use the desk keeps *)
(* proposing trades dated with the wall clock.                             *)
AuditFairSpec ==
  /\ AuditSpec
  /\ WF_auditVars(Wait)
  /\ \A zone \in Zones : WF_auditVars(Judge([zone |-> zone, t |-> clock]))

-----------------------------------------------------------------------------

AuditTypeOK ==
  /\ TypeOK
  /\ since_clear \in Seq(BOOLEAN) /\ since_reset \in Seq(BOOLEAN)
  /\ halted_at \in Instants \cup {None}
  /\ killed \in BOOLEAN
  /\ alerted \subseteq Reasons
  /\ archive \in [since_clear : Seq(BOOLEAN), since_reset : Seq(BOOLEAN),
                  halted_at : Instants \cup {None}, killed : BOOLEAN]

(* The last k outcomes of a log are losses.                                *)
EndsInLosses(log, k) ==
  k <= Len(log) /\ \A i \in Len(log) - k + 1 .. Len(log) : log[i]

(* Somewhere in a log there are Threshold losses in a row.                 *)
HasLossRun(log) ==
  \E n \in Threshold .. Len(log) :
    \A i \in n - Threshold + 1 .. n : log[i]

(* A breaker is tripped exactly when there are Threshold losses in a row   *)
(* in its log, whatever followed them, and its streak is the length of the *)
(* run of losses that the log ends in, or the Threshold that tripped it.   *)
BreakerAgrees(b, log) ==
  "breaker" \in Gates =>
    /\ b.tripped <=> HasLossRun(log)
    /\ b.tripped => b.loss_streak = Threshold
    /\ ~b.tripped =>
         /\ EndsInLosses(log, b.loss_streak)
         /\ ~EndsInLosses(log, b.loss_streak + 1)

(* A window holds the most recent outcomes of its log, as many as fit.     *)
WindowAgrees(trades, log) ==
  "window" \in Gates =>
    /\ Len(trades) = IF Len(log) < WindowTrades THEN Len(log) ELSE WindowTrades
    /\ \A i \in 1 .. Len(trades) : trades[i] = log[Len(log) - Len(trades) + i]

(* The breaker agrees with the outcomes settled since it was last cleared: *)
(* record(), check(), reset() and a restore never lose or invent a loss,   *)
(* and a win after the trip does not lift the halt.                        *)
BreakerMatchesLog == BreakerAgrees(Breaker!ToState, since_clear)

(* The loss window agrees with the outcomes settled since it was reset:    *)
(* record() and its trim drop only the oldest.                             *)
WindowMatchesLog == WindowAgrees(history, since_reset)

(* Losses among the last WindowTrades outcomes of a log.                   *)
RecentLosses(log) ==
  Cardinality({i \in DOMAIN log : Len(log) - i < WindowTrades /\ log[i]})

(* evaluate_with_state approves a trade only when no desk-level halt is    *)
(* in force by the records: "a desk-level halt must override a locally     *)
(* attractive result".                                                     *)
ApprovedMeansClear ==
  result = OK =>
    /\ "kill" \in Gates => ~killed
    /\ "breaker" \in Gates => ~HasLossRun(since_clear)
    /\ "window" \in Gates /\ Len(since_reset) >= WindowTrades =>
         RecentLosses(since_reset) <= MaxLosses

(* No evaluation clears a tripped breaker before its cooldown has passed   *)
(* on the wall clock, up to the lag of the datetimes it is given: neither  *)
(* a late trade, nor a crash and a restore, nor an evaluation in another   *)
(* time zone mode shortens a halt.                                         *)
HaltLastsCooldown ==
  [][\A now \in Datetimes :
       Judge(now) /\ cb_tripped /\ ~cb_tripped' =>
         clock >= halted_at + Cooldown - MaxLag]_auditVars

(* Whenever a stateful gate rejects a trade, its reason has been passed to *)
(* on_trip in the life of this process.                                    *)
HaltAnnounced ==
  HasCallback /\ result \notin {None, OK} \cup (StatelessCodes \X {0}) =>
    result \in alerted

(* The snapshot on disk is always one that from_json accepts, and what a   *)
(* restart restores from it agrees with the records as they were when it   *)
(* was taken.                                                              *)
SnapshotRestorable ==
  saved # None =>
    /\ Restorable(saved)
    /\ saved.kill_switch.tripped = archive.killed
    /\ BreakerAgrees(saved.timed_breaker, archive.since_clear)
    /\ WindowAgrees(saved.consecutive_loss_gate, archive.since_reset)

(* A breaker that a dated loss tripped is cleared once its cooldown is     *)
(* over, provided that evaluations go on and no kill switch hides the      *)
(* breaker from them, or a restart puts an undated halt in its place.      *)
TradingResumes ==
  (cb_tripped /\ cb_tripped_at # None /\ halted_at + Cooldown <= MaxTime)
    ~> (~cb_tripped \/ ks_tripped \/ cb_tripped_at = None)
=============================================================================
