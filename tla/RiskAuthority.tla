--------------------------- MODULE RiskAuthority ---------------------------
(***************************************************************************)
(* RiskAuthority (engine.py) with its optional stateful gates: the kill    *)
(* switch, the cooldown breaker and the rolling loss window.  Each method  *)
(* is one action.  The host of the library is the environment: it passes   *)
(* datetimes that lag behind the wall clock or are left at None, persists  *)
(* snapshots, crashes, and restores the authority from the last snapshot.  *)
(*                                                                         *)
(* The stateless gates are a choice of verdict.  A decision is known by    *)
(* its reason code, since approved and reason_code are assigned together.  *)
(* A gate that is not in Gates keeps its New value, which stands for None. *)
(* An evaluation of a size that is not finite raises before it has asked a *)
(* gate, and so changes nothing: it is no action.                          *)
(***************************************************************************)
EXTENDS RiskValues

CONSTANTS
  Gates,         \* the stateful gates the authority is configured with
  Threshold,     \* consecutive_loss_threshold of the breaker
  Cooldown,      \* cooldown_hours of the breaker
  MaxLosses,     \* max_losses of the loss window
  WindowTrades,  \* window_trades of the loss window
  HasCallback,   \* whether on_trip was given
  MayOmit,       \* whether callers may leave a datetime at its default None
  MaxLag         \* how far the datetimes of callers lag behind the clock

ASSUME GatesAssumption == Gates \subseteq {"kill", "breaker", "window"}

(* What the constructors of the gates accept (a cooldown that is NaN or    *)
(* infinite, which they also accept, is left out).                         *)
ASSUME BreakerAssumption ==
  Threshold \in Nat \ {0} /\ Cooldown \in Nat \ {0}
ASSUME WindowAssumption ==
  /\ MaxLosses \in Nat \ {0} /\ WindowTrades \in Nat \ {0}
  /\ MaxLosses <= WindowTrades

ASSUME HostAssumption ==
  HasCallback \in BOOLEAN /\ MayOmit \in BOOLEAN /\ MaxLag \in Nat

VARIABLES
  ks_tripped, ks_tripped_at,              \* kill_switch
  loss_streak, cb_tripped, cb_tripped_at, \* timed_breaker
  history,                                \* consecutive_loss_gate
  last_trip_reason,
  result,  \* reason code the last evaluate_with_state returned, else None
  alert,   \* reason code the last step passed to on_trip, else None
  clock,   \* the wall clock of the host
  saved    \* the snapshot the host persisted last, else None

kill == <<ks_tripped, ks_tripped_at>>
breaker == <<loss_streak, cb_tripped, cb_tripped_at>>
outputs == <<result, alert>>
vars == <<kill, breaker, history, last_trip_reason, outputs, clock, saved>>

Kill == INSTANCE KillSwitch
          WITH tripped <- ks_tripped, tripped_at <- ks_tripped_at
Breaker == INSTANCE TimedCircuitBreaker
             WITH tripped <- cb_tripped, tripped_at <- cb_tripped_at
Window == INSTANCE ConsecutiveLossGate

(* The datetimes a caller may pass at this moment.                         *)
Datetimes ==
  {s \in Stamps : clock - MaxLag <= s.t /\ s.t <= clock}
    \cup (IF MayOmit THEN {None} ELSE {})

NoOutputs == result' = None /\ alert' = None

Init ==
  /\ Kill!Init /\ Breaker!Init /\ Window!Init
  /\ last_trip_reason = None
  /\ result = None /\ alert = None
  /\ clock = 0
  /\ saved = None

-----------------------------------------------------------------------------
(* evaluate_with_state: kill switch, breaker, window, then the stateless   *)
(* chain.  The first gate that stops the trade returns at once.            *)

KillStops == "kill" \in Gates /\ Kill!Blocks

BreakerAsked == "breaker" \in Gates /\ ~KillStops

BreakerStops(now) == BreakerAsked /\ Breaker!Blocks(now)

\* Fault: the window is looked at only when there is no breaker.
WindowWithoutBreaker(now) ==
  "window" \in Gates /\ ~KillStops /\ ~BreakerAsked /\ Window!Blocks

WindowStops(now) ==
  "window" \in Gates /\ ~KillStops /\ ~BreakerStops(now) /\ Window!Blocks

Stopped(now) == KillStops \/ BreakerStops(now) \/ WindowStops(now)

\* Fault: the breaker is asked before the kill switch.
AskBreakerFirst(now) ==
  \/ "breaker" \in Gates /\ Breaker!Check(now)
  \/ "breaker" \notin Gates /\ UNCHANGED breaker

(* The breaker may clear itself while it is asked, even when the window    *)
(* then stops the trade; behind a tripped kill switch it is never asked.   *)
AskBreaker(now) ==
  \/ BreakerAsked /\ Breaker!Check(now)
  \/ ~BreakerAsked /\ UNCHANGED breaker

(* on_trip: it may return (or raise, which is logged and dropped), or pull *)
(* the kill switch of the authority that called it.  Assumed of it is that *)
(* it does no more: that it leaves the decision it is handed as it is,     *)
(* resets no gate, settles no trade and asks for no evaluation.            *)
OnTrip ==
  \/ UNCHANGED kill
  \/ "kill" \in Gates /\ \E at \in Datetimes : Kill!Trip(at)

\* Fault: only the first reason is announced.
FireFirstTrip(reason) ==
  \/ /\ HasCallback /\ last_trip_reason = None
     /\ last_trip_reason' = reason
     /\ alert' = reason
     /\ OnTrip
  \/ /\ ~HasCallback \/ last_trip_reason # None
     /\ alert' = None
     /\ UNCHANGED <<kill, last_trip_reason>>

\* Fault: the reason is remembered after the call, unless that raises.
RememberAfterCall(reason) ==
  \/ /\ HasCallback /\ reason # last_trip_reason
     /\ last_trip_reason' \in {reason, last_trip_reason}
     /\ alert' = reason
     /\ OnTrip
  \/ /\ ~HasCallback \/ reason = last_trip_reason
     /\ alert' = None
     /\ UNCHANGED <<kill, last_trip_reason>>

(* _maybe_fire_trip: the reason is remembered before the call.             *)
MaybeFireTrip(reason) ==
  \/ /\ HasCallback /\ reason # last_trip_reason
     /\ last_trip_reason' = reason
     /\ alert' = reason
     /\ OnTrip
  \/ /\ ~HasCallback \/ reason = last_trip_reason
     /\ alert' = None
     /\ UNCHANGED <<kill, last_trip_reason>>

Reject(reason) == result' = reason /\ MaybeFireTrip(reason)

(* The pure gate chain as a verdict; a rejection stands also for the       *)
(* ValueError the chain raises when its own decision has a size that is    *)
(* not finite, the breaker having been asked by then.                      *)
EvaluateStateless ==
  /\ result' \in {OK} \cup (StatelessCodes \X {0})
  /\ alert' = None
  /\ UNCHANGED <<kill, last_trip_reason>>

EvaluateWithState(now) ==
  /\ AskBreaker(now)
  /\ \/ KillStops /\ Reject(Kill!Reason)
     \/ BreakerStops(now) /\ Reject(Breaker!Reason(now))
     \/ WindowStops(now) /\ Reject(Window!Reason)
     \/ ~Stopped(now) /\ EvaluateStateless
  /\ UNCHANGED <<history, clock, saved>>

-----------------------------------------------------------------------------

RecordResolvedTrade(pnl, at) ==
  /\ \/ "breaker" \in Gates /\ Breaker!Record(pnl, at)
     \/ "breaker" \notin Gates /\ UNCHANGED breaker
  /\ \/ "window" \in Gates /\ Window!Record(pnl)
     \/ "window" \notin Gates /\ UNCHANGED history
  /\ NoOutputs
  /\ UNCHANGED <<kill, last_trip_reason, clock, saved>>

(* The host works the gates directly through the attributes of the         *)
(* authority.                                                              *)
TripKillSwitch(at) ==
  /\ "kill" \in Gates /\ Kill!Trip(at)
  /\ NoOutputs
  /\ UNCHANGED <<breaker, history, last_trip_reason, clock, saved>>

ResetKillSwitch ==
  /\ "kill" \in Gates /\ Kill!Reset
  /\ NoOutputs
  /\ UNCHANGED <<breaker, history, last_trip_reason, clock, saved>>

ResetBreaker ==
  /\ "breaker" \in Gates /\ Breaker!Reset
  /\ NoOutputs
  /\ UNCHANGED <<kill, history, last_trip_reason, clock, saved>>

ResetWindow ==
  /\ "window" \in Gates /\ Window!Reset
  /\ NoOutputs
  /\ UNCHANGED <<kill, breaker, last_trip_reason, clock, saved>>

-----------------------------------------------------------------------------

Snapshots ==
  [kill_switch : Kill!States, timed_breaker : Breaker!States,
   consecutive_loss_gate : Window!States]

ASSUME SnapshotAssumption == None \notin Snapshots

(* What RiskState.from_json accepts of a snapshot.                         *)
Restorable(s) ==
  /\ Breaker!ValidState(s.timed_breaker)
  /\ Window!ValidState(s.consecutive_loss_gate)

(* snapshot_state, and the host writing to_json() to disk.                 *)
SnapshotState ==
  /\ saved' = [kill_switch |-> Kill!ToState, timed_breaker |-> Breaker!ToState,
               consecutive_loss_gate |-> Window!ToState]
  /\ NoOutputs
  /\ UNCHANGED <<kill, breaker, history, last_trip_reason, clock>>

(* The process crashes and a new one builds its authority: afresh, or with *)
(* RiskState.from_json and RiskAuthority.from_state.  The reason of the    *)
(* last alert is not part of a snapshot.                                   *)
Restart ==
  /\ \/ /\ saved = None
        /\ Kill!FromState(Kill!New)
        /\ Breaker!FromState(Breaker!New)
        /\ Window!FromState(Window!New)
     \/ /\ saved # None
        /\ Restorable(saved)
        /\ Kill!FromState(saved.kill_switch)
        /\ Breaker!FromState(saved.timed_breaker)
        /\ Window!FromState(saved.consecutive_loss_gate)
  /\ last_trip_reason' = None
  /\ NoOutputs
  /\ UNCHANGED <<clock, saved>>

Tick ==
  /\ clock < MaxTime
  /\ clock' = clock + 1
  /\ NoOutputs
  /\ UNCHANGED <<kill, breaker, history, last_trip_reason, saved>>

Next ==
  \/ \E now \in Datetimes : EvaluateWithState(now)
  \/ \E pnl \in Pnls, at \in Datetimes : RecordResolvedTrade(pnl, at)
  \/ \E at \in Datetimes : TripKillSwitch(at)
  \/ ResetKillSwitch
  \/ ResetBreaker
  \/ ResetWindow
  \/ SnapshotState
  \/ Restart
  \/ Tick

Spec == Init /\ [][Next]_vars

-----------------------------------------------------------------------------
(* Types of the authority's state, of what it returns, and of the snapshot *)
(* on disk.                                                                *)
TypeOK ==
  /\ Kill!ToState \in Kill!States
  /\ Breaker!ToState \in Breaker!States
  /\ history \in Window!States
  /\ last_trip_reason \in Reasons \cup {None}
  /\ result \in Reasons \cup {None}
  /\ alert \in Reasons \cup {None}
  /\ clock \in Instants
  /\ saved \in Snapshots \cup {None}
=============================================================================
