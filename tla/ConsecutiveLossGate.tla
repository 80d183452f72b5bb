------------------------ MODULE ConsecutiveLossGate ------------------------
(***************************************************************************)
(* The rolling loss window (gates.py, class ConsecutiveLossGate): the      *)
(* outcomes of the last window_trades settled trades, TRUE for a loss.     *)
(***************************************************************************)
EXTENDS RiskValues

CONSTANTS
  MaxLosses,    \* max_losses, at least 1
  WindowTrades  \* window_trades, at least max_losses

VARIABLE history

New == <<>>

ToState == history

FromState(s) == history' = s

(* What ConsecutiveLossGateState.__post_init__ accepts.                    *)
ValidState(s) == Len(s) <= WindowTrades

States == {s \in Seq(BOOLEAN) : ValidState(s)}

Init == history = New

(* history[-window_trades:], which is the whole list when it is short.     *)
LastTrades(s) ==
  IF Len(s) > WindowTrades
  THEN SubSeq(s, Len(s) - WindowTrades + 1, Len(s))
  ELSE s

\* Fault: the trim keeps the oldest trades.
RecordTrimsNewest(pnl) ==
  \/ ~IsFinite(pnl) /\ UNCHANGED history
  \/ /\ IsFinite(pnl)
     /\ history' = SubSeq(Append(history, IsLoss(pnl)), 1,
                          IF Len(history) < WindowTrades THEN Len(history) + 1
                          ELSE WindowTrades)

\* Fault: the trim is forgotten.
RecordNoTrim(pnl) ==
  \/ ~IsFinite(pnl) /\ UNCHANGED history
  \/ IsFinite(pnl) /\ history' = Append(history, IsLoss(pnl))

(* record(): append, then trim to the window.                              *)
Record(pnl) ==
  \/ ~IsFinite(pnl) /\ UNCHANGED history
  \/ IsFinite(pnl) /\ history' = LastTrades(Append(history, IsLoss(pnl)))

Losses(s) == Cardinality({i \in DOMAIN s : s[i]})

\* Fault: a window that is just full does not count yet.
TooManyInLongerWindow(s) == Len(s) > WindowTrades /\ Losses(s) > MaxLosses

(* check() fails open until the window is full.                            *)
TooManyLosses(s) == Len(s) >= WindowTrades /\ Losses(s) > MaxLosses

Blocks == TooManyLosses(history)

Reason == <<"ERR_CONSECUTIVE_LOSS_GATE", Losses(history)>>

Reset == FromState(New)
=============================================================================
