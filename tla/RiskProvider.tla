---------------------------- MODULE RiskProvider ----------------------------
(***************************************************************************)
(* RiskProvider (provider.py) in front of a RiskAuthority.  A request is   *)
(* validated when it is built; evaluate() asks the authority, runs the     *)
(* pure gates once more for a report, and builds a receipt.  The authority *)
(* ends in the chain of StatelessGates, so the verdict that RiskAuthority  *)
(* leaves open is decided here.                                            *)
(***************************************************************************)
EXTENDS RiskAuthority

CONSTANTS
  Nan,      \* a float that is NaN or infinite
  Invalid,  \* a value of the wrong type, or a blank identifier
  Huge,     \* an int that float() cannot represent
  min_expected_value, max_daily_drawdown_pct, max_correlated_exposure,
  consecutive_loss_limit, consecutive_loss_window, MayBeSlow,
  Drafts    \* the arguments callers build requests from

Chain == INSTANCE StatelessGates

(* What RiskProviderRequest takes, in the order in which it is checked.    *)
Fields ==
  << "run_id", "target_family", "daily_realized_pnl", "equity",
     "proposed_cost", "expected_value", "open_positions", "trade_outcomes",
     "current_time", "advisory" >>

Numbers == {"daily_realized_pnl", "equity", "proposed_cost", "expected_value"}

VARIABLE answer  \* what evaluate() just did, None after any other step

providerVars == <<vars, answer>>

ProviderInit == Init /\ answer = None

-----------------------------------------------------------------------------

\* Fault: a number is checked for its type only.
AcceptsNan(field, value) == value \notin {Invalid, Huge}

(* Of positions and outcomes only the type is looked at: both are mutable, *)
(* and may hold a NaN although neither can be built with one.              *)
Accepts(field, value) ==
  value \notin {Invalid, Huge} /\ (field \in Numbers => value # Nan)

Malformed(draft) == {i \in DOMAIN Fields : ~Accepts(Fields[i], draft[Fields[i]])}

(* The arguments are the fields of the dataclass.                          *)
ASSUME DraftsHaveFields ==
  \A draft \in Drafts : DOMAIN draft = {Fields[i] : i \in DOMAIN Fields}

(* __post_init__ raises at the first field it does not accept: a           *)
(* RiskProviderError with its name, or what float() raises.                *)
Refuse(draft) ==
  /\ \E i \in Malformed(draft) :
       /\ \A j \in Malformed(draft) : i <= j
       /\ answer' = [kind |-> "refused",
                     error |-> IF draft[Fields[i]] = Huge THEN "OverflowError"
                               ELSE Fields[i]]
  /\ NoOutputs
  /\ UNCHANGED <<kill, breaker, history, last_trip_reason, clock, saved>>

-----------------------------------------------------------------------------

ChainRequest(draft) ==
  [daily_realized_pnl |-> draft.daily_realized_pnl, equity |-> draft.equity,
   target_family |-> draft.target_family, proposed_cost |-> draft.proposed_cost,
   open_positions |-> draft.open_positions,
   expected_value |-> draft.expected_value,
   trade_outcomes |-> draft.trade_outcomes,
   current_time |-> draft.current_time, cluster_cap_ctx |-> None]

(* _gate_report: the four pure gates, each with a decision of its own.     *)
GateReport(draft) == SubSeq(Chain!Verdicts(ChainRequest(draft)), 1, 4)

(* build_risk_receipt: it refuses an advisory with a reserved key, and     *)
(* json.dumps one whose keys cannot be sorted.                             *)
HasReceipt(draft) == draft.advisory \notin {"secret", "unsortable"}

(* An answer without a receipt is lost: evaluate() raises instead.         *)
Answer(draft, reason) ==
  [kind |-> IF HasReceipt(draft) THEN "result" ELSE "raised",
   request |-> draft, reason |-> reason, gate_outcomes |-> GateReport(draft)]

(* evaluate(): the authority has been asked, and its gates and on_trip     *)
(* have done their part, when the report and the receipt are made.         *)
Evaluate(draft) ==
  /\ Malformed(draft) = {}
  /\ EvaluateWithState(draft.current_time)
  /\ \/ Stopped(draft.current_time) /\ answer' = Answer(draft, result')
     \/ /\ ~Stopped(draft.current_time)
        /\ \E reason \in Chain!Answers(ChainRequest(draft)) \X {0} :
             (result' = OK <=> reason = OK) /\ answer' = Answer(draft, reason)

ProviderNext ==
  \/ \E draft \in Drafts : Refuse(draft)
  \/ \E draft \in Drafts : Evaluate(draft)
  \/ Next /\ answer' = None

ProviderSpec == ProviderInit /\ [][ProviderNext]_providerVars

-----------------------------------------------------------------------------

Answered == answer # None /\ answer.kind # "refused"

(* A desk-level halt in force.                                             *)
Halted ==
  \/ "kill" \in Gates /\ ks_tripped
  \/ "breaker" \in Gates /\ cb_tripped
  \/ "window" \in Gates /\ Window!Blocks

HaltCodes ==
  {"ERR_KILL_SWITCH_MANUAL", "ERR_TIMED_CIRCUIT_BREAKER",
   "ERR_INVALID_TIMEZONE_MIXED", "ERR_CONSECUTIVE_LOSS_GATE"}

(* The report of the pure gates, which is made after and apart from the    *)
(* decision, accounts for it.  During a desk-level halt, which the report  *)
(* leaves out, the decision is a halt's, whatever the gates say; otherwise *)
(* it is the first rejection in the report, and without one an approval or *)
(* a blown latency budget.                                                 *)
ReportExplains ==
  Answered =>
    LET report == answer.gate_outcomes
        reason == answer.reason[1]
    IN /\ Halted => reason \in HaltCodes
       /\ ~Halted =>
            \/ /\ reason \in {"OK", "ERR_LATENCY_BUDGET"}
               /\ \A i \in 1 .. 4 : report[i] = "OK"
            \/ \E i \in 1 .. 4 :
                 /\ reason = report[i] /\ reason # "OK"
                 /\ \A j \in 1 .. i - 1 : report[j] = "OK"

HeldNan(q) ==
  \E i \in Chain!Held(q.target_family, q.open_positions) :
    q.open_positions[i].cost_basis = Nan

OutcomeNan(q) ==
  \E i \in DOMAIN q.trade_outcomes : q.trade_outcomes[i].pnl = Nan

(* provider.py: "Invalid input is rejected at the boundary, not deep in a  *)
(* gate".  That holds of the numbers of a request: no gate has to refuse   *)
(* one, and none makes evaluate() raise.  What the boundary lets through,  *)
(* a NaN in a position or an outcome, is the only thing a gate refuses as  *)
(* malformed, and it is never part of what is approved.                    *)
FiguresAreChecked ==
  Answered =>
    LET q == answer.request
        reason == answer.reason[1]
        report == answer.gate_outcomes
    IN /\ reason # "ValueError"
       /\ report[1] # "ERR_INVALID_FLOAT_EXPECTED_VALUE"
       /\ report[2] # "ERR_INVALID_FLOAT_DRAWDOWN"
       /\ report[3] = "ERR_INVALID_FLOAT_CONSECUTIVE_LOSSES" => OutcomeNan(q)
       /\ report[4] = "ERR_INVALID_FLOAT_CONCENTRATION" => HeldNan(q)
       /\ reason = "OK" =>
            /\ ~HeldNan(q)
            /\ consecutive_loss_limit # 0 => ~OutcomeNan(q)

(* A request whose answer was lost with its receipt, evaluated again       *)
(* without the advisory, is decided as it was, up to the latency budget,   *)
(* and announced to nobody a second time: unless the callback of the lost  *)
(* evaluation pulled the kill switch.                                      *)
RetryIsSafe ==
  [][/\ answer # None /\ answer.kind = "raised"
     /\ answer' # None /\ answer'.kind = "result"
     /\ answer'.request = [answer.request EXCEPT !.advisory = None]
     /\ ks_tripped => answer.reason = Kill!Reason
     => /\ alert' = None
        /\ \/ answer'.reason = answer.reason
           \/ {answer'.reason, answer.reason} \subseteq
                {OK, <<"ERR_LATENCY_BUDGET", 0>>}]_providerVars
=============================================================================
