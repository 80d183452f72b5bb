------------------------ MODULE RiskProvider_proofs ------------------------
(***************************************************************************)
(* What an answer of RiskProvider says about its request: that the report  *)
(* of the pure gates accounts for the decision, that no gate met a number  *)
(* the boundary should have refused, and that a request whose answer was   *)
(* lost may be evaluated again; and that an authority behind the provider  *)
(* still keeps the promises of DeskHalt.                                   *)
(***************************************************************************)
EXTENDS RiskProvider, RiskAuthorityHalts_proofs

(* The first reason of five verdicts, of which the last is an approval.    *)
LEMMA FirstReasonOfFour ==
  ASSUME NEW v, DOMAIN v = 1 .. 5, v[5] = "OK"
  PROVE  \/ /\ Chain!FirstReason(v) = "OK"
            /\ \A i \in 1 .. 4 : v[i] = "OK"
         \/ \E i \in 1 .. 4 :
              /\ Chain!FirstReason(v) = v[i] /\ v[i] # "OK"
              /\ \A j \in 1 .. i - 1 : v[j] = "OK"
<1>1. CASE \A i \in DOMAIN v : v[i] = "OK"
  <2>1. Chain!FirstReason(v) = "OK"
    BY <1>1 DEF Chain!FirstReason
  <2>2. \A i \in 1 .. 4 : v[i] = "OK"
    BY <1>1
  <2> QED BY <2>1, <2>2
<1>2. CASE ~(\A i \in DOMAIN v : v[i] = "OK")
  <2> DEFINE First(i) == v[i] # "OK" /\ \A j \in 1 .. i - 1 : v[j] = "OK"
  <2>1. \E i \in DOMAIN v : First(i)
    <3>1. CASE v[1] # "OK"
      BY <3>1
    <3>2. CASE v[1] = "OK" /\ v[2] # "OK"
      BY <3>2
    <3>3. CASE v[1] = "OK" /\ v[2] = "OK" /\ v[3] # "OK"
      BY <3>3
    <3>4. CASE v[1] = "OK" /\ v[2] = "OK" /\ v[3] = "OK" /\ v[4] # "OK"
      BY <3>4
    <3>5. CASE v[1] = "OK" /\ v[2] = "OK" /\ v[3] = "OK" /\ v[4] = "OK"
      BY <1>2, <3>5
    <3> QED BY <3>1, <3>2, <3>3, <3>4, <3>5
  <2>2. Chain!FirstReason(v) = v[CHOOSE i \in DOMAIN v : First(i)]
    BY <1>2 DEF Chain!FirstReason
  <2>3. PICK i \in DOMAIN v : Chain!FirstReason(v) = v[i] /\ First(i)
    <3> HIDE DEF First
    <3> QED BY <2>1, <2>2
  <2>4. i \in 1 .. 4
    BY <2>3
  <2> QED BY <2>3, <2>4
<1> QED BY <1>1, <1>2

(* The five verdicts of a request, and the report that is made of four.    *)
LEMMA ReportIsVerdicts ==
  ASSUME NEW draft
  PROVE  LET v == Chain!Verdicts(ChainRequest(draft))
         IN /\ DOMAIN v = 1 .. 5 /\ v[5] = "OK"
            /\ \A i \in 1 .. 4 : GateReport(draft)[i] = v[i]
<1>1. ChainRequest(draft).cluster_cap_ctx = None
  BY DEF ChainRequest
<1> DEFINE v == Chain!Verdicts(ChainRequest(draft))
<1>2. DOMAIN v = 1 .. 5
  BY DEF Chain!Verdicts
<1>3. v[5] = "OK"
  BY <1>1 DEF Chain!Verdicts
<1>4. v = << v[1], v[2], v[3], v[4], v[5] >>
  BY DEF Chain!Verdicts
<1>5. GateReport(draft) = SubSeq(v, 1, 4)
  BY DEF GateReport
<1> HIDE DEF v
<1>6. \A i \in 1 .. 4 : SubSeq(v, 1, 4)[i] = v[i]
  BY <1>4
<1>7. \A i \in 1 .. 4 : GateReport(draft)[i] = v[i]
  BY <1>5, <1>6
<1> QED BY <1>2, <1>3, <1>7 DEF v

(* What a request whose numbers are sound can be told.                     *)
LEMMA AcceptedAnswers ==
  ASSUME NEW draft, draft.proposed_cost # Nan,
         NEW reason \in Chain!Answers(ChainRequest(draft))
  PROVE  LET v == Chain!Verdicts(ChainRequest(draft))
         IN \/ reason = Chain!FirstReason(v)
            \/ /\ Chain!FirstReason(v) = "OK"
               /\ reason = "ERR_LATENCY_BUDGET"
<1>1. Chain!Finite(ChainRequest(draft).proposed_cost)
  BY DEF ChainRequest, Chain!Finite
<1> QED BY <1>1 DEF Chain!Answers

(* The decision of the chain follows from its report.                      *)
LEMMA ReportAccounts ==
  ASSUME NEW draft, draft.proposed_cost # Nan,
         NEW reason \in Chain!Answers(ChainRequest(draft))
  PROVE  LET report == GateReport(draft)
         IN \/ /\ reason \in {"OK", "ERR_LATENCY_BUDGET"}
               /\ \A i \in 1 .. 4 : report[i] = "OK"
            \/ \E i \in 1 .. 4 :
                 /\ reason = report[i] /\ reason # "OK"
                 /\ \A j \in 1 .. i - 1 : report[j] = "OK"
<1> DEFINE v == Chain!Verdicts(ChainRequest(draft))
<1> DEFINE first == Chain!FirstReason(v)
<1>1. /\ DOMAIN v = 1 .. 5 /\ v[5] = "OK"
      /\ \A i \in 1 .. 4 : GateReport(draft)[i] = v[i]
  BY ReportIsVerdicts
<1>2. \/ first = "OK" /\ \A i \in 1 .. 4 : v[i] = "OK"
      \/ \E i \in 1 .. 4 :
           first = v[i] /\ v[i] # "OK" /\ \A j \in 1 .. i - 1 : v[j] = "OK"
  <2> HIDE DEF v
  <2> QED BY <1>1, FirstReasonOfFour DEF first
<1>3. reason = first \/ (first = "OK" /\ reason = "ERR_LATENCY_BUDGET")
  BY AcceptedAnswers
<1> HIDE DEF v, first
<1>4. CASE first = "OK" /\ \A i \in 1 .. 4 : v[i] = "OK"
  BY <1>1, <1>3, <1>4
<1>5. ASSUME NEW i \in 1 .. 4, first = v[i], v[i] # "OK",
             \A j \in 1 .. i - 1 : v[j] = "OK"
      PROVE  /\ reason = GateReport(draft)[i] /\ reason # "OK"
             /\ \A j \in 1 .. i - 1 : GateReport(draft)[j] = "OK"
  BY <1>1, <1>3, <1>5
<1> QED BY <1>2, <1>4, <1>5

-----------------------------------------------------------------------------

(* A halt that stopped a request is still in force after the evaluation:   *)
(* the breaker that blocks does not clear itself, and on_trip can only     *)
(* pull the kill switch.                                                   *)
LEMMA StoppedIsHalted ==
  ASSUME NEW now, EvaluateWithState(now), Stopped(now)
  PROVE  Halted' /\ result'[1] \in HaltCodes
<1>1. history' = history
  BY DEF EvaluateWithState
<1>2. PICK reason : /\ Reject(reason)
                    /\ \/ KillStops /\ reason = Kill!Reason
                       \/ BreakerStops(now) /\ reason = Breaker!Reason(now)
                       \/ WindowStops(now) /\ reason = Window!Reason
  BY DEF EvaluateWithState, Stopped
<1>3. result' = reason
  BY <1>2 DEF Reject
<1>4. reason[1] \in HaltCodes
  BY <1>2
     DEF HaltCodes, Kill!Reason, Breaker!Reason, Breaker!MixedZones, Window!Reason
<1>5. CASE KillStops
  <2>1. ks_tripped /\ "kill" \in Gates
    BY <1>5 DEF KillStops, Kill!Blocks
  <2>2. ks_tripped'
    BY <1>2, <2>1
       DEF Reject, MaybeFireTrip, OnTrip, Kill!Trip, Kill!switch, kill
  <2> QED BY <1>3, <1>4, <2>1, <2>2 DEF Halted
<1>6. CASE BreakerStops(now)
  <2>1. "breaker" \in Gates /\ BreakerAsked /\ cb_tripped /\ ~Breaker!Expired(now)
    BY <1>6 DEF BreakerStops, BreakerAsked, Breaker!Blocks
  <2>2. cb_tripped'
    BY <2>1 DEF EvaluateWithState, AskBreaker, Breaker!Check, Breaker!breaker
  <2> QED BY <1>3, <1>4, <2>1, <2>2 DEF Halted
<1>7. CASE WindowStops(now)
  <2>1. "window" \in Gates /\ Window!Blocks
    BY <1>7 DEF WindowStops
  <2>2. Window!Blocks'
    BY <1>1, <2>1 DEF Window!Blocks
  <2> QED BY <1>3, <1>4, <2>1, <2>2 DEF Halted
<1> QED BY <1>5, <1>6, <1>7 DEF Stopped

(* A request that reaches the chain leaves no halt behind: a breaker that  *)
(* let it through was not tripped, or has cleared itself.                  *)
LEMMA PassedIsNotHalted ==
  ASSUME NEW now, EvaluateWithState(now), ~Stopped(now)
  PROVE  ~Halted'
<1>1. kill' = kill /\ history' = history
  BY DEF EvaluateWithState, EvaluateStateless, Stopped
<1>2. ~KillStops /\ ~BreakerStops(now) /\ ~WindowStops(now)
  BY DEF Stopped
<1>3. ~("kill" \in Gates /\ ks_tripped')
  BY <1>1, <1>2 DEF KillStops, Kill!Blocks, kill
<1>4. ASSUME "breaker" \in Gates
      PROVE  ~cb_tripped'
  <2>1. BreakerAsked
    BY <1>2, <1>4 DEF BreakerAsked
  <2>2. Breaker!Check(now) /\ ~Breaker!Blocks(now)
    BY <1>2, <2>1 DEF EvaluateWithState, AskBreaker, BreakerStops
  <2>3. CASE Breaker!Expired(now)
    BY <2>2, <2>3 DEF Breaker!Check, Breaker!FromState, Breaker!New
  <2>4. CASE ~Breaker!Expired(now)
    BY <2>2, <2>4 DEF Breaker!Check, Breaker!Blocks, Breaker!breaker
  <2> QED BY <2>3, <2>4
<1>5. ~("window" \in Gates /\ Window!Blocks)
  BY <1>2 DEF WindowStops
<1>6. Window!Blocks' = Window!Blocks
  BY <1>1 DEF Window!Blocks
<1> QED BY <1>3, <1>4, <1>5, <1>6 DEF Halted

(* What a step that answers has decided.                                   *)
LEMMA StepAnswers ==
  ASSUME ProviderNext, Answered'
  PROVE  \E draft \in Drafts :
           /\ Malformed(draft) = {}
           /\ answer'.request = draft
           /\ answer'.gate_outcomes = GateReport(draft)
           /\ \/ Halted' /\ answer'.reason[1] \in HaltCodes
              \/ ~Halted' /\ \E code \in Chain!Answers(ChainRequest(draft)) :
                                answer'.reason[1] = code
<1>1. ASSUME NEW draft \in Drafts, Refuse(draft)
      PROVE  FALSE
  BY <1>1 DEF Refuse, Answered
<1>2. ASSUME Next, answer' = None
      PROVE  FALSE
  BY <1>2 DEF Answered
<1>3. PICK draft \in Drafts : Evaluate(draft)
  BY <1>1, <1>2 DEF ProviderNext
<1> DEFINE now == draft.current_time
<1>4. Malformed(draft) = {} /\ EvaluateWithState(now)
  BY <1>3 DEF Evaluate
<1>5. CASE Stopped(now) /\ answer' = Answer(draft, result')
  <2>1. Halted' /\ result'[1] \in HaltCodes
    <3> HIDE DEF now
    <3> QED BY <1>4, <1>5, StoppedIsHalted
  <2>2. /\ answer'.reason = result' /\ answer'.request = draft
        /\ answer'.gate_outcomes = GateReport(draft)
    BY <1>5 DEF Answer
  <2> QED BY <1>4, <2>1, <2>2
<1>6. ASSUME NEW code \in Chain!Answers(ChainRequest(draft)),
             answer' = Answer(draft, <<code, 0>>)
      PROVE  /\ answer'.reason[1] = code /\ answer'.request = draft
             /\ answer'.gate_outcomes = GateReport(draft)
  BY <1>6 DEF Answer
<1>7. \/ Stopped(now) /\ answer' = Answer(draft, result')
      \/ ~Stopped(now) /\ \E code \in Chain!Answers(ChainRequest(draft)) :
                              answer' = Answer(draft, <<code, 0>>)
  BY <1>3 DEF Evaluate
<1> HIDE DEF now
<1>8. ~Stopped(now) => ~Halted'
  BY <1>4, PassedIsNotHalted
<1> QED BY <1>4, <1>5, <1>6, <1>7, <1>8

(* An accepted request has numbers.                                        *)
LEMMA AcceptedIsFinite ==
  ASSUME NEW draft, Malformed(draft) = {}
  PROVE  \A field \in Numbers : draft[field] # Nan
<1>1. \A i \in DOMAIN Fields : Accepts(Fields[i], draft[Fields[i]])
  BY DEF Malformed
<1>2. /\ Accepts("daily_realized_pnl", draft["daily_realized_pnl"])
      /\ Accepts("equity", draft["equity"])
      /\ Accepts("proposed_cost", draft["proposed_cost"])
      /\ Accepts("expected_value", draft["expected_value"])
  <2>1. {3, 4, 5, 6} \subseteq DOMAIN Fields
    BY DEF Fields
  <2>2. /\ Fields[3] = "daily_realized_pnl" /\ Fields[4] = "equity"
        /\ Fields[5] = "proposed_cost" /\ Fields[6] = "expected_value"
    BY DEF Fields
  <2> QED BY <1>1, <2>1, <2>2
<1> QED BY <1>2 DEF Accepts, Numbers

-----------------------------------------------------------------------------

(* A desk-level halt in force makes the decision, and without one the      *)
(* report of the pure gates accounts for it (provider.py, evaluate and     *)
(* _gate_report), for every policy, every set of gates and every request.  *)
THEOREM ReportCorrect == ProviderSpec => []ReportExplains
<1>1. ProviderInit => ReportExplains
  BY DEF ProviderInit, ReportExplains, Answered
<1>2. ASSUME ReportExplains, [ProviderNext]_providerVars
      PROVE  ReportExplains'
  <2>1. CASE UNCHANGED providerVars
    BY <1>2, <2>1
       DEF ReportExplains, Answered, Halted, Window!Blocks, providerVars, vars,
           kill, breaker
  <2>2. CASE ProviderNext
    <3>1. SUFFICES ASSUME Answered'
                   PROVE  LET report == answer'.gate_outcomes
                              reason == answer'.reason[1]
                          IN /\ Halted' => reason \in HaltCodes
                             /\ ~Halted' =>
                                  \/ /\ reason \in {"OK", "ERR_LATENCY_BUDGET"}
                                     /\ \A i \in 1 .. 4 : report[i] = "OK"
                                  \/ \E i \in 1 .. 4 :
                                       /\ reason = report[i] /\ reason # "OK"
                                       /\ \A j \in 1 .. i - 1 : report[j] = "OK"
      BY DEF ReportExplains
    <3>2. PICK draft \in Drafts :
            /\ Malformed(draft) = {}
            /\ answer'.request = draft
            /\ answer'.gate_outcomes = GateReport(draft)
            /\ \/ Halted' /\ answer'.reason[1] \in HaltCodes
               \/ ~Halted' /\ \E code \in Chain!Answers(ChainRequest(draft)) :
                                 answer'.reason[1] = code
      BY <2>2, <3>1, StepAnswers
    <3>3. draft.proposed_cost # Nan
      BY <3>2, AcceptedIsFinite DEF Numbers
    <3> QED BY <3>2, <3>3, ReportAccounts
  <2> QED BY <1>2, <2>1, <2>2
<1> QED BY <1>1, <1>2, PTL DEF ProviderSpec

-----------------------------------------------------------------------------

(* The pure gates refuse no number of an accepted request as malformed;    *)
(* only a NaN in an outcome or in a held position, which they do not let   *)
(* through.                                                                *)
LEMMA GatesMeetNumbers ==
  ASSUME NEW draft, Malformed(draft) = {}
  PROVE  LET report == GateReport(draft)
         IN /\ \A i \in 1 .. 4 : report[i] # "ValueError"
            /\ report[1] # "ERR_INVALID_FLOAT_EXPECTED_VALUE"
            /\ report[2] # "ERR_INVALID_FLOAT_DRAWDOWN"
            /\ report[3] = "ERR_INVALID_FLOAT_CONSECUTIVE_LOSSES" => OutcomeNan(draft)
            /\ report[4] = "ERR_INVALID_FLOAT_CONCENTRATION" => HeldNan(draft)
            /\ report[3] = "OK" /\ consecutive_loss_limit # 0 => ~OutcomeNan(draft)
            /\ report[4] = "OK" => ~HeldNan(draft)
<1> DEFINE q == ChainRequest(draft)
<1>1. /\ q.expected_value # Nan /\ q.daily_realized_pnl # Nan
      /\ q.equity # Nan /\ q.proposed_cost # Nan
  BY AcceptedIsFinite DEF Numbers, ChainRequest
<1>2. /\ OutcomeNan(draft) <=> \E i \in DOMAIN q.trade_outcomes :
                                 q.trade_outcomes[i].pnl = Nan
      /\ HeldNan(draft) <=> \E i \in Chain!Held(q.target_family, q.open_positions) :
                              q.open_positions[i].cost_basis = Nan
  BY DEF ChainRequest, OutcomeNan, HeldNan
<1> DEFINE ev == Chain!evaluate_expected_value(q.expected_value)
           dd == Chain!evaluate_drawdown(q.daily_realized_pnl, q.equity)
           cl == Chain!evaluate_consecutive_losses(q.trade_outcomes,
                                                   q.current_time)
           cc == Chain!evaluate_concentration(q.target_family, q.proposed_cost,
                                              q.open_positions)
           v == Chain!Verdicts(q)
<1>3. v[1] = ev /\ v[2] = dd /\ v[3] = cl /\ v[4] = cc
  BY DEF Chain!Verdicts
<1> HIDE DEF q
<1>4. ev \notin {"ValueError", "ERR_INVALID_FLOAT_EXPECTED_VALUE"}
  BY <1>1 DEF Chain!evaluate_expected_value, Chain!Finite
<1>5. dd \notin {"ValueError", "ERR_INVALID_FLOAT_DRAWDOWN"}
  BY <1>1 DEF Chain!evaluate_drawdown, Chain!Finite
<1>6. /\ cl # "ValueError"
      /\ cl = "ERR_INVALID_FLOAT_CONSECUTIVE_LOSSES" => OutcomeNan(draft)
      /\ cl = "OK" /\ consecutive_loss_limit # 0 => ~OutcomeNan(draft)
  BY <1>2 DEF Chain!evaluate_consecutive_losses, Chain!ScanLosses, Chain!Finite
<1>7. /\ cc # "ValueError"
      /\ cc = "ERR_INVALID_FLOAT_CONCENTRATION" => HeldNan(draft)
      /\ cc = "OK" => ~HeldNan(draft)
  BY <1>1, <1>2 DEF Chain!evaluate_concentration, Chain!Finite
<1>8. \A i \in 1 .. 4 : GateReport(draft)[i] = v[i]
  BY ReportIsVerdicts DEF q
<1> HIDE DEF v, ev, dd, cl, cc
<1> QED BY <1>3, <1>4, <1>5, <1>6, <1>7, <1>8

(* A malformed number of a request is refused at the boundary, never deep  *)
(* in a gate (provider.py, RiskProviderRequest.__post_init__), and what    *)
(* the boundary does not look at is never part of an approval: for every   *)
(* policy and every request.                                               *)
THEOREM BoundaryCorrect == ProviderSpec => []FiguresAreChecked
<1>1. ProviderInit => FiguresAreChecked
  BY DEF ProviderInit, FiguresAreChecked, Answered
<1>2. ASSUME FiguresAreChecked, [ProviderNext]_providerVars
      PROVE  FiguresAreChecked'
  <2>1. CASE UNCHANGED providerVars
    BY <1>2, <2>1 DEF FiguresAreChecked, Answered, providerVars
  <2>2. ASSUME ProviderNext, Answered'
        PROVE  FiguresAreChecked'
    <3>1. PICK draft \in Drafts :
            /\ Malformed(draft) = {}
            /\ answer'.request = draft
            /\ answer'.gate_outcomes = GateReport(draft)
            /\ \/ Halted' /\ answer'.reason[1] \in HaltCodes
               \/ ~Halted' /\ \E code \in Chain!Answers(ChainRequest(draft)) :
                                 answer'.reason[1] = code
      BY <2>2, StepAnswers
    <3> DEFINE report == GateReport(draft)
    <3>2. /\ \A i \in 1 .. 4 : report[i] # "ValueError"
          /\ report[1] # "ERR_INVALID_FLOAT_EXPECTED_VALUE"
          /\ report[2] # "ERR_INVALID_FLOAT_DRAWDOWN"
          /\ report[3] = "ERR_INVALID_FLOAT_CONSECUTIVE_LOSSES" => OutcomeNan(draft)
          /\ report[4] = "ERR_INVALID_FLOAT_CONCENTRATION" => HeldNan(draft)
          /\ report[3] = "OK" /\ consecutive_loss_limit # 0 => ~OutcomeNan(draft)
          /\ report[4] = "OK" => ~HeldNan(draft)
      BY <3>1, GatesMeetNumbers
    <3>3. ASSUME NEW code \in Chain!Answers(ChainRequest(draft))
          PROVE  \/ /\ code \in {"OK", "ERR_LATENCY_BUDGET"}
                    /\ \A i \in 1 .. 4 : report[i] = "OK"
                 \/ \E i \in 1 .. 4 : code = report[i] /\ code # "OK"
      <4>1. draft.proposed_cost # Nan
        BY <3>1, AcceptedIsFinite DEF Numbers
      <4> QED BY <4>1, ReportAccounts
    <3> HIDE DEF report
    <3>4. /\ answer'.reason[1] # "ValueError"
          /\ answer'.reason[1] = "OK" => report[3] = "OK" /\ report[4] = "OK"
      BY <3>1, <3>2, <3>3 DEF HaltCodes
    <3>5. answer'.request = draft /\ answer'.gate_outcomes = report
      BY <3>1 DEF report
    <3> QED BY <3>2, <3>4, <3>5 DEF FiguresAreChecked, HeldNan, OutcomeNan
  <2>3. CASE ~Answered'
    BY <2>3 DEF FiguresAreChecked
  <2> QED BY <1>2, <2>1, <2>2, <2>3
<1> QED BY <1>1, <1>2, PTL DEF ProviderSpec

-----------------------------------------------------------------------------

(* What an evaluation leaves behind it, for the request it was asked about *)
(* and the reason it gave: the gate that stopped it would stop it again    *)
(* for the same reason and has announced it, unless the callback has since *)
(* pulled the kill switch; or nothing would stop it before the chain.      *)
Leaves(draft, reason) ==
  LET now == draft.current_time
  IN \/ KillStops /\ reason # Kill!Reason
     \/ /\ HasCallback => last_trip_reason = reason
        /\ \/ KillStops /\ reason = Kill!Reason
           \/ BreakerStops(now) /\ reason = Breaker!Reason(now)
           \/ WindowStops(now) /\ reason = Window!Reason
     \/ ~Stopped(now) /\ reason \in Chain!Answers(ChainRequest(draft)) \X {0}

(* That is still so when the answer was lost, until the next step.         *)
LostInv ==
  answer # None /\ answer.kind = "raised" =>
    /\ answer.request \in Drafts /\ Malformed(answer.request) = {}
    /\ Leaves(answer.request, answer.reason)

(* The conditions that stop a trade exclude each other.                    *)
LEMMA OneStops ==
  ASSUME NEW now
  PROVE  /\ KillStops => ~BreakerStops(now) /\ ~WindowStops(now)
         /\ BreakerStops(now) => ~WindowStops(now)
BY DEF BreakerStops, BreakerAsked, WindowStops

(* _maybe_fire_trip: a reason is remembered once, and the callback pulls   *)
(* the kill switch or leaves it alone.                                     *)
LEMMA FiredTrip ==
  ASSUME NEW reason, MaybeFireTrip(reason)
  PROVE  /\ HasCallback => last_trip_reason' = reason
         /\ (HasCallback => last_trip_reason = reason) => alert' = None
         /\ KillStops' => KillStops \/ HasCallback
         /\ KillStops => KillStops'
<1>1. CASE HasCallback /\ reason # last_trip_reason
  <2>1. KillStops => KillStops'
    BY <1>1 DEF MaybeFireTrip, OnTrip, KillStops, kill,
                Kill!Blocks, Kill!Trip, Kill!switch
  <2> QED BY <1>1, <2>1 DEF MaybeFireTrip
<1>2. CASE ~HasCallback \/ reason = last_trip_reason
  BY <1>2 DEF MaybeFireTrip, KillStops, kill, Kill!Blocks
<1> QED BY <1>1, <1>2

(* check() does not change its mind about the clock it was asked with.     *)
LEMMA BreakerKeepsVerdict ==
  ASSUME NEW now, EvaluateWithState(now), ~KillStops, ~KillStops'
  PROVE  /\ BreakerStops(now)' = BreakerStops(now)
         /\ BreakerStops(now) => Breaker!Reason(now)' = Breaker!Reason(now)
<1>1. CASE "breaker" \notin Gates
  BY <1>1 DEF BreakerStops, BreakerAsked
<1>2. CASE "breaker" \in Gates
  <2>1. Breaker!Check(now)
    BY <1>2 DEF EvaluateWithState, AskBreaker, BreakerAsked
  <2>2. CASE Breaker!Expired(now)
    <3>1. cb_tripped' = FALSE
      BY <2>1, <2>2 DEF Breaker!Check, Breaker!FromState, Breaker!New
    <3> QED BY <2>2, <3>1 DEF BreakerStops, Breaker!Blocks
  <2>3. CASE ~Breaker!Expired(now)
    <3>1. UNCHANGED <<loss_streak, cb_tripped, cb_tripped_at>>
      BY <2>1, <2>3 DEF Breaker!Check, Breaker!breaker
    <3>2. /\ Breaker!Expired(now)' = Breaker!Expired(now)
          /\ Breaker!ZoneMismatch(now)' = Breaker!ZoneMismatch(now)
      BY <3>1 DEF Breaker!Expired, Breaker!ZoneMismatch, Breaker!Dated
    <3>3. BreakerStops(now)' = BreakerStops(now)
      BY <3>1, <3>2 DEF BreakerStops, BreakerAsked, Breaker!Blocks
    <3>4. Breaker!Reason(now)' = Breaker!Reason(now)
      BY <3>1, <3>2 DEF Breaker!Reason
    <3> QED BY <3>3, <3>4
  <2> QED BY <2>2, <2>3
<1> QED BY <1>1, <1>2

LEMMA WindowKeepsVerdict ==
  ASSUME NEW now, EvaluateWithState(now), ~KillStops, ~KillStops'
  PROVE  /\ WindowStops(now)' = WindowStops(now)
         /\ Window!Reason' = Window!Reason
<1>1. history' = history
  BY DEF EvaluateWithState
<1>2. BreakerStops(now)' = BreakerStops(now)
  BY BreakerKeepsVerdict
<1>3. Window!Blocks' = Window!Blocks
  BY <1>1 DEF Window!Blocks
<1>4. Window!Reason' = Window!Reason
  BY <1>1 DEF Window!Reason
<1> QED BY <1>2, <1>3, <1>4 DEF WindowStops

(* A gate that stopped a request would do so again.                        *)
LEMMA StoppedLeaves ==
  ASSUME NEW draft, NEW reason, EvaluateWithState(draft.current_time),
         Stopped(draft.current_time), result' = reason
  PROVE  Leaves(draft, reason)'
<1> DEFINE now == draft.current_time
<1>1. /\ MaybeFireTrip(reason)
      /\ \/ KillStops /\ reason = Kill!Reason
         \/ BreakerStops(now) /\ reason = Breaker!Reason(now)
         \/ WindowStops(now) /\ reason = Window!Reason
  BY DEF EvaluateWithState, Stopped, Reject
<1> HIDE DEF now
<1>2. HasCallback => last_trip_reason' = reason
  BY <1>1, FiredTrip
<1>3. CASE KillStops /\ reason = Kill!Reason
  <2>1. KillStops'
    BY <1>1, <1>3, FiredTrip
  <2> QED BY <1>2, <1>3, <2>1 DEF Leaves, Kill!Reason
<1>4. CASE ~KillStops /\ KillStops'
  <2>1. reason # Kill!Reason
    BY <1>1, <1>4 DEF Kill!Reason, Breaker!Reason, Breaker!MixedZones, Window!Reason
  <2> QED BY <1>4, <2>1 DEF Leaves, Kill!Reason
<1>5. CASE ~KillStops /\ ~KillStops'
  <2>1. EvaluateWithState(now)
    BY DEF now
  <2>2. \/ BreakerStops(now)' /\ reason = Breaker!Reason(now)'
        \/ WindowStops(now)' /\ reason = Window!Reason'
    BY <1>1, <1>5, <2>1, BreakerKeepsVerdict, WindowKeepsVerdict
  <2> QED BY <1>2, <2>2 DEF Leaves, now
<1> QED BY <1>1, <1>3, <1>4, <1>5 DEF BreakerStops, BreakerAsked, WindowStops

(* Nor does a request that reached the chain meet a gate the next time.    *)
LEMMA PassedLeaves ==
  ASSUME NEW draft, NEW reason, EvaluateWithState(draft.current_time),
         ~Stopped(draft.current_time),
         reason \in Chain!Answers(ChainRequest(draft)) \X {0}
  PROVE  Leaves(draft, reason)'
<1> DEFINE now == draft.current_time
<1>1. EvaluateWithState(now) /\ ~Stopped(now)
  OBVIOUS
<1> HIDE DEF now
<1>2. kill' = kill
  BY <1>1 DEF EvaluateWithState, EvaluateStateless, Stopped
<1>3. ~KillStops /\ ~KillStops'
  BY <1>1, <1>2 DEF Stopped, KillStops, Kill!Blocks, kill
<1>4. ~BreakerStops(now)' /\ ~WindowStops(now)'
  BY <1>1, <1>3, BreakerKeepsVerdict, WindowKeepsVerdict DEF Stopped
<1>5. ~Stopped(now)'
  BY <1>3, <1>4 DEF Stopped
<1> QED BY <1>5 DEF Leaves, now

(* The second evaluation of a request, with what the first one left.       *)
LEMMA AskedAgain ==
  ASSUME NEW draft, NEW reason, Leaves(draft, reason),
         ks_tripped => reason = Kill!Reason,
         EvaluateWithState(draft.current_time)
  PROVE  /\ alert' = None
         /\ Stopped(draft.current_time) => result' = reason
         /\ ~Stopped(draft.current_time) =>
              reason \in Chain!Answers(ChainRequest(draft)) \X {0}
<1> DEFINE now == draft.current_time
<1>1. EvaluateWithState(now)
  OBVIOUS
<1>2. /\ Leaves(draft, reason)
      /\ KillStops => reason = Kill!Reason
  BY DEF KillStops, Kill!Blocks
<1>3. CASE Stopped(now)
  <2>1. PICK again : /\ result' = again /\ MaybeFireTrip(again)
                     /\ \/ KillStops /\ again = Kill!Reason
                        \/ BreakerStops(now) /\ again = Breaker!Reason(now)
                        \/ WindowStops(now) /\ again = Window!Reason
    <3> HIDE DEF now
    <3> QED BY <1>1, <1>3 DEF EvaluateWithState, Stopped, Reject
  <2>2. /\ HasCallback => last_trip_reason = reason
        /\ \/ KillStops /\ reason = Kill!Reason
           \/ BreakerStops(now) /\ reason = Breaker!Reason(now)
           \/ WindowStops(now) /\ reason = Window!Reason
    BY <1>2, <1>3 DEF Leaves
  <2> HIDE DEF now
  <2>3. again = reason
    BY <2>1, <2>2, OneStops
  <2>4. alert' = None
    BY <2>1, <2>2, <2>3, FiredTrip
  <2> QED BY <1>3, <2>1, <2>3, <2>4 DEF now
<1>4. CASE ~Stopped(now)
  <2>1. reason \in Chain!Answers(ChainRequest(draft)) \X {0}
    BY <1>2, <1>4 DEF Leaves, Stopped
  <2>2. alert' = None
    <3> HIDE DEF now
    <3> QED BY <1>1, <1>4 DEF EvaluateWithState, EvaluateStateless, Stopped
  <2> QED BY <1>4, <2>1, <2>2
<1> QED BY <1>3, <1>4

LEMMA LostInvariant == ProviderSpec => []LostInv
<1>1. ProviderInit => LostInv
  BY DEF ProviderInit, LostInv
<1>2. ASSUME LostInv, [ProviderNext]_providerVars
      PROVE  LostInv'
  <2>1. ASSUME NEW draft \in Drafts, Evaluate(draft)
        PROVE  LostInv'
    <3>1. Malformed(draft) = {} /\ EvaluateWithState(draft.current_time)
      BY <2>1 DEF Evaluate
    <3>2. PICK reason :
            /\ answer' = Answer(draft, reason)
            /\ \/ Stopped(draft.current_time) /\ result' = reason
               \/ /\ ~Stopped(draft.current_time)
                  /\ reason \in Chain!Answers(ChainRequest(draft)) \X {0}
      BY <2>1 DEF Evaluate
    <3>3. Leaves(draft, reason)'
      BY <3>1, <3>2, StoppedLeaves, PassedLeaves
    <3>4. answer'.request = draft /\ answer'.reason = reason
      BY <3>2 DEF Answer
    <3>5. SUFFICES Leaves(answer.request, answer.reason)'
      BY <3>1, <3>4 DEF LostInv
    <3> QED BY <3>3, <3>4 DEF Leaves
  <2>2. ASSUME NEW draft \in Drafts, Refuse(draft)
        PROVE  LostInv'
    BY <2>2 DEF Refuse, LostInv
  <2>3. CASE answer' = None
    BY <2>3 DEF LostInv
  <2>4. CASE UNCHANGED providerVars
    <3>1. UNCHANGED <<ks_tripped, loss_streak, cb_tripped, cb_tripped_at,
                      history, last_trip_reason, answer>>
      BY <2>4 DEF providerVars, vars, kill, breaker
    <3>2. ASSUME NEW now
          PROVE  /\ KillStops' = KillStops
                 /\ BreakerStops(now)' = BreakerStops(now)
                 /\ Breaker!Reason(now)' = Breaker!Reason(now)
                 /\ WindowStops(now)' = WindowStops(now)
                 /\ Window!Reason' = Window!Reason
                 /\ Stopped(now)' = Stopped(now)
      BY <3>1 DEF KillStops, Kill!Blocks, BreakerStops, BreakerAsked,
                  Breaker!Blocks, Breaker!Expired, Breaker!ZoneMismatch,
                  Breaker!Dated, Breaker!Reason, WindowStops, Window!Blocks,
                  Window!Reason, Stopped
    <3>3. ASSUME NEW draft, NEW reason, Leaves(draft, reason)
          PROVE  Leaves(draft, reason)'
      <4> DEFINE now == draft.current_time
      <4>1. /\ KillStops' = KillStops
            /\ BreakerStops(now)' = BreakerStops(now)
            /\ Breaker!Reason(now)' = Breaker!Reason(now)
            /\ WindowStops(now)' = WindowStops(now)
            /\ Window!Reason' = Window!Reason
            /\ Stopped(now)' = Stopped(now)
        BY <3>2
      <4> HIDE DEF now
      <4> QED BY <3>1, <3>3, <4>1 DEF Leaves, now
    <3>4. ASSUME NEW lost, answer = lost, answer' = lost, LostInv
          PROVE  LostInv'
      <4>1. lost # None /\ lost.kind = "raised" =>
              /\ lost.request \in Drafts /\ Malformed(lost.request) = {}
              /\ Leaves(lost.request, lost.reason)'
        BY <3>3, <3>4 DEF LostInv
      <4> QED BY <3>4, <4>1 DEF LostInv, Leaves
    <3> QED BY <1>2, <3>1, <3>4
  <2> QED BY <1>2, <2>1, <2>2, <2>3, <2>4 DEF ProviderNext
<1> QED BY <1>1, <1>2, PTL DEF ProviderSpec

(* What advisory a request carries is nothing to the gates.                *)
LEMMA AdvisoryIgnored ==
  ASSUME NEW draft \in Drafts, NEW again, again = [draft EXCEPT !.advisory = None]
  PROVE  /\ again.current_time = draft.current_time
         /\ ChainRequest(again) = ChainRequest(draft)
<1>1. DOMAIN draft = {Fields[i] : i \in DOMAIN Fields}
  BY DraftsHaveFields
<1>2. \A i \in 1 .. 9 : again[Fields[i]] = draft[Fields[i]]
  <2>1. \A i \in 1 .. 9 : Fields[i] \in DOMAIN draft /\ Fields[i] # "advisory"
    BY <1>1 DEF Fields
  <2>2. \A field \in DOMAIN draft : field # "advisory" => again[field] = draft[field]
    OBVIOUS
  <2> QED BY <2>1, <2>2
<1>3. /\ Fields[2] = "target_family" /\ Fields[3] = "daily_realized_pnl"
      /\ Fields[4] = "equity" /\ Fields[5] = "proposed_cost"
      /\ Fields[6] = "expected_value" /\ Fields[7] = "open_positions"
      /\ Fields[8] = "trade_outcomes" /\ Fields[9] = "current_time"
  BY DEF Fields
<1>4. /\ again.target_family = draft.target_family
      /\ again.daily_realized_pnl = draft.daily_realized_pnl
      /\ again.equity = draft.equity
      /\ again.proposed_cost = draft.proposed_cost
      /\ again.expected_value = draft.expected_value
      /\ again.open_positions = draft.open_positions
      /\ again.trade_outcomes = draft.trade_outcomes
      /\ again.current_time = draft.current_time
  <2> HIDE DEF Fields
  <2> QED BY ONLY <1>2, <1>3
<1> QED BY <1>4 DEF ChainRequest

(* Two answers of the chain to one request differ by the latency budget at *)
(* most.                                                                   *)
LEMMA ChainRepeats ==
  ASSUME NEW draft, Malformed(draft) = {},
         NEW one \in Chain!Answers(ChainRequest(draft)) \X {0},
         NEW two \in Chain!Answers(ChainRequest(draft)) \X {0}
  PROVE  one = two \/ {one, two} \subseteq {OK, <<"ERR_LATENCY_BUDGET", 0>>}
<1>1. draft.proposed_cost # Nan
  BY AcceptedIsFinite DEF Numbers
<1>2. PICK code \in Chain!Answers(ChainRequest(draft)),
           other \in Chain!Answers(ChainRequest(draft)) :
        one = <<code, 0>> /\ two = <<other, 0>>
  OBVIOUS
<1>3. code = other \/ {code, other} \subseteq {"OK", "ERR_LATENCY_BUDGET"}
  BY <1>1, AcceptedAnswers
<1> QED BY <1>2, <1>3 DEF OK

(* A request whose answer was lost with its receipt (provider.py,          *)
(* evaluate: build_risk_receipt raises after the authority was asked) may  *)
(* be evaluated again: for every set of gates, every state they are in and *)
(* every request.                                                          *)
THEOREM RetryCorrect == ProviderSpec => RetryIsSafe
<1>1. ASSUME LostInv, [ProviderNext]_providerVars,
             answer # None, answer.kind = "raised",
             answer' # None, answer'.kind = "result",
             answer'.request = [answer.request EXCEPT !.advisory = None],
             ks_tripped => answer.reason = Kill!Reason
      PROVE  /\ alert' = None
             /\ \/ answer'.reason = answer.reason
                \/ {answer'.reason, answer.reason} \subseteq
                     {OK, <<"ERR_LATENCY_BUDGET", 0>>}
  <2> DEFINE draft == answer.request
             reason == answer.reason
  <2>1. /\ draft \in Drafts /\ Malformed(draft) = {}
        /\ Leaves(draft, reason)
    BY <1>1 DEF LostInv
  <2>2. PICK again \in Drafts : Evaluate(again)
    <3>1. answer' # answer
      BY <1>1
    <3> QED BY <1>1, <3>1 DEF ProviderNext, Refuse, providerVars
  <2>3. PICK told :
          /\ answer' = Answer(again, told)
          /\ EvaluateWithState(again.current_time)
          /\ \/ Stopped(again.current_time) /\ result' = told
             \/ /\ ~Stopped(again.current_time)
                /\ told \in Chain!Answers(ChainRequest(again)) \X {0}
    BY <2>2 DEF Evaluate
  <2>4. answer'.request = again /\ answer'.reason = told
    BY <2>3 DEF Answer
  <2>5. /\ again.current_time = draft.current_time
        /\ ChainRequest(again) = ChainRequest(draft)
    BY <1>1, <2>1, <2>4, AdvisoryIgnored
  <2>6. ks_tripped => reason = Kill!Reason
    BY <1>1
  <2>7. ASSUME NEW d, NEW r, d = draft, r = reason
        PROVE  /\ alert' = None
               /\ \/ told = r
                  \/ {told, r} \subseteq {OK, <<"ERR_LATENCY_BUDGET", 0>>}
    <3>1. /\ Leaves(d, r) /\ Malformed(d) = {}
          /\ ks_tripped => r = Kill!Reason
          /\ EvaluateWithState(d.current_time)
          /\ \/ Stopped(d.current_time) /\ result' = told
             \/ /\ ~Stopped(d.current_time)
                /\ told \in Chain!Answers(ChainRequest(d)) \X {0}
      BY <2>1, <2>3, <2>5, <2>6, <2>7
    <3> QED BY <3>1, AskedAgain, ChainRepeats
  <2> QED BY <2>4, <2>7
<1>2. LostInv /\ [ProviderNext]_providerVars
        => [/\ answer # None /\ answer.kind = "raised"
            /\ answer' # None /\ answer'.kind = "result"
            /\ answer'.request = [answer.request EXCEPT !.advisory = None]
            /\ ks_tripped => answer.reason = Kill!Reason
            => /\ alert' = None
               /\ \/ answer'.reason = answer.reason
                  \/ {answer'.reason, answer.reason} \subseteq
                       {OK, <<"ERR_LATENCY_BUDGET", 0>>}]_providerVars
  BY <1>1
<1> QED BY <1>2, LostInvariant, PTL DEF ProviderSpec, RetryIsSafe

-----------------------------------------------------------------------------
(* The authority behind the provider.  A request carries any datetime it   *)
(* likes, not only the ones that callers of the authority pass.            *)

LEMMA ProviderStepKeeps ==
  ASSUME HaltInv, [ProviderNext]_providerVars
  PROVE  HaltInv' /\ [Desk!Next]_Desk!haltVars
<1>1. ASSUME [Next]_vars
      PROVE  HaltInv' /\ [Desk!Next]_Desk!haltVars
  BY <1>1, TypeStep, UnusedStep, StepRefines DEF HaltInv
<1>2. ASSUME NEW now, EvaluateWithState(now)
      PROVE  HaltInv' /\ [Desk!Next]_Desk!haltVars
  <2>1. HaltInv'
    BY <1>2, EvaluateTyped, UnusedEvaluate DEF HaltInv
  <2>2. Desk!Judge \/ Desk!Halt
    BY <1>2, EvaluateRefines
  <2> QED BY <2>1, <2>2 DEF Desk!Next
<1>3. ASSUME NEW draft \in Drafts, Refuse(draft)
      PROVE  HaltInv' /\ [Desk!Next]_Desk!haltVars
  <2>1. NoOutputs /\ UNCHANGED <<kill, breaker, history, last_trip_reason, clock, saved>>
    BY <1>3 DEF Refuse
  <2>2. TypeOK'
    BY <2>1, KillTyped, BreakerTyped, WindowTyped, QuietTyped DEF HaltInv, TypeOK
  <2>3. UnusedGatesClear'
    BY <2>1 DEF HaltInv, UnusedGatesClear, Unused, kill, breaker
  <2>4. Desk!Operate
    BY <2>1, QuietRefines
  <2> QED BY <2>2, <2>3, <2>4 DEF HaltInv, Desk!Next
<1> QED BY <1>1, <1>2, <1>3 DEF ProviderNext, Evaluate, providerVars

(* Asked through the provider, and with a request that may carry any       *)
(* datetime, the authority still implements DeskHalt: a refused request    *)
(* touches no halt, and no answer lets a trade through one.                *)
THEOREM ProviderImplements == ProviderSpec => ImplementsDeskHalt
<1>1. ProviderInit => HaltInv /\ Desk!Init
  BY TypeInit, UnusedInit, InitRefines DEF ProviderInit, HaltInv
<1> QED BY <1>1, ProviderStepKeeps, PTL DEF ProviderSpec, ImplementsDeskHalt, Desk!Spec
=============================================================================
