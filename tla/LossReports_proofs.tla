------------------------- MODULE LossReports_proofs -------------------------
(***************************************************************************)
(* Proofs about LossReports, for every limit and window, any clock and     *)
(* lists of any length: what sorted() and the scan through it amount to.   *)
(***************************************************************************)
EXTENDS LossReports, FiniteSetTheorems, WellFoundedInduction, TLAPS

Reports == [zone : ZoneModes, t : Nat, pnl : Int]

ListTyped ==
  /\ clock \in Nat
  /\ outcomes \in Seq(Reports)
  /\ \A i \in DOMAIN outcomes : outcomes[i] \in Outcomes

LEMMA ReportsTyped ==
  ASSUME NEW list \in Seq(Reports)
  PROVE  /\ Len(list) \in Nat /\ DOMAIN list = 1 .. Len(list)
         /\ IsFiniteSet(DOMAIN list)
         /\ \A i \in DOMAIN list :
              /\ list[i] \in Reports /\ list[i].t \in Nat /\ list[i].pnl \in Int
              /\ list[i].zone \in ZoneModes
<1>1. Len(list) \in Nat /\ DOMAIN list = 1 .. Len(list)
  OBVIOUS
<1>2. \A i \in DOMAIN list : list[i] \in Reports
  OBVIOUS
<1>3. IsFiniteSet(1 .. Len(list))
  BY <1>1, FS_Interval
<1> QED BY <1>1, <1>2, <1>3 DEF Reports

LEMMA AppendTyped ==
  ASSUME NEW S, NEW list \in Seq(S), NEW x \in S
  PROVE  /\ Append(list, x) \in Seq(S)
         /\ DOMAIN Append(list, x) = 1 .. Len(list) + 1
         /\ \A i \in DOMAIN list : Append(list, x)[i] = list[i]
         /\ Append(list, x)[Len(list) + 1] = x
OBVIOUS

LEMMA OutcomeIsReport ==
  ASSUME clock \in Nat, NEW outcome \in Outcomes
  PROVE  outcome \in Reports
BY ReportsAssumption DEF Outcomes, Reports, Pnls

(* Dropping a report moves those behind it.                                *)
LEMMA WithoutTyped ==
  ASSUME ListTyped, NEW i \in DOMAIN outcomes
  PROVE  /\ Without(i) \in Seq(Reports)
         /\ DOMAIN Without(i) = 1 .. Len(outcomes) - 1
         /\ \A j \in 1 .. Len(outcomes) - 1 :
              /\ Without(i)[j] = outcomes[IF j < i THEN j ELSE j + 1]
              /\ (IF j < i THEN j ELSE j + 1) \in DOMAIN outcomes
<1>1. /\ Len(outcomes) \in Nat /\ DOMAIN outcomes = 1 .. Len(outcomes)
      /\ \A j \in DOMAIN outcomes : outcomes[j] \in Reports
  BY ReportsTyped DEF ListTyped
<1>2. \A j \in 1 .. Len(outcomes) - 1 :
        (IF j < i THEN j ELSE j + 1) \in DOMAIN outcomes
  BY <1>1
<1>3. Without(i) \in [1 .. Len(outcomes) - 1 -> Reports]
  BY <1>1, <1>2 DEF Without
<1>4. Len(outcomes) - 1 \in Nat
  BY <1>1
<1>5. Without(i) \in Seq(Reports)
  BY <1>3, <1>4
<1> QED BY <1>1, <1>2, <1>5 DEF Without

LEMMA ListTypedStep == ListTyped /\ [Next]_reportVars => ListTyped'
<1> SUFFICES ASSUME ListTyped, [Next]_reportVars PROVE ListTyped'
  OBVIOUS
<1>1. ASSUME NEW outcome \in Outcomes, Report(outcome) PROVE ListTyped'
  <2>1. outcome \in Reports
    BY OutcomeIsReport DEF ListTyped
  <2>2. /\ outcomes' = Append(outcomes, outcome) /\ clock' = clock
        /\ Len(outcomes) \in Nat /\ DOMAIN outcomes = 1 .. Len(outcomes)
    BY <1>1, ReportsTyped DEF Report, ListTyped
  <2>3. /\ outcomes' \in Seq(Reports)
        /\ DOMAIN outcomes' = 1 .. Len(outcomes) + 1
        /\ \A i \in DOMAIN outcomes : outcomes'[i] = outcomes[i]
        /\ outcomes'[Len(outcomes) + 1] = outcome
    BY <2>1, <2>2, AppendTyped DEF ListTyped
  <2>4. \A i \in DOMAIN outcomes' : outcomes'[i] \in Outcomes
    BY <2>2, <2>3 DEF ListTyped
  <2> QED BY <2>2, <2>3, <2>4 DEF ListTyped, Outcomes
<1>2. ASSUME NEW i \in DOMAIN outcomes, Forget(i) PROVE ListTyped'
  <2>1. outcomes' = Without(i) /\ clock' = clock
    BY <1>2 DEF Forget
  <2>2. \A j \in DOMAIN Without(i) : Without(i)[j] \in Outcomes
    BY WithoutTyped DEF ListTyped
  <2> QED BY <2>1, <2>2, WithoutTyped DEF ListTyped, Outcomes
<1>3. CASE Tick
  <2>1. clock' = clock + 1 /\ outcomes' = outcomes /\ clock \in Nat
    BY <1>3 DEF Tick, ListTyped
  <2>2. Outcomes \subseteq Outcomes'
    BY <2>1, ReportsAssumption DEF Outcomes
  <2> QED BY <2>1, <2>2 DEF ListTyped
<1>4. CASE UNCHANGED reportVars
  BY <1>4 DEF reportVars, ListTyped, Outcomes
<1> QED BY <1>1, <1>2, <1>3, <1>4 DEF Next

LEMMA ListInvariant == Spec => []ListTyped
<1>1. Init => ListTyped
  BY DEF Init, ListTyped
<1> QED BY <1>1, ListTypedStep, PTL DEF Spec

-----------------------------------------------------------------------------
(* The scan.                                                               *)

LimitReached(list, at) == Cardinality(CountedRun(list, at)) >= consecutive_loss_limit

LEMMA ReasonsDiffer ==
  /\ "ERR_CONSECUTIVE_LOSS_LIMIT" # "ERR_INVALID_TIME_ORDER"
  /\ "ERR_CONSECUTIVE_LOSS_LIMIT" # "ERR_INVALID_TIMEZONE_MIXED"
  /\ "ERR_CONSECUTIVE_LOSS_LIMIT" # "OK"
OBVIOUS

(* What the gate answers once its inputs are well formed.                  *)
LEMMA VerdictIs ==
  ASSUME NEW list \in Seq(Reports), NEW zone \in ZoneModes, clock \in Nat
  PROVE  evaluate_consecutive_losses(list, Now(zone)) =
           IF list = <<>> THEN "OK"
           ELSE IF Cardinality(Modes(list)) > 1 \/ zone \notin Modes(list)
             THEN "ERR_INVALID_TIMEZONE_MIXED"
           ELSE ScanLosses(list, clock)
<1>1. Now(zone) # None
  <2>1. Now(zone) \in [zone : {"aware", "naive"}, t : Int]
    BY ReportsAssumption DEF Now
  <2> QED BY <2>1, NoneAssumption
<1>2. ~\E i \in DOMAIN list : ~Finite(list[i].pnl)
  BY ReportsTyped, NanAssumption DEF Finite
<1>3. Now(zone).zone = zone /\ Now(zone).t = clock
  BY DEF Now
<1>4. /\ ~(consecutive_loss_limit < 0 \/ consecutive_loss_window < 0)
      /\ consecutive_loss_limit # 0
  BY LimitAssumption, PolicyAssumption
<1> QED BY ONLY <1>1, <1>2, <1>3, <1>4 DEF evaluate_consecutive_losses

LEMMA LimitVerdict ==
  ASSUME NEW list \in Seq(Reports), NEW zone \in ZoneModes, clock \in Nat
  PROVE  evaluate_consecutive_losses(list, Now(zone)) = "ERR_CONSECUTIVE_LOSS_LIMIT"
           <=> /\ list # <<>> /\ ~(Cardinality(Modes(list)) > 1)
               /\ zone \in Modes(list) /\ LimitReached(list, clock)
BY VerdictIs DEF ScanLosses, LimitReached

LEMMA RunFinite ==
  ASSUME NEW list \in Seq(Reports), NEW at \in Int
  PROVE  IsFiniteSet(CountedRun(list, at)) /\ Cardinality(CountedRun(list, at)) \in Nat
<1>1. IsFiniteSet(CountedRun(list, at))
  BY ReportsTyped, FS_Subset DEF CountedRun
<1> QED BY <1>1, FS_CardinalityType

(* A longer run reaches the limit that a shorter one reaches.              *)
LEMMA MoreReached ==
  ASSUME NEW small, NEW large, IsFiniteSet(large), small \subseteq large,
         Cardinality(small) >= consecutive_loss_limit
  PROVE  Cardinality(large) >= consecutive_loss_limit
<1>1. /\ IsFiniteSet(small) /\ Cardinality(small) <= Cardinality(large)
  BY FS_Subset
<1>2. Cardinality(small) \in Nat /\ Cardinality(large) \in Nat
  BY <1>1, FS_CardinalityType
<1> QED BY <1>1, <1>2, PolicyAssumption

LEMMA CountedIs ==
  ASSUME NEW r \in Reports, NEW at \in Int
  PROVE  Counted(r, at) <=>
           r.pnl < 0 /\ r.t <= at /\ at - r.t <= consecutive_loss_window
BY PolicyAssumption DEF Counted, Reports

(* Newer is a strict order of the indices.                                 *)
LEMMA NewerIs ==
  ASSUME NEW list \in Seq(Reports), NEW i \in DOMAIN list, NEW j \in DOMAIN list
  PROVE  /\ Newer(list, j, i) => list[i].t <= list[j].t
         /\ list[i].t < list[j].t => Newer(list, j, i)
         /\ \A k \in DOMAIN list :
              Newer(list, k, j) /\ Newer(list, j, i) => Newer(list, k, i)
<1>1. /\ i \in Int /\ j \in Int /\ list[i].t \in Int /\ list[j].t \in Int
      /\ \A k \in DOMAIN list : k \in Int /\ list[k].t \in Int
  BY ReportsTyped
<1> QED BY <1>1 DEF Newer

-----------------------------------------------------------------------------
(* LossNeverHelps.                                                         *)

(* A report of a loss that is not dated ahead leaves the run as long.      *)
LEMMA RunGrows ==
  ASSUME NEW list \in Seq(Reports), NEW r \in Reports, NEW at \in Int,
         r.pnl < 0, r.t <= at
  PROVE  CountedRun(list, at) \subseteq CountedRun(Append(list, r), at)
<1> DEFINE longer == Append(list, r)
<1>1. /\ longer \in Seq(Reports)
      /\ DOMAIN longer = 1 .. Len(list) + 1 /\ longer[Len(list) + 1] = r
      /\ DOMAIN list = 1 .. Len(list) /\ Len(list) \in Nat
      /\ \A i \in DOMAIN list : longer[i] = list[i]
  BY AppendTyped, ReportsTyped
<1> HIDE DEF longer
<1>2. ASSUME NEW i \in CountedRun(list, at)
      PROVE  i \in CountedRun(longer, at)
  <2>1. i \in DOMAIN list /\ Counted(list[i], at) /\ Reached(list, at, i)
    BY DEF CountedRun
  <2>2. i \in DOMAIN longer /\ longer[i] = list[i]
    BY <1>1, <2>1
  <2>3. ASSUME NEW j \in DOMAIN longer, Newer(longer, j, i)
        PROVE  Counted(longer[j], at)
    <3>1. CASE j \in DOMAIN list
      <4>1. Newer(list, j, i)
        BY <1>1, <2>2, <2>3, <3>1 DEF Newer
      <4> QED BY <1>1, <2>1, <3>1, <4>1 DEF Reached
    <3>2. CASE j = Len(list) + 1
      <4>1. list[i] \in Reports /\ list[i].t <= r.t
        BY <1>1, <2>1, <2>2, <2>3, <3>2, NewerIs, ReportsTyped
      <4>2. at - list[i].t <= consecutive_loss_window
        BY <2>1, <4>1, CountedIs
      <4>3. at - r.t <= consecutive_loss_window
        BY SMTT(60), <4>1, <4>2, PolicyAssumption DEF Reports
      <4> QED BY <1>1, <3>2, <4>3, CountedIs
    <3> QED BY <1>1, <3>1, <3>2
  <2> QED BY <2>1, <2>2, <2>3 DEF CountedRun, Reached
<1> QED BY <1>2 DEF longer

LEMMA LossStepKeeps ==
  ASSUME ListTyped, NEW outcome \in Outcomes, NEW zone \in ZoneModes,
         Report(outcome), outcome.pnl < 0, outcome.t <= clock,
         outcome.zone \in Modes(outcomes),
         Verdict(outcomes)[zone] = "ERR_CONSECUTIVE_LOSS_LIMIT"
  PROVE  Verdict(outcomes')[zone] = "ERR_CONSECUTIVE_LOSS_LIMIT"
<1>1. /\ outcomes \in Seq(Reports) /\ clock \in Nat /\ outcome \in Reports
      /\ outcomes' = Append(outcomes, outcome) /\ clock' = clock
  BY OutcomeIsReport DEF ListTyped, Report
<1>2. /\ outcomes' \in Seq(Reports)
      /\ DOMAIN outcomes' = 1 .. Len(outcomes) + 1
      /\ outcomes'[Len(outcomes) + 1] = outcome
      /\ DOMAIN outcomes = 1 .. Len(outcomes) /\ Len(outcomes) \in Nat
      /\ \A i \in DOMAIN outcomes : outcomes'[i] = outcomes[i]
  BY <1>1, AppendTyped, ReportsTyped
<1>3. evaluate_consecutive_losses(outcomes, Now(zone)) = "ERR_CONSECUTIVE_LOSS_LIMIT"
  BY DEF Verdict
<1>4. /\ outcomes # <<>> /\ ~(Cardinality(Modes(outcomes)) > 1)
      /\ zone \in Modes(outcomes) /\ LimitReached(outcomes, clock)
  BY <1>1, <1>3, LimitVerdict
<1>5. Modes(outcomes') = Modes(outcomes)
  BY <1>2 DEF Modes
<1>6. CountedRun(outcomes, clock) \subseteq CountedRun(outcomes', clock)
  BY <1>1, RunGrows
<1>7. LimitReached(outcomes', clock)
  <2>1. IsFiniteSet(CountedRun(outcomes', clock))
    <3>1. outcomes' \in Seq(Reports) /\ clock \in Int
      BY <1>1, <1>2
    <3> QED BY ONLY <3>1, RunFinite
  <2> QED BY <1>4, <1>6, <2>1, MoreReached DEF LimitReached
<1>8. outcomes' # <<>>
  BY <1>2
<1>9. evaluate_consecutive_losses(outcomes', Now(zone)) = "ERR_CONSECUTIVE_LOSS_LIMIT"
  BY <1>1, <1>2, <1>4, <1>5, <1>7, <1>8, LimitVerdict
<1> QED BY <1>9 DEF Verdict

(* Another loss, however late its report, never opens the gate.            *)
THEOREM LossesOnlyAdd == Spec => LossNeverHelps
<1>1. ListTyped /\ [Next]_reportVars =>
        [\A outcome \in Outcomes, zone \in ZoneModes :
           /\ Report(outcome) /\ outcome.pnl < 0 /\ outcome.t <= clock
           /\ outcome.zone \in Modes(outcomes)
           /\ Verdict(outcomes)[zone] = "ERR_CONSECUTIVE_LOSS_LIMIT"
           => Verdict(outcomes')[zone] = "ERR_CONSECUTIVE_LOSS_LIMIT"]_reportVars
  BY LossStepKeeps
<1> QED BY <1>1, ListInvariant, PTL DEF Spec, LossNeverHelps

-----------------------------------------------------------------------------
(* BlocksLossRuns.                                                         *)

(* Without ties the scan is over a set: what it has counted is newer than  *)
(* all the rest.                                                           *)
LEMMA RunIsNewest ==
  ASSUME NEW list \in Seq(Reports), NEW at \in Int,
         \A i, j \in DOMAIN list : list[i].t = list[j].t => i = j,
         NEW i \in CountedRun(list, at),
         NEW j \in DOMAIN list, j \notin CountedRun(list, at)
  PROVE  list[j].t < list[i].t
<1>1. i \in DOMAIN list /\ Reached(list, at, i) /\ Counted(list[i], at)
  BY DEF CountedRun
<1>2. list[i].t \in Nat /\ list[j].t \in Nat
  BY <1>1, ReportsTyped
<1>3. list[i].t # list[j].t
  BY <1>1
<1>4. ASSUME list[i].t < list[j].t PROVE FALSE
  <2>1. Newer(list, j, i)
    BY <1>1, <1>4, NewerIs
  <2>2. Counted(list[j], at)
    BY <1>1, <2>1 DEF Reached
  <2>3. ASSUME NEW k \in DOMAIN list, Newer(list, k, j)
        PROVE  Counted(list[k], at)
    BY <1>1, <2>1, <2>3, NewerIs DEF Reached
  <2>4. Reached(list, at, j)
    BY <2>3 DEF Reached
  <2> QED BY <2>2, <2>4 DEF CountedRun
<1> QED BY <1>2, <1>3, <1>4

LEMMA RunIsRecentRun ==
  ASSUME ListTyped, DistinctTimes, NothingAhead
  PROVE  LimitReached(outcomes, clock) <=> RecentLossRun
<1>1. outcomes \in Seq(Reports) /\ clock \in Int
  BY DEF ListTyped
<1>2. \A i \in DOMAIN outcomes :
        Counted(outcomes[i], clock) <=> outcomes[i].pnl < 0 /\ Recent(outcomes[i])
  <2> SUFFICES ASSUME NEW i \in DOMAIN outcomes
               PROVE  Counted(outcomes[i], clock) <=>
                        outcomes[i].pnl < 0 /\ Recent(outcomes[i])
    OBVIOUS
  <2>1. outcomes[i] \in Reports /\ outcomes[i].t \in Nat /\ outcomes[i].t <= clock
    BY <1>1, ReportsTyped DEF NothingAhead
  <2> QED BY <1>1, <2>1, CountedIs, PolicyAssumption DEF Recent
<1>3. ASSUME LimitReached(outcomes, clock) PROVE RecentLossRun
  <2> DEFINE run == CountedRun(outcomes, clock)
  <2>1. run \in SUBSET DOMAIN outcomes
    BY DEF CountedRun
  <2>2. Cardinality(run) >= consecutive_loss_limit
    BY <1>3 DEF LimitReached
  <2>3. \A i \in run : outcomes[i].pnl < 0 /\ Recent(outcomes[i])
    BY <1>2 DEF CountedRun
  <2>4. \A i \in run, j \in DOMAIN outcomes \ run : outcomes[j].t < outcomes[i].t
    BY <1>1, RunIsNewest DEF DistinctTimes
  <2> HIDE DEF run
  <2> QED BY <2>1, <2>2, <2>3, <2>4 DEF RecentLossRun
<1>4. ASSUME RecentLossRun PROVE LimitReached(outcomes, clock)
  <2>1. PICK run \in SUBSET DOMAIN outcomes :
          /\ Cardinality(run) >= consecutive_loss_limit
          /\ \A i \in run : outcomes[i].pnl < 0 /\ Recent(outcomes[i])
          /\ \A i \in run, j \in DOMAIN outcomes \ run : outcomes[j].t < outcomes[i].t
    BY <1>4 DEF RecentLossRun
  <2>2. ASSUME NEW i \in run PROVE i \in CountedRun(outcomes, clock)
    <3>1. ASSUME NEW j \in DOMAIN outcomes, Newer(outcomes, j, i) PROVE j \in run
      <4>1. outcomes[i].t <= outcomes[j].t
        BY <1>1, <3>1, NewerIs
      <4>2. outcomes[i].t \in Nat /\ outcomes[j].t \in Nat
        BY <1>1, ReportsTyped
      <4> QED BY <2>1, <4>1, <4>2
    <3> QED BY <1>2, <2>1, <3>1 DEF CountedRun, Reached
  <2>3. run \subseteq CountedRun(outcomes, clock)
    BY <2>2
  <2>4. IsFiniteSet(CountedRun(outcomes, clock))
    BY <1>1, RunFinite
  <2> QED BY <2>1, <2>3, <2>4, MoreReached DEF LimitReached
<1> QED BY <1>3, <1>4

LEMMA RunsAreBlocked == ListTyped => BlocksLossRuns
<1> SUFFICES ASSUME ListTyped, DistinctTimes, NothingAhead,
                    Cardinality(Modes(outcomes)) <= 1, NEW zone \in Modes(outcomes)
             PROVE  Verdict(outcomes)[zone] =
                      IF RecentLossRun THEN "ERR_CONSECUTIVE_LOSS_LIMIT" ELSE "OK"
  BY DEF BlocksLossRuns
<1>1. outcomes \in Seq(Reports) /\ clock \in Nat /\ clock \in Int
  BY DEF ListTyped
<1>2. zone \in ZoneModes /\ outcomes # <<>>
  BY <1>1, ReportsTyped DEF Modes
<1>3. ~(Cardinality(Modes(outcomes)) > 1)
  <2>1. IsFiniteSet(Modes(outcomes))
    <3>1. Modes(outcomes) \in SUBSET {"aware", "naive"}
      BY <1>1, ReportsTyped, ReportsAssumption DEF Modes
    <3>2. IsFiniteSet({"aware", "naive"})
      <4>1. IsFiniteSet({"aware"})
        BY FS_Singleton
      <4>2. IsFiniteSet({"aware"} \cup {"naive"})
        BY <4>1, FS_AddElement
      <4>3. {"aware"} \cup {"naive"} = {"aware", "naive"}
        OBVIOUS
      <4> QED BY <4>2, <4>3
    <3> QED BY <3>1, <3>2, FS_Subset
  <2>2. Cardinality(Modes(outcomes)) \in Nat
    BY <2>1, FS_CardinalityType
  <2> QED BY <2>2
<1>4. evaluate_consecutive_losses(outcomes, Now(zone)) = ScanLosses(outcomes, clock)
  BY <1>1, <1>2, <1>3, VerdictIs
<1>5. ~\E i \in DOMAIN outcomes : clock < outcomes[i].t
  BY <1>1, ReportsTyped DEF NothingAhead
<1>6. ScanLosses(outcomes, clock) =
        IF LimitReached(outcomes, clock) THEN "ERR_CONSECUTIVE_LOSS_LIMIT" ELSE "OK"
  BY <1>5 DEF ScanLosses, LimitReached
<1>7. LimitReached(outcomes, clock) <=> RecentLossRun
  BY RunIsRecentRun
<1> QED BY <1>2, <1>4, <1>6, <1>7 DEF Verdict

(* The gate stops exactly the runs of recent losses, for every limit and   *)
(* window and lists of any length.                                         *)
THEOREM RunsBlocked == Spec => []BlocksLossRuns
BY RunsAreBlocked, ListInvariant, PTL

-----------------------------------------------------------------------------
(* Two lists with the same order of reports, but for old ones in the first *)
(* that the second lacks, give the same scan: f maps each report of b to   *)
(* where it is in a.                                                       *)

SameOrder(a, b, f, at) ==
  /\ f \in [DOMAIN b -> DOMAIN a]
  /\ \A j, k \in DOMAIN b : f[j] = f[k] => j = k
  /\ \A j \in DOMAIN b : b[j] = a[f[j]]
  /\ \A j, k \in DOMAIN b : Newer(b, j, k) <=> Newer(a, f[j], f[k])
  /\ \A i \in DOMAIN a :
       \/ \E j \in DOMAIN b : i = f[j]
       \/ a[i].t < at - consecutive_loss_window

LEMMA ReachedSame ==
  ASSUME NEW a \in Seq(Reports), NEW b \in Seq(Reports), NEW at \in Int, NEW f,
         SameOrder(a, b, f, at), NEW j \in DOMAIN b,
         b[j].t >= at - consecutive_loss_window
  PROVE  Reached(b, at, j) <=> Reached(a, at, f[j])
<1>1. ASSUME Reached(a, at, f[j]), NEW k \in DOMAIN b, Newer(b, k, j)
      PROVE  Counted(b[k], at)
  BY <1>1 DEF SameOrder, Reached
<1>2. ASSUME Reached(b, at, j), NEW i \in DOMAIN a, Newer(a, i, f[j])
      PROVE  Counted(a[i], at)
  <2>1. CASE \E k \in DOMAIN b : i = f[k]
    BY <1>2, <2>1 DEF SameOrder, Reached
  <2>2. CASE a[i].t < at - consecutive_loss_window
    <3>1. f[j] \in DOMAIN a /\ a[f[j]] = b[j]
      BY DEF SameOrder
    <3>2. b[j].t <= a[i].t
      BY <1>2, <3>1, NewerIs
    <3>3. a[i].t \in Nat /\ b[j].t \in Nat
      BY ReportsTyped
    <3> QED BY <2>2, <3>2, <3>3, PolicyAssumption
  <2> QED BY <2>1, <2>2 DEF SameOrder
<1> QED BY <1>1, <1>2 DEF Reached

LEMMA RunSame ==
  ASSUME NEW a \in Seq(Reports), NEW b \in Seq(Reports), NEW at \in Int, NEW f,
         SameOrder(a, b, f, at)
  PROVE  Cardinality(CountedRun(a, at)) = Cardinality(CountedRun(b, at))
<1> DEFINE g == [j \in CountedRun(b, at) |-> f[j]]
<1>1. ASSUME NEW j \in DOMAIN b
      PROVE  j \in CountedRun(b, at) <=> f[j] \in CountedRun(a, at)
  <2>1. f[j] \in DOMAIN a /\ a[f[j]] = b[j]
    BY DEF SameOrder
  <2>2. Counted(b[j], at) => b[j].t >= at - consecutive_loss_window
    BY ReportsTyped, CountedIs, PolicyAssumption
  <2> QED BY <2>1, <2>2, ReachedSame DEF CountedRun
<1>2. \A i \in CountedRun(a, at) : \E j \in CountedRun(b, at) : i = f[j]
  <2> SUFFICES ASSUME NEW i \in CountedRun(a, at)
               PROVE  \E j \in CountedRun(b, at) : i = f[j]
    OBVIOUS
  <2>1. i \in DOMAIN a /\ Counted(a[i], at)
    BY DEF CountedRun
  <2>2. ~(a[i].t < at - consecutive_loss_window)
    BY <2>1, ReportsTyped, CountedIs, PolicyAssumption
  <2>3. PICK j \in DOMAIN b : i = f[j]
    BY <2>1, <2>2 DEF SameOrder
  <2> QED BY <1>1, <2>3
<1>3. \A j \in CountedRun(b, at) : j \in DOMAIN b
  BY DEF CountedRun
<1>4. g \in Bijection(CountedRun(b, at), CountedRun(a, at))
  <2>1. g \in [CountedRun(b, at) -> CountedRun(a, at)]
    BY <1>1, <1>3
  <2>2. \A j, k \in CountedRun(b, at) : g[j] = g[k] => j = k
    BY <1>3 DEF SameOrder
  <2>3. \A i \in CountedRun(a, at) : \E j \in CountedRun(b, at) : g[j] = i
    BY <1>2
  <2> QED BY <2>1, <2>2, <2>3 DEF Bijection, Injection, IsInjective, Surjection
<1>5. IsFiniteSet(CountedRun(b, at))
  BY RunFinite
<1> HIDE DEF g
<1> QED BY <1>4, <1>5, FS_Bijection DEF ExistsBijection

LEMMA ScanSame ==
  ASSUME NEW a \in Seq(Reports), NEW b \in Seq(Reports), NEW at \in Int, NEW f,
         SameOrder(a, b, f, at)
  PROVE  ScanLosses(a, at) = ScanLosses(b, at)
<1> DEFINE Ahead(list) ==
      \E i \in DOMAIN list : Reached(list, at, i) /\ list[i].pnl < 0 /\ at < list[i].t
<1>1. ASSUME Ahead(b) PROVE Ahead(a)
  <2>1. PICK j \in DOMAIN b : Reached(b, at, j) /\ b[j].pnl < 0 /\ at < b[j].t
    BY <1>1
  <2>2. b[j].t >= at - consecutive_loss_window
    BY <2>1, ReportsTyped, LimitAssumption, PolicyAssumption
  <2>3. f[j] \in DOMAIN a /\ a[f[j]] = b[j]
    BY DEF SameOrder
  <2> QED BY <2>1, <2>2, <2>3, ReachedSame
<1>2. ASSUME Ahead(a) PROVE Ahead(b)
  <2>1. PICK i \in DOMAIN a : Reached(a, at, i) /\ a[i].pnl < 0 /\ at < a[i].t
    BY <1>2
  <2>2. a[i].t \in Nat /\ ~(a[i].t < at - consecutive_loss_window)
        /\ a[i].t >= at - consecutive_loss_window
    BY SMTT(60), <2>1, ReportsTyped, LimitAssumption, PolicyAssumption
  <2>3. PICK j \in DOMAIN b : i = f[j]
    BY <2>2 DEF SameOrder
  <2>4. b[j] = a[i]
    BY <2>3 DEF SameOrder
  <2> QED BY <2>1, <2>2, <2>3, <2>4, ReachedSame
<1>3. Cardinality(CountedRun(a, at)) = Cardinality(CountedRun(b, at))
  BY RunSame
<1> QED BY <1>1, <1>2, <1>3 DEF ScanLosses

LEMMA NoModes ==
  ASSUME NEW list \in Seq(Reports)
  PROVE  list = <<>> <=> Modes(list) = {}
<1>1. list = <<>> <=> DOMAIN list = {}
  OBVIOUS
<1> QED BY <1>1 DEF Modes

(* Lists that are the same to the scan and to the checks before it.        *)
LEMMA VerdictSame ==
  ASSUME NEW a \in Seq(Reports), NEW b \in Seq(Reports), clock \in Nat, NEW f,
         SameOrder(a, b, f, clock), Modes(a) = Modes(b)
  PROVE  Verdict(a) = Verdict(b)
<1>1. a = <<>> <=> b = <<>>
  BY NoModes
<1>2. ScanLosses(a, clock) = ScanLosses(b, clock)
  BY ScanSame
<1>3. \A zone \in ZoneModes :
        evaluate_consecutive_losses(a, Now(zone))
          = evaluate_consecutive_losses(b, Now(zone))
  <2> TAKE zone \in ZoneModes
  <2> QED BY <1>1, <1>2, VerdictIs
<1> QED BY <1>3 DEF Verdict

LEMMA OldIsSame ==
  ASSUME ListTyped, NEW i \in DOMAIN outcomes, ~Recent(outcomes[i]),
         Modes(Without(i)) = Modes(outcomes)
  PROVE  Verdict(Without(i)) = Verdict(outcomes)
<1> DEFINE f == [j \in 1 .. Len(outcomes) - 1 |-> IF j < i THEN j ELSE j + 1]
<1>1. /\ outcomes \in Seq(Reports) /\ clock \in Nat
      /\ Len(outcomes) \in Nat /\ DOMAIN outcomes = 1 .. Len(outcomes)
  BY ReportsTyped DEF ListTyped
<1>2. /\ Without(i) \in Seq(Reports)
      /\ DOMAIN Without(i) = 1 .. Len(outcomes) - 1
      /\ \A j \in 1 .. Len(outcomes) - 1 :
           Without(i)[j] = outcomes[f[j]] /\ f[j] \in DOMAIN outcomes
  BY WithoutTyped
<1>3. outcomes[i].t < clock - consecutive_loss_window
  BY <1>1, ReportsTyped, PolicyAssumption DEF Recent
<1>4. \A k \in DOMAIN outcomes \ {i} : \E j \in 1 .. Len(outcomes) - 1 : k = f[j]
  <2> SUFFICES ASSUME NEW k \in DOMAIN outcomes, k # i
               PROVE  \E j \in 1 .. Len(outcomes) - 1 : k = f[j]
    OBVIOUS
  <2>1. CASE k < i
    <3>1. k \in 1 .. Len(outcomes) - 1 /\ f[k] = k
      BY <1>1, <2>1
    <3> QED BY <3>1
  <2>2. CASE k > i
    <3>1. k - 1 \in 1 .. Len(outcomes) - 1 /\ f[k - 1] = k
      BY <1>1, <2>2
    <3> QED BY <3>1
  <2> QED BY <1>1, <2>1, <2>2
<1>5. \A j, k \in 1 .. Len(outcomes) - 1 : j > k <=> f[j] > f[k]
  BY <1>1
<1>6. SameOrder(outcomes, Without(i), f, clock)
  <2>1. \A j, k \in 1 .. Len(outcomes) - 1 : f[j] = f[k] => j = k
    BY <1>1
  <2>2. f \in [DOMAIN Without(i) -> DOMAIN outcomes]
    BY <1>2
  <2> HIDE DEF f
  <2>3. \A j, k \in 1 .. Len(outcomes) - 1 :
          Newer(Without(i), j, k) <=> Newer(outcomes, f[j], f[k])
    BY <1>2, <1>5 DEF Newer
  <2> QED BY <1>2, <1>3, <1>4, <2>1, <2>2, <2>3 DEF SameOrder
<1> HIDE DEF f
<1> QED BY <1>1, <1>2, <1>6, VerdictSame

(* A caller may drop what is older than the window, for lists of any       *)
(* length, as long as something is left to tell the zone mode.             *)
THEOREM PruningIsSafe == Spec => []OldOutcomesDoNotMatter
<1>1. ListTyped => OldOutcomesDoNotMatter
  BY OldIsSame DEF OldOutcomesDoNotMatter
<1> QED BY <1>1, ListInvariant, PTL

LEMMA SwapIsSame ==
  ASSUME ListTyped, DistinctTimes, NEW i \in 1 .. Len(outcomes) - 1
  PROVE  Verdict([outcomes EXCEPT ![i] = outcomes[i + 1], ![i + 1] = outcomes[i]])
           = Verdict(outcomes)
<1> DEFINE swapped == [outcomes EXCEPT ![i] = outcomes[i + 1], ![i + 1] = outcomes[i]]
           f == [j \in DOMAIN outcomes |->
                   IF j = i THEN i + 1 ELSE IF j = i + 1 THEN i ELSE j]
<1>1. /\ outcomes \in Seq(Reports) /\ clock \in Nat
      /\ Len(outcomes) \in Nat /\ DOMAIN outcomes = 1 .. Len(outcomes)
      /\ \A j \in DOMAIN outcomes : outcomes[j] \in Reports /\ outcomes[j].t \in Nat
  BY ReportsTyped DEF ListTyped
<1>2. i \in DOMAIN outcomes /\ i + 1 \in DOMAIN outcomes /\ i \in Int
  BY <1>1
<1>3. /\ \A j \in DOMAIN outcomes : f[j] \in DOMAIN outcomes /\ f[f[j]] = j
      /\ f \in [DOMAIN outcomes -> DOMAIN outcomes]
  BY <1>2
<1>4. DOMAIN swapped = DOMAIN outcomes
      /\ \A j \in DOMAIN outcomes : swapped[j] = outcomes[f[j]]
  BY <1>2
<1>5. swapped \in Seq(Reports)
  <2>1. swapped \in [1 .. Len(outcomes) -> Reports]
    BY <1>1, <1>2
  <2> QED BY <1>1, <2>1
<1> HIDE DEF f, swapped
<1>6. \A j, k \in DOMAIN outcomes : f[j] = f[k] => j = k
  BY <1>3
<1>7. \A j, k \in DOMAIN outcomes :
        Newer(swapped, j, k) <=> Newer(outcomes, f[j], f[k])
  <2> SUFFICES ASSUME NEW j \in DOMAIN outcomes, NEW k \in DOMAIN outcomes
               PROVE  Newer(swapped, j, k) <=> Newer(outcomes, f[j], f[k])
    OBVIOUS
  <2>1. f[j] \in DOMAIN outcomes /\ f[k] \in DOMAIN outcomes
    BY <1>3
  <2>2. swapped[j] = outcomes[f[j]] /\ swapped[k] = outcomes[f[k]]
    BY <1>4
  <2>3. outcomes[f[j]].t = outcomes[f[k]].t => f[j] = f[k] /\ j = k
    BY <1>6, <2>1 DEF DistinctTimes
  <2>4. j \in Int /\ k \in Int /\ f[j] \in Int /\ f[k] \in Int
    BY <1>1, <2>1
  <2> QED BY <2>2, <2>3, <2>4 DEF Newer
<1>8. SameOrder(outcomes, swapped, f, clock)
  BY <1>3, <1>4, <1>6, <1>7 DEF SameOrder
<1>9. Modes(swapped) = Modes(outcomes)
  BY <1>3, <1>4 DEF Modes
<1>10. Verdict(outcomes) = Verdict(swapped)
  BY <1>1, <1>5, <1>8, <1>9, VerdictSame
<1> QED BY <1>10 DEF swapped

(* The order in which reports arrive does not matter, but between ties.    *)
THEOREM OrderIrrelevant == Spec => []ArrivalOrderDoesNotMatter
<1>1. ListTyped => ArrivalOrderDoesNotMatter
  BY SwapIsSame DEF ArrivalOrderDoesNotMatter
<1> QED BY <1>1, ListInvariant, PTL

-----------------------------------------------------------------------------
(* OmittedTimeNeverHelps.                                                  *)

LEMMA GreatestExists ==
  ASSUME NEW last \in Nat, NEW S \in SUBSET (0 .. last), S # {}
  PROVE  \E x \in S : \A y \in S : x >= y
<1> DEFINE before == {last - s : s \in S}
<1>1. \A s \in S : s \in Nat /\ last - s \in Nat /\ last - s \in before
  OBVIOUS
<1>2. before \subseteq Nat /\ before # {}
  BY <1>1
<1>3. \E least \in before : \A n \in before : ~(<<n, least>> \in OpToRel(<, Nat))
  <2> HIDE DEF before
  <2> QED BY <1>2, NatLessThanWellFounded, WFMin
<1>4. PICK least \in before : \A n \in before : ~(<<n, least>> \in OpToRel(<, Nat))
  BY <1>3
<1>5. PICK x \in S : least = last - x
  OBVIOUS
<1>6. \A n \in before : n \in Nat /\ least \in Nat /\ ~(n < least)
  BY <1>2, <1>4 DEF OpToRel
<1>7. ASSUME NEW y \in S PROVE x >= y
  <2>1. x \in Nat /\ y \in Nat /\ last - y \in before
    BY <1>1
  <2>2. ~(last - y < last - x)
    BY <1>5, <1>6, <2>1
  <2> QED BY <2>1, <2>2
<1> QED BY <1>7

(* A list that is not empty has a latest stamp.                            *)
LEMMA LatestExists ==
  ASSUME ListTyped, outcomes # <<>>
  PROVE  /\ \A i \in DOMAIN outcomes : outcomes[i].t <= LatestStamp(outcomes)
         /\ \E i \in DOMAIN outcomes : outcomes[i].t = LatestStamp(outcomes)
<1> DEFINE stamps == {outcomes[i].t : i \in DOMAIN outcomes}
<1>1. outcomes \in Seq(Reports) /\ clock + MaxSkew \in Nat
  BY ReportsAssumption DEF ListTyped
<1>2. \A i \in DOMAIN outcomes : outcomes[i].t \in 0 .. clock + MaxSkew
  BY DEF ListTyped, Outcomes
<1>3. stamps \in SUBSET (0 .. clock + MaxSkew)
  BY <1>2
<1>4. DOMAIN outcomes # {}
  <2>1. outcomes \in Seq(Reports)
    BY DEF ListTyped
  <2>2. \A list \in Seq(Reports) : DOMAIN list = {} => list = <<>>
    OBVIOUS
  <2> QED BY ONLY <2>1, <2>2, outcomes # <<>>
<1>5. stamps # {}
  BY <1>4
<1>6. \E x \in stamps : \A y \in stamps : x >= y
  <2> HIDE DEF stamps
  <2> QED BY ONLY <1>1, <1>3, <1>5, GreatestExists
<1>7. LatestStamp(outcomes) \in stamps
      /\ \A y \in stamps : LatestStamp(outcomes) >= y
  <2>1. LatestStamp(outcomes) = Max(stamps)
    BY DEF LatestStamp
  <2> HIDE DEF stamps
  <2> QED BY <1>6, <2>1 DEF Max
<1>8. LatestStamp(outcomes) \in Nat /\ \A i \in DOMAIN outcomes : outcomes[i].t \in Nat
  BY <1>1, <1>3, <1>7, ReportsTyped
<1> QED BY <1>7, <1>8

(* What is counted by the clock is counted by the newest outcome.          *)
LEMMA RunByLatest ==
  ASSUME ListTyped, outcomes # <<>>, NEW first \in CountedRun(outcomes, clock)
  PROVE  CountedRun(outcomes, clock)
           \subseteq CountedRun(outcomes, LatestStamp(outcomes))
<1> DEFINE at == LatestStamp(outcomes)
<1>1. /\ outcomes \in Seq(Reports) /\ clock \in Nat
      /\ \A i \in DOMAIN outcomes : outcomes[i] \in Reports /\ outcomes[i].t \in Nat
  BY ReportsTyped DEF ListTyped
<1>2. PICK latest \in DOMAIN outcomes : outcomes[latest].t = at
  BY LatestExists
<1>3. at \in Nat /\ \A i \in DOMAIN outcomes : outcomes[i].t <= at
  BY <1>1, <1>2, LatestExists
<1> HIDE DEF at
<1>4. at <= clock
  <2>1. /\ first \in DOMAIN outcomes /\ Counted(outcomes[first], clock)
        /\ Reached(outcomes, clock, first)
    BY DEF CountedRun
  <2>2. outcomes[first].t <= clock
    BY <1>1, <2>1, CountedIs
  <2>3. CASE outcomes[first].t < at
    <3>1. Newer(outcomes, latest, first)
      BY <1>1, <1>2, <2>1, <2>3, NewerIs
    <3>2. Counted(outcomes[latest], clock)
      BY <2>1, <3>1 DEF Reached
    <3> QED BY <1>1, <1>2, <3>2, CountedIs
  <2>4. CASE outcomes[first].t >= at
    BY <1>1, <1>3, <2>1, <2>2, <2>4
  <2> QED BY <1>1, <1>3, <2>1, <2>3, <2>4
<1>5. \A i \in DOMAIN outcomes :
        Counted(outcomes[i], clock) => Counted(outcomes[i], at)
  <2> SUFFICES ASSUME NEW i \in DOMAIN outcomes, Counted(outcomes[i], clock)
               PROVE  Counted(outcomes[i], at)
    OBVIOUS
  <2>1. /\ outcomes[i].pnl < 0 /\ outcomes[i].t <= clock
        /\ clock - outcomes[i].t <= consecutive_loss_window
    BY <1>1, CountedIs
  <2>2. at - outcomes[i].t <= consecutive_loss_window
    BY SMTT(60), <1>1, <1>3, <1>4, <2>1, PolicyAssumption
  <2> QED BY <1>1, <1>3, <2>1, <2>2, CountedIs
<1> QED BY <1>5 DEF CountedRun, Reached, at

LEMMA OmittedIsStricter ==
  ASSUME ListTyped, NEW zone \in ZoneModes,
         Verdict(outcomes)[zone] = "ERR_CONSECUTIVE_LOSS_LIMIT"
  PROVE  evaluate_consecutive_losses(outcomes, None) = "ERR_CONSECUTIVE_LOSS_LIMIT"
<1> DEFINE at == LatestStamp(outcomes)
<1>1. outcomes \in Seq(Reports) /\ clock \in Nat /\ clock \in Int
  BY DEF ListTyped
<1>2. /\ outcomes # <<>> /\ ~(Cardinality(Modes(outcomes)) > 1)
      /\ LimitReached(outcomes, clock)
  BY <1>1, LimitVerdict DEF Verdict
<1>3. CountedRun(outcomes, clock) # {}
  <2>1. Cardinality({}) = 0
    BY FS_EmptySet
  <2>2. ~(0 >= consecutive_loss_limit)
    BY LimitAssumption, PolicyAssumption
  <2> QED BY ONLY <1>2, <2>1, <2>2 DEF LimitReached
<1>4. CountedRun(outcomes, clock) \subseteq CountedRun(outcomes, at)
  BY <1>2, <1>3, RunByLatest
<1>5. at \in Int
  BY <1>1, <1>2, LatestExists, ReportsTyped
<1>6. IsFiniteSet(CountedRun(outcomes, at))
  BY <1>1, <1>5, RunFinite
<1>7. LimitReached(outcomes, at)
  BY <1>2, <1>4, <1>6, MoreReached DEF LimitReached
<1>8. ~\E i \in DOMAIN outcomes : ~Finite(outcomes[i].pnl)
  BY <1>1, ReportsTyped, NanAssumption DEF Finite
<1>9. /\ ~(consecutive_loss_limit < 0 \/ consecutive_loss_window < 0)
      /\ consecutive_loss_limit # 0
  BY LimitAssumption, PolicyAssumption
<1> QED BY ONLY <1>2, <1>7, <1>8, <1>9
           DEF evaluate_consecutive_losses, ScanLosses, LimitReached

(* A caller that leaves the time out is judged no more mildly.             *)
THEOREM OmittingIsStricter == Spec => []OmittedTimeNeverHelps
<1>1. ListTyped => OmittedTimeNeverHelps
  BY OmittedIsStricter DEF OmittedTimeNeverHelps
<1> QED BY <1>1, ListInvariant, PTL
=============================================================================
