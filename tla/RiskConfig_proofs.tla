-------------------------- MODULE RiskConfig_proofs --------------------------
(***************************************************************************)
(* Proofs about RiskConfig, for whatever operators write into the file.    *)
(***************************************************************************)
EXTENDS RiskConfig, TLAPS

FileTyped == DOMAIN file \subseteq Keys /\ \A key \in DOMAIN file : file[key] \in Scalars

FractionInRange ==
  "kelly_conservative_fraction" \in DOMAIN config =>
    config.kelly_conservative_fraction \in 1 .. One

ConfigInv == FileTyped /\ ContextInRange /\ FractionInRange

LEMMA KeysAre ==
  Keys = {"max_daily_drawdown_pct", "max_correlated_exposure",
          "max_cluster_usd", "min_expected_value", "max_consecutive_losses",
          "time_window_seconds", "conservative_fraction"}
BY DEF Keys, Sections

LEMMA FileTypedStep == FileTyped /\ [Next]_configVars => FileTyped'
<1> SUFFICES ASSUME FileTyped, [Next]_configVars PROVE FileTyped'
  OBVIOUS
<1>1. ASSUME NEW key \in Keys, NEW scalar \in Scalars, Edit(key, scalar)
      PROVE  FileTyped'
  BY <1>1 DEF Edit, FileTyped
<1>2. ASSUME NEW key \in DOMAIN file, Delete(key) PROVE FileTyped'
  BY <1>2 DEF Delete, Without, FileTyped
<1>3. ASSUME NEW section \in DOMAIN Sections, BreakSection(section) PROVE FileTyped'
  BY <1>3 DEF BreakSection, Without, FileTyped
<1>4. CASE BreakFile
  BY <1>4 DEF BreakFile, FileTyped
<1>5. CASE Start \/ UNCHANGED configVars
  BY <1>5 DEF Start, configVars, FileTyped
<1> QED BY <1>1, <1>2, <1>3, <1>4, <1>5 DEF Next

(* What the loader lets through of each field.                             *)
LEMMA AcceptedRanges ==
  ASSUME NEW key, NEW scalar \in Scalars, FieldAccepts(key, scalar),
         Finite(scalar.value)
  PROVE  /\ scalar.value \in Int
         /\ key \in {"max_daily_drawdown_pct", "conservative_fraction"} =>
              scalar.value \in 1 .. One
         /\ key \in {"max_correlated_exposure", "max_cluster_usd",
                     "time_window_seconds"} => scalar.value \in Nat \ {0}
         /\ key = "max_consecutive_losses" => scalar.value \in Nat
BY ScalarsAssumption, FloatAssumption, OneAssumption
   DEF FieldAccepts, InUnitInterval, Less, AtMost, Finite

(* A fraction that is NaN or infinite is not in (0, 1].                    *)
LEMMA AcceptedFraction ==
  ASSUME NEW scalar \in Scalars, FieldAccepts("conservative_fraction", scalar)
  PROVE  scalar.value \in 1 .. One
BY ScalarsAssumption, FloatAssumption, OneAssumption
   DEF FieldAccepts, InUnitInterval, Less, AtMost, Finite

(* The field that is returned under a name.                                *)
LEMMA LoadedFrom ==
  ASSUME FileTyped, NEW key \in DOMAIN file
  PROVE  Output[key] \in DOMAIN Loaded /\ Loaded[Output[key]] = file[key].value
<1>1. key \in Keys
  BY DEF FileTyped
<1>2. \A k \in Keys : Output[k] = Output[key] => k = key
  BY <1>1, KeysAre DEF Output
<1>3. (CHOOSE k \in Keys : Output[k] = Output[key]) = key
  BY <1>1, <1>2
<1> QED BY <1>3 DEF Loaded

LEMMA LoadedOnlyFrom ==
  ASSUME NEW name \in DOMAIN Loaded
  PROVE  \E key \in DOMAIN file : name = Output[key]
BY DEF Loaded

LEMMA ContextLoaded ==
  ASSUME FileTyped, Loads, ContextAccepts(Context(Loaded)), NEW name \in DOMAIN Defaults
  PROVE  \/ Context(Loaded)[name] = Defaults[name]
         \/ \E key \in DOMAIN file :
              /\ name = Output[key] /\ Context(Loaded)[name] = file[key].value
              /\ FieldAccepts(key, file[key]) /\ Finite(file[key].value)
<1>1. CASE name \notin DOMAIN Loaded
  BY <1>1 DEF Context
<1>2. CASE name \in DOMAIN Loaded
  <2>1. PICK key \in DOMAIN file : name = Output[key]
    BY <1>2, LoadedOnlyFrom
  <2>2. Context(Loaded)[name] = file[key].value
    BY <1>2, <2>1, LoadedFrom DEF Context
  <2>3. Finite(Context(Loaded)[name])
    BY DEF ContextAccepts, Context
  <2> QED BY <2>1, <2>2, <2>3 DEF Loads
<1> QED BY <1>1, <1>2

LEMMA StartInRange ==
  ASSUME FileTyped, Start
  PROVE  ContextInRange' /\ FractionInRange'
<1>1. Loads /\ ContextAccepts(Context(Loaded)) /\ config' = Loaded /\ ctx' = Context(Loaded)
  BY DEF Start
<1>2. DOMAIN Defaults = {"max_daily_drawdown_pct", "max_correlated_exposure",
        "min_expected_value", "consecutive_loss_limit",
        "consecutive_loss_window_minutes"}
  BY DEF Defaults
<1>3. /\ Output["max_daily_drawdown_pct"] = "max_daily_drawdown_pct"
      /\ Output["max_correlated_exposure"] = "max_correlated_exposure"
      /\ Output["max_cluster_usd"] = "max_cluster_usd"
      /\ Output["min_expected_value"] = "min_expected_value"
      /\ Output["max_consecutive_losses"] = "consecutive_loss_limit"
      /\ Output["time_window_seconds"] = "consecutive_loss_window_minutes"
      /\ Output["conservative_fraction"] = "kelly_conservative_fraction"
  BY KeysAre DEF Output
<1>4. \A name \in DOMAIN Defaults :
        \/ ctx'[name] = Defaults[name]
        \/ \E key \in Keys, scalar \in Scalars :
             /\ name = Output[key] /\ ctx'[name] = scalar.value
             /\ FieldAccepts(key, scalar) /\ Finite(scalar.value)
  <2> SUFFICES ASSUME NEW name \in DOMAIN Defaults,
                      Context(Loaded)[name] # Defaults[name]
               PROVE  \E key \in Keys, scalar \in Scalars :
                        /\ name = Output[key] /\ Context(Loaded)[name] = scalar.value
                        /\ FieldAccepts(key, scalar) /\ Finite(scalar.value)
    BY <1>1
  <2>1. PICK key \in DOMAIN file :
               /\ name = Output[key] /\ Context(Loaded)[name] = file[key].value
               /\ FieldAccepts(key, file[key]) /\ Finite(file[key].value)
    BY <1>1, ContextLoaded
  <2>2. key \in Keys /\ file[key] \in Scalars
    BY DEF FileTyped
  <2> QED BY <2>1, <2>2
<1>5. ctx'.max_daily_drawdown_pct \in 1 .. One
  <2>1. Defaults.max_daily_drawdown_pct \in 1 .. One
    BY OneAssumption DEF Defaults
  <2> QED BY SMTT(60), <1>2, <1>3, <1>4, <2>1, KeysAre, AcceptedRanges
<1>6. ctx'.max_correlated_exposure \in Nat \ {0}
  <2>1. Defaults.max_correlated_exposure \in Nat \ {0}
    BY OneAssumption DEF Defaults
  <2> QED BY SMTT(60), <1>2, <1>3, <1>4, <2>1, KeysAre, AcceptedRanges
<1>7. ctx'.min_expected_value \in Int
  <2>1. Defaults.min_expected_value \in Int
    BY DEF Defaults
  <2> QED BY SMTT(60), <1>2, <1>3, <1>4, <2>1, KeysAre, AcceptedRanges
<1>8. ctx'.consecutive_loss_limit \in Nat
  <2>1. Defaults.consecutive_loss_limit \in Nat
    BY DEF Defaults
  <2> QED BY SMTT(60), <1>2, <1>3, <1>4, <2>1, KeysAre, AcceptedRanges
<1>9. ctx'.consecutive_loss_window_minutes \in Nat \ {0}
  <2>1. Defaults.consecutive_loss_window_minutes \in Nat \ {0}
    BY OneAssumption DEF Defaults
  <2> QED BY SMTT(60), <1>2, <1>3, <1>4, <2>1, KeysAre, AcceptedRanges
<1>10. FractionInRange'
  <2> SUFFICES ASSUME "kelly_conservative_fraction" \in DOMAIN Loaded
               PROVE  Loaded.kelly_conservative_fraction \in 1 .. One
    BY <1>1 DEF FractionInRange
  <2>1. PICK key \in DOMAIN file : "kelly_conservative_fraction" = Output[key]
    BY LoadedOnlyFrom
  <2>2. key \in Keys /\ file[key] \in Scalars
    BY DEF FileTyped
  <2>3. key = "conservative_fraction"
    BY <1>3, <2>1, <2>2, KeysAre
  <2>4. Loaded.kelly_conservative_fraction = file[key].value
    BY <2>1, LoadedFrom
  <2> QED BY <1>1, <2>2, <2>3, <2>4, AcceptedFraction DEF Loads
<1> QED BY <1>5, <1>6, <1>7, <1>8, <1>9, <1>10 DEF ContextInRange

LEMMA ConfigInvariant == Spec => []ConfigInv
<1>1. Init => ConfigInv
  BY OneAssumption DEF Init, ConfigInv, FileTyped, ContextInRange, FractionInRange, Defaults
<1>2. ConfigInv /\ [Next]_configVars => ConfigInv'
  <2> SUFFICES ASSUME ConfigInv, [Next]_configVars PROVE ConfigInv'
    OBVIOUS
  <2>1. FileTyped'
    BY FileTypedStep DEF ConfigInv
  <2>2. CASE UNCHANGED <<config, ctx>>
    BY <2>1, <2>2 DEF ConfigInv, ContextInRange, FractionInRange
  <2>3. Start \/ UNCHANGED <<config, ctx>>
    BY DEF Next, Edit, Delete, BreakSection, BreakFile, configVars
  <2> QED BY <2>1, <2>2, <2>3, StartInRange DEF ConfigInv
<1> QED BY <1>1, <1>2, PTL DEF Spec

(* Whatever is written into the file, the policy in force is in range.     *)
THEOREM PolicyInRange == Spec => []ContextInRange
<1>1. ConfigInv => ContextInRange
  BY DEF ConfigInv
<1> QED BY <1>1, ConfigInvariant, PTL

-----------------------------------------------------------------------------
(* kelly_fraction: with c a common factor, the full stake is c * (p - q)   *)
(* of c * (One - q).                                                       *)

LEMMA EdgeIs ==
  ASSUME NEW p \in Int, NEW q \in Int
  PROVE  p * (One - q) - (One - p) * q = One * (p - q)
BY OneAssumption

(* The condition of the greatest growth, multiplied out.                   *)
LEMMA Growth ==
  ASSUME NEW c \in Int, NEW p \in Int, NEW q \in Int,
         NEW whole, whole = c * (One - q), NEW f, f = c * (p - q)
  PROVE  p * (One - q) * (whole - f) = (One - p) * (whole * q + f * (One - q))
<1> DEFINE r == One - q
<1>1. r \in Int /\ One \in Int
  BY OneAssumption
<1>2. whole - f = c * (One - p)
  BY OneAssumption
<1>3. whole * q + f * r = c * (r * p)
  BY OneAssumption
<1>4. p * r * (c * (One - p)) = (One - p) * (c * (r * p))
  <2> HIDE DEF r
  <2> QED BY <1>1
<1> QED BY <1>2, <1>3, <1>4

LEMMA StakeOptimal ==
  ASSUME NEW k \in 1 .. One, NEW p \in 1 .. One - 1, NEW q \in 1 .. One - 1
  PROVE  LET stake == kelly_fraction(p, q, k)
             f == stake.n * One
             whole == stake.d * k
         IN /\ stake # ValueError
            /\ p <= q => stake = Zero
            /\ p > q =>
                 /\ stake.n > 0 /\ stake.n * One <= stake.d * k
                 /\ p * (One - q) * (whole - f)
                      = (One - p) * (whole * q + f * (One - q))
<1> DEFINE stake == kelly_fraction(p, q, k)
           c == One * One * k
<1>1. One \in Nat /\ One > 0 /\ k \in Nat /\ p \in Nat /\ q \in Nat
  BY OneAssumption
<1>2. stake = Stake(p, q, k)
  BY <1>1, FloatAssumption
     DEF kelly_fraction, Finite, InUnitInterval, Probable, Less, AtMost
<1>3. p * (One - q) - (One - p) * q = One * (p - q)
  BY EdgeIs
<1>4. CASE p <= q
  <2>1. One * (p - q) <= 0
    BY <1>1, <1>4
  <2>2. stake = Zero
    BY <1>2, <1>3, <2>1 DEF Stake
  <2> QED BY <1>4, <2>2, <1>1 DEF Zero, ValueError
<1>5. CASE p > q
  <2>1. One * (p - q) > 0
    BY <1>1, <1>5
  <2>2. stake = [n |-> One * (p - q) * k, d |-> One * (One - q) * One]
    <3>1. ~ (p * (One - q) - (One - p) * q <= 0)
      BY ONLY <1>1, <1>3, <2>1
    <3>2. Stake(p, q, k) = [n |-> (p * (One - q) - (One - p) * q) * k,
                            d |-> One * (One - q) * One]
      BY ONLY <3>1 DEF Stake
    <3> QED BY ONLY <1>2, <1>3, <3>2
  <2>3. c \in Nat /\ c > 0
    BY <1>1
  <2>4. stake.n * One = c * (p - q) /\ stake.d * k = c * (One - q)
    BY <1>1, <2>2
  <2>5. stake.n > 0
    BY <1>1, <2>1, <2>2
  <2>6. c * (p - q) <= c * (One - q)
    <3>1. p - q <= One - q /\ p - q \in Int /\ One - q \in Int
      BY <1>1
    <3> HIDE DEF c
    <3> QED BY <2>3, <3>1
  <2>7. p * (One - q) * (stake.d * k - stake.n * One)
          = (One - p) * (stake.d * k * q + stake.n * One * (One - q))
    <3> HIDE DEF c, stake
    <3> QED BY <1>1, <2>3, <2>4, Growth
  <2>8. stake # ValueError
    BY <2>5 DEF ValueError
  <2> QED BY <1>1, <1>5, <2>4, <2>5, <2>6, <2>7, <2>8
<1> QED BY <1>1, <1>4, <1>5

(* A fraction that was loaded never raises in kelly_fraction, and the      *)
(* stake is the one of the greatest growth, for any unit of price.         *)
THEOREM StakeCorrect == Spec => []StakeIsOptimal
<1>1. ConfigInv => StakeIsOptimal
  BY StakeOptimal DEF ConfigInv, FractionInRange, StakeIsOptimal
<1> QED BY <1>1, ConfigInvariant, PTL
=============================================================================
