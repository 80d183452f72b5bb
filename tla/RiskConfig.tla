----------------------------- MODULE RiskConfig -----------------------------
(***************************************************************************)
(* From the file of desk controls to the policy in force: load_risk_config *)
(* (config.py) checks the file, RiskContext (state.py) takes what it knows *)
(* of the result, and kelly_fraction (kelly.py) sizes bets with a fraction *)
(* that is loaded with it.  Operators edit the file at any time and have   *)
(* the desk load it again.                                                 *)
(*                                                                         *)
(* Numbers are counted in units of 1 / One, the window of the loss gate in *)
(* seconds of that, in the RiskContext too.  A scalar of the file has a    *)
(* YAML type and a value.                                                  *)
(***************************************************************************)
EXTENDS Integers, FiniteSets

CONSTANTS
  Nan, Inf,  \* floats that are not numbers, or not finite
  One,       \* the number 1.0
  Scalars,   \* what operators write into the file
  MaxKeys    \* bound on the fields and broken sections in the file

ASSUME OneAssumption == One \in Nat \ {0} /\ One % 10 = 0
ASSUME FloatAssumption == Nan \notin Int /\ Inf \notin Int /\ Nan # Inf
ASSUME ScalarsAssumption ==
  /\ \A s \in Scalars :
       /\ s.type \in {"int", "float", "other"}
       /\ s.value \in Int \cup {Nan, Inf}
       /\ s.type = "int" => s.value \in Int
  /\ MaxKeys \in Nat

Finite(x) == x \notin {Nan, Inf}

\* Comparisons with NaN are false.
Less(x, y) == Finite(x) /\ y # Nan /\ (IF y = Inf THEN TRUE ELSE x < y)
AtMost(x, y) == x # Nan /\ (IF x = y THEN TRUE ELSE Less(x, y))

(* The sections of the file and the fields in them.                        *)
Sections ==
  [drawdown |-> {"max_daily_drawdown_pct"},
   concentration |-> {"max_correlated_exposure", "max_cluster_usd"},
   expected_value |-> {"min_expected_value"},
   consecutive_losses |-> {"max_consecutive_losses", "time_window_seconds"},
   kelly |-> {"conservative_fraction"}]

Keys == UNION {Sections[s] : s \in DOMAIN Sections}

VARIABLES
  file,    \* the fields in the file, with their scalars
  broken,  \* sections that are no mappings; "file" when it is none itself
  config,  \* what load_risk_config returned when the desk started last
  ctx      \* the RiskContext in force

configVars == <<file, broken, config, ctx>>

-----------------------------------------------------------------------------
(* load_risk_config.                                                       *)

InUnitInterval(x) == Less(0, x) /\ AtMost(x, One)

\* Fault: the bounds of a fraction are looked at as for a price.
FieldAcceptsUnbounded(key, scalar) ==
  /\ scalar.type \in {"int", "float"}
  /\ key = "max_consecutive_losses" =>
       scalar.type = "int" /\ ~Less(scalar.value, 0)
  /\ key \notin {"min_expected_value", "max_consecutive_losses"} =>
       ~AtMost(scalar.value, 0)

(* The type and range checks of a field.  What is asked to be positive is  *)
(* refused when it is at most zero.                                        *)
FieldAccepts(key, scalar) ==
  /\ scalar.type \in {"int", "float"}
  /\ key = "max_consecutive_losses" =>
       scalar.type = "int" /\ ~Less(scalar.value, 0)
  /\ key \in {"max_daily_drawdown_pct", "conservative_fraction"} =>
       InUnitInterval(scalar.value)
  /\ key \in {"max_correlated_exposure", "max_cluster_usd",
              "time_window_seconds"} => ~AtMost(scalar.value, 0)

Loads == broken = {} /\ \A key \in DOMAIN file : FieldAccepts(key, file[key])

(* Three fields are returned under another name.                           *)
Output ==
  [key \in Keys |->
     CASE key = "max_consecutive_losses" -> "consecutive_loss_limit"
       [] key = "time_window_seconds" -> "consecutive_loss_window_minutes"
       [] key = "conservative_fraction" -> "kelly_conservative_fraction"
       [] OTHER -> key]

Loaded ==
  [name \in {Output[key] : key \in DOMAIN file} |->
     file[CHOOSE key \in Keys : Output[key] = name].value]

-----------------------------------------------------------------------------
(* RiskContext.                                                            *)

Defaults ==
  [max_daily_drawdown_pct |-> One \div 10, max_correlated_exposure |-> 2500 * One,
   min_expected_value |-> 0, consecutive_loss_limit |-> 0,
   consecutive_loss_window_minutes |-> 900 * One]

(* The arguments of RiskContext that are taken from a loaded file.         *)
Context(loaded) ==
  [name \in DOMAIN Defaults |->
     IF name \in DOMAIN loaded THEN loaded[name] ELSE Defaults[name]]

\* Fault: a context takes any float.
AnyFloat(context) == TRUE

(* RiskContext.__post_init__.                                              *)
ContextAccepts(context) == \A name \in DOMAIN context : Finite(context[name])

-----------------------------------------------------------------------------

Init ==
  /\ file = <<>> /\ broken = {}
  /\ config = <<>>
  /\ ctx = Defaults

Without(keys) == [k \in DOMAIN file \ keys |-> file[k]]

InBounds == Cardinality(DOMAIN file') + Cardinality(broken') <= MaxKeys

Edit(key, scalar) ==
  /\ file' = [k \in DOMAIN file \cup {key} |->
                IF k = key THEN scalar ELSE file[k]]
  /\ broken' = {s \in broken \ {"file"} : key \notin Sections[s]}
  /\ InBounds
  /\ UNCHANGED <<config, ctx>>

Delete(key) ==
  file' = Without({key}) /\ UNCHANGED <<broken, config, ctx>>

(* A section, or the file, is overwritten with something that is no        *)
(* mapping.                                                                *)
BreakSection(section) ==
  /\ file' = Without(Sections[section])
  /\ broken' = (broken \ {"file"}) \cup {section}
  /\ InBounds
  /\ UNCHANGED <<config, ctx>>

BreakFile ==
  /\ file' = <<>> /\ broken' = {"file"}
  /\ UNCHANGED <<config, ctx>>

(* The desk loads the file and builds a RiskContext from what it knows; an *)
(* exception of either leaves the desk as it was.                          *)
Start ==
  /\ Loads
  /\ ContextAccepts(Context(Loaded))
  /\ config' = Loaded
  /\ ctx' = Context(Loaded)
  /\ UNCHANGED <<file, broken>>

Next ==
  \/ \E key \in Keys, scalar \in Scalars : Edit(key, scalar)
  \/ \E key \in DOMAIN file : Delete(key)
  \/ \E section \in DOMAIN Sections : BreakSection(section)
  \/ BreakFile
  \/ Start

Spec == Init /\ [][Next]_configVars

-----------------------------------------------------------------------------
(* kelly_fraction.  A stake is a fraction n / d.                           *)

Zero == [n |-> 0, d |-> 1]
ValueError == [n |-> 0, d |-> 0]

\* Fault: the odds are left out of the stake.
StakeWithoutOdds(p_win, price, fraction) ==
  LET edge == p_win * (One - price) - (One - p_win) * price
  IN IF edge <= 0 THEN Zero
     ELSE [n |-> edge * fraction, d |-> One * price * One]

(* edge / b * conservative_fraction: b is (One - price) / price, the edge  *)
(* is over One * price.                                                    *)
Stake(p_win, price, fraction) ==
  LET edge == p_win * (One - price) - (One - p_win) * price
  IN IF edge <= 0 THEN Zero
     ELSE [n |-> edge * fraction, d |-> One * (One - price) * One]

Probable(x) == Less(0, x) /\ Less(x, One)

kelly_fraction(p_win, price, fraction) ==
  IF ~InUnitInterval(fraction) THEN ValueError
  ELSE IF ~Finite(p_win) THEN Zero
  ELSE IF ~Probable(p_win) THEN ValueError
  ELSE IF ~Finite(price) THEN Zero
  ELSE IF ~Probable(price) THEN ValueError
  ELSE Stake(p_win, price, fraction)

-----------------------------------------------------------------------------

(* The policy in force is within the ranges that the file is documented to *)
(* have, whatever was written into it: the range checks of the loader and  *)
(* the finiteness checks of RiskContext leave no gap between them.         *)
ContextInRange ==
  /\ ctx.max_daily_drawdown_pct \in 1 .. One
  /\ ctx.max_correlated_exposure \in Nat \ {0}
  /\ ctx.min_expected_value \in Int
  /\ ctx.consecutive_loss_limit \in Nat
  /\ ctx.consecutive_loss_window_minutes \in Nat \ {0}

(* A fraction that was loaded is one that kelly_fraction takes, and what   *)
(* it returns is the stake of the greatest expected log growth, scaled by  *)
(* that fraction: with f the full stake and b the odds,                    *)
(*   p_win * b * (1 - f) = (1 - p_win) * (1 + f * b),                      *)
(* and nothing when the bet has no edge.                                   *)
StakeIsOptimal ==
  "kelly_conservative_fraction" \in DOMAIN config =>
    \A p \in 1 .. One - 1, q \in 1 .. One - 1 :
      LET k == config.kelly_conservative_fraction
          stake == kelly_fraction(p, q, k)
          f == stake.n * One  \* of stake.d * k
          whole == stake.d * k
      IN /\ stake # ValueError
         /\ p <= q => stake = Zero
         /\ p > q =>
              /\ stake.n > 0 /\ stake.n * One <= stake.d * k
              /\ p * (One - q) * (whole - f)
                   = (One - p) * (whole * q + f * (One - q))
=============================================================================
