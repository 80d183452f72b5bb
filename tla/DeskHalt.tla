------------------------------ MODULE DeskHalt ------------------------------
(***************************************************************************)
(* What a RiskAuthority promises the desk, without streaks, windows or     *)
(* clocks: there are causes that halt trading, a trade is let through only *)
(* when none of them is in force, and each cause comes and goes only in    *)
(* the ways its documentation allows.                                      *)
(***************************************************************************)
VARIABLES
  halts,   \* the causes in force: "kill", "breaker", "window"
  durable, \* the causes that the last persisted snapshot holds
  verdict  \* of the evaluation just made: "approved", "refused", "halted",
           \* and "none" after anything else

haltVars == <<halts, durable, verdict>>

Causes == {"kill", "breaker", "window"}

Init == halts = {} /\ durable = {} /\ verdict = "none"

(* A trade that is judged on its merits: whatever was in force can only    *)
(* have been a breaker whose cooldown is over, and nothing is left.        *)
Judge ==
  /\ halts \subseteq {"breaker"}
  /\ halts' = {}
  /\ verdict' \in {"approved", "refused"}
  /\ UNCHANGED durable

(* A trade that is stopped for a cause that is and remains in force.  The  *)
(* on_trip callback may pull the kill switch, and the breaker may lapse    *)
(* unless the kill switch hides it.                                        *)
Halt ==
  /\ halts \cap halts' # {}
  /\ halts' \subseteq halts \cup {"kill"}
  /\ halts \subseteq halts' \cup {"breaker"}
  /\ "kill" \in halts => halts' = halts
  /\ verdict' = "halted"
  /\ UNCHANGED durable

(* A settled trade: it may trip the breaker, never clear it, and moves the *)
(* loss window either way.  Operators alone work the kill switch.          *)
Settle ==
  /\ halts' \in SUBSET Causes
  /\ halts' \cap {"kill"} = halts \cap {"kill"}
  /\ "breaker" \in halts => "breaker" \in halts'

Pull == halts' = halts \cup {"kill"}

Lift == \E cause \in Causes : halts' = halts \ {cause}

Operate == (Settle \/ Pull \/ Lift) /\ verdict' = "none" /\ UNCHANGED durable

Persist == durable' = halts /\ verdict' = "none" /\ UNCHANGED halts

Recover == halts' = durable /\ verdict' = "none" /\ UNCHANGED durable

Next == Judge \/ Halt \/ Operate \/ Persist \/ Recover

Spec == Init /\ [][Next]_haltVars
=============================================================================
