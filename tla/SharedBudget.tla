----------------------------- MODULE SharedBudget -----------------------------
(***************************************************************************)
(* The token budget the tasks of one delegation share                      *)
(* (crates/agent-orchestration/src/budget.rs).  A task reserves before it  *)
(* starts and settles what it really used, which may be more or less.      *)
(***************************************************************************)
EXTENDS Integers

CONSTANT Limit       \* limit_weighted_tokens

ASSUME LimitAssumption == Limit \in Nat \ {0}

VARIABLES used,      \* weighted_tokens_used; above Limit all values are one
          reserved   \* weighted_tokens_reserved

budget == <<used, reserved>>

EmptyBudget == used = 0 /\ reserved = 0

Fits(tokens) == used + reserved + tokens <= Limit

Reserve(tokens) == Fits(tokens) /\ reserved' = reserved + tokens /\ UNCHANGED used

Less(a, b) == IF a > b THEN a - b ELSE 0
Capped(tokens) == IF tokens > Limit THEN Limit + 1 ELSE tokens

\* The usage is charged; what was reserved for it, `tokens`, is given back.
Settle(tokens, usage) ==
    /\ reserved' = Less(reserved, tokens)
    /\ used' = Capped(used + usage)
=============================================================================
