------------------------------- MODULE Policy -------------------------------
(***************************************************************************)
(* The deterministic action policy of src/flowers/policy.py.  An exact     *)
(* action (toolkit, slug and byte-identical parameters) is a member of     *)
(* Action; the verb tables that give a slug its natural tier and the money *)
(* and illegal-content screens are constants, the resolution order between *)
(* them, the overrides and the un-overridable floor is what is modelled.   *)
(***************************************************************************)
CONSTANTS
    Action,     \* exact actions: one member per grant key
    Refused,    \* the actions is_refused() holds of (money, illegal content)
    Natural,    \* [Action -> Tiers]: the built-in table or verb heuristic
    Override    \* [Action -> Tiers \cup {"none"}]: the owner's override

Tiers == {"auto", "ask", "never"}

ASSUME PolicyAssumption ==
    /\ Refused \subseteq Action
    /\ Natural \in [Action -> Tiers]
    /\ Override \in [Action -> Tiers \cup {"none"}]

\* REFUSE comes before any override; a natural NEVER is a floor no override
\* lowers; any other natural tier gives way to the override.
Tier(a) ==
    IF a \in Refused THEN "refuse"
    ELSE IF Natural[a] = "never" \/ Override[a] = "none" THEN Natural[a]
    ELSE Override[a]

\* is_side_effecting() is asked without the overrides: an owner may waive
\* the approval of an action, never its read-back.
SideEffecting(a) == a \in Refused \/ Natural[a] # "auto"

MustApprove(a) == Tier(a) \in {"ask", "never"}
=============================================================================
