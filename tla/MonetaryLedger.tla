--------------------------- MODULE MonetaryLedger ---------------------------
(***************************************************************************)
(* What the trading engine promises about money, without saying how: a     *)
(* monetary UI action is issued for a directive at most once, and never    *)
(* while an earlier action is still unaccounted for.  An action that stays *)
(* unaccounted for stops trading; nothing resolves it by trying again.     *)
(***************************************************************************)
CONSTANTS Actions, Directives

VARIABLES
    issued,      \* pairs <<action, directive>> that may have reached the game
    accounted    \* actions a durable checkpoint explains

vars == <<issued, accounted>>

IssuedActions == {pair[1] : pair \in issued}

Init == issued = {} /\ accounted = {}

Issue(a, d) ==
    /\ IssuedActions \subseteq accounted
    /\ a \notin IssuedActions
    /\ \A pair \in issued : pair[2] # d
    /\ issued' = issued \cup {<<a, d>>}
    /\ UNCHANGED accounted

Account(a) ==
    /\ a \in IssuedActions
    /\ accounted' = accounted \cup {a}
    /\ UNCHANGED issued

Next == \E a \in Actions : Account(a) \/ \E d \in Directives : Issue(a, d)

Spec == Init /\ [][Next]_vars
=============================================================================
