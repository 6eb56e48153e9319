---------------------------- MODULE MCNavigation ----------------------------
(* A small instance of Navigation for TLC: the stash, the market and the lot. *)
EXTENDS Navigation

Nav(from, to, calls) ==
    [from |-> from, to |-> to, class |-> "NAVIGATION", calls |-> calls, retries |-> 1]
Buy(from, to) == [from |-> from, to |-> to, class |-> "PURCHASE", calls |-> 2, retries |-> 0]

\* A direct way and a longer one, money as a shortcut, a detour and no way.
MCGraphs ==
    {<<Nav("stash", "market", 2), Nav("market", "lot", 1), Buy("market", "lot")>>,
     <<Buy("stash", "lot"), Nav("stash", "market", 1), Nav("market", "stash", 1),
       Buy("market", "lot")>>,
     <<Nav("stash", "market", 1), Nav("stash", "lot", 1), Nav("market", "lot", 1)>>,
     <<Buy("stash", "market"), Nav("stash", "market", 1), Nav("market", "lot", 1),
       Buy("market", "lot")>>,
     <<Nav("lot", "market", 1), Buy("lot", "market"), Buy("stash", "market")>>}
=============================================================================
