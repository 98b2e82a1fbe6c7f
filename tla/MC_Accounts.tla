---------------------------- MODULE MC_Accounts -----------------------------
(* Three views of one account, checked side by side: a behaviour is one of *)
(* Sessions, ResetLinks or AccountRow, chosen at its start; they share no  *)
(* variable.                                                               *)
EXTENDS Sessions, ResetLinks, AccountRow, TLC

VARIABLE view       \* the one that runs

sessionsVars == vars

AccountsInit ==
    /\ view \in {"sessions", "links", "row"}
    /\ Init /\ LinksInit /\ RowInit

AccountsNext ==
    /\ UNCHANGED view
    /\ \/ view = "sessions" /\ Next /\ UNCHANGED <<linksVars, rowVars>>
       \/ view = "links" /\ LinksNext /\ UNCHANGED <<sessionsVars, rowVars>>
       \/ view = "row" /\ RowNext /\ UNCHANGED <<sessionsVars, linksVars>>

AccountsSpec == AccountsInit /\ [][AccountsNext]_<<view, sessionsVars, linksVars, rowVars>>

Symmetry == Permutations(Requests) \cup Permutations(Tokens)
=============================================================================
