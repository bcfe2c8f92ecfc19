----------------------------- MODULE MCAccounts ------------------------------
(***************************************************************************)
(* Instances of Accounts for TLC.                                          *)
(***************************************************************************)
EXTENDS Accounts, TLC

Budget(w, s, f, r, e) ==
  [b \in Bounded |-> CASE b = "wrong password" -> w [] b = "session" -> s
                       [] b = "fault" -> f [] b = "reset" -> r [] b = "end" -> e]

MCBudgets == {Budget(3, 1, 0, 0, 1), Budget(3, 0, 1, 0, 1), Budget(0, 2, 1, 0, 0),
              Budget(0, 2, 0, 1, 1), Budget(1, 1, 1, 1, 1)}

Symmetry == Permutations(Users) \cup Permutations(Tokens) \cup Permutations(Procs)
=============================================================================
