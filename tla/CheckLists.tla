----------------------------- MODULE CheckLists -----------------------------
(***************************************************************************)
(* Checks made one after the other, each with the code it throws: a list   *)
(* of pairs of what must hold and the code.                                *)
(***************************************************************************)
EXTENDS FiniteSetsExt

(* The code of the first check that fails, "ok" when none does. *)
FirstFailure(checks) ==
  LET failed == {i \in DOMAIN checks : ~checks[i][1]}
  IN IF failed = {} THEN "ok" ELSE checks[Min(failed)][2]
=============================================================================
