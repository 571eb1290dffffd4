------------------------- MODULE MCAssignmentWizard -------------------------
(* AssignmentWizard with two families whose locations overlap and one that  *)
(* lists none, and with two algorithm plugins of one name, the second with  *)
(* an id that is not in lower case, beside that of pass_through.            *)
EXTENDS AssignmentWizard, TLC

CONSTANTS f1, f2, f3, p1, P2, p3, fusion, pass_through, wrist, chest, ankle

MCSupports == (f1 :> {wrist, chest}) @@ (f2 :> {wrist, chest, ankle}) @@ (f3 :> {})
MCNameOf == (p1 :> fusion) @@ (P2 :> fusion) @@ (p3 :> pass_through)
MCLower == (p1 :> p1) @@ (P2 :> None) @@ (p3 :> p3)
MCOrder == (P2 :> 1) @@ (p1 :> 2) @@ (p3 :> 3)
MCComputes ==
    (f1 :> <<fusion>>) @@ (f2 :> <<pass_through, fusion>>) @@ (f3 :> << >>)
=============================================================================
