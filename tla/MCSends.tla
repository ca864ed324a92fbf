------------------------------ MODULE MCSends ------------------------------
(***************************************************************************)
(* Small instances of Sends for TLC.                                       *)
(***************************************************************************)
EXTENDS Sends, TLC

Symmetry == Permutations(Req)

Body(setPw, pw, max, exp, del, disabled) ==
    [setPw |-> setPw, pw |-> pw, max |-> max, exp |-> exp, del |-> del,
     disabled |-> disabled]

\* One access, no password; two accesses behind a password.
TwoBudgets == {Body(FALSE, None, 1, None, 3, FALSE),
               Body(TRUE, CHOOSE p \in Password : TRUE, 2, 1, 2, FALSE)}

\* Unlimited, deleted one tick later.
ShortLived == {Body(FALSE, None, None, None, 1, FALSE)}
=============================================================================
