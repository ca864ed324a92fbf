----------------------------- MODULE MCSessions -----------------------------
(***************************************************************************)
(* Small instances of Sessions for TLC.                                    *)
(***************************************************************************)
EXTENDS Sessions, TLC

\* Logins with the password among changes of it and of the stamp.
Logins == [most |-> 2, route |-> {"register", "login", "refresh", "change", "sstamp"}]
\* Logins of both kinds among changes of the password and answers to auth requests.
Answers ==
    [most |-> 2, route |-> {"register", "login", "loginByRequest", "change", "requests"}]
\* The authenticator and its recovery, by handlers that may die.
Factors ==
    [most |-> 1,
     route |-> {"invite", "register", "login", "sstamp", "enrol", "disable", "raise", "crash"}]

LoginsAndFactors == "logins" :> Logins @@ "answers" :> Answers @@ "factors" :> Factors

Symmetry == Permutations(Device) \cup Permutations(Password) \cup Permutations(Req)
            \cup Permutations(AuthRequest)
=============================================================================
