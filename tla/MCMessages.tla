----------------------------- MODULE MCMessages -----------------------------
(***************************************************************************)
(* Small instances of Messages for TLC.  d1 is a phone, d2 a browser.      *)
(***************************************************************************)
EXTENDS Messages, TLC

Load(most, route) == [most |-> most, route |-> route]

\* Registration of phones, one handler at a time or two.
Alone == Load(1, {"token", "clear", "login", "sstamp", "crash"})
Together == Load(2, {"token", "clear", "login"})
Revoking == Load(2, {"token", "sstamp"})
Leaving == Load(2, {"token", "login", "deleteAccount"})
\* Sockets that open, break and close while messages are on their way.
Hub == Load(2, {"connect", "listen", "password", "approve"})

Mixed == {Alone, Together, Revoking, Leaving, Hub}

Symmetry == Permutations(Socket) \cup Permutations(Req) \cup Permutations(PushToken)
=============================================================================
