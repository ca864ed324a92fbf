------------------------------ MODULE MCVault ------------------------------
(***************************************************************************)
(* Small instances of Vault for TLC.  u1 administers the organization, of *)
(* which u2 is a member.                                                   *)
(***************************************************************************)
EXTENDS Vault, TLC

CONSTANTS u1, u2, c1, f1, f2

AdminAndReader ==
    [u \in User |-> [admin |-> u = u1, all |-> FALSE]]
\* u2 may read the first collection, or write it.
Reader == {<<u2, c1, "readOnly">>}
Writer == {<<u2, c1, "write">>}

Singles == {{c} : c \in Cipher}
SinglesAndAll == Singles \cup {Cipher}
OneOrNone == {{c} : c \in Collection} \cup {{}}

\* Two handlers over one cipher, while memberships or folders are taken away.
Race(route, f) ==
    [folder |-> {f}, most |-> 2, ciphers |-> 1, batch |-> Singles, cols |-> OneOrNone, grants |-> {Reader, Writer},
     route |-> {"create", "update", "share", "hardDelete"} \cup route]
Placing == Race({"collections", "move", "deleteMember"}, f1)
Filing == Race({"move", "createFolder", "deleteFolder"}, f2)
\* Every route over two ciphers, but the trash, by handlers that may die.
Routes ==
    [folder |-> {f1}, most |-> 1, ciphers |-> 2, batch |-> SinglesAndAll, cols |-> OneOrNone, grants |-> {Writer},
     route |-> VaultRoutes \ {"purge", "softDelete", "restore"}]
\* The trash, its purge, and what they meet.
Purging ==
    [folder |-> {f1}, most |-> 1, ciphers |-> 2, batch |-> SinglesAndAll, cols |-> OneOrNone, grants |-> {Writer},
     route |-> {"create", "share", "softDelete", "restore", "hardDelete", "purge", "crash"}]
Leaving ==
    [folder |-> {f1}, most |-> 1, ciphers |-> 1, batch |-> Singles, cols |-> OneOrNone, grants |-> {Writer},
     route |-> {"create", "deleteAccount"}]

RacesRoutesPurging == "placing" :> Placing @@ "filing" :> Filing @@ "routes" :> Routes @@ "purging" :> Purging
OnlyLeaving == "leaving" :> Leaving

OwnFolders == [f \in Folder |-> IF f = f1 THEN u1 ELSE u2]

\* Without the history that only ToldOfCiphers reads, and without what a handler
\* carries once all it has to do is to tell: the other properties read neither.
Telling(r) == At(r, "touch") /\ req[r].todo = {}
WithoutTelling ==
    <<tables, cron, drawn, reverted,
      [r \in Req |-> IF Telling(r) THEN [Idle EXCEPT !.stage = "touch"]
                     ELSE [req[r] EXCEPT !.wrote = FALSE, !.scopes = {}]],
      [r \in Req |-> IF Telling(r) THEN Unseen ELSE seen[r]]>>

\* Without the history of what callers could do; and of who is to be told, once
\* someone is excused and ToldOfCiphers promises nothing any more.
WithoutSeen ==
    <<tables, cron, drawn, reverted, excused = {},
      IF excused = {} THEN <<req, untold>> ELSE [r \in Req |-> [req[r] EXCEPT !.wrote = TRUE]]>>

ViewOf == <<load, IF OneAtATime THEN WithoutSeen ELSE WithoutTelling>>

Symmetry == Permutations(Req) \cup Permutations(Cipher)
=============================================================================
