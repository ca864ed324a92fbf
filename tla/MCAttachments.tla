--------------------------- MODULE MCAttachments ---------------------------
(***************************************************************************)
(* Small instances of Attachments for TLC.  u1 creates all ciphers and may *)
(* write those of the organization, and so may u2; i2 is one of them.      *)
(***************************************************************************)
EXTENDS Attachments, TLC

CONSTANTS u1, i1, i2

AllByFirst == [c \in Cipher |-> u1]
Writers == [u \in User |-> "write"]
SecondShared == Cipher \cap {i2}

\* Without what callers could do once their handler has nothing left that ByRights
\* looks at, and what a handler carries when it only has to tell.
Relevant(r) == req[r].stage \notin {"idle", "touch"}
Carried(r) == IF At(r, "touch") THEN [Idle EXCEPT !.stage = "touch", !.cs = req[r].cs, !.user = req[r].user]
              ELSE req[r]
Forgetting ==
    <<load, account, member, trash, row, pend, home, object, link, cron, lost, stray, untold, excused,
      [r \in Req |-> Carried(r)],
      [r \in Req |-> IF Relevant(r) THEN could[r] ELSE None]>>

Load(route, users, ciphers, ids, most) ==
    [route |-> route, users |-> users, ciphers |-> ciphers, ids |-> ids, most |-> most]
\* Two handlers over one file, and over the limit.
Uploads == Load({"create", "upload", "stream", "legacy", "delete", "hardDelete", "crash"}, {u1}, {i1}, 1, 2)
Limited == Load({"create", "upload"}, {u1}, {i1}, 3, 2)
\* Two handlers, and the purge or a loss of access between their queries.
Purged == Load({"create", "upload", "purge", "trash"}, {u1}, {i1}, 1, 2)
Leaving == Load({"create", "upload", "delete", "leave", "get", "download", "deleteAccount"}, {u1}, {i2}, 1, 2)
\* One handler at a time, with links, ciphers that are mixed up, and deaths.
Linked == Load({"create", "stream", "get", "download", "delete", "leave"}, User, {i2}, 1, 1)
Mixed == Load({"create", "upload", "get", "delete", "hardDelete", "crash"}, User, Cipher, 1, 1)
Emptied == Load({"create", "upload", "purgeVault", "deleteAccount", "crash"}, {u1}, Cipher, 1, 1)
Dying == Load({"create", "upload", "purge", "trash", "crash"}, {u1}, Cipher, 1, 1)

Races == {Uploads, Limited, Purged, Leaving, Linked, Mixed, Emptied, Dying}

\* What the purge has to do with: uploads abandoned and ciphers thrown away.
Abandoned == {Load({"create", "upload", "purge", "trash", "crash"}, {u1}, {i1}, 1, 1)}

Symmetry == Permutations(Req) \cup Permutations(Att)
=============================================================================
