--------------------------- MODULE MCKeyRotation ---------------------------
(***************************************************************************)
(* Small instances of KeyRotation for TLC.  What may be created is c2 or   *)
(* s2; a1 is an attachment of c1.                                          *)
(***************************************************************************)
EXTENDS KeyRotation, TLC

CONSTANTS f1, c1, c2, s1, s2, a1, k1, k2

HomeOfFile == [f \in File |-> c1]
Load(first, route, items, keys) == [first |-> first, route |-> route, items |-> items, keys |-> keys]

\* Two rotations, one of which may be cut short.
Twice == Load({f1, c1, s1, a1}, {"rotate", "crash"}, {}, {k1, k2})
\* A rotation, and what else a client may do with each kind of item.
Sharing == Load({f1, c1}, {"rotate", "update", "share", "password"}, {f1, c1}, {k1, k2})
\* A cipher that is shared, made personal by a stale update and shared again by another.
Resharing == Load({c1, a1}, {"rotate", "update", "share"}, {c1}, {k1, k2})
Replacing == Load({c1, s1}, {"rotate", "create", "delete"}, {c1, c2, s1, s2}, {k1})
Uploading == Load({c1, s1}, {"rotate", "announce", "delete"}, {c1, s2, a1}, {k1, k2})
Attaching == Load({c1, s1}, {"rotate", "announce", "delete", "update"}, {c1, a1}, {k1, k2})
Editing == Load({s1}, {"rotate", "removePassword", "update", "crash"}, {s1}, {k1, k2})
Filing == Load({f1, c1}, {"rotate", "create", "delete", "crash"}, {f1, c2}, {k1, k2})

Rotations == {Twice, Sharing, Resharing, Replacing, Uploading, Attaching, Editing, Filing}

Symmetry == Permutations(Req) \cup Permutations(Session)
=============================================================================
