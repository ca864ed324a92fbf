------------------------------- MODULE MCOrg -------------------------------
(***************************************************************************)
(* Small instances of OrgMembership for TLC.                               *)
(***************************************************************************)
EXTENDS OrgMembership, TLC

\* What one request may name: one account, id or collection, or two.
Singletons == {{x} : x \in User \cup Collection \cup 1..MaxIds}
OnesAndPairs ==
    Singletons \cup {User, Collection} \cup {{i, j} : i, j \in 1..MaxIds}

Ask(types, alls, keys) == [type : types, all : alls, key : keys]
EveryChange == Ask({"owner", "user", None}, {TRUE, None}, BOOLEAN)
TypeChanges == Ask({"owner", "admin"}, {None}, {FALSE})
FlagChanges == Ask({None}, {TRUE}, {FALSE})

\* Memberships, then collections, one handler at a time.
MemberRoutes ==
    [most |-> 1,
     route |-> {"create", "invite", "accept", "acceptPending", "confirm", "update", "deleteMember",
                "deleteAccount", "crash"},
     batch |-> OnesAndPairs, cols |-> {{}, Collection},
     types |-> {"owner", "user"}, changes |-> EveryChange]
CollectionRoutes ==
    [most |-> 1,
     route |-> {"create", "invite", "accept", "confirm", "update", "deleteMember", "deleteAccount",
                "collectionAccess", "createCollection", "deleteCollection", "crash"},
     batch |-> OnesAndPairs, cols |-> {{}, Collection},
     types |-> {"user"}, changes |-> Ask({"admin", None}, {None}, {FALSE})]
\* Two handlers that make and unmake admins and owners.
Races ==
    [most |-> 2, route |-> {"create", "invite", "acceptPending", "confirm", "update"},
     batch |-> Singletons, cols |-> {{}}, types |-> {"owner", "admin"}, changes |-> TypeChanges]
\* Two owners who remove each other.
Removals ==
    [most |-> 2, route |-> {"create", "invite", "confirm", "deleteMember"}, batch |-> Singletons,
     cols |-> {{}}, types |-> {"owner"}, changes |-> FlagChanges]

MembersCollectionsRaces == "members" :> MemberRoutes @@ "collections" :> CollectionRoutes @@ "races" :> Races
OnlyRemovals == "removals" :> Removals

Symmetry == Permutations(User) \cup Permutations(Collection) \cup Permutations(Req)
=============================================================================
