------------------------------- MODULE MCAuth -------------------------------
(* Small instances of Auth for TLC. *)
EXTENDS Auth, TLC

CONSTANTS root, ann, bob, s1, s2, s3, r1, r2

\* Two spellings of one email and one of each of two others.
MCSpellings == {"Root@x", "root@x", "ann@x", "bob@x"}
MCEmails == {"root@x", "ann@x", "bob@x"}
MCFold == [w \in MCSpellings |-> IF w = "Root@x" THEN "root@x" ELSE w]

Row(email, admin) ==
  [email |-> email, name |-> "n1", secret |-> "k1", admin |-> admin, active |-> TRUE]

\* One seeded admin, one active member, and (with bob) one id not yet used.
MCInitialAccounts ==
  [a \in Accounts |-> CASE a = root -> Row("root@x", TRUE)
                        [] a = ann -> Row("ann@x", FALSE)
                        [] OTHER -> None]

NoChange == [email |-> None, name |-> None, secret |-> None, admin |-> None, active |-> None]

MCAdminPatches ==
  {[NoChange EXCEPT !.admin = b] : b \in BOOLEAN}
    \cup {[NoChange EXCEPT !.active = b] : b \in BOOLEAN}
    \cup {[NoChange EXCEPT !.email = "Root@x"]}

MemberRoutes == {"login", "logout", "secret", "sessions", "accountSession",
                 "accountSessions", "impersonate", "purge"}
ProfileRoutes == {"login", "me", "patch"}
AccountRoutes == {"login", "me", "email", "create", "patch", "impersonate"}

Symmetry == Permutations(SessionIds) \cup Permutations(Requests)
=============================================================================
