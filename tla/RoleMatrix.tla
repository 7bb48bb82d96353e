---------------------------- MODULE RoleMatrix ----------------------------
(* What each role may do in an account (auth/rbac.go).                      *)

\* roleMatrix: what each role may do.
Reads == {"account.read", "member.read", "team.read", "billing.read", "target.read",
          "drill.read", "heartbeat.read", "evidence.read"}
Work == {"target.write", "drill.write", "heartbeat.write"}
Manage == {"account.write", "member.write", "team.write"}
roleMatrix ==
    [owner |-> Reads \cup Work \cup Manage \cup {"billing.write"},
     admin |-> Reads \cup Work \cup Manage,
     member |-> Reads \cup Work,
     viewer |-> Reads,
     exec |-> Reads,
     auditor |-> Reads \ {"member.read", "team.read", "billing.read"}]

\* An unknown role may do nothing.
Allowed(r, a) == r \in DOMAIN roleMatrix /\ a \in roleMatrix[r]

=============================================================================
