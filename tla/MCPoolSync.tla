----------------------------- MODULE MCPoolSync -----------------------------
(* Instances of PoolSync for TLC. *)
EXTENDS PoolSync

CONSTANTS c, a, b

RolesOf(ra, rb) ==
    [n \in PoolNode |-> CASE n = c -> "creator" [] n = a -> ra [] n = b -> rb]

AloneOrTwoAdmins == {RolesOf("none", "none"), RolesOf("admin", "none")}
TwoMembers == {RolesOf("member", "member")}
=============================================================================
