--------------------------- MODULE AccessControl ---------------------------
(***************************************************************************)
(* OpenZeppelin's AccessControl, as the contracts of this repository use   *)
(* it: who holds which role, and the three public operations that change   *)
(* it.  The library is not part of the repository's sources; the module    *)
(* models the behaviour the contracts rely on (onlyRole, _grantRole,       *)
(* _revokeRole and the inherited grantRole, revokeRole and renounceRole).  *)
(***************************************************************************)
CONSTANTS Accounts,    \* the addresses that can hold a role
          Roles,       \* the roles of the contract
          RoleAdmin    \* RoleAdmin[r] is the role that may grant and revoke r

VARIABLE members       \* members[r] is the set of accounts that hold role r

HasRole(role, account) == account \in members[role]

Granted(role, account) == [members EXCEPT ![role] = @ \cup {account}]
Revoked(role, account) == [members EXCEPT ![role] = @ \ {account}]

GrantRole(sender, role, account) ==
  /\ HasRole(RoleAdmin[role], sender)
  /\ members' = Granted(role, account)

RevokeRole(sender, role, account) ==
  /\ HasRole(RoleAdmin[role], sender)
  /\ members' = Revoked(role, account)

RenounceRole(sender, role) == members' = Revoked(role, sender)

=============================================================================
