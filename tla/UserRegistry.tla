---------------------------- MODULE UserRegistry ----------------------------
(***************************************************************************)
(* The registries of compliance data, contracts/src/UserRegistry.sol.      *)
(* There may be several deployments; every variable is a function of the   *)
(* registry's address.  attestationType and riskUpdatedAt are read only by *)
(* getUser, and COMPLIANCE_OFFICER_ROLE is declared and never checked:     *)
(* they are left out.                                                      *)
(***************************************************************************)
EXTENDS Integers

CONSTANTS
  Registries,           \* addresses of UserRegistry contracts
  Accounts, Admin,      \* externally owned accounts; the initial admin
  Manager,              \* address of the ComplianceManager proxy
  Users, NoAddress,     \* the users the data is about; address(0)
  Scores,               \* risk scores callers pass, uint8
  Hashes, NoHash,       \* attestation hashes; bytes32(0)
  MAX_RISK_SCORE, REQUIRE_ATTESTATION, MIN_ATTESTATION_AGE,
  MaxTime               \* bound: last block.timestamp

ASSUME RegistryAssumption ==
  /\ Admin \in Accounts /\ Manager \notin Accounts
  /\ Scores \subseteq 0 .. 255
  /\ NoHash \notin Hashes
  /\ NoAddress \notin Users \cup Accounts \cup Registries \cup {Manager}
  /\ MAX_RISK_SCORE \in 0 .. 255
  /\ REQUIRE_ATTESTATION \in BOOLEAN
  /\ MIN_ATTESTATION_AGE \in Nat
  /\ MaxTime \in Nat \ {0}

VARIABLES
  registryRoles,   \* registryRoles[r]: the members of each role of r
  users,           \* users[r][u]: UserData of user u in r
  now              \* block.timestamp, never zero

RegistryRoles == {"DEFAULT_ADMIN_ROLE", "ADMIN_ROLE", "MANAGER_ROLE"}

DefaultRoleAdmin == [role \in RegistryRoles |-> "DEFAULT_ADMIN_ROLE"]

(* _setRoleAdmin: ADMIN_ROLE administers itself and MANAGER_ROLE.          *)
RegistryRoleAdmin ==
  [role \in RegistryRoles |->
     IF role = "DEFAULT_ADMIN_ROLE" THEN "DEFAULT_ADMIN_ROLE" ELSE "ADMIN_ROLE"]

AC(registry) == INSTANCE AccessControl WITH
  Accounts <- Accounts \cup {Manager}, Roles <- RegistryRoles,
  RoleAdmin <- RegistryRoleAdmin, members <- registryRoles[registry]

UserData ==
  [riskScore : 0 .. 100, attestationHash : Hashes \cup {NoHash},
   attestedAt : Nat, exists : BOOLEAN]

NoUser == [riskScore |-> 0, attestationHash |-> NoHash, attestedAt |-> 0,
           exists |-> FALSE]

(* Every registry is constructed with Admin.  Deploy.s.sol grants           *)
(* MANAGER_ROLE of the one it deploys to the ComplianceManager.            *)
RegistryInit(deployed) ==
  /\ registryRoles = [r \in Registries |->
       [role \in RegistryRoles |->
          CASE role # "MANAGER_ROLE" -> {Admin}
            [] role = "MANAGER_ROLE" /\ r = deployed -> {Manager}
            [] OTHER -> {}]]
  /\ users = [r \in Registries |-> [u \in Users |-> NoUser]]
  /\ now = 1

ScoreOnly(data, score, hash) ==
  [data EXCEPT !.riskScore = score, !.exists = TRUE]

(* What updateUser writes: an update without attestation keeps the old     *)
(* one.                                                                    *)
Updated(data, score, hash) ==
  [riskScore |-> score,
   attestationHash |-> IF hash = NoHash THEN data.attestationHash ELSE hash,
   attestedAt |-> IF hash = NoHash THEN data.attestedAt ELSE now,
   exists |-> TRUE]

AnyScore(score) == TRUE

ValidScore(score) == score <= 100

UpdateUser(registry, sender, user, score, hash, actor) ==
  /\ AC(registry)!HasRole("MANAGER_ROLE", sender)
  /\ user # NoAddress /\ actor # NoAddress
  /\ ValidScore(score)
  /\ REQUIRE_ATTESTATION => hash # NoHash
  /\ users' = [users EXCEPT ![registry][user] = Updated(@, score, hash)]

OldEnough(data) == now - data.attestedAt >= MIN_ATTESTATION_AGE

IsCompliant(registry, user) ==
  LET data == users[registry][user] IN
  /\ data.exists
  /\ data.riskScore <= MAX_RISK_SCORE
  /\ REQUIRE_ATTESTATION =>
       /\ data.attestationHash # NoHash
       /\ MIN_ATTESTATION_AGE > 0 => data.attestedAt # 0 /\ OldEnough(data)

(* grantRole, revokeRole and renounceRole of a registry.                   *)
ChangeRegistryRole(registry, sender, role, account) ==
  \/ /\ AC(registry)!HasRole(RegistryRoleAdmin[role], sender)
     /\ \/ registryRoles' = [registryRoles EXCEPT ![registry] =
                               AC(registry)!Granted(role, account)]
        \/ registryRoles' = [registryRoles EXCEPT ![registry] =
                               AC(registry)!Revoked(role, account)]
  \/ /\ sender = account
     /\ registryRoles' = [registryRoles EXCEPT ![registry] =
                            AC(registry)!Revoked(role, account)]

=============================================================================
