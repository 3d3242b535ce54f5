-------------------------- MODULE ComplianceManager --------------------------
(***************************************************************************)
(* The compliance manager, contracts/src/ComplianceManager.sol, together   *)
(* with the registries it writes to and the pointer by which MintEscrow    *)
(* chooses the registry it reads.  Officers update users through the       *)
(* manager; whoever holds a registry's MANAGER_ROLE may also write to it   *)
(* directly.                                                               *)
(***************************************************************************)
EXTENDS UserRegistry

CONSTANTS
  Implementations,   \* implementation contracts of the UUPS proxy
  MaxAdminCalls      \* bound: calls that change roles, pointers or pause

ASSUME ManagerAssumption ==
  MaxAdminCalls \in Nat

VARIABLES
  roles, paused, userRegistry,   \* storage of the proxy
  implementation,                \* ERC-1967 slot
  escrowRegistry,                \* MintEscrow.userRegistry
  decision,      \* history: the last update of each user by an officer
  diverted,      \* history: data or pointers were changed around officers
  adminCalls

vars == <<registryRoles, users, now, roles, paused, userRegistry,
          implementation, escrowRegistry, decision, diverted, adminCalls>>

Roles == {"DEFAULT_ADMIN_ROLE", "ADMIN_ROLE", "COMPLIANCE_OFFICER_ROLE",
          "UPGRADER_ROLE"}

RoleAdmin ==
  [role \in Roles |->
     IF role = "DEFAULT_ADMIN_ROLE" THEN "DEFAULT_ADMIN_ROLE" ELSE "ADMIN_ROLE"]

Access == INSTANCE AccessControl WITH
  Roles <- Roles, RoleAdmin <- RoleAdmin, members <- roles

NoDecision == [made |-> FALSE, score |-> 0, at |-> 0]

(* initialize runs in the transaction that creates the proxy.              *)
Init ==
  /\ roles = [role \in Roles |-> {Admin}]
  /\ paused = FALSE
  /\ userRegistry \in Registries
  /\ RegistryInit(userRegistry)
  /\ escrowRegistry = userRegistry
  /\ implementation \in Implementations
  /\ decision = [u \in Users |-> NoDecision]
  /\ diverted = FALSE
  /\ adminCalls = 0

AdminCall ==
  /\ adminCalls < MaxAdminCalls
  /\ adminCalls' = adminCalls + 1

OnlyAdmin(sender) == Access!HasRole("ADMIN_ROLE", sender) /\ AdminCall

(* updateUser of the manager, with the nested call of the registry.        *)
OfficerUpdate(sender, user, score, hash) ==
  /\ ~paused
  /\ Access!HasRole("COMPLIANCE_OFFICER_ROLE", sender)
  /\ UpdateUser(userRegistry, Manager, user, score, hash, sender)
  /\ decision' = [decision EXCEPT ![user] =
                    [made |-> TRUE, score |-> score,
                     at |-> IF hash = NoHash THEN @.at ELSE now]]
  /\ UNCHANGED <<registryRoles, now, roles, paused, userRegistry,
                 implementation, escrowRegistry, diverted, adminCalls>>

(* updateUser of a registry, by an account that holds its MANAGER_ROLE.    *)
DirectUpdate(registry, sender, user, score, hash, actor) ==
  /\ UpdateUser(registry, sender, user, score, hash, actor)
  /\ diverted' = TRUE
  /\ UNCHANGED <<registryRoles, now, roles, paused, userRegistry,
                 implementation, escrowRegistry, decision, adminCalls>>

SetUserRegistry(sender, registry) ==
  /\ OnlyAdmin(sender)
  /\ registry # NoAddress
  /\ userRegistry' = registry
  /\ diverted' = (diverted \/ registry # escrowRegistry)
  /\ UNCHANGED <<registryRoles, users, now, roles, paused, implementation,
                 escrowRegistry, decision>>

(* MintEscrow.setUserRegistry, called by the escrow's admin.               *)
SetEscrowRegistry(registry) ==
  /\ AdminCall
  /\ registry # NoAddress
  /\ escrowRegistry' = registry
  /\ diverted' = (diverted \/ registry # userRegistry)
  /\ UNCHANGED <<registryRoles, users, now, roles, paused, userRegistry,
                 implementation, decision>>

Pause(sender) ==
  /\ OnlyAdmin(sender)
  /\ ~paused
  /\ paused' = TRUE
  /\ UNCHANGED <<registryRoles, users, now, roles, userRegistry,
                 implementation, escrowRegistry, decision, diverted>>

Unpause(sender) ==
  /\ OnlyAdmin(sender)
  /\ paused
  /\ paused' = FALSE
  /\ UNCHANGED <<registryRoles, users, now, roles, userRegistry,
                 implementation, escrowRegistry, decision, diverted>>

(* upgradeToAndCall, allowed by _authorizeUpgrade.  What another           *)
(* implementation would do is not modelled.                                *)
Upgrade(sender, newImplementation) ==
  /\ Access!HasRole("UPGRADER_ROLE", sender)
  /\ AdminCall
  /\ implementation' = newImplementation
  /\ UNCHANGED <<registryRoles, users, now, roles, paused, userRegistry,
                 escrowRegistry, decision, diverted>>

ChangeRole(sender, role, account) ==
  /\ AdminCall
  /\ \/ Access!GrantRole(sender, role, account)
     \/ Access!RevokeRole(sender, role, account)
     \/ sender = account /\ Access!RenounceRole(sender, role)
  /\ UNCHANGED <<registryRoles, users, now, paused, userRegistry,
                 implementation, escrowRegistry, decision, diverted>>

ChangeRoleOfRegistry(registry, sender, role, account) ==
  /\ AdminCall
  /\ ChangeRegistryRole(registry, sender, role, account)
  /\ UNCHANGED <<users, now, roles, paused, userRegistry, implementation,
                 escrowRegistry, decision, diverted>>

Tick ==
  /\ now < MaxTime
  /\ now' = now + 1
  /\ UNCHANGED <<registryRoles, users, roles, paused, userRegistry,
                 implementation, escrowRegistry, decision, diverted, adminCalls>>

Next ==
  \/ \E sender \in Accounts, user \in Users \cup {NoAddress}, score \in Scores,
        hash \in Hashes \cup {NoHash} :
       \/ OfficerUpdate(sender, user, score, hash)
       \/ \E registry \in Registries, actor \in Accounts \cup {NoAddress} :
            DirectUpdate(registry, sender, user, score, hash, actor)
  \/ \E sender \in Accounts :
       \/ \E registry \in Registries \cup {NoAddress} :
            SetUserRegistry(sender, registry)
       \/ Pause(sender)
       \/ Unpause(sender)
       \/ \E new \in Implementations : Upgrade(sender, new)
       \/ \E role \in Roles, account \in Accounts :
            ChangeRole(sender, role, account)
       \/ \E registry \in Registries, role \in RegistryRoles,
             account \in Accounts \cup {Manager} :
            ChangeRoleOfRegistry(registry, sender, role, account)
  \/ \E registry \in Registries \cup {NoAddress} : SetEscrowRegistry(registry)
  \/ Tick

Spec == Init /\ [][Next]_vars

-----------------------------------------------------------------------------
(* Properties.                                                             *)

(* Type invariant of the manager's and the registries' storage; no stored  *)
(* score is above 100, and no attestation is from the future.              *)
TypeOK ==
  /\ registryRoles \in [Registries ->
                          [RegistryRoles -> SUBSET (Accounts \cup {Manager})]]
  /\ users \in [Registries -> [Users -> UserData]]
  /\ \A r \in Registries, u \in Users : users[r][u].attestedAt <= now
  /\ now \in Nat \ {0}
  /\ roles \in [Roles -> SUBSET Accounts]
  /\ paused \in BOOLEAN
  /\ userRegistry \in Registries /\ escrowRegistry \in Registries
  /\ implementation \in Implementations
  /\ decision \in [Users -> [made : BOOLEAN, score : Nat, at : Nat]]
  /\ diverted \in BOOLEAN /\ adminCalls \in Nat

(* What a user's last update by an officer says of the user.               *)
Approved(user) ==
  /\ decision[user].made
  /\ decision[user].score <= MAX_RISK_SCORE
  /\ REQUIRE_ATTESTATION => now - decision[user].at >= MIN_ATTESTATION_AGE

(* executeMint acts on the last decision of an officer, as long as nobody  *)
(* else holds MANAGER_ROLE and writes, and the manager and the escrow were *)
(* never pointed at different registries: an approval or a rejection       *)
(* reaches the escrow at once, through role changes, pauses and upgrades.  *)
OfficersDecide ==
  ~diverted =>
    \A u \in Users : IsCompliant(escrowRegistry, u) <=> Approved(u)

(* A registry, or the manager, whose last ADMIN_ROLE member is gone stays  *)
(* without one, although DEFAULT_ADMIN_ROLE has members: ADMIN_ROLE was    *)
(* made its own administrator.                                             *)
AdminLossIsFinal ==
  [][/\ \A r \in Registries :
          registryRoles[r]["ADMIN_ROLE"] = {} => registryRoles'[r]["ADMIN_ROLE"] = {}
     /\ roles["ADMIN_ROLE"] = {} => roles'["ADMIN_ROLE"] = {}]_vars

=============================================================================
