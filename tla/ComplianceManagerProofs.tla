----------------------- MODULE ComplianceManagerProofs -----------------------
(* Proofs about ComplianceManager, for every set of registries, accounts,  *)
(* users and scores, every threshold and every number of calls.            *)
EXTENDS ComplianceManager, TLAPS

(* Most leaves are first-order: Zenon tries them, and the ones that need    *)
(* arithmetic or the theory of functions cite SMT.                         *)
USE Zenon

(* While nobody went around the officers, the registry of the manager is   *)
(* the escrow's, and it holds what they decided.                           *)
DataIsDecision ==
  ~diverted =>
    /\ userRegistry = escrowRegistry
    /\ \A u \in Users :
         /\ users[escrowRegistry][u].exists = decision[u].made
         /\ users[escrowRegistry][u].riskScore = decision[u].score
         /\ users[escrowRegistry][u].attestedAt = decision[u].at
         /\ REQUIRE_ATTESTATION /\ decision[u].made =>
              /\ users[escrowRegistry][u].attestationHash # NoHash
              /\ decision[u].at # 0

IInv == TypeOK /\ DataIsDecision

LEMMA InitEstablishes ==
  ASSUME Init PROVE IInv
<1>1. TypeOK
  <2>1. registryRoles \in [Registries ->
                             [RegistryRoles -> SUBSET (Accounts \cup {Manager})]]
    BY RegistryAssumption DEF Init, RegistryInit
  <2>2. /\ users \in [Registries -> [Users -> UserData]]
        /\ \A r \in Registries, u \in Users : users[r][u].attestedAt <= now
        /\ now \in Nat \ {0}
    BY SMT DEF Init, RegistryInit, NoUser, UserData
  <2>3. roles \in [Roles -> SUBSET Accounts]
    BY RegistryAssumption DEF Init
  <2>4. decision \in [Users -> [made : BOOLEAN, score : Nat, at : Nat]]
    BY DEF Init, NoDecision
  <2>5. /\ userRegistry \in Registries /\ escrowRegistry \in Registries
        /\ implementation \in Implementations /\ adminCalls \in Nat
    BY DEF Init
  <2>6. paused \in BOOLEAN /\ diverted \in BOOLEAN
    BY DEF Init
  <2> QED BY <2>1, <2>2, <2>3, <2>4, <2>5, <2>6 DEF TypeOK
<1>2. DataIsDecision
  BY DEF Init, RegistryInit, NoUser, NoDecision, DataIsDecision
<1> QED BY <1>1, <1>2 DEF IInv

(* What updateUser writes is well formed and not from the future.          *)
LEMMA UpdateTyped ==
  ASSUME TypeOK, NEW registry \in Registries, NEW sender, NEW user \in Users \cup {NoAddress},
         NEW score \in Scores, NEW hash \in Hashes \cup {NoHash}, NEW actor,
         UpdateUser(registry, sender, user, score, hash, actor)
  PROVE  /\ user \in Users /\ score \in 0 .. 100
         /\ REQUIRE_ATTESTATION => hash # NoHash
         /\ users' = [users EXCEPT ![registry][user] =
                        Updated(users[registry][user], score, hash)]
         /\ users' \in [Registries -> [Users -> UserData]]
         /\ \A r \in Registries, u \in Users : users'[r][u].attestedAt <= now
<1>1. user \in Users /\ score \in 0 .. 100
  BY RegistryAssumption, SMT DEF UpdateUser, ValidScore
<1>2. (REQUIRE_ATTESTATION => hash # NoHash)
      /\ users' = [users EXCEPT ![registry][user] =
                     Updated(users[registry][user], score, hash)]
  BY DEF UpdateUser
<1>3. users[registry][user] \in UserData /\ users[registry][user].attestedAt <= now
      /\ now \in Nat
  BY <1>1 DEF TypeOK
<1>4. Updated(users[registry][user], score, hash) \in UserData
      /\ Updated(users[registry][user], score, hash).attestedAt <= now
  BY <1>1, <1>3, SMT DEF Updated, UserData
<1>5. users' \in [Registries -> [Users -> UserData]]
  BY <1>1, <1>2, <1>4 DEF TypeOK
<1>6. ASSUME NEW r \in Registries, NEW u \in Users
      PROVE  users'[r][u].attestedAt <= now
  BY <1>1, <1>2, <1>4 DEF TypeOK
<1> QED BY <1>1, <1>2, <1>5, <1>6

LEMMA OfficerStep ==
  ASSUME IInv, NEW sender \in Accounts, NEW user \in Users \cup {NoAddress},
         NEW score \in Scores, NEW hash \in Hashes \cup {NoHash},
         OfficerUpdate(sender, user, score, hash)
  PROVE  IInv'
<1>1. PICK reg \in Registries : reg = userRegistry
  BY DEF IInv, TypeOK
<1>2. UpdateUser(reg, Manager, user, score, hash, sender)
  BY <1>1 DEF OfficerUpdate
<1>3. /\ user \in Users /\ score \in 0 .. 100
      /\ REQUIRE_ATTESTATION => hash # NoHash
      /\ users' = [users EXCEPT ![reg][user] =
                     Updated(users[reg][user], score, hash)]
      /\ users' \in [Registries -> [Users -> UserData]]
      /\ \A r \in Registries, u \in Users : users'[r][u].attestedAt <= now
  BY <1>2, UpdateTyped DEF IInv
<1>4. decision' = [decision EXCEPT ![user] =
                     [made |-> TRUE, score |-> score,
                      at |-> IF hash = NoHash THEN decision[user].at ELSE now]]
  BY DEF OfficerUpdate
<1>5. UNCHANGED <<registryRoles, now, roles, paused, userRegistry,
                  implementation, escrowRegistry, diverted, adminCalls>>
  BY DEF OfficerUpdate
<1>6. TypeOK'
  <2>1. decision[user].at \in Nat /\ now \in Nat /\ score \in Nat
    BY <1>3, SMT DEF IInv, TypeOK
  <2>2. decision' \in [Users -> [made : BOOLEAN, score : Nat, at : Nat]]
    BY <1>3, <1>4, <2>1 DEF IInv, TypeOK
  <2>3. \A r \in Registries, u \in Users : users'[r][u].attestedAt <= now'
    BY <1>3, <1>5
  <2> QED BY <1>3, <1>5, <2>2, <2>3 DEF IInv, TypeOK
<1>7. DataIsDecision'
  <2> SUFFICES ASSUME ~diverted', NEW u \in Users
               PROVE  /\ userRegistry' = escrowRegistry'
                      /\ users'[escrowRegistry'][u].exists = decision'[u].made
                      /\ users'[escrowRegistry'][u].riskScore = decision'[u].score
                      /\ users'[escrowRegistry'][u].attestedAt = decision'[u].at
                      /\ REQUIRE_ATTESTATION /\ decision'[u].made =>
                           /\ users'[escrowRegistry'][u].attestationHash # NoHash
                           /\ decision'[u].at # 0
    <3>1. ~diverted' => userRegistry' = escrowRegistry'
      BY <1>5 DEF IInv, DataIsDecision
    <3> QED BY <3>1 DEF DataIsDecision
  <2>1. /\ userRegistry' = escrowRegistry' /\ escrowRegistry' = reg
        /\ ~diverted /\ escrowRegistry = reg /\ now # 0
    BY <1>1, <1>5 DEF IInv, DataIsDecision, TypeOK
  <2>2. CASE u = user
    <3>1. users'[reg][u] = Updated(users[reg][u], score, hash)
      BY <1>3, <2>2 DEF IInv, TypeOK
    <3>2. decision'[u] = [made |-> TRUE, score |-> score,
                          at |-> IF hash = NoHash THEN decision[u].at ELSE now]
      BY <1>4, <2>2 DEF IInv, TypeOK
    <3>3. users[reg][u].attestedAt = decision[u].at
      BY <2>1 DEF IInv, DataIsDecision
    <3>4. /\ users'[reg][u].exists = TRUE /\ decision'[u].made = TRUE
          /\ users'[reg][u].riskScore = score /\ decision'[u].score = score
          /\ users'[reg][u].attestedAt = decision'[u].at
      BY <3>1, <3>2, <3>3, SMT DEF Updated
    <3>5. hash # NoHash => /\ users'[reg][u].attestationHash # NoHash
                           /\ decision'[u].at # 0
      BY <2>1, <3>1, <3>2, SMT DEF Updated
    <3> QED BY <1>3, <2>1, <3>4, <3>5, Zenon
  <2>3. CASE u # user
    <3>1. users'[reg][u] = users[reg][u] /\ decision'[u] = decision[u]
      BY <1>3, <1>4, <2>3 DEF IInv, TypeOK
    <3> QED BY <2>1, <3>1 DEF IInv, DataIsDecision
  <2> QED BY <2>2, <2>3
<1> QED BY <1>6, <1>7 DEF IInv

LEMMA DirectStep ==
  ASSUME IInv, NEW registry \in Registries, NEW sender \in Accounts,
         NEW user \in Users \cup {NoAddress}, NEW score \in Scores,
         NEW hash \in Hashes \cup {NoHash}, NEW actor \in Accounts \cup {NoAddress},
         DirectUpdate(registry, sender, user, score, hash, actor)
  PROVE  IInv'
<1>1. UpdateUser(registry, sender, user, score, hash, actor) /\ diverted' = TRUE
      /\ UNCHANGED <<registryRoles, now, roles, paused, userRegistry,
                     implementation, escrowRegistry, decision, adminCalls>>
  BY DEF DirectUpdate
<1>2. /\ users' \in [Registries -> [Users -> UserData]]
      /\ \A r \in Registries, u \in Users : users'[r][u].attestedAt <= now
  BY <1>1, UpdateTyped DEF IInv
<1>3. TypeOK'
  BY <1>1, <1>2 DEF IInv, TypeOK
<1>4. DataIsDecision'
  BY <1>1 DEF DataIsDecision
<1> QED BY <1>3, <1>4 DEF IInv

(* Calls that change no user's data.                                       *)
LEMMA PointerStep ==
  ASSUME IInv, NEW registry \in Registries \cup {NoAddress},
         \/ \E sender \in Accounts : SetUserRegistry(sender, registry)
         \/ SetEscrowRegistry(registry)
  PROVE  IInv'
<1>1. /\ UNCHANGED <<registryRoles, users, now, roles, paused, implementation,
                     decision>>
      /\ adminCalls' = adminCalls + 1
      /\ registry \in Registries
      /\ \/ /\ userRegistry' = registry /\ escrowRegistry' = escrowRegistry
            /\ diverted' = (diverted \/ registry # escrowRegistry)
         \/ /\ escrowRegistry' = registry /\ userRegistry' = userRegistry
            /\ diverted' = (diverted \/ registry # userRegistry)
  BY DEF SetUserRegistry, SetEscrowRegistry, OnlyAdmin, AdminCall
<1>2. diverted' \in BOOLEAN
  BY <1>1
<1>3. ~diverted' => ~diverted /\ (userRegistry = escrowRegistry =>
                                    /\ userRegistry' = escrowRegistry'
                                    /\ escrowRegistry' = escrowRegistry)
  BY <1>1
<1>4. TypeOK'
  BY <1>1, <1>2, SMT DEF IInv, TypeOK
<1>5. DataIsDecision'
  BY <1>1, <1>3 DEF IInv, DataIsDecision
<1> QED BY <1>4, <1>5 DEF IInv

LEMMA AdminStep ==
  ASSUME IInv, NEW sender \in Accounts,
         \/ Pause(sender)
         \/ Unpause(sender)
         \/ \E new \in Implementations : Upgrade(sender, new)
  PROVE  IInv'
<1>1. /\ UNCHANGED <<registryRoles, users, now, roles, userRegistry,
                     escrowRegistry, decision, diverted>>
      /\ adminCalls' = adminCalls + 1
  BY DEF Pause, Unpause, Upgrade, OnlyAdmin, AdminCall
<1>2. paused' \in BOOLEAN
  BY DEF Pause, Unpause, Upgrade, IInv, TypeOK
<1>3. implementation' \in Implementations
  BY DEF Pause, Unpause, Upgrade, IInv, TypeOK
<1>4. TypeOK'
  BY <1>1, <1>2, <1>3, SMT DEF IInv, TypeOK
<1>5. DataIsDecision'
  BY <1>1 DEF IInv, DataIsDecision
<1> QED BY <1>4, <1>5 DEF IInv

LEMMA RoleStep ==
  ASSUME IInv, NEW sender \in Accounts, NEW role \in Roles, NEW account \in Accounts,
         ChangeRole(sender, role, account)
  PROVE  /\ IInv'
         /\ roles["ADMIN_ROLE"] = {} => roles'["ADMIN_ROLE"] = {}
         /\ UNCHANGED registryRoles
<1>1. /\ roles' \in [Roles -> SUBSET Accounts]
      /\ roles["ADMIN_ROLE"] = {} => roles'["ADMIN_ROLE"] = {}
  BY SMT DEF ChangeRole, Access!GrantRole, Access!RevokeRole, Access!RenounceRole,
     Access!Granted, Access!Revoked, Access!HasRole, RoleAdmin, IInv, TypeOK, Roles
<1>2. /\ UNCHANGED <<registryRoles, users, now, paused, userRegistry,
                     implementation, escrowRegistry, decision, diverted>>
      /\ adminCalls' = adminCalls + 1
  BY DEF ChangeRole, AdminCall
<1>3. TypeOK'
  BY <1>1, <1>2, SMT DEF IInv, TypeOK
<1>4. DataIsDecision'
  BY <1>2 DEF IInv, DataIsDecision
<1> QED BY <1>1, <1>2, <1>3, <1>4 DEF IInv

LEMMA RegistryRoleStep ==
  ASSUME IInv, NEW registry \in Registries, NEW sender \in Accounts,
         NEW role \in RegistryRoles, NEW account \in Accounts \cup {Manager},
         ChangeRoleOfRegistry(registry, sender, role, account)
  PROVE  /\ IInv'
         /\ \A r \in Registries :
              registryRoles[r]["ADMIN_ROLE"] = {} =>
                registryRoles'[r]["ADMIN_ROLE"] = {}
         /\ UNCHANGED roles
<1> DEFINE Old == registryRoles[registry]
<1>1. Old \in [RegistryRoles -> SUBSET (Accounts \cup {Manager})]
  BY DEF IInv, TypeOK
<1>2. PICK new \in [RegistryRoles -> SUBSET (Accounts \cup {Manager})] :
        /\ registryRoles' = [registryRoles EXCEPT ![registry] = new]
        /\ Old["ADMIN_ROLE"] = {} => new["ADMIN_ROLE"] = {}
  BY <1>1, SMT DEF ChangeRoleOfRegistry, ChangeRegistryRole, AC!Granted, AC!Revoked,
     AC!HasRole, RegistryRoleAdmin, RegistryRoles
<1>3. /\ UNCHANGED <<users, now, roles, paused, userRegistry, implementation,
                     escrowRegistry, decision, diverted>>
      /\ adminCalls' = adminCalls + 1
  BY DEF ChangeRoleOfRegistry, AdminCall
<1>4. TypeOK'
  BY <1>2, <1>3, SMT DEF IInv, TypeOK
<1>5. DataIsDecision'
  BY <1>3 DEF IInv, DataIsDecision
<1>6. ASSUME NEW r \in Registries, registryRoles[r]["ADMIN_ROLE"] = {}
      PROVE  registryRoles'[r]["ADMIN_ROLE"] = {}
  BY <1>2, <1>6 DEF IInv, TypeOK
<1> QED BY <1>3, <1>4, <1>5, <1>6 DEF IInv

LEMMA TickStep ==
  ASSUME IInv, Tick PROVE IInv'
<1>1. TypeOK'
  BY SMT DEF IInv, TypeOK, Tick, UserData
<1>2. DataIsDecision'
  BY DEF IInv, DataIsDecision, Tick
<1> QED BY <1>1, <1>2 DEF IInv

LEMMA StutterStep ==
  ASSUME IInv, UNCHANGED vars PROVE IInv'
BY DEF vars, IInv, TypeOK, DataIsDecision

LEMMA DecisionShows ==
  ASSUME IInv PROVE OfficersDecide
<1> SUFFICES ASSUME ~diverted, NEW u \in Users
             PROVE  IsCompliant(escrowRegistry, u) <=> Approved(u)
  BY DEF OfficersDecide
<1>1. PICK d \in UserData : d = users[escrowRegistry][u]
  BY DEF IInv, TypeOK
<1>2. /\ d.exists = decision[u].made /\ d.riskScore = decision[u].score
      /\ d.attestedAt = decision[u].at
      /\ REQUIRE_ATTESTATION /\ d.exists => d.attestationHash # NoHash /\ d.attestedAt # 0
  BY <1>1 DEF IInv, DataIsDecision
<1>3. d.attestedAt <= now /\ now \in Nat /\ d.attestedAt \in Nat
  BY <1>1 DEF IInv, TypeOK, UserData
<1>4. MIN_ATTESTATION_AGE \in Nat /\ REQUIRE_ATTESTATION \in BOOLEAN
  BY RegistryAssumption
<1>5. MIN_ATTESTATION_AGE > 0 \/ now - d.attestedAt >= MIN_ATTESTATION_AGE
  BY <1>3, <1>4, SMT
<1> QED BY <1>1, <1>2, <1>5 DEF IsCompliant, Approved, OldEnough

LEMMA Inductive ==
  ASSUME IInv, [Next]_vars PROVE IInv'
BY OfficerStep, DirectStep, PointerStep, AdminStep, RoleStep, RegistryRoleStep, TickStep,
   StutterStep DEF Next

(* The storage of the manager and of the registries keeps its types: no    *)
(* stored score is above 100 and no attestation from the future.           *)
THEOREM TypeCorrect == Spec => []TypeOK
<1>1. IInv => TypeOK
  BY DEF IInv
<1> QED BY <1>1, InitEstablishes, Inductive, PTL DEF Spec

(* As long as nobody goes around the officers, isCompliant of the registry *)
(* the escrow asks is what the officers last decided of the user.          *)
THEOREM OfficersDecideAlways == Spec => []OfficersDecide
BY InitEstablishes, Inductive, DecisionShows, PTL DEF Spec

(* No step gives ADMIN_ROLE back to a contract that has no admin.          *)
THEOREM AdminLoss == Spec => AdminLossIsFinal
<1> DEFINE Lost ==
      /\ \A r \in Registries : registryRoles[r]["ADMIN_ROLE"] = {} =>
                                 registryRoles'[r]["ADMIN_ROLE"] = {}
      /\ roles["ADMIN_ROLE"] = {} => roles'["ADMIN_ROLE"] = {}
<1>1. IInv /\ [Next]_vars => [Lost]_vars
  <2> SUFFICES ASSUME IInv, Next PROVE Lost
    OBVIOUS
  <2>1. CASE \E sender \in Accounts, role \in Roles, account \in Accounts :
               ChangeRole(sender, role, account)
    BY <2>1, RoleStep
  <2>2. CASE \E sender \in Accounts, registry \in Registries, role \in RegistryRoles,
                account \in Accounts \cup {Manager} :
               ChangeRoleOfRegistry(registry, sender, role, account)
    BY <2>2, RegistryRoleStep
  <2>3. CASE UNCHANGED <<registryRoles, roles>>
    BY <2>3
  <2> QED BY <2>1, <2>2, <2>3 DEF Next, OfficerUpdate, DirectUpdate, SetUserRegistry,
             Pause, Unpause, Upgrade, SetEscrowRegistry, Tick
<1> QED BY <1>1, InitEstablishes, Inductive, PTL DEF Spec, AdminLossIsFinal

=============================================================================
