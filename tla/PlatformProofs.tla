--------------------------- MODULE PlatformProofs ---------------------------
(***************************************************************************)
(* Proofs about MCPlatform: the invariants of the components hold of the   *)
(* platform too, whichever of them a behavior is of and whatever sets of   *)
(* users, tokens, services, rows, keys and payloads they are given.        *)
(***************************************************************************)
EXTENDS MCPlatform, AdministrationProofs, AccessTokensProofs, ServiceEditingProofs,
        StorageProofs, MigrationsProofs

LEMMA PlatformInitIInv == PlatformInit => PlatformIInv
BY AdministrationInitIInv, AccessTokensInitIInv, ServiceEditingInitIInv, CatalogRowsInitIInv,
   MigrationsInitIInv, ApiKeysInitIInv, ObjectStorageInitIInv, PasswordUpgradeInitIInv
   DEF PlatformInit, PlatformIInv

\* In a step of the platform the part explored takes a step of its own.
LEMMA PartSteps ==
  ASSUME [PlatformNext]_platformVars
  PROVE  /\ part' = part
         /\ part = "administration" => [AdministrationNext]_adminVars
         /\ part = "tokens" => [AccessTokensNext]_tokenVars
         /\ part = "services" => [ServiceEditingNext]_serviceVars
         /\ part = "catalog" => [CatalogRowsNext]_catalogVars
         /\ part = "migrations" => [MigrationsNext]_migrationVars
         /\ part = "keys" => [ApiKeysNext]_keyVars
         /\ part = "storage" => [ObjectStorageNext]_storageVars
         /\ part = "passwords" => [PasswordUpgradeNext]_upgradeVars
<1>1. CASE PlatformNext
  BY <1>1 DEF PlatformNext
<1>2. CASE UNCHANGED platformVars
  BY <1>2 DEF platformVars
<1> QED BY <1>1, <1>2

LEMMA PlatformNextIInv == PlatformIInv /\ [PlatformNext]_platformVars => PlatformIInv'
<1> SUFFICES ASSUME PlatformIInv, [PlatformNext]_platformVars PROVE PlatformIInv'
  OBVIOUS
<1>0. part' = part
  BY PartSteps
<1>1. CASE part = "administration"
  BY <1>0, <1>1, PartSteps, AdministrationNextIInv DEF PlatformIInv
<1>2. CASE part = "tokens"
  BY <1>0, <1>2, PartSteps, AccessTokensNextIInv DEF PlatformIInv
<1>3. CASE part = "services"
  BY <1>0, <1>3, PartSteps, ServiceEditingNextIInv DEF PlatformIInv
<1>4. CASE part = "catalog"
  BY <1>0, <1>4, PartSteps, CatalogRowsNextIInv DEF PlatformIInv
<1>5. CASE part = "migrations"
  BY <1>0, <1>5, PartSteps, MigrationsNextIInv DEF PlatformIInv
<1>6. CASE part = "keys"
  BY <1>0, <1>6, PartSteps, ApiKeysNextIInv DEF PlatformIInv
<1>7. CASE part = "storage"
  BY <1>0, <1>7, PartSteps, ObjectStorageNextIInv DEF PlatformIInv
<1>8. CASE part = "passwords"
  BY <1>0, <1>8, PartSteps, PasswordUpgradeNextIInv DEF PlatformIInv
<1>9. part \in Parts
  BY DEF PlatformIInv
<1> QED BY <1>1, <1>2, <1>3, <1>4, <1>5, <1>6, <1>7, <1>8, <1>9 DEF Parts

\* Whichever component a behavior is of, its inductive invariant holds.
THEOREM PlatformIInvHolds == PlatformSpec => []PlatformIInv
BY PlatformInitIInv, PlatformNextIInv, PTL DEF PlatformSpec

\* Whichever component a behavior is of, its variables keep their types.
THEOREM PlatformTypes == PlatformSpec => []PlatformTypeOK
<1>1. PlatformIInv => PlatformTypeOK
  BY DEF PlatformIInv, PlatformTypeOK, AdministrationIInv, AccessTokensIInv, ServiceEditingIInv,
         CatalogRowsIInv, MigrationsIInv, ApiKeysIInv, ObjectStorageIInv, PasswordUpgradeIInv
<1> QED BY <1>1, PlatformIInvHolds, PTL
=============================================================================
