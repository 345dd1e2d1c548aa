------------------------------ MODULE Registry ------------------------------
(***************************************************************************)
(* The contract YouthChainRegistry (blockchain/contracts): who owns it,    *)
(* which issuers are accredited, which (issuer, hash) slots hold a         *)
(* credential and which of those are revoked.  Each external function is   *)
(* one action whose first parameter is msg.sender; a revert is a disabled  *)
(* action, since a reverted transaction changes nothing.                   *)
(*                                                                         *)
(* renounceOwnership() always reverts, so it is no action at all.          *)
(***************************************************************************)
EXTENDS Naturals

CONSTANTS
  Address,       \* accounts that can sign a transaction
  ZeroAddress,   \* address(0): a parameter, never a sender
  Hash,          \* SHA-256 hashes of documents
  ZeroHash,      \* bytes32(0)
  InitialOwner   \* the constructor's argument

ASSUME ConstructorAssumption ==
  /\ InitialOwner \in Address
  /\ ZeroAddress \notin Address
  /\ ZeroHash \notin Hash

VARIABLES
  owner, pendingOwner,   \* Ownable2Step
  accreditedIssuers,
  credentials,           \* issuedAt of every slot, 0 when nothing is registered
  revokedCredentials,
  timestamp              \* block.timestamp of the open block

ownerVars == <<owner, pendingOwner>>
slotVars  == <<credentials, revokedCredentials>>
regVars   == <<owner, pendingOwner, accreditedIssuers, credentials,
               revokedCredentials, timestamp>>

Account == Address \cup {ZeroAddress}
Bytes32 == Hash \cup {ZeroHash}

\* credentialKey(issuer, hash): keccak256 of the pair, taken as injective.
Key == Account \X Bytes32

RegistryTypeOK ==
  /\ owner \in Address
  /\ pendingOwner \in Account
  /\ accreditedIssuers \in [Account -> BOOLEAN]
  /\ credentials \in [Key -> Nat]
  /\ revokedCredentials \subseteq Key
  /\ timestamp \in Nat \ {0}

Constructor ==
  /\ owner = InitialOwner
  /\ pendingOwner = ZeroAddress
  /\ accreditedIssuers = [a \in Account |-> a = InitialOwner]
  /\ credentials = [k \in Key |-> 0]
  /\ revokedCredentials = {}
  /\ timestamp = 1

-----------------------------------------------------------------------------
isRegistered(issuer, h) == credentials[<<issuer, h>>] # 0

isValid(issuer, h) ==
  /\ credentials[<<issuer, h>>] # 0
  /\ <<issuer, h>> \notin revokedCredentials

transferOwnership(sender, newOwner) ==
  /\ sender = owner
  /\ pendingOwner' = newOwner
  /\ UNCHANGED <<owner, accreditedIssuers, slotVars, timestamp>>

acceptOwnership(sender) ==
  /\ sender = pendingOwner
  /\ owner' = sender
  /\ pendingOwner' = ZeroAddress
  /\ UNCHANGED <<accreditedIssuers, slotVars, timestamp>>

accreditIssuer(sender, issuer) ==
  /\ sender = owner
  /\ accreditedIssuers' = [accreditedIssuers EXCEPT ![issuer] = TRUE]
  /\ UNCHANGED <<ownerVars, slotVars, timestamp>>

revokeIssuer(sender, issuer) ==
  /\ sender = owner
  /\ accreditedIssuers' = [accreditedIssuers EXCEPT ![issuer] = FALSE]
  /\ UNCHANGED <<ownerVars, slotVars, timestamp>>

\* Mutant: no "already exists".
registerCredential_Overwrites(sender, h) ==
  /\ accreditedIssuers[sender]
  /\ h # ZeroHash
  /\ credentials' = [credentials EXCEPT ![<<sender, h>>] = timestamp]
  /\ UNCHANGED <<ownerVars, accreditedIssuers, revokedCredentials, timestamp>>

registerCredential(sender, h) ==
  /\ accreditedIssuers[sender]
  /\ h # ZeroHash
  /\ ~isRegistered(sender, h)
  /\ credentials' = [credentials EXCEPT ![<<sender, h>>] = timestamp]
  /\ UNCHANGED <<ownerVars, accreditedIssuers, revokedCredentials, timestamp>>

revokeCredential(sender, issuer, h) ==
  /\ sender = owner
  /\ isRegistered(issuer, h)
  /\ <<issuer, h>> \notin revokedCredentials
  /\ revokedCredentials' = revokedCredentials \cup {<<issuer, h>>}
  /\ UNCHANGED <<ownerVars, accreditedIssuers, credentials, timestamp>>

-----------------------------------------------------------------------------
(* The ledger the contract implements. *)
SlotStatus(k) ==
  IF credentials[k] = 0 THEN "absent"
  ELSE IF k \in revokedCredentials THEN "revoked" ELSE "valid"

Ledger == INSTANCE CredentialLedger
            WITH Slot <- Key, status <- [k \in Key |-> SlotStatus(k)],
                 issuedAt <- credentials
=============================================================================
