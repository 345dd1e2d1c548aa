-------------------------- MODULE CredentialLedger --------------------------
(***************************************************************************)
(* What the on-chain registry promises its verifiers, without any account, *)
(* owner, event or block: every slot -- one issuer's registration of one   *)
(* document hash -- goes from "absent" to "valid" to "revoked", one slot   *)
(* at a time and never back, and keeps the time it was first registered at *)
(* for ever.                                                               *)
(***************************************************************************)
CONSTANT Slot

VARIABLES status, issuedAt

ledgerVars == <<status, issuedAt>>

Init ==
  /\ status = [s \in Slot |-> "absent"]
  /\ issuedAt = [s \in Slot |-> 0]

Register(s) ==
  /\ status[s] = "absent"
  /\ status' = [status EXCEPT ![s] = "valid"]
  /\ issuedAt'[s] # 0
  /\ issuedAt' = [issuedAt EXCEPT ![s] = issuedAt'[s]]

Revoke(s) ==
  /\ status[s] = "valid"
  /\ status' = [status EXCEPT ![s] = "revoked"]
  /\ UNCHANGED issuedAt

Next == \E s \in Slot : Register(s) \/ Revoke(s)

Spec == Init /\ [][Next]_ledgerVars
=============================================================================
