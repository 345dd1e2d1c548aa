---------------------------- MODULE MCRegistryLog ----------------------------
(* A deployer and a second account; one document, or none when only the      *)
(* accreditation of issuers is of interest. *)
EXTENDS RegistryLog

CONSTANTS deployer, bank, zero, doc, nohash

TwoAccounts == {deployer, bank}
OneDocument == {doc}
NoDocument == {}
=============================================================================
