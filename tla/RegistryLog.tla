----------------------------- MODULE RegistryLog -----------------------------
(***************************************************************************)
(* The registry with the events its transactions emit, the blocks they are *)
(* mined in, and listIssuers.js, which rebuilds the accreditation of every *)
(* issuer from two separate queries of the event log.                      *)
(*                                                                         *)
(* A query only sees sealed blocks.  Transactions of the open block        *)
(* commute with a query, so a query is taken between two blocks.           *)
(* block.timestamp stands for the block: both grow with every block.       *)
(***************************************************************************)
EXTENDS Registry, FiniteSets

CONSTANTS MaxBlock, MaxEvents  \* bounds of a run: its blocks, its log

VARIABLES
  log,           \* the set of events; (block, logIndex) orders them
  logIndex,      \* index of the next event of the open block
  listing,       \* the listIssuers.js process
  droppedSince   \* history: accounts unaccredited at some point of the listing

logVars == <<log, logIndex>>
vars == <<regVars, log, logIndex, listing, droppedSince>>

AccreditationChange == {"IssuerAccredited", "IssuerRevoked"}
CredentialChange    == {"CredentialRegistered", "CredentialRevoked"}

Event == [name : AccreditationChange \cup CredentialChange,
          issuer : Account, hash : Bytes32, block : Nat, logIndex : Nat]

TypeOK ==
  /\ RegistryTypeOK
  /\ log \subseteq Event
  /\ logIndex \in Nat
  /\ listing.pc \in {"idle", "accreditedRead", "done"}
  /\ listing.accredited \subseteq log
  /\ droppedSince \subseteq Account

IdleListing == [pc |-> "idle", accredited |-> {}, issuers |-> <<>>]

Init ==
  /\ Constructor
  /\ log = {[name |-> "IssuerAccredited", issuer |-> InitialOwner,
             hash |-> ZeroHash, block |-> 1, logIndex |-> 0]}
  /\ logIndex = 1
  /\ listing = IdleListing
  /\ droppedSince = {}

-----------------------------------------------------------------------------
(* Transactions of the open block. *)
Emit(name, issuer, h) ==
  /\ Cardinality(log) < MaxEvents
  /\ logIndex' = logIndex + 1
  /\ log' = log \cup {[name |-> name, issuer |-> issuer, hash |-> h,
                       block |-> timestamp, logIndex |-> logIndex]}
  /\ droppedSince' = IF name = "IssuerRevoked" /\ listing.pc = "accreditedRead"
                     THEN droppedSince \cup {issuer} ELSE droppedSince
  /\ UNCHANGED listing

\* OwnershipTransferStarted and OwnershipTransferred are never queried, and
\* only the order of the queried events matters: they are left out of log.
TransferOwnership(sender, newOwner) ==
  /\ transferOwnership(sender, newOwner)
  /\ UNCHANGED <<logVars, listing, droppedSince>>

AcceptOwnership(sender) ==
  /\ acceptOwnership(sender)
  /\ UNCHANGED <<logVars, listing, droppedSince>>

AccreditIssuer(sender, issuer) ==
  /\ accreditIssuer(sender, issuer)
  /\ Emit("IssuerAccredited", issuer, ZeroHash)

RevokeIssuer(sender, issuer) ==
  /\ revokeIssuer(sender, issuer)
  /\ Emit("IssuerRevoked", issuer, ZeroHash)

RegisterCredential(sender, h) ==
  /\ registerCredential(sender, h)
  /\ Emit("CredentialRegistered", sender, h)

RevokeCredential(sender, issuer, h) ==
  /\ revokeCredential(sender, issuer, h)
  /\ Emit("CredentialRevoked", issuer, h)

SealBlock ==
  /\ logIndex > 0
  /\ timestamp < MaxBlock
  /\ timestamp' = timestamp + 1
  /\ logIndex' = 0
  /\ UNCHANGED <<ownerVars, accreditedIssuers, slotVars, log, listing,
                 droppedSince>>

-----------------------------------------------------------------------------
(* scripts/listIssuers.js *)
Named(events, name) == {e \in events : e.name = name}

\* Mutant: the log index within a block is not compared.
Newer_BlockOnly(e, f) == e.block > f.block

Newer(e, f) ==
  \/ e.block > f.block
  \/ e.block = f.block /\ e.logIndex > f.logIndex

\* latestByAddress: each address with whether its newest event accredits it.
IsLatest(events, e) ==
  /\ e \in events
  /\ \A f \in events : f.issuer = e.issuer => ~Newer(f, e)

Replay(events) ==
  [a \in {e.issuer : e \in events} |->
     \E e \in events : /\ e.issuer = a
                       /\ IsLatest(events, e)
                       /\ e.name = "IssuerAccredited"]

QueryAccredited ==
  /\ logIndex = 0
  /\ listing.pc # "accreditedRead"
  /\ listing' = [pc |-> "accreditedRead",
                 accredited |-> Named(log, "IssuerAccredited"),
                 issuers |-> <<>>]
  /\ droppedSince' = {a \in Account : ~accreditedIssuers[a]}
  /\ UNCHANGED <<regVars, logVars>>

QueryRevoked ==
  /\ logIndex = 0
  /\ listing.pc = "accreditedRead"
  /\ listing' = [pc |-> "done", accredited |-> {},
                 issuers |-> Replay(listing.accredited
                                      \cup Named(log, "IssuerRevoked"))]
  /\ UNCHANGED <<regVars, logVars, droppedSince>>

Next ==
  \/ \E sender \in Address :
       \/ \E newOwner \in Account : TransferOwnership(sender, newOwner)
       \/ AcceptOwnership(sender)
       \/ \E issuer \in Account :
            \/ AccreditIssuer(sender, issuer)
            \/ RevokeIssuer(sender, issuer)
            \/ \E h \in Bytes32 : RevokeCredential(sender, issuer, h)
       \/ \E h \in Bytes32 : RegisterCredential(sender, h)
  \/ SealBlock
  \/ QueryAccredited
  \/ QueryRevoked

Spec == Init /\ [][Next]_vars

-----------------------------------------------------------------------------
(* Properties *)

\* The newest change before e (in block order) accredits e's issuer.
AccreditedBefore(e) ==
  \E c \in log :
    /\ c.name = "IssuerAccredited" /\ c.issuer = e.issuer /\ Newer(e, c)
    /\ \A d \in log : d.name = "IssuerRevoked" /\ d.issuer = e.issuer
                        /\ Newer(e, d) => Newer(c, d)

\* The event log is a complete history: the contract's accreditation,
\* registrations and revocations can all be rebuilt from it (the reason
\* listIssuers.js and the backend keep no table of issuers).
AuditTrail ==
  /\ \A a \in Account :
       accreditedIssuers[a] <=>
         \E e \in log : /\ e.name = "IssuerAccredited" /\ e.issuer = a
                        /\ \A f \in log : f.name = "IssuerRevoked"
                                            /\ f.issuer = a => Newer(e, f)
  /\ \A i \in Account, h \in Bytes32 :
       /\ isRegistered(i, h) <=>
            \E e \in log : e.name = "CredentialRegistered"
                             /\ e.issuer = i /\ e.hash = h
       /\ <<i, h>> \in revokedCredentials <=>
            \E e \in log : e.name = "CredentialRevoked"
                             /\ e.issuer = i /\ e.hash = h

\* Every registration was made while its issuer was accredited, whatever
\* became of the issuer later (onlyAccreditedIssuer, read from the log).
RegisteredWhileAccredited ==
  \A e \in log : e.name = "CredentialRegistered" => AccreditedBefore(e)

\* The list the admin page shows is right although it is read by two queries
\* with blocks mined in between: an issuer shown as accredited is accredited
\* when the list is complete, and one that stayed accredited throughout is
\* shown as accredited.
ListingIsCurrent ==
  [][listing.pc = "accreditedRead" /\ listing'.pc = "done" =>
       /\ \A a \in DOMAIN listing'.issuers :
            listing'.issuers[a] => accreditedIssuers[a]
       /\ \A a \in Account \ droppedSince :
            a \in DOMAIN listing'.issuers /\ listing'.issuers[a]]_vars

\* Ownership is only ever taken by the account the owner last nominated, so
\* a mistyped or unreachable address can never end up owning the registry
\* (why the contract uses Ownable2Step).
OwnershipIsClaimed ==
  [][owner' # owner => owner' = pendingOwner /\ pendingOwner' = ZeroAddress]_vars

\* The contract implements the ledger: a slot is registered once, revoked at
\* most once, and no other slot is touched by either.
LedgerSpec == Ledger!Spec
=============================================================================
