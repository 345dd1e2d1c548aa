--------------------------- MODULE RegistryProofs ---------------------------
(***************************************************************************)
(* Proofs about the registry, its event log and listIssuers.js, for any    *)
(* accounts, documents, bounds and order of transactions.                  *)
(***************************************************************************)
EXTENDS RegistryLog, TLAPS

(* Type correctness *)

LEMMA InitTypeOK == Init => TypeOK
  BY ConstructorAssumption DEF Init, Constructor, TypeOK, RegistryTypeOK, Account,
     Key, Bytes32, Event, IdleListing, AccreditationChange, CredentialChange

\* What a transaction appends to the log is an event.
LEMMA EmitType ==
  ASSUME TypeOK, NEW n \in AccreditationChange \cup CredentialChange,
         NEW i \in Account, NEW h \in Bytes32, Emit(n, i, h)
  PROVE  /\ log' \subseteq Event /\ log \subseteq log'
         /\ logIndex' \in Nat
         /\ listing' = listing
         /\ droppedSince' \subseteq Account
  BY DEF Emit, TypeOK, RegistryTypeOK, Event

LEMMA NextTypeOK == TypeOK /\ [Next]_vars => TypeOK'
<1> SUFFICES ASSUME TypeOK, [Next]_vars PROVE TypeOK'
  OBVIOUS
<1> USE ConstructorAssumption DEF ownerVars, slotVars, regVars, logVars
<1>1. ASSUME NEW s \in Address, NEW o \in Account, TransferOwnership(s, o)
      PROVE  TypeOK'
  BY <1>1 DEF TypeOK, RegistryTypeOK, TransferOwnership, transferOwnership
<1>2. ASSUME NEW s \in Address, AcceptOwnership(s)
      PROVE  TypeOK'
  BY <1>2 DEF TypeOK, RegistryTypeOK, AcceptOwnership, acceptOwnership, Account
<1>3. ASSUME NEW s \in Address, NEW i \in Account, AccreditIssuer(s, i)
      PROVE  TypeOK'
  <2>1. ZeroHash \in Bytes32 /\ "IssuerAccredited" \in AccreditationChange
    BY DEF Bytes32, AccreditationChange
  <2> QED
    BY <1>3, <2>1, EmitType
       DEF TypeOK, RegistryTypeOK, AccreditIssuer, accreditIssuer
<1>4. ASSUME NEW s \in Address, NEW i \in Account, RevokeIssuer(s, i)
      PROVE  TypeOK'
  <2>1. ZeroHash \in Bytes32 /\ "IssuerRevoked" \in AccreditationChange
    BY DEF Bytes32, AccreditationChange
  <2> QED
    BY <1>4, <2>1, EmitType
       DEF TypeOK, RegistryTypeOK, RevokeIssuer, revokeIssuer
<1>5. ASSUME NEW s \in Address, NEW i \in Account, NEW h \in Bytes32,
             RevokeCredential(s, i, h)
      PROVE  TypeOK'
  <2>1. "CredentialRevoked" \in CredentialChange /\ <<i, h>> \in Key
    BY DEF CredentialChange, Key
  <2> QED
    BY <1>5, <2>1, EmitType
       DEF TypeOK, RegistryTypeOK, RevokeCredential, revokeCredential
<1>6. ASSUME NEW s \in Address, NEW h \in Bytes32, RegisterCredential(s, h)
      PROVE  TypeOK'
  <2>1. "CredentialRegistered" \in CredentialChange /\ s \in Account
    BY DEF CredentialChange, Account
  <2> QED
    BY <1>6, <2>1, EmitType
       DEF TypeOK, RegistryTypeOK, RegisterCredential, registerCredential
<1>7. CASE SealBlock
  BY <1>7 DEF TypeOK, RegistryTypeOK, SealBlock
<1>8. CASE QueryAccredited
  BY <1>8 DEF TypeOK, RegistryTypeOK, QueryAccredited, Named
<1>9. CASE QueryRevoked
  BY <1>9 DEF TypeOK, RegistryTypeOK, QueryRevoked
<1>10. CASE UNCHANGED vars
  BY <1>10 DEF TypeOK, RegistryTypeOK, vars
<1> QED
  BY <1>1, <1>2, <1>3, <1>4, <1>5, <1>6, <1>7, <1>8, <1>9, <1>10 DEF Next

\* Every variable of the contract keeps its type; above all the owner is
\* always an account that can sign, never the zero address.
THEOREM TypeCorrect == Spec => []TypeOK
  BY InitTypeOK, NextTypeOK, PTL DEF Spec

-----------------------------------------------------------------------------
(* The order of the log *)

\* Every event lies before the position the next one will take.
Positions ==
  \A e \in log : \/ e.block < timestamp
                 \/ e.block = timestamp /\ e.logIndex < logIndex

TotalOrder == \A e, f \in log : e = f \/ Newer(e, f) \/ Newer(f, e)

\* An accredited issuer's newest change is an accreditation.
AccreditedLatest ==
  \A a \in Account : accreditedIssuers[a] =>
    \E e \in log :
      /\ e.name = "IssuerAccredited" /\ e.issuer = a
      /\ \A f \in log : f.name \in AccreditationChange /\ f.issuer = a
                          => ~Newer(f, e)

LogInv == TypeOK /\ Positions /\ TotalOrder /\ AccreditedLatest /\ AuditTrail
            /\ RegisteredWhileAccredited

NewEvent(n, i, h) == [name |-> n, issuer |-> i, hash |-> h,
                      block |-> timestamp, logIndex |-> logIndex]

\* The event a transaction emits is newer than all that are in the log.
LEMMA EmitAppends ==
  ASSUME TypeOK, Positions, TotalOrder, timestamp' = timestamp,
         NEW n \in AccreditationChange \cup CredentialChange,
         NEW i \in Account, NEW h \in Bytes32, Emit(n, i, h)
  PROVE  /\ log' = log \cup {NewEvent(n, i, h)}
         /\ NewEvent(n, i, h) \in Event
         /\ \A e \in log : Newer(NewEvent(n, i, h), e) /\ ~Newer(e, NewEvent(n, i, h))
         /\ ~Newer(NewEvent(n, i, h), NewEvent(n, i, h))
         /\ Positions' /\ TotalOrder'
<1> DEFINE new == NewEvent(n, i, h)
<1>1. log' = log \cup {new} /\ logIndex' = logIndex + 1
  BY DEF Emit, NewEvent
<1>2. /\ new \in Event /\ new.block = timestamp /\ new.logIndex = logIndex
      /\ timestamp \in Nat /\ logIndex \in Nat
      /\ \A e \in log : e.block \in Nat /\ e.logIndex \in Nat
  BY DEF NewEvent, Event, TypeOK, RegistryTypeOK
<1>3. \A e \in log : Newer(new, e) /\ ~Newer(e, new)
  BY <1>2 DEF Positions, Newer
<1>4. ~Newer(new, new)
  BY <1>2 DEF Newer
<1>5. Positions'
  BY <1>1, <1>2 DEF Positions
<1>6. TotalOrder'
  BY <1>1, <1>3 DEF TotalOrder
<1> QED
  BY <1>1, <1>2, <1>3, <1>4, <1>5, <1>6

\* A log of which nothing but the end grows keeps what it said of an earlier
\* event: AccreditedBefore looks only at older ones.
LEMMA AccreditedBeforeKept ==
  ASSUME TypeOK, Positions, TotalOrder, timestamp' = timestamp,
         NEW n \in AccreditationChange \cup CredentialChange,
         NEW i \in Account, NEW h \in Bytes32, Emit(n, i, h),
         NEW e \in log, AccreditedBefore(e)
  PROVE  AccreditedBefore(e)'
  BY EmitAppends DEF AccreditedBefore

LEMMA InitLogInv == Init => LogInv
<1> SUFFICES ASSUME Init PROVE LogInv
  OBVIOUS
<1>1. TypeOK
  BY InitTypeOK
<1> DEFINE first == [name |-> "IssuerAccredited", issuer |-> InitialOwner,
                     hash |-> ZeroHash, block |-> 1, logIndex |-> 0]
<1>2. log = {first} /\ timestamp = 1 /\ logIndex = 1
  BY DEF Init, Constructor
<1>3. ~Newer(first, first)
  BY DEF Newer
<1>4. Positions /\ TotalOrder
  BY <1>2 DEF Positions, TotalOrder
<1>5. AccreditedLatest
  <2> SUFFICES ASSUME NEW a \in Account, accreditedIssuers[a]
               PROVE  \A f \in log : ~Newer(f, first) /\ first.issuer = a
    BY <1>2 DEF AccreditedLatest
  <2> QED
    BY <1>2, <1>3 DEF Init, Constructor
<1>6. AuditTrail
  <2>0. /\ first.name = "IssuerAccredited" /\ first.issuer = InitialOwner
        /\ \A a \in Account : accreditedIssuers[a] <=> a = InitialOwner
    BY DEF Init, Constructor
  <2>1. ASSUME NEW a \in Account
        PROVE  accreditedIssuers[a] <=>
                 \E e \in log : /\ e.name = "IssuerAccredited" /\ e.issuer = a
                                /\ \A f \in log : f.name = "IssuerRevoked"
                                                    /\ f.issuer = a => Newer(e, f)
    <3> HIDE DEF first
    <3> QED
      BY <1>2, <2>0
  <2>2. \A i \in Account, h \in Bytes32 : ~isRegistered(i, h)
    BY DEF Init, Constructor, isRegistered, Key
  <2>3. \A i \in Account, h \in Bytes32 : <<i, h>> \notin revokedCredentials
    BY DEF Init, Constructor
  <2> QED
    BY <1>2, <2>1, <2>2, <2>3 DEF AuditTrail
<1>7. RegisteredWhileAccredited
  BY <1>2 DEF RegisteredWhileAccredited
<1> QED
  BY <1>1, <1>4, <1>5, <1>6, <1>7 DEF LogInv

-----------------------------------------------------------------------------
(* Every step keeps LogInv *)

\* A step that emits no event keeps what the log says.
LEMMA QuietStep ==
  ASSUME LogInv, TypeOK', Positions',
         UNCHANGED <<log, accreditedIssuers, credentials, revokedCredentials>>
  PROVE  LogInv'
<1>1. AuditTrail'
  BY DEF LogInv, AuditTrail, isRegistered
<1>2. AccreditedLatest' /\ TotalOrder'
  BY DEF LogInv, AccreditedLatest, TotalOrder
<1>3. RegisteredWhileAccredited'
  BY DEF LogInv, RegisteredWhileAccredited, AccreditedBefore
<1> QED
  BY <1>1, <1>2, <1>3 DEF LogInv

\* An accreditation moves issuer i's newest change to the new event.
LEMMA AccreditStep ==
  ASSUME LogInv, TypeOK', NEW s \in Address, NEW i \in Account, AccreditIssuer(s, i)
  PROVE  LogInv'
<1> DEFINE new == NewEvent("IssuerAccredited", i, ZeroHash)
<1>1. /\ Emit("IssuerAccredited", i, ZeroHash)
      /\ accreditedIssuers' = [accreditedIssuers EXCEPT ![i] = TRUE]
      /\ UNCHANGED <<timestamp, credentials, revokedCredentials>>
  BY DEF AccreditIssuer, accreditIssuer, slotVars
<1>2. /\ "IssuerAccredited" \in AccreditationChange \cup CredentialChange
      /\ ZeroHash \in Bytes32
  BY DEF AccreditationChange, Bytes32
<1>3. /\ log' = log \cup {new} /\ new.name = "IssuerAccredited" /\ new.issuer = i
      /\ \A e \in log : Newer(new, e) /\ ~Newer(e, new)
      /\ ~Newer(new, new) /\ Positions' /\ TotalOrder'
  BY <1>1, <1>2, EmitAppends DEF LogInv, NewEvent
<1>4. accreditedIssuers'[i] /\ \A a \in Account \ {i} : accreditedIssuers'[a] = accreditedIssuers[a]
  BY <1>1 DEF LogInv, TypeOK, RegistryTypeOK
<1> HIDE DEF new
<1>5. AccreditedLatest'
  BY <1>3, <1>4 DEF LogInv, AccreditedLatest
<1>6. ASSUME NEW a \in Account
      PROVE  accreditedIssuers'[a] <=>
               \E e \in log' : /\ e.name = "IssuerAccredited" /\ e.issuer = a
                               /\ \A f \in log' : f.name = "IssuerRevoked"
                                                    /\ f.issuer = a => Newer(e, f)
  <2>1. CASE a = i
    BY <1>3, <1>4, <2>1
  <2>2. CASE a # i
    BY <1>3, <1>4, <2>2 DEF LogInv, AuditTrail
  <2> QED
    BY <2>1, <2>2
<1>7. AuditTrail'
  BY <1>1, <1>3, <1>6 DEF LogInv, AuditTrail, isRegistered
<1>8. RegisteredWhileAccredited'
  BY <1>1, <1>2, <1>3, AccreditedBeforeKept DEF LogInv, RegisteredWhileAccredited
<1> QED
  BY <1>3, <1>5, <1>7, <1>8 DEF LogInv

\* A revocation is newer than every accreditation of issuer i.
LEMMA RevokeIssuerStep ==
  ASSUME LogInv, TypeOK', NEW s \in Address, NEW i \in Account, RevokeIssuer(s, i)
  PROVE  LogInv'
<1> DEFINE new == NewEvent("IssuerRevoked", i, ZeroHash)
<1>1. /\ Emit("IssuerRevoked", i, ZeroHash)
      /\ accreditedIssuers' = [accreditedIssuers EXCEPT ![i] = FALSE]
      /\ UNCHANGED <<timestamp, credentials, revokedCredentials>>
  BY DEF RevokeIssuer, revokeIssuer, slotVars
<1>2. /\ "IssuerRevoked" \in AccreditationChange \cup CredentialChange
      /\ ZeroHash \in Bytes32
  BY DEF AccreditationChange, Bytes32
<1>3. /\ log' = log \cup {new} /\ new.name = "IssuerRevoked" /\ new.issuer = i
      /\ \A e \in log : Newer(new, e) /\ ~Newer(e, new)
      /\ ~Newer(new, new) /\ Positions' /\ TotalOrder'
  BY <1>1, <1>2, EmitAppends DEF LogInv, NewEvent
<1>4. ~accreditedIssuers'[i] /\ \A a \in Account \ {i} : accreditedIssuers'[a] = accreditedIssuers[a]
  BY <1>1 DEF LogInv, TypeOK, RegistryTypeOK
<1> HIDE DEF new
<1>5. AccreditedLatest'
  BY <1>3, <1>4 DEF LogInv, AccreditedLatest
<1>6. ASSUME NEW a \in Account
      PROVE  accreditedIssuers'[a] <=>
               \E e \in log' : /\ e.name = "IssuerAccredited" /\ e.issuer = a
                               /\ \A f \in log' : f.name = "IssuerRevoked"
                                                    /\ f.issuer = a => Newer(e, f)
  <2>1. CASE a = i
    BY <1>3, <1>4, <2>1
  <2>2. CASE a # i
    BY <1>3, <1>4, <2>2 DEF LogInv, AuditTrail
  <2> QED
    BY <2>1, <2>2
<1>7. AuditTrail'
  BY <1>1, <1>3, <1>6 DEF LogInv, AuditTrail, isRegistered
<1>8. RegisteredWhileAccredited'
  BY <1>1, <1>2, <1>3, AccreditedBeforeKept DEF LogInv, RegisteredWhileAccredited
<1> QED
  BY <1>3, <1>5, <1>7, <1>8 DEF LogInv

\* AuditTrail, what it says of credentials.
LEMMA CredentialTrail ==
  ASSUME LogInv, NEW i \in Account, NEW h \in Bytes32
  PROVE  /\ isRegistered(i, h) <=>
              \E e \in log : e.name = "CredentialRegistered"
                               /\ e.issuer = i /\ e.hash = h
         /\ <<i, h>> \in revokedCredentials <=>
              \E e \in log : e.name = "CredentialRevoked"
                               /\ e.issuer = i /\ e.hash = h
<1>1. AuditTrail
  BY DEF LogInv
<1> QED
  BY <1>1 DEF AuditTrail, isRegistered

\* A registration is newer than the accreditation its guard requires.
LEMMA RegisterStep ==
  ASSUME LogInv, TypeOK', NEW s \in Address, NEW h \in Bytes32, RegisterCredential(s, h)
  PROVE  LogInv'
<1> DEFINE new == NewEvent("CredentialRegistered", s, h)
<1>1. /\ Emit("CredentialRegistered", s, h) /\ accreditedIssuers[s]
      /\ credentials' = [credentials EXCEPT ![<<s, h>>] = timestamp]
      /\ UNCHANGED <<timestamp, accreditedIssuers, revokedCredentials>>
  BY DEF RegisterCredential, registerCredential, slotVars
<1>2. "CredentialRegistered" \in AccreditationChange \cup CredentialChange /\ s \in Account
  BY DEF CredentialChange, Account
<1>3. /\ log' = log \cup {new} /\ new.name = "CredentialRegistered"
      /\ new.issuer = s /\ new.hash = h
      /\ \A e \in log : Newer(new, e) /\ ~Newer(e, new)
      /\ Positions' /\ TotalOrder'
  BY <1>1, <1>2, EmitAppends DEF LogInv, NewEvent
<1>4. \A i \in Account, g \in Bytes32 :
        isRegistered(i, g)' <=> (isRegistered(i, g) \/ (i = s /\ g = h))
  <2> SUFFICES ASSUME NEW i \in Account, NEW g \in Bytes32
               PROVE  isRegistered(i, g)' <=> (isRegistered(i, g) \/ (i = s /\ g = h))
    OBVIOUS
  <2>1. /\ credentials \in [Key -> Nat] /\ timestamp # 0
        /\ <<i, g>> \in Key /\ <<s, h>> \in Key
    BY <1>2 DEF LogInv, TypeOK, RegistryTypeOK, Key
  <2>2. CASE i = s /\ g = h
    BY <1>1, <2>1, <2>2 DEF isRegistered
  <2>3. CASE ~(i = s /\ g = h)
    <3>1. credentials'[<<i, g>>] = credentials[<<i, g>>]
      BY <1>1, <2>1, <2>3
    <3> QED
      BY <2>3, <3>1 DEF isRegistered
  <2> QED
    BY <2>2, <2>3
<1> HIDE DEF new
<1>5. AccreditedLatest'
  BY <1>1, <1>3 DEF LogInv, AccreditedLatest, AccreditationChange
<1>6. AuditTrail'
  <2>1. \A a \in Account :
          accreditedIssuers'[a] <=>
            \E e \in log' : /\ e.name = "IssuerAccredited" /\ e.issuer = a
                            /\ \A f \in log' : f.name = "IssuerRevoked"
                                                 /\ f.issuer = a => Newer(e, f)
    BY <1>1, <1>3 DEF LogInv, AuditTrail
  <2>2. ASSUME NEW i \in Account, NEW g \in Bytes32
        PROVE  isRegistered(i, g)' <=>
                 \E e \in log' : e.name = "CredentialRegistered"
                                   /\ e.issuer = i /\ e.hash = g
    <3>1. isRegistered(i, g)' <=> (isRegistered(i, g) \/ (i = s /\ g = h))
      BY <1>4
    <3>2. isRegistered(i, g) <=> \E e \in log : e.name = "CredentialRegistered"
                                                 /\ e.issuer = i /\ e.hash = g
      BY CredentialTrail DEF isRegistered
    <3> QED
      BY <1>3, <3>1, <3>2 DEF isRegistered
  <2>3. ASSUME NEW i \in Account, NEW g \in Bytes32
        PROVE  <<i, g>> \in revokedCredentials' <=>
                 \E e \in log' : e.name = "CredentialRevoked"
                                   /\ e.issuer = i /\ e.hash = g
    BY <1>1, <1>3, CredentialTrail
  <2> QED
    BY <2>1, <2>2, <2>3 DEF AuditTrail
<1>7. PICK c \in log :
        /\ c.name = "IssuerAccredited" /\ c.issuer = s
        /\ \A d \in log : d.name = "IssuerRevoked" /\ d.issuer = s => Newer(c, d)
  BY <1>1, <1>2 DEF LogInv, AuditTrail
<1>8. RegisteredWhileAccredited'
  <2> SUFFICES ASSUME NEW e \in log', e.name = "CredentialRegistered"
               PROVE  AccreditedBefore(e)'
    BY DEF RegisteredWhileAccredited
  <2>1. CASE e \in log
    BY <1>1, <1>2, <2>1, AccreditedBeforeKept DEF LogInv, RegisteredWhileAccredited
  <2>2. CASE e = new
    BY <1>3, <1>7, <2>2 DEF AccreditedBefore
  <2> QED
    BY <1>3, <2>1, <2>2
<1> QED
  BY <1>3, <1>5, <1>6, <1>8 DEF LogInv

\* A revocation of a credential adds its event and its slot.
LEMMA RevokeCredentialStep ==
  ASSUME LogInv, TypeOK', NEW s \in Address, NEW i \in Account, NEW h \in Bytes32,
         RevokeCredential(s, i, h)
  PROVE  LogInv'
<1> DEFINE new == NewEvent("CredentialRevoked", i, h)
<1>1. /\ Emit("CredentialRevoked", i, h)
      /\ revokedCredentials' = revokedCredentials \cup {<<i, h>>}
      /\ UNCHANGED <<timestamp, accreditedIssuers, credentials>>
  BY DEF RevokeCredential, revokeCredential
<1>2. "CredentialRevoked" \in AccreditationChange \cup CredentialChange
  BY DEF CredentialChange
<1>3. /\ log' = log \cup {new} /\ new.name = "CredentialRevoked"
      /\ new.issuer = i /\ new.hash = h
      /\ Positions' /\ TotalOrder'
  BY <1>1, <1>2, EmitAppends DEF LogInv, NewEvent
<1> HIDE DEF new
<1>4. AccreditedLatest'
  BY <1>1, <1>3 DEF LogInv, AccreditedLatest, AccreditationChange
<1>5. AuditTrail'
  <2>1. \A a \in Account :
          accreditedIssuers'[a] <=>
            \E e \in log' : /\ e.name = "IssuerAccredited" /\ e.issuer = a
                            /\ \A f \in log' : f.name = "IssuerRevoked"
                                                 /\ f.issuer = a => Newer(e, f)
    BY <1>1, <1>3 DEF LogInv, AuditTrail
  <2>2. ASSUME NEW j \in Account, NEW g \in Bytes32
        PROVE  isRegistered(j, g)' <=>
                 \E e \in log' : e.name = "CredentialRegistered"
                                   /\ e.issuer = j /\ e.hash = g
    BY <1>1, <1>3, CredentialTrail DEF isRegistered
  <2>3. \A j \in Account, g \in Bytes32 :
          <<j, g>> \in revokedCredentials' <=>
            \E e \in log' : e.name = "CredentialRevoked"
                              /\ e.issuer = j /\ e.hash = g
    <3> SUFFICES ASSUME NEW j \in Account, NEW g \in Bytes32
                 PROVE  <<j, g>> \in revokedCredentials' <=>
                          \E e \in log' : e.name = "CredentialRevoked"
                                            /\ e.issuer = j /\ e.hash = g
      OBVIOUS
    <3>1. <<j, g>> \in revokedCredentials' <=>
            (<<j, g>> \in revokedCredentials \/ (i = j /\ h = g))
      BY <1>1
    <3> QED
      BY <1>3, <3>1, CredentialTrail
  <2> QED
    BY <2>1, <2>2, <2>3 DEF AuditTrail
<1>6. RegisteredWhileAccredited'
  BY <1>1, <1>2, <1>3, AccreditedBeforeKept DEF LogInv, RegisteredWhileAccredited
<1> QED
  BY <1>3, <1>4, <1>5, <1>6 DEF LogInv

LEMMA NextLogInv == LogInv /\ [Next]_vars => LogInv'
<1> SUFFICES ASSUME LogInv, [Next]_vars PROVE LogInv'
  OBVIOUS
<1>0. TypeOK'
  BY NextTypeOK DEF LogInv
<1>1. ASSUME NEW s \in Address, NEW o \in Account, TransferOwnership(s, o)
      PROVE  LogInv'
  BY <1>0, <1>1, QuietStep
     DEF LogInv, Positions, TransferOwnership, transferOwnership, slotVars, logVars
<1>2. ASSUME NEW s \in Address, AcceptOwnership(s)
      PROVE  LogInv'
  BY <1>0, <1>2, QuietStep
     DEF LogInv, Positions, AcceptOwnership, acceptOwnership, slotVars, logVars
<1>3. ASSUME NEW s \in Address, NEW i \in Account, AccreditIssuer(s, i)
      PROVE  LogInv'
  BY <1>0, <1>3, AccreditStep
<1>4. ASSUME NEW s \in Address, NEW i \in Account, RevokeIssuer(s, i)
      PROVE  LogInv'
  BY <1>0, <1>4, RevokeIssuerStep
<1>5. ASSUME NEW s \in Address, NEW i \in Account, NEW h \in Bytes32,
             RevokeCredential(s, i, h)
      PROVE  LogInv'
  BY <1>0, <1>5, RevokeCredentialStep
<1>6. ASSUME NEW s \in Address, NEW h \in Bytes32, RegisterCredential(s, h)
      PROVE  LogInv'
  BY <1>0, <1>6, RegisterStep
<1>7. CASE SealBlock
  <2>1. \A e \in log : e.block \in Nat
    BY DEF LogInv, TypeOK, Event
  <2>2. Positions'
    BY <1>7, <2>1 DEF LogInv, TypeOK, RegistryTypeOK, Positions, SealBlock
  <2> QED
    BY <1>0, <1>7, <2>2, QuietStep DEF SealBlock, slotVars
<1>8. CASE QueryAccredited \/ QueryRevoked
  BY <1>0, <1>8, QuietStep
     DEF LogInv, Positions, QueryAccredited, QueryRevoked, regVars, logVars
<1>9. CASE UNCHANGED vars
  BY <1>0, <1>9, QuietStep DEF LogInv, Positions, vars, regVars
<1> QED
  BY <1>1, <1>2, <1>3, <1>4, <1>5, <1>6, <1>7, <1>8, <1>9 DEF Next

LEMMA LogInvariant == Spec => []LogInv
  BY InitLogInv, NextLogInv, PTL DEF Spec

\* Whatever the order of transactions, the event log is the contract's whole
\* history: accreditation, registrations and revocations follow from it.
THEOREM LogComplete == Spec => []AuditTrail
<1>1. LogInv => AuditTrail
  BY DEF LogInv
<1> QED
  BY <1>1, LogInvariant, PTL

\* No document was ever registered by an issuer that was not accredited.
THEOREM OnlyAccredited == Spec => []RegisteredWhileAccredited
<1>1. LogInv => RegisteredWhileAccredited
  BY DEF LogInv
<1> QED
  BY <1>1, LogInvariant, PTL

-----------------------------------------------------------------------------
(* The two queries of listIssuers.js *)

\* Between the two queries the first one's answer is enough for every issuer
\* that stays accredited: its newest accreditation is newer than any
\* revocation the second query can still find.
HalfListing ==
  listing.pc = "accreditedRead" =>
    /\ \A e \in listing.accredited : e.name = "IssuerAccredited"
    /\ \A a \in Account \ droppedSince :
         \E e \in listing.accredited :
           /\ e.issuer = a
           /\ \A f \in listing.accredited : f.issuer = a => ~Newer(f, e)
           /\ \A f \in log : f.name = "IssuerRevoked" /\ f.issuer = a
                               => ~Newer(f, e)

LEMMA InitHalfListing == Init => HalfListing
  BY DEF Init, IdleListing, HalfListing

\* A transaction that revokes no issuer adds nothing the second query reads.
LEMMA EmitHalfListing ==
  ASSUME LogInv, HalfListing, timestamp' = timestamp,
         NEW n \in AccreditationChange \cup CredentialChange,
         NEW i \in Account, NEW h \in Bytes32, Emit(n, i, h)
  PROVE  HalfListing'
<1> DEFINE new == NewEvent(n, i, h)
<1>1. /\ log' = log \cup {new} /\ new.name = n /\ new.issuer = i
      /\ listing' = listing
      /\ droppedSince \subseteq droppedSince'
      /\ n = "IssuerRevoked" /\ listing.pc = "accreditedRead" => i \in droppedSince'
  BY DEF Emit, NewEvent
<1> HIDE DEF new
<1> QED
  BY <1>1 DEF HalfListing

LEMMA NextHalfListing == LogInv /\ HalfListing /\ [Next]_vars => HalfListing'
<1> SUFFICES ASSUME LogInv, HalfListing, [Next]_vars PROVE HalfListing'
  OBVIOUS
<1>1. ASSUME UNCHANGED <<log, listing, droppedSince>>
      PROVE  HalfListing'
  BY <1>1 DEF HalfListing
<1>2. ASSUME NEW s \in Address, NEW o \in Account, TransferOwnership(s, o)
      PROVE  HalfListing'
  BY <1>1, <1>2 DEF TransferOwnership, logVars
<1>3. ASSUME NEW s \in Address, AcceptOwnership(s)
      PROVE  HalfListing'
  BY <1>1, <1>3 DEF AcceptOwnership, logVars
<1>4. ASSUME NEW s \in Address, NEW i \in Account,
             AccreditIssuer(s, i) \/ RevokeIssuer(s, i)
      PROVE  HalfListing'
  <2>1. /\ {"IssuerAccredited", "IssuerRevoked"} \subseteq AccreditationChange
        /\ ZeroHash \in Bytes32
    BY DEF AccreditationChange, Bytes32
  <2> QED
    BY <1>4, <2>1, EmitHalfListing
       DEF AccreditIssuer, RevokeIssuer, accreditIssuer, revokeIssuer
<1>5. ASSUME NEW s \in Address, NEW i \in Account, NEW h \in Bytes32,
             RevokeCredential(s, i, h)
      PROVE  HalfListing'
  BY <1>5, EmitHalfListing DEF RevokeCredential, revokeCredential, CredentialChange
<1>6. ASSUME NEW s \in Address, NEW h \in Bytes32, RegisterCredential(s, h)
      PROVE  HalfListing'
  BY <1>6, EmitHalfListing
     DEF RegisterCredential, registerCredential, CredentialChange, Account
<1>7. CASE SealBlock
  BY <1>1, <1>7 DEF SealBlock
<1>8. CASE QueryAccredited
  <2>1. /\ listing'.accredited = Named(log, "IssuerAccredited")
        /\ log' = log
        /\ droppedSince' = {a \in Account : ~accreditedIssuers[a]}
    BY <1>8 DEF QueryAccredited, logVars
  <2>2. ASSUME NEW a \in Account \ droppedSince'
        PROVE  \E e \in listing'.accredited :
                 /\ e.issuer = a
                 /\ \A f \in listing'.accredited : f.issuer = a => ~Newer(f, e)
                 /\ \A f \in log' : f.name = "IssuerRevoked" /\ f.issuer = a
                                      => ~Newer(f, e)
    BY <2>1 DEF LogInv, AccreditedLatest, Named, AccreditationChange
  <2> QED
    BY <2>1, <2>2 DEF HalfListing, Named
<1>9. CASE QueryRevoked
  BY <1>9 DEF QueryRevoked, HalfListing
<1>10. CASE UNCHANGED vars
  BY <1>1, <1>10 DEF vars
<1> QED
  BY <1>2, <1>3, <1>4, <1>5, <1>6, <1>7, <1>8, <1>9, <1>10 DEF Next

\* The second query is the only step that completes a listing.
LEMMA ListingCompletes ==
  ASSUME [Next]_vars, listing.pc = "accreditedRead", listing'.pc = "done"
  PROVE  QueryRevoked
  BY DEF Next, vars, TransferOwnership, AcceptOwnership, AccreditIssuer, RevokeIssuer,
         RevokeCredential, RegisterCredential, Emit, SealBlock, QueryAccredited

LEMMA QueryRevokedIsCurrent ==
  ASSUME LogInv, HalfListing, QueryRevoked
  PROVE  /\ \A a \in DOMAIN listing'.issuers :
              listing'.issuers[a] => accreditedIssuers[a]
         /\ \A a \in Account \ droppedSince :
              a \in DOMAIN listing'.issuers /\ listing'.issuers[a]
<1> DEFINE events == listing.accredited \cup Named(log, "IssuerRevoked")
<1>1. /\ listing.pc = "accreditedRead"
      /\ listing'.issuers = Replay(events)
  BY DEF QueryRevoked
<1>2. /\ events \subseteq log /\ log \subseteq Event
      /\ Named(log, "IssuerRevoked") \subseteq events
  BY DEF LogInv, TypeOK, Named
<1>3. ASSUME NEW a \in DOMAIN listing'.issuers, listing'.issuers[a]
      PROVE  accreditedIssuers[a]
  <2>1. PICK e \in events : /\ e.issuer = a /\ IsLatest(events, e)
                            /\ e.name = "IssuerAccredited"
    BY <1>1, <1>3 DEF Replay
  <2>2. a \in Account
    BY <1>2, <2>1 DEF Event
  <2>3. \A f \in log : f.name = "IssuerRevoked" /\ f.issuer = a => Newer(e, f)
    BY <1>2, <2>1 DEF IsLatest, LogInv, TotalOrder, Named
  <2> QED
    BY <1>2, <2>1, <2>2, <2>3 DEF LogInv, AuditTrail
<1>4. ASSUME NEW a \in Account \ droppedSince
      PROVE  a \in DOMAIN listing'.issuers /\ listing'.issuers[a]
  <2>1. PICK e \in listing.accredited :
          /\ e.issuer = a /\ e.name = "IssuerAccredited"
          /\ \A f \in listing.accredited : f.issuer = a => ~Newer(f, e)
          /\ \A f \in log : f.name = "IssuerRevoked" /\ f.issuer = a => ~Newer(f, e)
    BY <1>1 DEF HalfListing
  <2>2. IsLatest(events, e)
    BY <2>1 DEF IsLatest, Named
  <2> QED
    BY <1>1, <2>1, <2>2 DEF Replay
<1> QED
  BY <1>3, <1>4

\* The list of issuers an admin sees is right however many blocks are mined
\* between the two queries it is read with.
THEOREM ListingCurrent == Spec => ListingIsCurrent
<1> DEFINE Step ==
      listing.pc = "accreditedRead" /\ listing'.pc = "done" =>
        /\ \A a \in DOMAIN listing'.issuers :
             listing'.issuers[a] => accreditedIssuers[a]
        /\ \A a \in Account \ droppedSince :
             a \in DOMAIN listing'.issuers /\ listing'.issuers[a]
<1>1. Spec => [](LogInv /\ HalfListing)
  BY InitLogInv, NextLogInv, InitHalfListing, NextHalfListing, PTL DEF Spec
<1>2. LogInv /\ HalfListing /\ [Next]_vars => [Step]_vars
  BY ListingCompletes, QueryRevokedIsCurrent
<1> QED
  BY <1>1, <1>2, PTL DEF Spec, ListingIsCurrent

-----------------------------------------------------------------------------
(* Ownership *)

\* Only the account the owner nominated ever takes the ownership.
THEOREM ClaimedOwnership == Spec => OwnershipIsClaimed
<1> DEFINE Step == owner' # owner => owner' = pendingOwner /\ pendingOwner' = ZeroAddress
<1>1. [Next]_vars => [Step]_vars
  BY DEF Next, vars, regVars, ownerVars, TransferOwnership, transferOwnership,
         AcceptOwnership, acceptOwnership, AccreditIssuer, accreditIssuer,
         RevokeIssuer, revokeIssuer, RevokeCredential, revokeCredential,
         RegisterCredential, registerCredential, SealBlock, QueryAccredited,
         QueryRevoked
<1> QED
  BY <1>1, PTL DEF Spec, OwnershipIsClaimed

-----------------------------------------------------------------------------
(* The registry implements CredentialLedger *)

RevokedAreRegistered == \A k \in revokedCredentials : credentials[k] # 0

LEMMA InitRevoked == Init => RevokedAreRegistered
  BY DEF Init, Constructor, RevokedAreRegistered

status == [k \in Key |-> SlotStatus(k)]

\* A registration fills one absent slot.
LEMMA RegisterLedger ==
  ASSUME TypeOK, RevokedAreRegistered,
         NEW s \in Address, NEW h \in Bytes32, registerCredential(s, h)
  PROVE  Ledger!Register(<<s, h>>) /\ RevokedAreRegistered'
<1> DEFINE k == <<s, h>>
<1>1. /\ k \in Key /\ credentials[k] = 0 /\ k \notin revokedCredentials
      /\ credentials \in [Key -> Nat] /\ timestamp \in Nat \ {0}
      /\ credentials' = [credentials EXCEPT ![k] = timestamp]
      /\ revokedCredentials' = revokedCredentials
      /\ revokedCredentials \subseteq Key
  BY DEF registerCredential, isRegistered, TypeOK, RegistryTypeOK, Key, Account,
         RevokedAreRegistered
<1> HIDE DEF k
<1>2. RevokedAreRegistered'
  BY <1>1 DEF RevokedAreRegistered
<1>3. SlotStatus(k) = "absent" /\ SlotStatus(k)' = "valid"
  BY <1>1 DEF SlotStatus
<1>4. \A j \in Key \ {k} : SlotStatus(j)' = SlotStatus(j)
  BY <1>1 DEF SlotStatus
<1>5. status' = [status EXCEPT ![k] = "valid"]
  BY <1>1, <1>3, <1>4 DEF status
<1>6. status[k] = "absent"
  BY <1>1, <1>3 DEF status
<1>7. credentials'[k] # 0 /\ credentials' = [credentials EXCEPT ![k] = credentials'[k]]
  BY <1>1
<1> QED
  BY <1>2, <1>5, <1>6, <1>7 DEF Ledger!Register, status, k

\* A revocation moves one valid slot, and keeps when it was registered.
LEMMA RevokeLedger ==
  ASSUME TypeOK, RevokedAreRegistered,
         NEW s \in Address, NEW i \in Account, NEW h \in Bytes32,
         revokeCredential(s, i, h)
  PROVE  Ledger!Revoke(<<i, h>>) /\ RevokedAreRegistered'
<1> DEFINE k == <<i, h>>
<1>1. /\ k \in Key /\ credentials[k] # 0 /\ k \notin revokedCredentials
      /\ revokedCredentials' = revokedCredentials \cup {k}
      /\ credentials' = credentials
  BY DEF revokeCredential, isRegistered, Key
<1> HIDE DEF k
<1>2. RevokedAreRegistered'
  BY <1>1 DEF RevokedAreRegistered
<1>3. SlotStatus(k) = "valid" /\ SlotStatus(k)' = "revoked"
  BY <1>1 DEF SlotStatus
<1>4. \A j \in Key \ {k} : SlotStatus(j)' = SlotStatus(j)
  BY <1>1 DEF SlotStatus
<1>5. status' = [status EXCEPT ![k] = "revoked"] /\ status[k] = "valid"
  BY <1>1, <1>3, <1>4 DEF status
<1> QED
  BY <1>1, <1>2, <1>5 DEF Ledger!Revoke, status, k

\* No other transaction touches a slot.
LEMMA OtherLedger ==
  ASSUME RevokedAreRegistered, UNCHANGED <<credentials, revokedCredentials>>
  PROVE  UNCHANGED Ledger!ledgerVars /\ RevokedAreRegistered'
  BY DEF RevokedAreRegistered, Ledger!ledgerVars, SlotStatus

LEMMA NextLedger ==
  TypeOK /\ RevokedAreRegistered /\ [Next]_vars
    => [Ledger!Next]_(Ledger!ledgerVars) /\ RevokedAreRegistered'
<1> SUFFICES ASSUME TypeOK, RevokedAreRegistered, [Next]_vars
             PROVE  [Ledger!Next]_(Ledger!ledgerVars) /\ RevokedAreRegistered'
  OBVIOUS
<1>1. ASSUME NEW s \in Address, NEW h \in Bytes32, RegisterCredential(s, h)
      PROVE  Ledger!Next /\ RevokedAreRegistered'
  <2>1. <<s, h>> \in Key
    BY DEF Key, Account
  <2> QED
    BY <1>1, <2>1, RegisterLedger DEF RegisterCredential, Ledger!Next
<1>2. ASSUME NEW s \in Address, NEW i \in Account, NEW h \in Bytes32,
             RevokeCredential(s, i, h)
      PROVE  Ledger!Next /\ RevokedAreRegistered'
  <2>1. <<i, h>> \in Key
    BY DEF Key
  <2> QED
    BY <1>2, <2>1, RevokeLedger DEF RevokeCredential, Ledger!Next
<1>3. ASSUME ~\E s \in Address, h \in Bytes32 : RegisterCredential(s, h),
             ~\E s \in Address, i \in Account, h \in Bytes32 : RevokeCredential(s, i, h)
      PROVE  UNCHANGED <<credentials, revokedCredentials>>
  BY <1>3 DEF Next, vars, regVars, slotVars, TransferOwnership, transferOwnership,
         AcceptOwnership, acceptOwnership, AccreditIssuer, accreditIssuer,
         RevokeIssuer, revokeIssuer, SealBlock, QueryAccredited, QueryRevoked
<1> QED
  BY <1>1, <1>2, <1>3, OtherLedger

\* The contract implements the ledger: for any owner, any issuers and any
\* order of transactions, a slot is registered once, revoked at most once and
\* never comes back.
THEOREM ImplementsLedger == Spec => LedgerSpec
<1>1. Init => Ledger!Init
  BY DEF Init, Constructor, Ledger!Init, SlotStatus
<1> QED
  BY <1>1, InitTypeOK, NextTypeOK, InitRevoked, NextLedger, PTL
     DEF Spec, LedgerSpec, Ledger!Spec

=============================================================================
