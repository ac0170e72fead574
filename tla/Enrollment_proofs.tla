------------------------- MODULE Enrollment_proofs --------------------------
(***************************************************************************)
(* Theorems about Enrollment, for any keys, overrides, numbers of starts,  *)
(* retries and tokens, and whether or not the disk fails.                  *)
(***************************************************************************)
EXTENDS Enrollment, TLAPS

-----------------------------------------------------------------------------
(* The id a start resolves to is an id: what machine.json holds is only    *)
(* taken when it is one.                                                   *)
LEMMA ResolvesId ==
  ASSUME TypeOK, pc = "resolve", override # Invalid
  PROVE  MachineIdOf(machineFile) \in Ids
<1>1. override # None => override \in Ids
  BY DEF TypeOK, Ids
<1>2. key # None => derived(key) \in Ids
  BY DEF TypeOK, Ids
<1>3. random(starts) \in Ids
  <2>1. starts \in 1..MaxStarts
    BY EnrollmentAssumption DEF TypeOK, Starting
  <2> QED BY <2>1 DEF Ids
<1> QED BY <1>1, <1>2, <1>3 DEF MachineIdOf

(* What is read is the token filed under this machine id.                  *)
ReadsOwn ==
  /\ Read \in Tokens \cup {None}
  /\ Read # None => Read = device.token /\ machineId = paired
  /\ machineId \in Ids /\ machineId = paired => Read = device.token /\ Read # None

LEMMA ReadFacts == TypeOK /\ DeviceIsOwn => ReadsOwn
<1> SUFFICES ASSUME TypeOK, DeviceIsOwn
             PROVE  ReadsOwn
  OBVIOUS
<1>1. device \in Devices => device.token \in Tokens /\ device.token # None
  BY EnrollmentAssumption DEF Devices
<1>2. Read \in Tokens \cup {None}
  BY <1>1 DEF Read
<1>3. Read # None => Read = device.token /\ machineId = paired
  <2> SUFFICES ASSUME Read # None PROVE Read = device.token /\ machineId = paired
    OBVIOUS
  <2>1. device \in Devices /\ device.machineId = machineId /\ Read = device.token
    BY DEF Read
  <2>2. device # None
    BY <2>1, EnrollmentAssumption
  <2> QED BY <2>1, <2>2 DEF DeviceIsOwn
<1>4. ASSUME machineId \in Ids, machineId = paired
      PROVE  Read = device.token /\ Read # None
  <2>1. paired # None
    BY <1>4, EnrollmentAssumption
  <2>2. device \in Devices /\ device.machineId = machineId
    BY <1>4, <2>1 DEF DeviceIsOwn, TypeOK
  <2> QED BY <1>1, <2>2 DEF Read
<1> QED BY <1>2, <1>3, <1>4 DEF ReadsOwn

(* A start that goes on by what is in the directory serves with a current  *)
(* token of its own, or has none there.                                    *)
LEMMA GoesOnPaired ==
  ASSUME TypeOK', DeviceIsOwn', DeviceIsCurrent', machineId' \in Ids,
         pc' = IF Read' # None THEN "serving" ELSE "unpaired"
  PROVE  ServesOwnToken' /\ StaysPaired' /\ TokenIsCurrent'
<1>1. ReadsOwn'
  BY ReadFacts, PTL
<1> QED BY <1>1, EnrollmentAssumption
        DEF ReadsOwn, ServesOwnToken, StaysPaired, TokenIsCurrent, DeviceIsOwn, DeviceIsCurrent

-----------------------------------------------------------------------------
LEMMA InitInv == Init => Inv
<1> SUFFICES ASSUME Init PROVE Inv
  OBVIOUS
<1> USE EnrollmentAssumption DEF Init
<1>1. current \in [Ids -> Nat]
  OBVIOUS
<1>2. starts \in 0..MaxStarts /\ attempt \in 0..(RETRIES + 1)
  OBVIOUS
<1>3. TypeOK
  BY <1>1, <1>2 DEF TypeOK, Off, Starting
<1> QED BY <1>3
        DEF Inv, DeviceIsOwn, StoredIsRead, GotIsCurrent, DeviceIsCurrent,
            FileIsIdentity, Identified, ServesOwnToken, StaysPaired,
            TokenIsCurrent

LEMMA BootInv ==
  ASSUME Inv, Boot
  PROVE  Inv'
<1> USE DEF Inv, Boot, fileVars, accountVars, history
<1>1. TypeOK'
  BY EnrollmentAssumption DEF TypeOK, Starting
<1>2. DeviceIsOwn'
  BY DEF DeviceIsOwn
<1>3. StoredIsRead'
  BY DEF StoredIsRead
<1>4. GotIsCurrent'
  BY DEF GotIsCurrent
<1>5. DeviceIsCurrent'
  BY DEF DeviceIsCurrent, Off
<1>6. FileIsIdentity'
  BY DEF FileIsIdentity
<1>7. Identified'
  BY DEF Identified
<1>8. ServesOwnToken'
  BY DEF ServesOwnToken
<1>9. StaysPaired'
  BY DEF StaysPaired
<1>10. TokenIsCurrent'
  BY DEF TokenIsCurrent
<1> QED BY <1>1, <1>2, <1>3, <1>4, <1>5, <1>6, <1>7, <1>8, <1>9, <1>10

LEMMA RejectedInv ==
  ASSUME Inv, Rejected
  PROVE  Inv'
<1> USE DEF Inv, Rejected, configVars, startVars, fileVars, accountVars, history
<1>1. TypeOK'
  BY DEF TypeOK, Off, Starting
<1>2. DeviceIsOwn'
  BY DEF DeviceIsOwn
<1>3. StoredIsRead'
  BY DEF StoredIsRead
<1>4. GotIsCurrent'
  BY DEF GotIsCurrent
<1>5. DeviceIsCurrent'
  BY DEF DeviceIsCurrent
<1>6. FileIsIdentity'
  BY DEF FileIsIdentity
<1>7. Identified'
  BY DEF Identified, Starting
<1>8. ServesOwnToken'
  BY DEF ServesOwnToken
<1>9. StaysPaired'
  BY DEF StaysPaired
<1>10. TokenIsCurrent'
  BY DEF TokenIsCurrent
<1> QED BY <1>1, <1>2, <1>3, <1>4, <1>5, <1>6, <1>7, <1>8, <1>9, <1>10

LEMMA ResolveInv ==
  ASSUME Inv, Resolve
  PROVE  Inv'
<1> USE DEF Inv, Resolve, configVars, accountVars
<1>1. TypeOK'
  <2>1. machineId' \in Ids
    BY ResolvesId
  <2> QED BY <2>1, EnrollmentAssumption DEF TypeOK, Starting
<1>2. DeviceIsOwn'
  BY DEF DeviceIsOwn
<1>3. StoredIsRead'
  BY DEF StoredIsRead
<1>4. GotIsCurrent'
  BY DEF GotIsCurrent
<1>5. DeviceIsCurrent'
  BY DEF DeviceIsCurrent
<1>6. FileIsIdentity'
  BY DEF FileIsIdentity
<1>7. Identified'
  BY DEF Identified
<1>8. ServesOwnToken'
  BY DEF ServesOwnToken
<1>9. StaysPaired'
  BY DEF StaysPaired
<1>10. TokenIsCurrent'
  BY DEF TokenIsCurrent
<1> QED BY <1>1, <1>2, <1>3, <1>4, <1>5, <1>6, <1>7, <1>8, <1>9, <1>10

LEMMA PersistInv ==
  ASSUME Inv, Persist
  PROVE  Inv'
<1> USE DEF Inv, Persist, configVars, startVars, accountVars
<1>1. TypeOK'
  BY DEF TypeOK, Starting
<1>2. DeviceIsOwn'
  BY DEF DeviceIsOwn
<1>3. StoredIsRead'
  BY DEF StoredIsRead
<1>4. GotIsCurrent'
  BY DEF GotIsCurrent
<1>5. DeviceIsCurrent'
  BY DEF DeviceIsCurrent
<1>6. FileIsIdentity'
  BY DEF FileIsIdentity, Identified, Starting
<1>7. Identified'
  BY DEF Identified, Starting
<1>8. ServesOwnToken'
  BY DEF ServesOwnToken
<1>9. StaysPaired'
  BY DEF StaysPaired
<1>10. TokenIsCurrent'
  BY DEF TokenIsCurrent
<1> QED BY <1>1, <1>2, <1>3, <1>4, <1>5, <1>6, <1>7, <1>8, <1>9, <1>10

LEMMA ObtainInv ==
  ASSUME Inv, Obtain
  PROVE  Inv'
<1> USE DEF Inv, Obtain, configVars, fileVars, accountVars, history
<1>1. TypeOK'
  <2>1. stored' \in Tokens \cup {None}
    BY ReadFacts DEF ReadsOwn
  <2>2. pc' \in {"enroll", "serving", "unpaired"} /\ (pc' = "enroll" => attempt <= RETRIES)
    BY DEF GoOn, TypeOK, Starting
  <2> QED BY <2>1, <2>2, EnrollmentAssumption DEF TypeOK, Off, Starting
<1>2. DeviceIsOwn'
  BY DEF DeviceIsOwn
<1>3. StoredIsRead'
  BY DEF StoredIsRead, Read
<1>4. GotIsCurrent'
  BY DEF GotIsCurrent, GoOn
<1>5. DeviceIsCurrent'
  BY DEF DeviceIsCurrent
<1>6. FileIsIdentity'
  BY DEF FileIsIdentity
<1>7. Identified'
  BY DEF Identified, Starting
<1>8. ServesOwnToken' /\ StaysPaired' /\ TokenIsCurrent'
  <2>1. CASE key # None
    BY <2>1 DEF ServesOwnToken, StaysPaired, TokenIsCurrent
  <2>2. CASE key = None
    <3>1. machineId' \in Ids
      BY DEF TypeOK, Starting
    <3>2. pc' = IF Read' # None THEN "serving" ELSE "unpaired"
      BY <2>2 DEF GoOn, Read
    <3> QED BY <1>1, <1>2, <1>5, <3>1, <3>2, GoesOnPaired
  <2> QED BY <2>1, <2>2
<1> QED BY <1>1, <1>2, <1>3, <1>4, <1>5, <1>6, <1>7, <1>8

LEMMA AcceptedInv ==
  ASSUME Inv, Accepted
  PROVE  Inv'
<1> USE DEF Inv, Accepted, configVars, fileVars, history
<1>1. TypeOK'
  BY DEF TypeOK, Starting, Mint, Tokens
<1>2. DeviceIsOwn'
  BY DEF DeviceIsOwn
<1>3. StoredIsRead'
  BY DEF StoredIsRead, Read
<1>4. GotIsCurrent'
  BY EnrollmentAssumption DEF GotIsCurrent, Mint, TypeOK, Starting, Tokens
<1>5. DeviceIsCurrent'
  BY DEF DeviceIsCurrent, Mint
<1>6. FileIsIdentity'
  BY DEF FileIsIdentity
<1>7. Identified'
  BY DEF Identified, Starting
<1>8. ServesOwnToken'
  BY DEF ServesOwnToken
<1>9. StaysPaired'
  BY DEF StaysPaired
<1>10. TokenIsCurrent'
  BY DEF TokenIsCurrent
<1> QED BY <1>1, <1>2, <1>3, <1>4, <1>5, <1>6, <1>7, <1>8, <1>9, <1>10

LEMMA AnsweredInv ==
  ASSUME Inv, Answered
  PROVE  Inv'
<1> USE DEF Inv, Answered, configVars, startVars, fileVars, accountVars, history
<1>1. TypeOK'
  BY DEF TypeOK, Starting
<1>2. DeviceIsOwn'
  BY DEF DeviceIsOwn
<1>3. StoredIsRead'
  BY DEF StoredIsRead, Read
<1>4. GotIsCurrent'
  BY DEF GotIsCurrent
<1>5. DeviceIsCurrent'
  BY DEF DeviceIsCurrent
<1>6. FileIsIdentity'
  BY DEF FileIsIdentity
<1>7. Identified'
  BY DEF Identified, Starting
<1>8. ServesOwnToken'
  BY DEF ServesOwnToken
<1>9. StaysPaired'
  BY DEF StaysPaired
<1>10. TokenIsCurrent'
  BY DEF TokenIsCurrent
<1> QED BY <1>1, <1>2, <1>3, <1>4, <1>5, <1>6, <1>7, <1>8, <1>9, <1>10

LEMMA AnswerLostInv ==
  ASSUME Inv, AnswerLost
  PROVE  Inv'
<1> USE DEF Inv, AnswerLost, configVars, fileVars, accountVars
<1>1. TypeOK'
  BY EnrollmentAssumption DEF TypeOK, Off, Starting, Retry, GoOn
<1>2. DeviceIsOwn'
  BY DEF DeviceIsOwn
<1>3. StoredIsRead'
  BY DEF StoredIsRead, Read
<1>4. GotIsCurrent'
  BY DEF GotIsCurrent, Retry, GoOn
<1>5. DeviceIsCurrent'
  BY DEF DeviceIsCurrent
<1>6. FileIsIdentity'
  BY DEF FileIsIdentity
<1>7. Identified'
  BY DEF Identified, Starting
<1>8. ServesOwnToken' /\ StaysPaired' /\ TokenIsCurrent'
  <2>1. CASE attempt < RETRIES
    BY <2>1 DEF Retry, ServesOwnToken, StaysPaired, TokenIsCurrent
  <2>2. CASE ~(attempt < RETRIES)
    <3>1. machineId' \in Ids
      BY DEF TypeOK, Starting
    <3>2. stored = Read'
      BY DEF StoredIsRead, Read
    <3>3. pc' = IF Read' # None THEN "serving" ELSE "unpaired"
      BY <2>2, <3>2 DEF Retry, GoOn
    <3> QED BY <1>1, <1>2, <1>5, <3>1, <3>3, GoesOnPaired
  <2> QED BY <2>1, <2>2
<1> QED BY <1>1, <1>2, <1>3, <1>4, <1>5, <1>6, <1>7, <1>8

LEMMA UnansweredInv ==
  ASSUME Inv, Unanswered
  PROVE  Inv'
<1> USE DEF Inv, Unanswered, configVars, fileVars, history
<1>1. TypeOK'
  BY EnrollmentAssumption DEF TypeOK, Off, Starting, Retry, GoOn
<1>2. DeviceIsOwn'
  BY DEF DeviceIsOwn
<1>3. StoredIsRead'
  BY DEF StoredIsRead, Read
<1>4. GotIsCurrent'
  BY DEF GotIsCurrent, Retry, GoOn
<1>5. DeviceIsCurrent'
  BY DEF DeviceIsCurrent
<1>6. FileIsIdentity'
  BY DEF FileIsIdentity
<1>7. Identified'
  BY DEF Identified, Starting
<1>8. ServesOwnToken' /\ StaysPaired' /\ TokenIsCurrent'
  <2>1. CASE attempt < RETRIES
    BY <2>1 DEF Retry, ServesOwnToken, StaysPaired, TokenIsCurrent
  <2>2. CASE ~(attempt < RETRIES)
    <3>1. machineId' \in Ids
      BY DEF TypeOK, Starting
    <3>2. stored = Read'
      BY DEF StoredIsRead, Read
    <3>3. pc' = IF Read' # None THEN "serving" ELSE "unpaired"
      BY <2>2, <3>2 DEF Retry, GoOn
    <3> QED BY <1>1, <1>2, <1>5, <3>1, <3>3, GoesOnPaired
  <2> QED BY <2>1, <2>2
<1> QED BY <1>1, <1>2, <1>3, <1>4, <1>5, <1>6, <1>7, <1>8

LEMMA ProcessedLateInv ==
  ASSUME Inv, NEW m \in Ids, ProcessedLate(m)
  PROVE  Inv'
<1> USE DEF Inv, ProcessedLate, configVars, startVars, fileVars
<1>1. TypeOK'
  BY DEF TypeOK, Mint
<1>2. DeviceIsOwn'
  BY DEF DeviceIsOwn
<1>3. StoredIsRead'
  BY DEF StoredIsRead, Read
<1>4. GotIsCurrent'
  BY DEF GotIsCurrent, Mint
<1>5. DeviceIsCurrent'
  BY DEF DeviceIsCurrent, Mint
<1>6. FileIsIdentity'
  BY DEF FileIsIdentity
<1>7. Identified'
  BY DEF Identified
<1>8. ServesOwnToken'
  BY DEF ServesOwnToken, Read
<1>9. StaysPaired'
  BY DEF StaysPaired
<1>10. TokenIsCurrent'
  BY DEF TokenIsCurrent, Read, Mint
<1> QED BY <1>1, <1>2, <1>3, <1>4, <1>5, <1>6, <1>7, <1>8, <1>9, <1>10

LEMMA RefusedInv ==
  ASSUME Inv, Refused
  PROVE  Inv'
<1> USE DEF Inv, Refused, configVars, startVars, fileVars, accountVars, history
<1>1. TypeOK'
  BY DEF TypeOK, Off, GoOn
<1>2. DeviceIsOwn'
  BY DEF DeviceIsOwn
<1>3. StoredIsRead'
  BY DEF StoredIsRead, GoOn
<1>4. GotIsCurrent'
  BY DEF GotIsCurrent, GoOn
<1>5. DeviceIsCurrent'
  BY DEF DeviceIsCurrent
<1>6. FileIsIdentity'
  BY DEF FileIsIdentity
<1>7. Identified'
  BY DEF Identified, Starting
<1>8. ServesOwnToken' /\ StaysPaired' /\ TokenIsCurrent'
  <2>1. machineId' \in Ids
    BY DEF TypeOK, Starting
  <2>2. stored = Read'
    BY DEF StoredIsRead, Read
  <2>3. pc' = IF Read' # None THEN "serving" ELSE "unpaired"
    BY <2>2 DEF GoOn
  <2> QED BY <1>1, <1>2, <1>5, <2>1, <2>3, GoesOnPaired
<1> QED BY <1>1, <1>2, <1>3, <1>4, <1>5, <1>6, <1>7, <1>8

LEMMA StoreInv ==
  ASSUME Inv, Store
  PROVE  Inv'
<1> USE DEF Inv, Store, configVars, startVars, accountVars
<1>0. got \in Tokens /\ got # None /\ got.machine = machineId /\ machineId \in Ids
  BY DEF TypeOK, Starting, GotIsCurrent
<1>1. TypeOK'
  <2>1. device' \in Devices
    BY <1>0 DEF Devices
  <2> QED BY <1>0, <2>1 DEF TypeOK, Starting, GoOn
<1>2. DeviceIsOwn'
  <2>1. device' \in Devices
    BY <1>0 DEF Devices
  <2>2. device'.machineId = machineId /\ device'.token = got
    OBVIOUS
  <2>3. device' # None /\ paired' = machineId /\ machineId # None
    BY <1>0, <2>1, EnrollmentAssumption
  <2> QED BY <1>0, <2>2, <2>3 DEF DeviceIsOwn
<1>3. StoredIsRead'
  BY DEF StoredIsRead, GoOn
<1>4. GotIsCurrent'
  BY DEF GotIsCurrent
<1>5. DeviceIsCurrent'
  <2>1. device'.token = got /\ paired' = machineId
    OBVIOUS
  <2> QED BY <2>1 DEF DeviceIsCurrent, GotIsCurrent
<1>6. FileIsIdentity'
  BY DEF FileIsIdentity
<1>7. Identified'
  BY DEF Identified, Starting
<1>8. ServesOwnToken' /\ StaysPaired' /\ TokenIsCurrent'
  <2>1. device' \in Devices /\ device'.machineId = machineId' /\ device'.token = got
    BY <1>0 DEF Devices
  <2>2. Read' = got
    BY <2>1 DEF Read
  <2>3. pc' = IF Read' # None THEN "serving" ELSE "unpaired"
    BY <2>2 DEF GoOn
  <2> QED BY <1>0, <1>1, <1>2, <1>5, <2>3, GoesOnPaired
<1> QED BY <1>1, <1>2, <1>3, <1>4, <1>5, <1>6, <1>7, <1>8

LEMMA StoreFailsInv ==
  ASSUME Inv, StoreFails
  PROVE  Inv'
<1> USE DEF Inv, StoreFails, configVars, startVars, fileVars, accountVars
<1>0. got \in Tokens /\ got # None /\ got.machine = machineId /\ machineId \in Ids
  BY DEF TypeOK, Starting, GotIsCurrent
<1>1. TypeOK'
  <2>1. [token |-> got, machineId |-> machineId] \in Devices
    BY <1>0 DEF Devices
  <2>2. device' \in Devices \cup {None} /\ paired' \in Ids \cup {None} /\ lost' \subseteq Ids
    BY <1>0, <2>1 DEF TypeOK
  <2> QED BY <2>2 DEF TypeOK, Off, Starting
<1>2. DeviceIsOwn'
  <2>1. CASE UNCHANGED <<device, paired>>
    BY <2>1 DEF DeviceIsOwn
  <2>2. CASE device' = [token |-> got, machineId |-> machineId] /\ paired' = machineId
    <3>1. device' \in Devices /\ device'.machineId = machineId /\ device'.token = got
      BY <1>0, <2>2 DEF Devices
    <3>2. device' # None /\ machineId # None
      BY <1>0, <3>1, EnrollmentAssumption
    <3> QED BY <1>0, <2>2, <3>1, <3>2 DEF DeviceIsOwn
  <2> QED BY <2>1, <2>2
<1>3. StoredIsRead'
  BY DEF StoredIsRead
<1>4. GotIsCurrent'
  BY DEF GotIsCurrent
<1>5. DeviceIsCurrent'
  <2>1. CASE UNCHANGED <<device, paired>> /\ lost' = lost \cup {machineId}
    BY <2>1 DEF DeviceIsCurrent
  <2>2. CASE device' = [token |-> got, machineId |-> machineId] /\ paired' = machineId
    <3>1. device'.token = got
      BY <2>2
    <3> QED BY <2>2, <3>1 DEF DeviceIsCurrent, GotIsCurrent
  <2> QED BY <2>1, <2>2
<1>6. FileIsIdentity'
  BY DEF FileIsIdentity
<1>7. Identified'
  BY DEF Identified, Starting
<1>8. ServesOwnToken'
  BY DEF ServesOwnToken
<1>9. StaysPaired'
  BY DEF StaysPaired
<1>10. TokenIsCurrent'
  BY DEF TokenIsCurrent
<1> QED BY <1>1, <1>2, <1>3, <1>4, <1>5, <1>6, <1>7, <1>8, <1>9, <1>10

LEMMA CrashInv ==
  ASSUME Inv, Crash
  PROVE  Inv'
<1> USE DEF Inv, Crash, configVars, startVars, fileVars, accountVars
<1>1. TypeOK'
  BY DEF TypeOK, Off, Starting
<1>2. DeviceIsOwn'
  BY DEF DeviceIsOwn
<1>3. StoredIsRead'
  BY DEF StoredIsRead
<1>4. GotIsCurrent'
  BY DEF GotIsCurrent
<1>5. DeviceIsCurrent'
  BY DEF DeviceIsCurrent
<1>6. FileIsIdentity'
  BY DEF FileIsIdentity
<1>7. Identified'
  BY DEF Identified, Starting
<1>8. ServesOwnToken'
  BY DEF ServesOwnToken
<1>9. StaysPaired'
  BY DEF StaysPaired
<1>10. TokenIsCurrent'
  BY DEF TokenIsCurrent
<1> QED BY <1>1, <1>2, <1>3, <1>4, <1>5, <1>6, <1>7, <1>8, <1>9, <1>10

LEMMA HomeLostInv ==
  ASSUME Inv, HomeLost
  PROVE  Inv'
<1> USE DEF Inv, HomeLost, configVars, startVars, accountVars
<1>1. TypeOK'
  BY DEF TypeOK, Off, Starting
<1>2. DeviceIsOwn'
  BY DEF DeviceIsOwn
<1>3. StoredIsRead'
  BY DEF StoredIsRead
<1>4. GotIsCurrent'
  BY DEF GotIsCurrent
<1>5. DeviceIsCurrent'
  BY DEF DeviceIsCurrent
<1>6. FileIsIdentity'
  BY DEF FileIsIdentity
<1>7. Identified'
  BY DEF Identified, Starting
<1>8. ServesOwnToken'
  BY DEF ServesOwnToken
<1>9. StaysPaired'
  BY DEF StaysPaired
<1>10. TokenIsCurrent'
  BY DEF TokenIsCurrent
<1> QED BY <1>1, <1>2, <1>3, <1>4, <1>5, <1>6, <1>7, <1>8, <1>9, <1>10

LEMMA HomeCopiedInv ==
  ASSUME Inv, HomeCopied
  PROVE  Inv'
<1> USE DEF Inv, HomeCopied, configVars, startVars, accountVars
<1>0. Foreign \in Ids /\ device' \in Devices
  BY DEF Ids, Tokens, Devices
<1>1. TypeOK'
  BY <1>0 DEF TypeOK, Off, Starting
<1>2. DeviceIsOwn'
  <2>1. device'.machineId = Foreign /\ device'.token.machine = Foreign
    OBVIOUS
  <2>2. device' # None /\ paired' = Foreign /\ Foreign # None
    BY <1>0, EnrollmentAssumption
  <2> QED BY <2>1, <2>2 DEF DeviceIsOwn
<1>3. StoredIsRead'
  BY DEF StoredIsRead
<1>4. GotIsCurrent'
  BY DEF GotIsCurrent
<1>5. DeviceIsCurrent'
  BY DEF DeviceIsCurrent
<1>6. FileIsIdentity'
  BY DEF FileIsIdentity
<1>7. Identified'
  BY DEF Identified, Starting
<1>8. ServesOwnToken'
  BY DEF ServesOwnToken
<1>9. StaysPaired'
  BY DEF StaysPaired
<1>10. TokenIsCurrent'
  BY DEF TokenIsCurrent
<1> QED BY <1>1, <1>2, <1>3, <1>4, <1>5, <1>6, <1>7, <1>8, <1>9, <1>10

LEMMA ForeignEnrollsInv ==
  ASSUME Inv, ForeignEnrolls
  PROVE  Inv'
<1> USE DEF Inv, ForeignEnrolls, configVars, startVars, fileVars
<1>0. Foreign \in Ids
  BY DEF Ids
<1>1. TypeOK'
  BY <1>0 DEF TypeOK, Mint
<1>2. DeviceIsOwn'
  BY DEF DeviceIsOwn
<1>3. StoredIsRead'
  BY DEF StoredIsRead, Read
<1>4. GotIsCurrent'
  BY DEF GotIsCurrent, Mint
<1>5. DeviceIsCurrent'
  BY DEF DeviceIsCurrent, Mint
<1>6. FileIsIdentity'
  BY DEF FileIsIdentity
<1>7. Identified'
  BY DEF Identified
<1>8. ServesOwnToken'
  BY DEF ServesOwnToken, Read
<1>9. StaysPaired'
  BY DEF StaysPaired
<1>10. TokenIsCurrent'
  BY DEF TokenIsCurrent, Read, Mint
<1> QED BY <1>1, <1>2, <1>3, <1>4, <1>5, <1>6, <1>7, <1>8, <1>9, <1>10

LEMMA StutterInv == Inv /\ UNCHANGED vars => Inv'
BY DEF vars, configVars, startVars, fileVars, accountVars, history, Inv, TypeOK,
       DeviceIsOwn, StoredIsRead, Read, GotIsCurrent, DeviceIsCurrent, FileIsIdentity,
       Identified, ServesOwnToken, StaysPaired, TokenIsCurrent

LEMMA NextInv == Inv /\ [Next]_vars => Inv'
BY BootInv, RejectedInv, ResolveInv, PersistInv, ObtainInv, AcceptedInv, AnsweredInv,
   AnswerLostInv, UnansweredInv, ProcessedLateInv, RefusedInv, StoreInv, StoreFailsInv,
   CrashInv, HomeLostInv, HomeCopiedInv, ForeignEnrollsInv, StutterInv
DEF Next, Work

-----------------------------------------------------------------------------
(* The directory and the account service agree on whose token is whose at  *)
(* every point a start can be killed at.                                   *)
THEOREM Invariance == Spec => []Inv
BY InitInv, NextInv, PTL DEF Spec

(* A worker that serves finds a token of the id it registers with, however *)
(* the files of its directory came about.                                  *)
THEOREM OwnTokenIsServed == Spec => []ServesOwnToken
<1>1. Inv => ServesOwnToken
  BY DEF Inv
<1> QED BY <1>1, Invariance, PTL

(* A machine id with a stored token is never turned away as unpaired.      *)
THEOREM PairedStaysPaired == Spec => []StaysPaired
<1>1. Inv => StaysPaired
  BY DEF Inv
<1> QED BY <1>1, Invariance, PTL

(* The token served with is the last one minted, unless that very one did  *)
(* not reach the directory: a later attempt makes good an answer that was  *)
(* lost.                                                                   *)
THEOREM ServedTokenIsCurrent == Spec => []TokenIsCurrent
<1>1. Inv => TokenIsCurrent
  BY DEF Inv
<1> QED BY <1>1, Invariance, PTL

(* Only an override or a rewriting of machine.json cut short changes the   *)
(* id from one start to the next.                                          *)
THEOREM IdentityIsKept == Spec => IdentityKept
<1>1. Inv /\ [Next]_vars => [KeepsIdentity]_vars
  <2> SUFFICES ASSUME Inv, Next, pc = "resolve", machineId' # machineId,
                      identity # None, override = None, ~interrupted
               PROVE  machineId' = identity
    BY DEF KeepsIdentity
  <2>1. machineFile = identity /\ identity \in Ids
    BY DEF Inv, FileIsIdentity, TypeOK
  <2>2. Resolve
    BY DEF Next, Work, Boot, Rejected, Persist, Obtain, Accepted, Answered, AnswerLost,
           Unanswered, ProcessedLate, Refused, Store, StoreFails, Crash, HomeLost,
           HomeCopied, ForeignEnrolls, startVars, Off
  <2> QED BY <2>1, <2>2 DEF Resolve, MachineIdOf
<1> QED BY <1>1, Invariance, PTL DEF Spec, IdentityKept
=============================================================================
