----------------------------- MODULE Enrollment -----------------------------
(***************************************************************************)
(* How a worker gets its identity and its device token (identity.py, as    *)
(* cli.run calls it), over any number of starts of one data directory.     *)
(*                                                                         *)
(* An action is the code between two points at which the process can be    *)
(* killed and leave something different behind: a file opened for writing  *)
(* and not yet written, a request sent and not yet answered, a token       *)
(* received and not yet stored.  External are the disk, which may refuse   *)
(* a write, the operator, who sets the environment anew at each start,     *)
(* loses or copies the directory, and the account service, which rotates   *)
(* the token of a machine whenever it accepts an enrollment for it.        *)
(***************************************************************************)
EXTENDS Integers

CONSTANTS
  Keys,       \* worker keys: the values MEERKLY_API_KEY may have
  Overrides,  \* UUIDs MEERKLY_MACHINE_ID may have
  Invalid,    \* an override that is no UUID
  Foreign,    \* the machine id of another worker's data directory
  None,       \* not set, not there
  Torn,       \* a file that does not parse
  RETRIES,    \* Len(ENROLL_RETRY_MS)
  MaxStarts,  \* bound on the starts of the process
  MaxTokens,  \* bound on the tokens minted for one machine id
  DiskFails   \* may a write to the data directory fail?

derived(k) == <<"derived", k>>
random(n) == <<"random", n>>

Ids == {derived(k) : k \in Keys} \cup {random(n) : n \in 1..MaxStarts}
         \cup Overrides \cup {Foreign}

Tokens == [machine : Ids, serial : Nat]
Devices == [token : Tokens, machineId : Ids]

ASSUME EnrollmentAssumption ==
  /\ None \notin Keys /\ None \notin Ids /\ Torn \notin Ids /\ Invalid \notin Ids
  /\ None \notin Tokens /\ None \notin Devices
  /\ None # Torn /\ Invalid # None
  /\ RETRIES \in Nat /\ MaxStarts \in Nat /\ MaxTokens \in Nat \ {0}
  /\ DiskFails \in BOOLEAN

VARIABLES
  pc,           \* where the process is; "down" when there is none
  key,          \* cfg.api_key
  override,     \* cfg.machine_id_override
  machineId,    \* machine_id of this start
  stored,       \* `stored` of obtain_device_token
  got,          \* the token an enrollment returned
  attempt,      \* enrollments of this start that failed
  machineFile,  \* machine.json: an id, None or Torn
  device,       \* device.json: a record or None
  current,      \* the account service: the last token minted for an id
  late,         \* ids of requests given up that may still be processed
  starts,       \* starts so far
  identity,     \* history: the id of the last start on this directory
  interrupted,  \* history: the last rewriting of machine.json did not end
  paired,       \* history: the id the last stored token is for
  lost          \* history: ids whose last token never reached the directory

configVars == <<key, override, starts>>
startVars == <<machineId, stored, got, attempt>>
fileVars == <<machineFile, device>>
accountVars == <<current, late>>
history == <<identity, interrupted, paired, lost>>
vars == <<pc, configVars, startVars, fileVars, accountVars, history>>

Off == {"down", "unpaired", "failed"}
Starting == {"resolve", "persist", "obtain", "enroll", "minted", "write"}

Init ==
  /\ pc = "down"
  /\ key = None /\ override = None /\ starts = 0
  /\ machineId = None /\ stored = None /\ got = None /\ attempt = 0
  /\ machineFile = None /\ device = None
  /\ current = [m \in Ids |-> IF m = Foreign THEN 1 ELSE 0]
  /\ late = {}
  /\ identity = None /\ interrupted = FALSE /\ paired = None /\ lost = {}

-----------------------------------------------------------------------------
(* A start: the machine id.                                                *)

(* load_config: what the operator set for this start.                      *)
Boot ==
  /\ pc \in Off /\ starts < MaxStarts
  /\ pc' = "resolve"
  /\ starts' = starts + 1
  /\ key' \in Keys \cup {None}
  /\ override' \in Overrides \cup {Invalid, None}
  /\ machineId' = None /\ stored' = None /\ got' = None /\ attempt' = 0
  /\ UNCHANGED <<fileVars, accountVars, history>>

(* Mutant of MachineIdOf: the derived id comes before the file.            *)
DerivedFirst(file) ==
  CASE override # None -> override
    [] override = None /\ key # None -> derived(key)
    [] override = None /\ key = None /\ file \in Ids -> file
    [] OTHER -> random(starts)

(* Override, file, derived, random.  The worker id that goes into a        *)
(* derived one is the same at every start.                                 *)
MachineIdOf(file) ==
  CASE override # None -> override
    [] override = None /\ file \in Ids -> file
    [] override = None /\ file \notin Ids /\ key # None -> derived(key)
    [] OTHER -> random(starts)

(* An override that is no UUID ends the start.                             *)
Rejected ==
  /\ pc = "resolve" /\ override = Invalid
  /\ pc' = "failed"
  /\ UNCHANGED <<configVars, startVars, fileVars, accountVars, history>>

(* The id is chosen, whatever its source, and machine.json opened to be    *)
(* written again, which empties it; or it cannot be opened.                *)
Resolve ==
  /\ pc = "resolve" /\ override # Invalid
  /\ machineId' = MachineIdOf(machineFile)
  /\ identity' = machineId'
  /\ interrupted' = TRUE
  /\ \/ machineFile' = Torn /\ pc' = "persist"
     \/ DiskFails /\ UNCHANGED machineFile /\ pc' = "obtain"
  /\ UNCHANGED <<configVars, stored, got, attempt, device, accountVars, paired, lost>>

(* The rest of _persist; a full disk is only logged.                       *)
Persist ==
  /\ pc = "persist"
  /\ pc' = "obtain"
  /\ \/ machineFile' = machineId /\ interrupted' = FALSE
     \/ DiskFails /\ UNCHANGED <<machineFile, interrupted>>
  /\ UNCHANGED <<configVars, startVars, device, accountVars, identity, paired, lost>>

-----------------------------------------------------------------------------
(* A start: the device token.                                              *)

(* Mutant of Read: the machine id beside the token is not looked at.       *)
ReadAny == IF device \in Devices THEN device.token ELSE None

(* DeviceTokenStore.read                                                   *)
Read == IF device \in Devices /\ device.machineId = machineId
        THEN device.token ELSE None

(* cli.run: with a token the worker goes on to serve, without it it exits. *)
GoOn(token) == pc' = IF token # None THEN "serving" ELSE "unpaired"

Obtain ==
  /\ pc = "obtain"
  /\ stored' = Read
  /\ IF key # None THEN pc' = "enroll" ELSE GoOn(stored')
  /\ UNCHANGED <<configVars, machineId, got, attempt, fileVars, accountVars, history>>

(* Mutant of Retry: the attempts start over.                               *)
RetryForever ==
  pc' = "enroll" /\ attempt' = IF attempt < RETRIES THEN attempt + 1 ELSE 0

(* A failure that may pass; after the last attempt the stored token it is. *)
Retry ==
  /\ attempt' = attempt + 1
  /\ IF attempt < RETRIES THEN pc' = "enroll" ELSE GoOn(stored)

(* The account service accepts an enrollment: the new token of m is the    *)
(* only one that counts.                                                   *)
Mint(m) ==
  /\ current[m] < MaxTokens
  /\ current' = [current EXCEPT ![m] = @ + 1]

Accepted ==
  /\ pc = "enroll"
  /\ Mint(machineId)
  /\ got' = [machine |-> machineId, serial |-> current'[machineId]]
  /\ lost' = lost \ {machineId}
  /\ pc' = "minted"
  /\ UNCHANGED <<configVars, machineId, stored, attempt, fileVars, late,
                 identity, interrupted, paired>>

Answered ==
  /\ pc = "minted"
  /\ pc' = "write"
  /\ UNCHANGED <<configVars, startVars, fileVars, accountVars, history>>

(* The answer is lost, late, or holds no token.                            *)
AnswerLost ==
  /\ pc = "minted"
  /\ Retry
  /\ got' = None
  /\ lost' = lost \cup {machineId}
  /\ UNCHANGED <<configVars, machineId, stored, fileVars, accountVars,
                 identity, interrupted, paired>>

(* No token this time: not reached, or a status that may pass.  A request  *)
(* that timed out may be processed later.                                  *)
Unanswered ==
  /\ pc = "enroll"
  /\ Retry
  /\ late' \in {late, late \cup {machineId}}
  /\ UNCHANGED <<configVars, machineId, stored, got, fileVars, current, history>>

ProcessedLate(m) ==
  /\ m \in late
  /\ Mint(m)
  /\ late' = late \ {m}
  /\ lost' = lost \cup {m}
  /\ UNCHANGED <<pc, configVars, startVars, fileVars, identity, interrupted, paired>>

(* A terminal status, or a transport the key must not be sent over.        *)
Refused ==
  /\ pc = "enroll"
  /\ GoOn(stored)
  /\ UNCHANGED <<configVars, startVars, fileVars, accountVars, history>>

(* Mutant of Store: a token in the directory is kept, not replaced.        *)
StoreOnce ==
  /\ pc = "write"
  /\ device' = IF Read = None THEN [token |-> got, machineId |-> machineId] ELSE device
  /\ paired' = machineId
  /\ GoOn(got)
  /\ UNCHANGED <<configVars, startVars, machineFile, accountVars,
                 identity, interrupted, lost>>

(* Mutant of Store: device.json is written in place, and may be cut short. *)
StoreInPlace ==
  /\ pc = "write"
  /\ \/ device' = [token |-> got, machineId |-> machineId] /\ GoOn(got)
     \/ device' = Torn /\ pc' = "down"
  /\ paired' = machineId
  /\ UNCHANGED <<configVars, startVars, machineFile, accountVars,
                 identity, interrupted, lost>>

(* DeviceTokenStore.write.  What is written beside device.json is of no    *)
(* effect until it replaces it.                                            *)
Store ==
  /\ pc = "write"
  /\ device' = [token |-> got, machineId |-> machineId]
  /\ paired' = machineId
  /\ GoOn(got)
  /\ UNCHANGED <<configVars, startVars, machineFile, accountVars,
                 identity, interrupted, lost>>

(* It raises, before the replacement or, in chmod, after it (line 198),    *)
(* and cli.run does not handle it.                                         *)
StoreFails ==
  /\ pc = "write" /\ DiskFails
  /\ pc' = "failed"
  /\ \/ lost' = lost \cup {machineId} /\ UNCHANGED <<device, paired>>
     \/ /\ device' = [token |-> got, machineId |-> machineId]
        /\ paired' = machineId
        /\ UNCHANGED lost
  /\ UNCHANGED <<configVars, startVars, machineFile, accountVars,
                 identity, interrupted>>

-----------------------------------------------------------------------------
(* The process and its directory.                                          *)

(* Killed at any point, or stopped while it serves.                        *)
Crash ==
  /\ pc \in Starting \cup {"serving"}
  /\ pc' = "down"
  /\ lost' = IF pc \in {"minted", "write"} THEN lost \cup {machineId} ELSE lost
  /\ UNCHANGED <<configVars, startVars, fileVars, accountVars,
                 identity, interrupted, paired>>

(* A container without a volume is created anew.                           *)
HomeLost ==
  /\ pc \in Off
  /\ machineFile' = None /\ device' = None
  /\ identity' = None /\ interrupted' = FALSE /\ paired' = None
  /\ pc' = "down"
  /\ UNCHANGED <<configVars, startVars, accountVars, lost>>

(* The directory is a copy of the other worker's, with its first token.    *)
HomeCopied ==
  /\ pc \in Off
  /\ machineFile' = Foreign
  /\ device' = [token |-> [machine |-> Foreign, serial |-> 1], machineId |-> Foreign]
  /\ identity' = Foreign /\ interrupted' = FALSE /\ paired' = Foreign
  /\ lost' = IF current[Foreign] = 1 THEN lost \ {Foreign} ELSE lost \cup {Foreign}
  /\ pc' = "down"
  /\ UNCHANGED <<configVars, startVars, accountVars>>

(* The other worker starts again, and has its own token rotated.           *)
ForeignEnrolls ==
  /\ Mint(Foreign)
  /\ lost' = lost \cup {Foreign}
  /\ UNCHANGED <<pc, configVars, startVars, fileVars, late, identity, interrupted,
                 paired>>

Work == \/ Rejected \/ Resolve \/ Persist \/ Obtain
        \/ Accepted \/ Answered \/ AnswerLost \/ Unanswered \/ Refused
        \/ Store \/ StoreFails

Next == \/ Work \/ Boot \/ Crash \/ HomeLost \/ HomeCopied \/ ForeignEnrolls
        \/ \E m \in Ids : ProcessedLate(m)

Spec == Init /\ [][Next]_vars

(* A start goes on: writes return, and so does enroll.  httpx gives up on  *)
(* a connect, a write or a read after 15 s each (identity.py:235); that an *)
(* answer which comes in pieces ends is assumed.                           *)
FairSpec == Spec /\ WF_vars(Work)

-----------------------------------------------------------------------------
TypeOK ==
  /\ pc \in Off \cup Starting \cup {"serving"}
  /\ key \in Keys \cup {None}
  /\ override \in Overrides \cup {Invalid, None}
  /\ starts \in 0..MaxStarts
  /\ (pc \in Starting => starts > 0)
  /\ machineId \in Ids \cup {None}
  /\ (pc \in (Starting \ {"resolve"}) \cup {"serving"} => machineId \in Ids)
  /\ stored \in Tokens \cup {None}
  /\ got \in Tokens \cup {None}
  /\ attempt \in 0..(RETRIES + 1)
  /\ (pc \in Starting => attempt <= RETRIES)
  /\ machineFile \in Ids \cup {None, Torn}
  /\ device \in Devices \cup {None}
  /\ current \in [Ids -> Nat]
  /\ late \subseteq Ids
  /\ identity \in Ids \cup {None}
  /\ interrupted \in BOOLEAN
  /\ paired \in Ids \cup {None}
  /\ lost \subseteq Ids

(* A worker that serves finds at every (re)connect a token in its          *)
(* directory, and it is one minted for the machine id it registers with,   *)
(* although machine.json and device.json are written at different times,   *)
(* and each may be lost or torn, or overridden by the environment          *)
(* (identity.py:175).  A directory copied as a whole brings both: its id   *)
(* is then this worker's too, and its token is presented.                  *)
ServesOwnToken == pc = "serving" => Read # None /\ Read.machine = machineId

(* A worker whose machine id has a token in the directory is never turned  *)
(* away as unpaired, whatever becomes of its enrollments and wherever      *)
(* earlier starts were killed (identity.py:305, "A revoked key must not    *)
(* take a running fleet down").                                            *)
StaysPaired == pc = "unpaired" => machineId # paired

(* The token a worker serves with is the last one the account service      *)
(* minted for its id: a retry after a lost answer, or after a start that   *)
(* was killed with a token in its hands, puts it right again.  Only where  *)
(* the very last one never reached the directory is it an older one        *)
(* (identity.py:295): its answer was lost or late and no later attempt was *)
(* accepted, the process was killed or its write failed, or another worker *)
(* with the same id enrolled after it.                                     *)
TokenIsCurrent ==
  pc = "serving" /\ Read # None /\ machineId \notin lost
    => Read.serial = current[machineId]

(* Without an override a start keeps the id of the one before, unless the  *)
(* rewriting of machine.json had been cut short.                           *)
KeepsIdentity ==
  pc = "resolve" /\ machineId' # machineId /\ identity # None /\ override = None
    => machineId' = identity \/ interrupted

IdentityKept == [][KeepsIdentity]_vars

(* A start ends: the worker serves, or its process is gone.                *)
StartEnds == pc = "resolve" ~> pc \in Off \cup {"serving"}

(* The inductive invariant.  The directory holds a token for the id it is  *)
(* filed under, that of the last stored token.                             *)
DeviceIsOwn ==
  IF paired = None THEN device = None
  ELSE device # None /\ device.machineId = paired /\ device.token.machine = paired

(* What obtain_device_token read before its first await is still there.    *)
StoredIsRead == pc \in {"enroll", "minted", "write"} => stored = Read

(* The token on its way from the account service.                          *)
GotIsCurrent ==
  pc \in {"minted", "write"} =>
    /\ got # None /\ got.machine = machineId
    /\ machineId \notin lost => got.serial = current[machineId]

(* A token in the directory is the last one minted, unless that was lost   *)
(* or is on its way.                                                       *)
DeviceIsCurrent ==
  paired \notin lost \cup {None}
      /\ ~(pc \in {"minted", "write"} /\ machineId = paired)
    => device.token.serial = current[paired]

(* machine.json holds the id of the last start.                            *)
FileIsIdentity == identity # None /\ ~interrupted => machineFile = identity

Identified == pc \in Starting \ {"resolve"} => identity = machineId

Inv == /\ TypeOK /\ DeviceIsOwn /\ StoredIsRead /\ GotIsCurrent /\ DeviceIsCurrent
       /\ FileIsIdentity /\ Identified
       /\ ServesOwnToken /\ StaysPaired /\ TokenIsCurrent
=============================================================================
