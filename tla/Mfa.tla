-------------------------------- MODULE Mfa --------------------------------
(***************************************************************************)
(* The second factor of one user: enrolling an authenticator app, turning  *)
(* it off, and the second step of a login, with a code of the app or a     *)
(* backup code.                                                            *)
(*                                                                         *)
(* No view of these opens a transaction or locks the TOTPDevice or the     *)
(* MFABackupCode rows: each reads a row, decides, and saves some columns   *)
(* of the copy it read.  Only the mark of a used challenge is atomic       *)
(* (cache.add).  Requests therefore interleave between any two statements. *)
(* The session a login makes is the subject of Sessions.                   *)
(***************************************************************************)
EXTENDS Naturals, FiniteSets

CONSTANTS
  MfaRequests,  \* requests in progress at a time
  MaxSecrets,   \* bound: secrets and sets of backup codes generated
  MaxClock      \* bound: seconds in which challenges are signed

ASSUME MfaBoundsAssumption == MaxSecrets \in Nat /\ MaxClock \in Nat

VARIABLES
  device,      \* the TOTPDevice row: its key (0 for none), secret, confirmed
  codes,       \* the backup codes: one stands for a set of eight
  app,         \* secrets in the user's authenticator app
  made,        \* secrets and sets of codes made so far
  clock,       \* seconds
  challenges,  \* challenges signed, by their second
  used,        \* cache: challenges marked as used
  mfa,         \* the requests
  minted,      \* history: sessions made for each challenge
  spent,       \* history: how often each backup code has counted
  proven,      \* history: secrets that a code was checked against to confirm
  crossed,     \* history: a setup has written under a confirmation
  raced        \* history: codes found by two requests at once

mfaVars == <<device, codes, app, made, clock, challenges, used, mfa,
             minted, spent, proven, crossed, raced>>

Seconds == 0..MaxClock
Numbers == 1..MaxSecrets
NoDevice == [key |-> 0, secret |-> 0, confirmed |-> FALSE]
\* A request about a row it has read, and one that offers a code.
OnDevice(kind, step, key, secret) ==
  [kind |-> kind, step |-> step, key |-> key, secret |-> secret,
   code |-> 0, challenge |-> 0]
Offering(kind, step, code, s) ==
  [kind |-> kind, step |-> step, key |-> 0, secret |-> 0, code |-> code, challenge |-> s]
NoRequest == OnDevice("none", "none", 0, 0)

MfaTypeOK ==
  /\ device \in [key : 0..MaxSecrets, secret : 0..MaxSecrets, confirmed : BOOLEAN]
  /\ device.key = 0 => device = NoDevice
  /\ codes \in [Numbers -> {"none", "unused", "used"}]
  /\ app \subseteq Numbers
  /\ made \in 0..MaxSecrets
  /\ clock \in Seconds /\ challenges \subseteq 0..clock /\ used \subseteq challenges
  /\ mfa \in [MfaRequests ->
       [kind : {"none", "setup", "confirm", "disable", "verify"},
        step : {"none", "read", "reset", "found", "proved", "saved", "cleared"},
        key : 0..MaxSecrets, secret : 0..MaxSecrets, code : 0..MaxSecrets,
        challenge : Seconds]]
  /\ \A c \in Numbers : codes[c] # "none" => c <= made
  /\ minted \in [Seconds -> 0..(MaxClock + 2)]
  /\ spent \in [Numbers -> Nat]
  /\ proven \subseteq app /\ crossed \in BOOLEAN /\ raced \subseteq Numbers

MfaInit ==
  /\ device = NoDevice
  /\ codes = [c \in Numbers |-> "none"]
  /\ app = {} /\ made = 0 /\ clock = 0 /\ challenges = {} /\ used = {}
  /\ mfa = [r \in MfaRequests |-> NoRequest]
  /\ minted = [s \in Seconds |-> 0] /\ spent = [c \in Numbers |-> 0]
  /\ proven = {} /\ crossed = FALSE /\ raced = {}
-----------------------------------------------------------------------------
Free(r) == mfa[r] = NoRequest
At(r, kind, step) == mfa[r].kind = kind /\ mfa[r].step = step
Step(r, step) == mfa' = [mfa EXCEPT ![r].step = step]
Done(r) == mfa' = [mfa EXCEPT ![r] = NoRequest]
\* Model.save(update_fields=...) of a copy whose row is gone raises.
RowIsThere(r) == device.key = mfa[r].key

\* LoginTokenObtainPairView, the password being right: a user with a confirmed
\* device gets a challenge instead of tokens.  Two challenges of one second are
\* the same signed string.
Password ==
  /\ device.confirmed
  /\ challenges' = challenges \cup {clock}
  /\ UNCHANGED <<device, codes, app, made, clock, used, mfa, minted, spent, proven, crossed, raced>>

Tick ==
  /\ clock < MaxClock
  /\ clock' = clock + 1
  /\ UNCHANGED <<device, codes, app, made, challenges, used, mfa, minted, spent, proven, crossed, raced>>
-----------------------------------------------------------------------------
Others == UNCHANGED <<clock, challenges, used, minted>>

\* MfaSetupView: refused for a confirmed device; then update_or_create.
SetupRead(r) ==
  /\ Free(r) /\ ~device.confirmed /\ made < MaxSecrets
  /\ mfa' = [mfa EXCEPT ![r] = OnDevice("setup", "read", 0, 0)]
  /\ UNCHANGED <<device, codes, app, made, spent, proven, crossed, raced>> /\ Others

\* A setup writes the device while a confirmation has checked the old secret.
Crosses == crossed \/ \E q \in MfaRequests : At(q, "confirm", "proved")

SetupReset(r) ==
  LET key == IF device.key = 0 THEN made + 1 ELSE device.key
  IN /\ At(r, "setup", "read") /\ made < MaxSecrets
     /\ device' = [device EXCEPT !.key = key, !.confirmed = FALSE]
     /\ made' = IF device.key = 0 THEN made + 1 ELSE made
     /\ mfa' = [mfa EXCEPT ![r] = OnDevice("setup", "reset", key, 0)]
     /\ crossed' = Crosses
     /\ UNCHANGED <<codes, app, spent, proven, raced>> /\ Others

\* Mutated form: the new secret is saved, and the flag is left as it is.
SetupSaveSecretOnly(r) ==
  /\ At(r, "setup", "reset")
  /\ Done(r)
  /\ IF RowIsThere(r) /\ made < MaxSecrets
     THEN /\ made' = made + 1
          /\ device' = [device EXCEPT !.secret = made']
          /\ app' \in {app, app \cup {made'}}
     ELSE UNCHANGED <<device, made, app>>
  /\ UNCHANGED <<codes, spent, proven, crossed, raced>> /\ Others

\* The new secret is saved and shown; the user may add it to the app.
SetupSave(r) ==
  /\ At(r, "setup", "reset")
  /\ Done(r)
  /\ IF RowIsThere(r) /\ made < MaxSecrets
     THEN /\ made' = made + 1
          /\ device' = [device EXCEPT !.secret = made', !.confirmed = FALSE]
          /\ app' \in {app, app \cup {made'}}
          /\ crossed' = Crosses
     ELSE UNCHANGED <<device, made, app, crossed>>
  /\ UNCHANGED <<codes, spent, proven, raced>> /\ Others

\* MfaSetupConfirmView: a code of the app for the pending secret.
ConfirmRead(r) ==
  /\ Free(r) /\ ~device.confirmed /\ device.secret \in app
  /\ mfa' = [mfa EXCEPT ![r] =
       OnDevice("confirm", "proved", device.key, device.secret)]
  /\ proven' = proven \cup {device.secret}
  /\ UNCHANGED <<device, codes, app, made, spent, crossed, raced>> /\ Others

\* The flag alone is saved, on the row as it is by now.
ConfirmSave(r) ==
  /\ At(r, "confirm", "proved")
  /\ IF RowIsThere(r)
     THEN device' = [device EXCEPT !.confirmed = TRUE] /\ Step(r, "saved")
     ELSE UNCHANGED device /\ Done(r)
  /\ UNCHANGED <<codes, app, made, spent, proven, crossed, raced>> /\ Others

\* generate_for_user: the old codes are deleted, then new ones are inserted.
ConfirmDelete(r) ==
  /\ At(r, "confirm", "saved")
  /\ codes' = [c \in Numbers |-> "none"]
  /\ Step(r, "cleared")
  /\ UNCHANGED <<device, app, made, spent, proven, crossed, raced>> /\ Others

ConfirmInsert(r) ==
  /\ At(r, "confirm", "cleared")
  /\ Done(r)
  /\ IF made < MaxSecrets
     THEN made' = made + 1 /\ codes' = [codes EXCEPT ![made'] = "unused"]
     ELSE UNCHANGED <<made, codes>>
  /\ UNCHANGED <<device, app, spent, proven, crossed, raced>> /\ Others
-----------------------------------------------------------------------------
\* verify_totp_code: proved at once.  MFABackupCode.consume: the code is found
\* among the unused rows, and marked as used in another statement.
Prove(r, kind, s) ==
  \/ /\ device.secret \in app
     /\ mfa' = [mfa EXCEPT ![r] = Offering(kind, "proved", 0, s)]
     /\ UNCHANGED raced
  \/ \E c \in Numbers :
       /\ codes[c] = "unused"
       /\ mfa' = [mfa EXCEPT ![r] = Offering(kind, "found", c, s)]
       /\ raced' = IF \E q \in MfaRequests : mfa[q].step = "found" /\ mfa[q].code = c
                   THEN raced \cup {c} ELSE raced

\* Mutated form: the code is accepted and stays unused.
AcceptCode(r) ==
  /\ mfa[r].step = "found"
  /\ spent' = [spent EXCEPT ![mfa[r].code] = @ + 1]
  /\ Step(r, "proved")
  /\ UNCHANGED <<device, codes, app, made, proven, crossed, raced>> /\ Others

Consume(r) ==
  LET c == mfa[r].code
  IN /\ mfa[r].step = "found"
     /\ IF codes[c] = "none"
        THEN Done(r) /\ UNCHANGED <<codes, spent>>
        ELSE /\ codes' = [codes EXCEPT ![c] = "used"]
             /\ spent' = [spent EXCEPT ![c] = @ + 1]
             /\ Step(r, "proved")
     /\ UNCHANGED <<device, app, made, proven, crossed, raced>> /\ Others

\* MfaVerifyView: the challenge of a user whose device is confirmed.
VerifyRead(r, s) ==
  /\ Free(r) /\ s \in challenges /\ device.confirmed
  /\ Prove(r, "verify", s)
  /\ UNCHANGED <<device, codes, app, made, spent, proven, crossed>> /\ Others

\* Mutated form: the challenge is marked after the session is made.
MintFirst(r) ==
  /\ At(r, "verify", "proved")
  /\ minted' = [minted EXCEPT ![mfa[r].challenge] = @ + 1]
  /\ used' = used \cup {mfa[r].challenge}
  /\ Done(r)
  /\ UNCHANGED <<device, codes, app, made, clock, challenges, spent, proven, crossed, raced>>

\* cache.add, then the tokens; a challenge already marked is refused.
Mint(r) ==
  LET s == mfa[r].challenge
  IN /\ At(r, "verify", "proved")
     /\ used' = used \cup {s}
     /\ minted' = IF s \in used THEN minted ELSE [minted EXCEPT ![s] = @ + 1]
     /\ Done(r)
     /\ UNCHANGED <<device, codes, app, made, clock, challenges, spent, proven, crossed, raced>>

\* MfaDisableView, the password being right: a confirmed device needs a factor.
DisableRead(r) ==
  /\ Free(r)
  /\ IF device.confirmed THEN Prove(r, "disable", 0)
     ELSE /\ mfa' = [mfa EXCEPT ![r] = Offering("disable", "proved", 0, 0)]
          /\ UNCHANGED raced
  /\ UNCHANGED <<device, codes, app, made, spent, proven, crossed>> /\ Others

DisableDevice(r) ==
  /\ At(r, "disable", "proved")
  /\ device' = NoDevice /\ crossed' = FALSE
  /\ Step(r, "cleared")
  /\ UNCHANGED <<codes, app, made, spent, proven, raced>> /\ Others

DisableCodes(r) ==
  /\ At(r, "disable", "cleared")
  /\ codes' = [c \in Numbers |-> "none"]
  /\ Done(r)
  /\ UNCHANGED <<device, app, made, spent, proven, crossed, raced>> /\ Others
-----------------------------------------------------------------------------
MfaStep(r) ==
  \/ SetupRead(r) \/ SetupReset(r) \/ SetupSave(r)
  \/ ConfirmRead(r) \/ ConfirmSave(r) \/ ConfirmDelete(r) \/ ConfirmInsert(r)
  \/ Consume(r) \/ Mint(r) \/ (\E s \in Seconds : VerifyRead(r, s))
  \/ DisableRead(r) \/ DisableDevice(r) \/ DisableCodes(r)

MfaNext == Password \/ Tick \/ \E r \in MfaRequests : MfaStep(r)

MfaSpec == MfaInit /\ [][MfaNext]_mfaVars
-----------------------------------------------------------------------------
\* However many requests carry one challenge at once, it makes one session
\* (the comment on cache.add in MfaVerifyView).
ChallengeMintsOnce == \A s \in Seconds : minted[s] <= 1

\* The secret that protects the account is one the user has shown a code for,
\* unless a setup wrote the device while its confirmation was under way: the
\* flag is saved on whatever row is there.
ConfirmedIsProven == device.confirmed => device.secret \in proven \/ crossed

\* A backup code counts once, unless two requests found it at the same time:
\* consume reads and marks it without a lock.
BackupCodeCountsOnce == \A c \in Numbers : spent[c] <= 1 \/ c \in raced
=============================================================================
