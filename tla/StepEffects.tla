---------------------------- MODULE StepEffects ----------------------------
(***************************************************************************)
(* What one bootstrap step does to a key: the question it asks the applet  *)
(* first, the secret it looks for or makes, the write, and how the write   *)
(* can end.  Pure operators; Executor.tla is the loop around them.         *)
(*                                                                         *)
(* A PIN is kept as who chose it ("set" by a run, "holder" by the person   *)
(* the key went to), the signing key pair as a name that a new generation  *)
(* changes, the retry counter as its count, the rest as there or not.      *)
(***************************************************************************)
EXTENDS Naturals, Sequences

CONSTANTS
  Reports,      \* does the firmware say whether a PIV secret is the default?
  LostReplies,  \* can a write that took effect be reported as failed?
  HalfWrites    \* can a step of two commands fail after the first?

Kinds == {"fidoPin", "minLength", "forceChange", "credential", "otpSlot", "otpCode",
          "pinPuk", "mgmKey", "keygen", "csr", "import", "verify"}

MaxTries == 3

FactoryKey == [fido |-> "none", minLength |-> FALSE, forced |-> FALSE, credential |-> FALSE,
               slot |-> FALSE, code |-> FALSE,
               pin |-> "default", puk |-> "default", mgm |-> "default",
               pair |-> "none", cert |-> FALSE, tries |-> MaxTries]

KeyState == [fido : {"none", "set", "holder"}, minLength : BOOLEAN, forced : BOOLEAN,
             credential : BOOLEAN, slot : BOOLEAN, code : BOOLEAN,
             pin : {"default", "set", "holder"}, puk : {"default", "set"},
             mgm : {"default", "protected", "unstored"}, pair : {"none", "a", "b"}, cert : BOOLEAN,
             tries : 0..MaxTries]

(* What the executor holds while it runs: for each PIN none, one the key   *)
(* accepts, or one it does not; and the secrets it has generated, each     *)
(* named as the part of the key it is for.                                 *)
NoSecrets == [fido |-> "none", pin |-> "none", made |-> {}]
SecretKinds == {"fido", "code", "pin", "puk", "mgm"}
Purse == [fido : {"none", "good", "bad"}, pin : {"none", "good", "bad"}, made : SUBSET SecretKinds]

(* How an attempt ends.  "retryable" is WriteError::Failed, "fatal" is     *)
(* Detached or NotAttached, "refused" every other error.                   *)
Results == {"applied", "already", "skip", "refused", "retryable", "fatal"}
Errors == {"refused", "retryable", "fatal"}
IsFatal(result) == result = "fatal"
IsWorthRetrying_AnyError(result) == result \in {"retryable", "refused"}
IsWorthRetrying(result) == result = "retryable"

Outcome(key, purse, result) == [key |-> key, purse |-> purse, result |-> result]

(* The applet read in front of a step, and any write, can fail unperformed.*)
Unperformed(key, purse) == {Outcome(key, purse, r) : r \in {"retryable", "fatal"}}

(* A write that lands, or does not, or lands and its answer is lost.       *)
Write(key, purse, key2, purse2) ==
  {Outcome(key2, purse2, "applied")} \cup Unperformed(key, purse)
    \cup (IF LostReplies THEN Unperformed(key2, purse2) ELSE {})

(* ensure: a secret already held is used, otherwise one is generated, which *)
(* the key does not accept until it has been written.                      *)
Generate(purse, secret) == [purse EXCEPT !.made = @ \cup {secret}]
EnsureFidoPin(purse) ==
  IF purse.fido # "none" THEN purse ELSE Generate([purse EXCEPT !.fido = "bad"], "fido")
EnsurePivPin(purse) ==
  IF purse.pin # "none" THEN purse ELSE Generate([purse EXCEPT !.pin = "bad"], "pin")

(* An operation behind the PIV PIN: VERIFY first, which costs a try when   *)
(* it is wrong and restores the counter when it is right.                  *)
WithPin(key, purse, Then(_)) ==
  IF key.tries = 0 THEN {Outcome(key, purse, "refused")}
  ELSE IF purse.pin = "good" THEN Then([key EXCEPT !.tries = MaxTries])
  ELSE {Outcome([key EXCEPT !.tries = @ - 1], purse, "refused")}

(* And behind the management key, read off the card under the PIN; where   *)
(* none was stored the factory one is tried, which the card refuses when   *)
(* another was set.                                                        *)
Administering(key, purse, Then(_)) ==
  WithPin(key, purse, LAMBDA k :
    IF k.mgm = "unstored" THEN {Outcome(k, purse, "refused")} ELSE Then(k))

(* An operation behind the FIDO2 PIN.  A key marked for a forced change    *)
(* refuses its PIN for everything else.                                    *)
WithFidoPin(key, purse, key2) ==
  IF purse.fido = "good" /\ ~key.forced
    THEN Write(key, purse, key2, purse)
    ELSE {Outcome(key, purse, "refused")}

PinIsDefault(key) == key.pin = "default"
PinChanged(key) == Reports /\ ~PinIsDefault(key)
MgmChanged(key) == Reports /\ key.mgm # "default"

-----------------------------------------------------------------------------
Fido2Pin_Unread(key, purse) ==
  Write(key, EnsureFidoPin(purse), [key EXCEPT !.fido = "set"],
        [EnsureFidoPin(purse) EXCEPT !.fido = "good"])

Fido2Pin(key, purse) ==
  IF key.fido # "none" THEN {Outcome(key, purse, "already")}
  ELSE Write(key, EnsureFidoPin(purse), [key EXCEPT !.fido = "set"],
             [EnsureFidoPin(purse) EXCEPT !.fido = "good"])

Fido2MinPinLength(key, purse) ==
  IF key.minLength THEN {Outcome(key, purse, "already")}
  ELSE IF purse.fido = "none" THEN {Outcome(key, purse, "skip")}
  ELSE WithFidoPin(key, purse, [key EXCEPT !.minLength = TRUE])

Fido2ForcePinChange(key, purse) ==
  IF key.forced THEN {Outcome(key, purse, "already")}
  ELSE IF purse.fido = "none" THEN {Outcome(key, purse, "skip")}
  ELSE WithFidoPin(key, purse, [key EXCEPT !.forced = TRUE])

(* What the transport says of discoverable credentials where no PIN is     *)
(* given: it counts none, and never that there is room for none.           *)
SaysHeld(key) == FALSE
SaysFull(key) == FALSE

Fido2Credential(key, purse) ==
  IF SaysHeld(key) THEN {Outcome(key, purse, "already")}
  ELSE IF SaysFull(key) THEN {Outcome(key, purse, "refused")}
  ELSE IF purse.fido = "none" THEN {Outcome(key, purse, "skip")}
  ELSE WithFidoPin(key, purse, [key EXCEPT !.credential = TRUE])

(* No read says whether a slot carries an access code: a second code is    *)
(* found out by the refusal of the write.                                  *)
OtpAccessCode(key, purse) ==
  IF ~key.slot THEN {Outcome(key, purse, "skip")}
  ELSE LET made == Generate(purse, "code")
       IN  IF key.code THEN {Outcome(key, made, "retryable")}
           ELSE Write(key, made, [key EXCEPT !.code = TRUE], made)

OtpSlotConfig(key, purse) ==
  IF key.slot THEN {Outcome(key, purse, "already")}
  ELSE Write(key, purse, [key EXCEPT !.slot = TRUE], purse)

(* Two commands, the PIN and then the PUK.                                 *)
ChangePinPuk(key, made) ==
  LET accepted == [made EXCEPT !.pin = "good"]
      pinOnly == [key EXCEPT !.pin = "set", !.tries = MaxTries]
  IN  Write(key, made, [pinOnly EXCEPT !.puk = "set"], accepted)
        \cup (IF HalfWrites THEN Unperformed(pinOnly, accepted) ELSE {})

(* Mutant: the PIN is changed from the one at hand, if there is one.       *)
PivPinPuk_FromHeld(key, purse) ==
  IF PinIsDefault(key) \/ purse.pin = "good"
    THEN ChangePinPuk(key, Generate(EnsurePivPin(purse), "puk"))
    ELSE {Outcome(key, purse, "already")}

(* From the factory PIN and the factory PUK, whatever is held.  Firmware   *)
(* that does not report its defaults is asked to accept the factory PIN.   *)
PivPinPuk(key, purse) ==
  LET made == Generate(EnsurePivPin(purse), "puk")
  IN  IF PinChanged(key) THEN {Outcome(key, purse, "already")}
      ELSE IF key.tries = 0 THEN {Outcome(key, made, "refused")}
      ELSE IF ~PinIsDefault(key) THEN {Outcome([key EXCEPT !.tries = @ - 1], made, "refused")}
      ELSE ChangePinPuk(key, made)

(* The key is set first and stored under the PIN second.                   *)
PivManagementKey(key, purse) ==
  LET made == Generate(purse, "mgm")
  IN  IF MgmChanged(key) THEN {Outcome(key, purse, "already")}
      ELSE IF purse.pin = "none" THEN {Outcome(key, purse, "skip")}
      ELSE IF key.mgm # "default" THEN {Outcome(key, made, "refused")}
      ELSE Write(key, made, [key EXCEPT !.mgm = "protected"], made)
             \cup (IF HalfWrites THEN Unperformed([key EXCEPT !.mgm = "unstored"], made) ELSE {})

NewPair(pair) == IF pair = "a" THEN "b" ELSE "a"

PivKeygen(key, purse) ==
  IF key.cert THEN {Outcome(key, purse, "already")}
  ELSE IF purse.pin = "none" THEN {Outcome(key, purse, "skip")}
  ELSE Administering(key, purse, LAMBDA k : Write(k, purse, [k EXCEPT !.pair = NewPair(@)], purse))

PivCsr(key, purse) ==
  IF purse.pin = "none" THEN {Outcome(key, purse, "skip")}
  ELSE IF key.pair = "none" THEN {Outcome(key, purse, "retryable")}
  ELSE WithPin(key, purse, LAMBDA k : {Outcome(k, purse, "applied")})

(* The certificate is checked against the holder and the slot's key before *)
(* the card is asked for anything.                                         *)
PivCertImport(key, purse, pem) ==
  IF purse.pin = "none" \/ pem = "none" THEN {Outcome(key, purse, "skip")}
  ELSE IF pem = "wrong" \/ key.pair = "none" THEN {Outcome(key, purse, "retryable")}
  ELSE Administering(key, purse, LAMBDA k : Write(k, purse, [k EXCEPT !.cert = TRUE], purse))

Verify(key, purse) == {Outcome(key, purse, "applied")}

Perform(kind, key, purse, pem) ==
  Unperformed(key, purse) \cup
  CASE kind = "fidoPin"     -> Fido2Pin(key, purse)
    [] kind = "minLength"   -> Fido2MinPinLength(key, purse)
    [] kind = "forceChange" -> Fido2ForcePinChange(key, purse)
    [] kind = "credential"  -> Fido2Credential(key, purse)
    [] kind = "otpCode"     -> OtpAccessCode(key, purse)
    [] kind = "otpSlot"     -> OtpSlotConfig(key, purse)
    [] kind = "pinPuk"      -> PivPinPuk(key, purse)
    [] kind = "mgmKey"      -> PivManagementKey(key, purse)
    [] kind = "keygen"      -> PivKeygen(key, purse)
    [] kind = "csr"         -> PivCsr(key, purse)
    [] kind = "import"      -> PivCertImport(key, purse, pem)
    [] kind = "verify"      -> Verify(key, purse)

(* Is a step's effect on the key?                                          *)
IsOn(kind, key) ==
  CASE kind = "fidoPin"     -> key.fido # "none"
    [] kind = "minLength"   -> key.minLength
    [] kind = "forceChange" -> key.forced
    [] kind = "credential"  -> key.credential
    [] kind = "otpCode"     -> key.code
    [] kind = "otpSlot"     -> key.slot
    [] kind = "pinPuk"      -> key.pin # "default" /\ key.puk # "default"
    [] kind = "mgmKey"      -> key.mgm # "default"
    [] kind = "keygen"      -> key.pair # "none"
    [] kind = "import"      -> key.cert
    [] OTHER                -> TRUE

(* already_configured: what the pre-flight refuses a fresh run over.       *)
AlreadyConfigured(key) == key.cert \/ key.fido # "none" \/ key.slot
=============================================================================
