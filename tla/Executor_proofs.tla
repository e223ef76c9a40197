--------------------------- MODULE Executor_proofs ---------------------------
(***************************************************************************)
(* What holds of bootstrap runs for any procedure, budget, number of desks *)
(* and of runs: first what one attempt at a step can do to a key, then     *)
(* what the loop knows at each of its stages, then what a run's row says   *)
(* of the trail and of the key, then, for one desk, that the row is        *)
(* ahead of the key and keeps to the abstract record of RunRecord; and     *)
(* when the key pair a certificate was requested for is there to stay.     *)
(***************************************************************************)
EXTENDS Executor, WellFoundedInduction, TLAPS
-----------------------------------------------------------------------------
(* A key that was written to keeps what was on it, and what its holder     *)
(* chose.                                                                  *)
Keeps(old, k) ==
  /\ old.pin = "holder" => k.pin = "holder"
  /\ old.fido = "holder" => k.fido = "holder"
  /\ \A kind \in Kinds : IsOn(kind, old) => IsOn(kind, k)
Toward(old, k) == k \in KeyState /\ Keeps(old, k) /\ ~(k.tries < old.tries)
Grown(purse, p) == p \in Purse /\ purse.made \subseteq p.made

(* What an outcome of a step may be.                                       *)
Sound(kind, old, purse, o) ==
  /\ o.key \in KeyState /\ Keeps(old, o.key)
  /\ Grown(purse, o.purse)
  /\ o.result \in Results
  /\ o.key.tries < old.tries => o.result = "refused"
  /\ o.result = "applied" => IsOn(kind, o.key)

LEMMA QuietSound ==
  ASSUME NEW old, NEW purse, NEW kind, NEW k, NEW p, Toward(old, k), Grown(purse, p),
         NEW r \in Results \ {"applied"}
  PROVE  Sound(kind, old, purse, Outcome(k, p, r))
BY DEF Sound, Outcome, Toward

LEMMA UnperformedSound ==
  ASSUME NEW old, NEW purse, NEW kind, NEW k, NEW p, Toward(old, k), Grown(purse, p),
         NEW o \in Unperformed(k, p)
  PROVE  Sound(kind, old, purse, o)
BY QuietSound DEF Unperformed, Results

LEMMA WriteSound ==
  ASSUME NEW old, NEW purse, NEW kind, NEW key1, NEW purse1, NEW key2, NEW purse2,
         Toward(old, key1), Grown(purse, purse1), Toward(old, key2), Grown(purse, purse2),
         IsOn(kind, key2), NEW o \in Write(key1, purse1, key2, purse2)
  PROVE  Sound(kind, old, purse, o)
<1>1. CASE o = Outcome(key2, purse2, "applied")
  BY <1>1 DEF Sound, Outcome, Results, Toward
<1> QED BY <1>1, UnperformedSound DEF Write

LEMMA SecretsGrow ==
  ASSUME NEW purse \in Purse
  PROVE  /\ Grown(purse, purse)
         /\ Grown(purse, EnsureFidoPin(purse)) /\ Grown(purse, EnsurePivPin(purse))
         /\ Grown(purse, [purse EXCEPT !.fido = "good"]) /\ Grown(purse, [purse EXCEPT !.pin = "good"])
         /\ \A s \in SecretKinds : Grown(purse, Generate(purse, s))
BY DEF Purse, EnsureFidoPin, EnsurePivPin, Generate, SecretKinds, Grown

LEMMA GrownOn ==
  ASSUME NEW p, NEW q, NEW r, Grown(p, q), Grown(q, r) PROVE Grown(p, r)
BY DEF Grown

LEMMA TowardOn ==
  ASSUME NEW old \in KeyState, NEW k, NEW m, Toward(old, k), Toward(k, m)
  PROVE  Toward(old, m)
BY DEF Toward, Keeps, KeyState

(* The keys a step aims at.                                                *)
LEMMA AimsKeep ==
  ASSUME NEW old \in KeyState
  PROVE  /\ Keeps(old, old)
         /\ old.fido = "none" => Keeps(old, [old EXCEPT !.fido = "set"])
         /\ Keeps(old, [old EXCEPT !.minLength = TRUE])
         /\ Keeps(old, [old EXCEPT !.forced = TRUE])
         /\ Keeps(old, [old EXCEPT !.credential = TRUE])
         /\ Keeps(old, [old EXCEPT !.slot = TRUE])
         /\ Keeps(old, [old EXCEPT !.code = TRUE])
         /\ Keeps(old, [old EXCEPT !.cert = TRUE])
         /\ Keeps(old, [old EXCEPT !.puk = "set"])
         /\ Keeps(old, [old EXCEPT !.tries = MaxTries])
         /\ old.pin = "default" => Keeps(old, [old EXCEPT !.pin = "set", !.tries = MaxTries])
         /\ old.mgm = "default" => /\ Keeps(old, [old EXCEPT !.mgm = "protected"])
                                   /\ Keeps(old, [old EXCEPT !.mgm = "unstored"])
         /\ Keeps(old, [old EXCEPT !.pair = NewPair(@)])
BY DEF Keeps, KeyState, IsOn, NewPair

LEMMA Aims ==
  ASSUME NEW old \in KeyState
  PROVE  /\ Toward(old, old)
         /\ old.fido = "none" => Toward(old, [old EXCEPT !.fido = "set"])
         /\ Toward(old, [old EXCEPT !.minLength = TRUE])
         /\ Toward(old, [old EXCEPT !.forced = TRUE])
         /\ Toward(old, [old EXCEPT !.credential = TRUE])
         /\ Toward(old, [old EXCEPT !.slot = TRUE])
         /\ Toward(old, [old EXCEPT !.code = TRUE])
         /\ Toward(old, [old EXCEPT !.cert = TRUE])
         /\ Toward(old, [old EXCEPT !.puk = "set"])
         /\ Toward(old, [old EXCEPT !.tries = MaxTries])
         /\ old.pin = "default" => Toward(old, [old EXCEPT !.pin = "set", !.tries = MaxTries])
         /\ old.mgm = "default" => /\ Toward(old, [old EXCEPT !.mgm = "protected"])
                                   /\ Toward(old, [old EXCEPT !.mgm = "unstored"])
         /\ Toward(old, [old EXCEPT !.pair = NewPair(@)])
<1>1. /\ [old EXCEPT !.fido = "set"] \in KeyState /\ [old EXCEPT !.minLength = TRUE] \in KeyState
      /\ [old EXCEPT !.forced = TRUE] \in KeyState /\ [old EXCEPT !.credential = TRUE] \in KeyState
      /\ [old EXCEPT !.slot = TRUE] \in KeyState /\ [old EXCEPT !.code = TRUE] \in KeyState
      /\ [old EXCEPT !.cert = TRUE] \in KeyState /\ [old EXCEPT !.puk = "set"] \in KeyState
      /\ [old EXCEPT !.mgm = "protected"] \in KeyState /\ [old EXCEPT !.mgm = "unstored"] \in KeyState
  BY DEF KeyState
<1>2. [old EXCEPT !.tries = MaxTries] \in KeyState
  BY DEF KeyState, MaxTries
<1>3. [[old EXCEPT !.tries = MaxTries] EXCEPT !.pin = "set"] \in KeyState
  BY <1>2 DEF KeyState
<1>4. [old EXCEPT !.pin = "set", !.tries = MaxTries] \in KeyState
  BY <1>3 DEF KeyState
<1>5. [old EXCEPT !.pair = NewPair(@)] \in KeyState
  BY DEF KeyState, NewPair
<1>6. ~(old.tries < old.tries) /\ ~(MaxTries < old.tries)
  BY DEF KeyState, MaxTries
<1>7. /\ [old EXCEPT !.fido = "set"].tries = old.tries /\ [old EXCEPT !.minLength = TRUE].tries = old.tries
      /\ [old EXCEPT !.forced = TRUE].tries = old.tries /\ [old EXCEPT !.credential = TRUE].tries = old.tries
      /\ [old EXCEPT !.slot = TRUE].tries = old.tries /\ [old EXCEPT !.code = TRUE].tries = old.tries
      /\ [old EXCEPT !.cert = TRUE].tries = old.tries /\ [old EXCEPT !.puk = "set"].tries = old.tries
      /\ [old EXCEPT !.mgm = "protected"].tries = old.tries /\ [old EXCEPT !.mgm = "unstored"].tries = old.tries
      /\ [old EXCEPT !.pair = NewPair(@)].tries = old.tries
      /\ [old EXCEPT !.tries = MaxTries].tries = MaxTries
      /\ [old EXCEPT !.pin = "set", !.tries = MaxTries].tries = MaxTries
  BY DEF KeyState
<1> QED BY <1>1, <1>2, <1>4, <1>5, <1>6, <1>7, AimsKeep, Zenon DEF Toward

(* A wrong PIN costs a try and is refused.                                 *)
LEMMA GuessSound ==
  ASSUME NEW old \in KeyState, old.tries # 0, NEW purse, NEW p, Grown(purse, p), NEW kind
  PROVE  Sound(kind, old, purse, Outcome([old EXCEPT !.tries = @ - 1], p, "refused"))
<1>1. [old EXCEPT !.tries = @ - 1] \in KeyState
  BY DEF KeyState, MaxTries
<1>2. Keeps(old, [old EXCEPT !.tries = @ - 1])
  BY DEF KeyState, Keeps, IsOn
<1> QED BY <1>1, <1>2 DEF Sound, Outcome, Results

(* A step that asks, finds no reason not to, and writes one thing.         *)
LEMMA PlainSteps ==
  ASSUME NEW old \in KeyState, NEW purse \in Purse
  PROVE  /\ \A o \in Fido2MinPinLength(old, purse) : Sound("minLength", old, purse, o)
         /\ \A o \in Fido2ForcePinChange(old, purse) : Sound("forceChange", old, purse, o)
         /\ \A o \in Fido2Credential(old, purse) : Sound("credential", old, purse, o)
         /\ \A o \in OtpSlotConfig(old, purse) : Sound("otpSlot", old, purse, o)
         /\ \A o \in Verify(old, purse) : Sound("verify", old, purse, o)
<1>1. Toward(old, old) /\ Grown(purse, purse)
  BY Aims, SecretsGrow
<1>2. \A kind : \A r \in {"already", "skip", "refused"} : Sound(kind, old, purse, Outcome(old, purse, r))
  BY <1>1, QuietSound DEF Results
<1>3. \A kind, k : \A o \in WithFidoPin(old, purse, k) :
        Toward(old, k) /\ IsOn(kind, k) => Sound(kind, old, purse, o)
  BY <1>1, <1>2, WriteSound DEF WithFidoPin
<1>4. \A o \in Fido2MinPinLength(old, purse) : Sound("minLength", old, purse, o)
  <2>1. Toward(old, [old EXCEPT !.minLength = TRUE]) /\ IsOn("minLength", [old EXCEPT !.minLength = TRUE])
    BY Aims DEF IsOn, KeyState
  <2> QED BY <2>1, <1>2, <1>3 DEF Fido2MinPinLength
<1>5. \A o \in Fido2ForcePinChange(old, purse) : Sound("forceChange", old, purse, o)
  <2>1. Toward(old, [old EXCEPT !.forced = TRUE]) /\ IsOn("forceChange", [old EXCEPT !.forced = TRUE])
    BY Aims DEF IsOn, KeyState
  <2> QED BY <2>1, <1>2, <1>3 DEF Fido2ForcePinChange
<1>6. \A o \in Fido2Credential(old, purse) : Sound("credential", old, purse, o)
  <2>1. Toward(old, [old EXCEPT !.credential = TRUE]) /\ IsOn("credential", [old EXCEPT !.credential = TRUE])
    BY Aims DEF IsOn, KeyState
  <2> QED BY <2>1, <1>2, <1>3 DEF Fido2Credential
<1>7. \A o \in OtpSlotConfig(old, purse) : Sound("otpSlot", old, purse, o)
  <2>1. Toward(old, [old EXCEPT !.slot = TRUE]) /\ IsOn("otpSlot", [old EXCEPT !.slot = TRUE])
    BY Aims DEF IsOn, KeyState
  <2> QED BY <2>1, <1>1, <1>2, WriteSound DEF OtpSlotConfig
<1>8. \A o \in Verify(old, purse) : Sound("verify", old, purse, o)
  BY <1>1 DEF Verify, Sound, Outcome, Results, Toward, IsOn
<1> QED BY <1>4, <1>5, <1>6, <1>7, <1>8

LEMMA Fido2PinSound ==
  ASSUME NEW old \in KeyState, NEW purse \in Purse, NEW o \in Fido2Pin(old, purse)
  PROVE  Sound("fidoPin", old, purse, o)
<1> DEFINE made == EnsureFidoPin(purse)
           k == [old EXCEPT !.fido = "set"]
           accepted == [made EXCEPT !.fido = "good"]
<1>1. Toward(old, old) /\ Grown(purse, purse) /\ Grown(purse, made)
  BY Aims, SecretsGrow
<1>2. CASE old.fido # "none"
  BY <1>1, <1>2, QuietSound DEF Fido2Pin, Results
<1>3. CASE old.fido = "none"
  <2>1. o \in Write(old, made, k, accepted)
    BY <1>3 DEF Fido2Pin
  <2>2. Toward(old, k) /\ IsOn("fidoPin", k)
    BY <1>3, Aims DEF IsOn, KeyState
  <2>3. Grown(purse, accepted)
    BY <1>1, SecretsGrow DEF Grown
  <2> HIDE DEF made, k, accepted
  <2> QED BY <1>1, <2>1, <2>2, <2>3, WriteSound
<1> QED BY <1>2, <1>3

LEMMA OtpAccessCodeSound ==
  ASSUME NEW old \in KeyState, NEW purse \in Purse, NEW o \in OtpAccessCode(old, purse)
  PROVE  Sound("otpCode", old, purse, o)
<1> DEFINE made == Generate(purse, "code")
           k == [old EXCEPT !.code = TRUE]
<1>1. Toward(old, old) /\ Grown(purse, purse) /\ Grown(purse, made)
  BY Aims, SecretsGrow DEF SecretKinds
<1>2. Toward(old, k) /\ IsOn("otpCode", k)
  BY Aims DEF IsOn, KeyState
<1>3. \/ o = Outcome(old, purse, "skip") \/ o = Outcome(old, made, "retryable")
      \/ o \in Write(old, made, k, made)
  BY DEF OtpAccessCode
<1> HIDE DEF made, k
<1> QED BY <1>1, <1>2, <1>3, QuietSound, WriteSound DEF Results

(* The half-written states of the two steps that take two commands.        *)
LEMMA PivPinPukSound ==
  ASSUME NEW old \in KeyState, NEW purse \in Purse, NEW o \in PivPinPuk(old, purse)
  PROVE  Sound("pinPuk", old, purse, o)
<1> DEFINE made == Generate(EnsurePivPin(purse), "puk")
           accepted == [made EXCEPT !.pin = "good"]
           pinOnly == [old EXCEPT !.pin = "set", !.tries = MaxTries]
           k == [pinOnly EXCEPT !.puk = "set"]
<1>1. Toward(old, old) /\ Grown(purse, purse) /\ Grown(purse, made)
  BY Aims, SecretsGrow, GrownOn DEF SecretKinds, Grown
<1>2. Grown(purse, accepted)
  <2> HIDE DEF made
  <2> QED BY <1>1, SecretsGrow, GrownOn DEF Grown
<1>3. CASE PinChanged(old) \/ old.tries = 0
  BY <1>1, <1>3, QuietSound DEF PivPinPuk, Results
<1>4. CASE ~PinChanged(old) /\ old.tries # 0 /\ old.pin # "default"
  <2>1. o = Outcome([old EXCEPT !.tries = @ - 1], made, "refused")
    BY <1>4 DEF PivPinPuk, PinIsDefault
  <2> HIDE DEF made
  <2> QED BY <1>1, <1>4, <2>1, GuessSound
<1>5. CASE ~PinChanged(old) /\ old.tries # 0 /\ old.pin = "default"
  <2>1. o \in Write(old, made, k, accepted) \cup Unperformed(pinOnly, accepted)
    BY <1>5 DEF PivPinPuk, PinIsDefault, ChangePinPuk
  <2>2. Toward(old, pinOnly)
    BY <1>5, Aims
  <2>3. Toward(pinOnly, k)
    <3> HIDE DEF pinOnly
    <3> QED BY <2>2, Aims DEF Toward
  <2>4. Toward(old, k)
    BY <2>2, <2>3, TowardOn
  <2>5. IsOn("pinPuk", k)
    BY DEF IsOn, KeyState
  <2> HIDE DEF made, k, accepted, pinOnly
  <2> QED BY <1>1, <1>2, <2>1, <2>2, <2>4, <2>5, WriteSound, UnperformedSound
<1> QED BY <1>3, <1>4, <1>5

LEMMA PivManagementKeySound ==
  ASSUME NEW old \in KeyState, NEW purse \in Purse, NEW o \in PivManagementKey(old, purse)
  PROVE  Sound("mgmKey", old, purse, o)
<1> DEFINE made == Generate(purse, "mgm")
           k == [old EXCEPT !.mgm = "protected"]
           unstored == [old EXCEPT !.mgm = "unstored"]
<1>1. Toward(old, old) /\ Grown(purse, purse) /\ Grown(purse, made)
  BY Aims, SecretsGrow DEF SecretKinds
<1>2. CASE old.mgm # "default" \/ purse.pin = "none" \/ MgmChanged(old)
  BY <1>1, <1>2, QuietSound DEF PivManagementKey, MgmChanged, Results
<1>3. CASE old.mgm = "default" /\ purse.pin # "none"
  <2>1. o \in Write(old, made, k, made) \cup Unperformed(unstored, made)
    BY <1>3 DEF PivManagementKey, MgmChanged
  <2>2. Toward(old, k) /\ Toward(old, unstored) /\ IsOn("mgmKey", k)
    BY <1>3, Aims DEF IsOn, KeyState
  <2> HIDE DEF made, k, unstored
  <2> QED BY <1>1, <2>1, <2>2, WriteSound, UnperformedSound
<1> QED BY <1>2, <1>3

(* What a step behind the PIV PIN comes to before it gets there: the       *)
(* counter is spent, or a wrong PIN costs a try.                           *)
LEMMA StoppedSound ==
  ASSUME NEW old \in KeyState, NEW purse \in Purse, NEW kind, NEW o,
         \/ old.tries = 0 /\ o = Outcome(old, purse, "refused")
         \/ old.tries # 0 /\ o = Outcome([old EXCEPT !.tries = @ - 1], purse, "refused")
  PROVE  Sound(kind, old, purse, o)
<1>1. Toward(old, old) /\ Grown(purse, purse)
  BY Aims, SecretsGrow
<1> QED BY <1>1, QuietSound, GuessSound DEF Results

LEMMA BehindThePin ==
  ASSUME NEW old \in KeyState, NEW purse \in Purse
  PROVE  /\ \A o \in PivKeygen(old, purse) : Sound("keygen", old, purse, o)
         /\ \A o \in PivCsr(old, purse) : Sound("csr", old, purse, o)
         /\ \A pem : \A o \in PivCertImport(old, purse, pem) : Sound("import", old, purse, o)
<1> DEFINE k == [old EXCEPT !.tries = MaxTries]
           Stopped(o) == \/ old.tries = 0 /\ o = Outcome(old, purse, "refused")
                         \/ old.tries # 0 /\ o = Outcome([old EXCEPT !.tries = @ - 1], purse, "refused")
           pairOn == [k EXCEPT !.pair = NewPair(@)]
           certOn == [k EXCEPT !.cert = TRUE]
<1>1. Toward(old, old) /\ Toward(old, k) /\ k \in KeyState /\ Grown(purse, purse)
  BY Aims, SecretsGrow DEF Toward
<1>2. \A kind, o : Stopped(o) => Sound(kind, old, purse, o)
  BY StoppedSound
<1>3. \A kind : \A r \in {"skip", "already", "retryable", "refused"} :
        Sound(kind, old, purse, Outcome(old, purse, r)) /\ Sound(kind, old, purse, Outcome(k, purse, r))
  BY <1>1, QuietSound DEF Results
<1>4. Toward(old, pairOn) /\ Toward(old, certOn)
  <2> HIDE DEF k
  <2>1. Toward(k, pairOn) /\ Toward(k, certOn)
    BY <1>1, Aims
  <2> HIDE DEF pairOn, certOn
  <2> QED BY <1>1, <2>1, TowardOn
<1>5. IsOn("keygen", pairOn) /\ IsOn("import", certOn) /\ IsOn("csr", k)
  <2> HIDE DEF k
  <2>1. pairOn.pair # "none" /\ certOn.cert
    BY <1>1 DEF KeyState, NewPair
  <2> HIDE DEF pairOn, certOn
  <2> QED BY <2>1 DEF IsOn
<1>6. \A o \in PivKeygen(old, purse) :
        \/ Stopped(o) \/ o \in Write(k, purse, pairOn, purse)
        \/ \E r \in {"skip", "already", "retryable", "refused"} : o \in {Outcome(old, purse, r), Outcome(k, purse, r)}
  BY DEF PivKeygen, Administering, WithPin
<1>7. \A o \in PivCsr(old, purse) :
        \/ Stopped(o) \/ o = Outcome(k, purse, "applied")
        \/ \E r \in {"skip", "already", "retryable", "refused"} : o \in {Outcome(old, purse, r), Outcome(k, purse, r)}
  BY DEF PivCsr, WithPin
<1>8. \A pem : \A o \in PivCertImport(old, purse, pem) :
        \/ Stopped(o) \/ o \in Write(k, purse, certOn, purse)
        \/ \E r \in {"skip", "already", "retryable", "refused"} : o \in {Outcome(old, purse, r), Outcome(k, purse, r)}
  BY DEF PivCertImport, Administering, WithPin
<1>9. Sound("csr", old, purse, Outcome(k, purse, "applied"))
  BY <1>1, <1>5 DEF Sound, Outcome, Results, Toward
<1> HIDE DEF k, pairOn, certOn, Stopped
<1> QED BY <1>1, <1>2, <1>3, <1>4, <1>5, <1>6, <1>7, <1>8, <1>9, WriteSound

(* Every outcome of every step: nothing that was on the key goes, what a   *)
(* holder chose stays, a guess is refused for good, and applied is on it.  *)
LEMMA PerformSound ==
  ASSUME NEW old \in KeyState, NEW purse \in Purse, NEW kind \in Kinds, NEW pem,
         NEW o \in Perform(kind, old, purse, pem)
  PROVE  Sound(kind, old, purse, o)
<1>1. Toward(old, old) /\ Grown(purse, purse)
  BY Aims, SecretsGrow
<1>2. CASE o \in Unperformed(old, purse)
  BY <1>1, <1>2, UnperformedSound
<1>3. CASE o \notin Unperformed(old, purse)
  <2>1. \/ kind = "fidoPin" /\ o \in Fido2Pin(old, purse)
        \/ kind = "minLength" /\ o \in Fido2MinPinLength(old, purse)
        \/ kind = "forceChange" /\ o \in Fido2ForcePinChange(old, purse)
        \/ kind = "credential" /\ o \in Fido2Credential(old, purse)
        \/ kind = "otpCode" /\ o \in OtpAccessCode(old, purse)
        \/ kind = "otpSlot" /\ o \in OtpSlotConfig(old, purse)
        \/ kind = "pinPuk" /\ o \in PivPinPuk(old, purse)
        \/ kind = "mgmKey" /\ o \in PivManagementKey(old, purse)
        \/ kind = "keygen" /\ o \in PivKeygen(old, purse)
        \/ kind = "csr" /\ o \in PivCsr(old, purse)
        \/ kind = "import" /\ o \in PivCertImport(old, purse, pem)
        \/ kind = "verify" /\ o \in Verify(old, purse)
    BY <1>3 DEF Perform, Kinds
  <2> QED BY <2>1, PlainSteps, Fido2PinSound, OtpAccessCodeSound, PivPinPukSound,
             PivManagementKeySound, BehindThePin
<1> QED BY <1>2, <1>3

-----------------------------------------------------------------------------
(* The loop.                                                               *)

Behind(e) == \A j \in Steps : j < e.i /\ Required(j) => e.steps[j] # "Failed"
AllDone(steps) == \A i \in Steps : Required(i) => steps[i] = "Done"

(* What an executor knows at each stage of its loop.                       *)
LoopOK(e) ==
  /\ e.at # "idle" => e.id \in Runs
  /\ e.at \in {"mark", "attempt", "judge", "record"} => e.i \in Steps /\ Behind(e)
  /\ e.at \in {"open", "mark", "attempt"} => ~IsFatal(e.result)
  /\ e.at = "record" => e.steps[e.i] = Verdict(e.result)
  /\ e.at \in {"mark", "attempt"} => e.guesses = 0
  /\ e.guesses \in {0, 1}
  /\ e.at = "abandon" => e.purse.made = {}
  /\ e.at \in {"final", "sign"} =>
       e.status \in {"Completed", "Failed", "Running"} /\ (e.status = "Completed" => AllDone(e.steps))
ExecOK(e) == e \in ExecState /\ LoopOK(e)

LoopInv == TypeOK /\ \A d \in Desks : LoopOK(exec[d])

LEMMA ProcedureIs ==
  /\ Len(Procedure) \in Nat /\ Steps \subseteq Nat /\ Steps \subseteq 0..Len(Procedure)
  /\ \A i \in Steps : Kind(i) \in Kinds /\ Required(i) \in BOOLEAN
<1> DEFINE Planned == [kind : Kinds, required : BOOLEAN]
<1>1. Procedure \in Seq(Planned)
  BY ExecutorAssumption
<1>2. Len(Procedure) \in Nat /\ \A i \in 1..Len(Procedure) : Procedure[i] \in Planned
  <2> HIDE DEF Planned
  <2> QED BY <1>1
<1> QED BY <1>2 DEF Steps, Kind, Required

LEMMA IdleOK == ExecOK(Idle) /\ Idle.at = "idle" /\ Idle.purse.made = {}
<1>1. Pending \in [Steps -> StepStatus] /\ NoSecrets \in Purse
  BY DEF Pending, StepStatus, NoSecrets, Purse
<1>2. Idle \in ExecState
  BY <1>1, ExecutorAssumption, ProcedureIs DEF ExecState, Idle, Stages, Results, RunStatus
<1>3. LoopOK(Idle) /\ Idle.at = "idle" /\ Idle.purse.made = {}
  BY DEF LoopOK, Idle, NoSecrets
<1> QED BY <1>2, <1>3 DEF ExecOK

LEMMA Least ==
  ASSUME NEW S \in SUBSET Nat, S # {} PROVE \E i \in S : \A j \in S : i <= j
<1>1. PICK m \in S : \A k \in S : <<k, m>> \notin OpToRel(<, Nat)
  BY WFMin, NatLessThanWellFounded, Zenon
<1>2. \A k \in S : ~(k < m)
  BY <1>1 DEF OpToRel
<1> QED BY <1>2

(* The loop goes on to the first step after i that is not Done.            *)
LEMMA AdvanceIs ==
  ASSUME NEW e \in ExecState, NEW i \in 0..Len(Procedure)
  PROVE  \/ Ahead(e.steps, i) = {} /\ Advance(e, i) = [e EXCEPT !.at = "settle"]
         \/ \E j \in Ahead(e.steps, i) :
              /\ Advance(e, i) = [e EXCEPT !.at = "mark", !.attempt = 1, !.guesses = 0, !.i = j]
              /\ \A k \in Ahead(e.steps, i) : j <= k
<1> DEFINE ahead == Ahead(e.steps, i)
           first == CHOOSE j \in ahead : \A k \in ahead : j <= k
<1>1. ahead \in SUBSET Nat
  BY ProcedureIs DEF Ahead
<1>2. ahead # {} => first \in ahead /\ \A k \in ahead : first <= k
  <2> HIDE DEF ahead
  <2> QED BY <1>1, Least
<1> QED BY <1>2 DEF Advance

LEMMA AdvanceOK ==
  ASSUME NEW e, ExecOK(e), e.at # "idle", ~IsFatal(e.result), NEW i \in 0..Len(Procedure),
         \A j \in Steps : j <= i /\ Required(j) => e.steps[j] # "Failed"
  PROVE  /\ ExecOK(Advance(e, i)) /\ Advance(e, i).at \in {"mark", "settle"}
         /\ Advance(e, i).id = e.id /\ Advance(e, i).steps = e.steps /\ Advance(e, i).purse = e.purse
         /\ Advance(e, i).at = "mark" => e.steps[Advance(e, i).i] # "Done"
<1> DEFINE ahead == Ahead(e.steps, i)
<1>1. e \in ExecState /\ LoopOK(e)
  BY DEF ExecOK
<1>2. CASE Advance(e, i) = [e EXCEPT !.at = "settle"]
  BY <1>1, <1>2 DEF ExecOK, ExecState, LoopOK, Stages
<1>3. ASSUME NEW j \in ahead, \A k \in ahead : j <= k,
             Advance(e, i) = [e EXCEPT !.at = "mark", !.attempt = 1, !.guesses = 0, !.i = j]
      PROVE  /\ ExecOK(Advance(e, i)) /\ Advance(e, i).at = "mark"
             /\ Advance(e, i).id = e.id /\ Advance(e, i).steps = e.steps /\ Advance(e, i).purse = e.purse
             /\ e.steps[Advance(e, i).i] # "Done"
  <2> DEFINE f == [e EXCEPT !.at = "mark", !.attempt = 1, !.guesses = 0, !.i = j]
  <2>1. j \in Steps /\ j \in 0..Len(Procedure) /\ e.steps[j] # "Done"
    BY ProcedureIs DEF Ahead
  <2>2. f \in ExecState /\ f.at = "mark" /\ f.i = j /\ f.id = e.id /\ f.steps = e.steps
        /\ f.purse = e.purse /\ f.guesses = 0 /\ f.result = e.result
    <3>1. 1 \in 1..Budget /\ 0 \in Nat /\ "mark" \in Stages
      BY ExecutorAssumption DEF Stages
    <3> QED BY <1>1, <2>1, <3>1 DEF ExecState
  <2>3. \A k \in Steps : k < j /\ Required(k) => e.steps[k] # "Failed"
    <3>1. \A k \in Steps : k \in Nat /\ i \in Nat /\ j \in Nat
      BY <2>1, ProcedureIs
    <3>2. \A k \in Steps : e.steps[k] = "Failed" /\ ~(k <= i) => k \in ahead
      BY <3>1 DEF Ahead
    <3> HIDE DEF ahead
    <3> QED BY <3>1, <3>2, <1>3
  <2>4. LoopOK(f)
    <3> HIDE DEF f
    <3> QED BY <1>1, <2>1, <2>2, <2>3 DEF LoopOK, Behind
  <2> HIDE DEF f
  <2> QED BY <2>1, <2>2, <2>4, <1>3 DEF ExecOK, f
<1> QED BY <1>1, <1>2, <1>3, AdvanceIs DEF ExecState

-----------------------------------------------------------------------------
LEMMA InitLoop == Init => LoopInv
<1> SUFFICES ASSUME Init PROVE LoopInv
  OBVIOUS
<1>1. key \in KeyState
  BY DEF Init, FactoryKey, KeyState, MaxTries
<1>2. \A d \in Desks : exec[d] \in ExecState /\ LoopOK(exec[d])
  BY IdleOK DEF Init, ExecOK
<1>3. TypeOK
  BY <1>1, <1>2 DEF Init, TypeOK
<1> QED BY <1>2, <1>3 DEF LoopInv

LEMMA OneMoves ==
  ASSUME LoopInv, NEW d \in Desks, NEW e, ExecOK(e), exec' = [exec EXCEPT ![d] = e]
  PROVE  /\ exec' \in [Desks -> ExecState] /\ \A c \in Desks : LoopOK(exec'[c])
         /\ exec'[d] = e /\ \A c \in Desks : c # d => exec'[c] = exec[c]
BY DEF LoopInv, TypeOK, ExecOK

LEMMA DeskOK ==
  ASSUME LoopInv, NEW d \in Desks
  PROVE  ExecOK(exec[d]) /\ exec[d] \in ExecState /\ LoopOK(exec[d])
BY DEF LoopInv, TypeOK, ExecOK

(* What a call on the recorder leaves in the table.                        *)
LEMMA Persisted ==
  ASSUME LoopInv, NEW d \in Desks, exec[d].at # "idle",
         NEW status \in RunStatus, NEW steps \in [Steps -> StepStatus], Persist(d, status, steps)
  PROVE  /\ row' \in [Runs -> RunRow \cup {None}] /\ exec[d].id \in Runs
         /\ row'[exec[d].id] = Row(status, steps) /\ Row(status, steps) \in RunRow
         /\ Row(status, steps).status = status /\ Row(status, steps).steps = steps
         /\ \A r \in Runs : r # exec[d].id => row'[r] = row[r]
<1>1. exec[d].id \in Runs /\ row \in [Runs -> RunRow \cup {None}]
  BY DeskOK DEF LoopOK, LoopInv, TypeOK
<1>2. Row(status, steps) \in RunRow
  BY DEF Row, RunRow
<1> QED BY <1>1, <1>2 DEF Persist, Row

EventNames == StepStatus \cup {"started", "resumed", "incomplete", "finished", "abandoned", "retried", "planned"}
Entries == Runs \X (0..Len(Procedure)) \X EventNames

LEMMA EntriesOK ==
  /\ \A r \in Runs, i \in 0..Len(Procedure), event \in EventNames : <<r, i, event>> \in Entries
  /\ 0 \in 0..Len(Procedure) /\ Steps \subseteq 0..Len(Procedure)
  /\ TypeOK => trail \subseteq Entries
BY ProcedureIs DEF Entries, EventNames, TypeOK

(* Desks that read, pick and put down.                                     *)
LEMMA DeskWorkLoop ==
  ASSUME LoopInv, NEW d \in Desks, NEW r \in Runs,
         Refresh(d) \/ Preflight(d) \/ StartAnother(d) \/ PickUp(d, r) \/ DryRun(d, r)
  PROVE  LoopInv'
<1>1. UNCHANGED <<key, request, exec, wrote, wiped, unknown>>
  BY DEF Refresh, Preflight, StartAnother, PickUp, DryRun, history
<1>2. CASE Refresh(d)
  BY <1>1, <1>2 DEF LoopInv, TypeOK, Refresh, Reread, register
<1>3. CASE Preflight(d)
  BY <1>1, <1>3 DEF LoopInv, TypeOK, Preflight, register
<1>4. CASE StartAnother(d)
  BY <1>1, <1>4 DEF LoopInv, TypeOK, StartAnother, register
<1>5. CASE PickUp(d, r)
  <2>1. listed[d][r] \in RunRow
    BY <1>5 DEF PickUp, Resumable, LoopInv, TypeOK
  <2> QED BY <1>1, <1>5, <2>1 DEF LoopInv, TypeOK, PickUp, register
<1>6. CASE DryRun(d, r)
  <2>1. Row("Planned", [i \in Steps |-> "Skipped"]) \in RunRow
    BY DEF Row, RunRow, RunStatus, StepStatus
  <2>2. row' \in [Runs -> RunRow \cup {None}] /\ listed' \in [Desks -> [Runs -> RunRow \cup {None}]]
    BY <1>6, <2>1 DEF DryRun, LoopInv, TypeOK
  <2>3. trail' \subseteq Entries
    <3>1. trail' \subseteq trail \cup {<<r, 0, "planned">>}
      BY <1>6 DEF DryRun
    <3> QED BY <3>1, EntriesOK DEF LoopInv, EventNames
  <2> QED BY <1>1, <1>6, <2>2, <2>3 DEF LoopInv, TypeOK, DryRun, Entries, EventNames
<1> QED BY <1>2, <1>3, <1>4, <1>5, <1>6

(* An executor or the closing of a run is entered.                         *)
LEMMA EnterLoop ==
  ASSUME LoopInv, NEW d \in Desks, NEW r \in Runs, Start(d, r) \/ Resume(d) \/ Abandon(d, r)
  PROVE  /\ LoopInv'
         /\ exec[d] = Idle /\ exec'[d].at \in {"open", "abandon"} /\ exec'[d].purse.made = {}
         /\ \A c \in Desks : c # d => exec'[c] = exec[c]
<1>1. UNCHANGED <<key, row, request, listed, held, wrote, wiped, unknown>>
  BY DEF Start, Resume, Abandon, history
<1>2. CASE Start(d, r)
  <2>1. PICK pem \in {"none", "wrong", "right"} :
          exec' = [exec EXCEPT ![d] = [Idle EXCEPT !.at = "open", !.id = r, !.pem = pem]]
    BY <1>2 DEF Start
  <2> DEFINE e == [Idle EXCEPT !.at = "open", !.id = r, !.pem = pem]
  <2>2. e \in ExecState /\ e.at = "open" /\ e.id = r /\ e.guesses = 0 /\ e.purse.made = {}
        /\ e.result = "skip"
    BY IdleOK DEF ExecOK, ExecState, Stages, Idle
  <2>3. ExecOK(e)
    <3> HIDE DEF e
    <3> QED BY <2>2 DEF ExecOK, LoopOK, IsFatal
  <2>4. trail' \subseteq Entries
    BY <1>2, EntriesOK DEF Start, LoopInv, EventNames
  <2> HIDE DEF e
  <2>5. exec' = [exec EXCEPT ![d] = e]
    BY <2>1 DEF e
  <2>6. exec[d] = Idle /\ confirmed' \subseteq confirmed
    BY <1>2 DEF Start, Free
  <2> QED BY <1>1, <2>2, <2>3, <2>4, <2>5, <2>6, OneMoves DEF LoopInv, TypeOK, Entries, EventNames
<1>3. CASE Resume(d)
  <2>1. PICK pin \in {"good", "bad"}, pem \in {"right", "wrong"} :
          exec' = [exec EXCEPT ![d] =
            [Idle EXCEPT !.at = "open", !.id = held[d].id, !.steps = held[d].row.steps,
                         !.purse.pin = pin, !.pem = pem]]
    BY <1>3 DEF Resume
  <2> DEFINE e == [Idle EXCEPT !.at = "open", !.id = held[d].id, !.steps = held[d].row.steps,
                               !.purse.pin = pin, !.pem = pem]
  <2>2. held[d].id \in Runs /\ held[d].row \in RunRow /\ held[d].row.steps \in [Steps -> StepStatus]
    BY <1>3 DEF Resume, LoopInv, TypeOK, RunRow
  <2>3. [Idle.purse EXCEPT !.pin = pin] \in Purse /\ [Idle.purse EXCEPT !.pin = pin].made = {}
    BY DEF Idle, NoSecrets, Purse
  <2>4. e \in ExecState /\ e.at = "open" /\ e.id = held[d].id /\ e.guesses = 0 /\ e.purse.made = {}
        /\ e.result = "skip"
    BY <2>2, <2>3, IdleOK DEF ExecOK, ExecState, Stages, Idle
  <2>5. ExecOK(e)
    <3> HIDE DEF e
    <3> QED BY <2>2, <2>4 DEF ExecOK, LoopOK, IsFatal
  <2>6. trail' \subseteq Entries
    BY <1>3, <2>2, EntriesOK DEF Resume, LoopInv, EventNames
  <2>7. exec' = [exec EXCEPT ![d] = e] /\ exec[d] = Idle /\ UNCHANGED confirmed
    BY <1>3, <2>1 DEF Resume, Free
  <2> HIDE DEF e
  <2> QED BY <1>1, <2>4, <2>5, <2>6, <2>7, OneMoves DEF LoopInv, TypeOK, Entries, EventNames
<1>4. CASE Abandon(d, r)
  <2> DEFINE e == [Idle EXCEPT !.at = "abandon", !.id = r, !.steps = listed[d][r].steps]
  <2>1. exec' = [exec EXCEPT ![d] = e] /\ exec[d] = Idle /\ UNCHANGED confirmed
    BY <1>4 DEF Abandon, Free
  <2>2. listed[d][r].steps \in [Steps -> StepStatus]
    BY <1>4 DEF Abandon, Resumable, LoopInv, TypeOK, RunRow
  <2>3. e \in ExecState /\ e.at = "abandon" /\ e.id = r /\ e.guesses = 0 /\ e.purse.made = {}
    BY <2>2, IdleOK DEF ExecOK, ExecState, Stages, Idle
  <2>4. ExecOK(e)
    <3> HIDE DEF e
    <3> QED BY <2>3 DEF ExecOK, LoopOK
  <2>5. trail' \subseteq Entries
    BY <1>4, EntriesOK DEF Abandon, LoopInv, EventNames
  <2> HIDE DEF e
  <2> QED BY <1>1, <2>1, <2>3, <2>4, <2>5, OneMoves DEF LoopInv, TypeOK, Entries, EventNames
<1> QED BY <1>2, <1>3, <1>4

(* The calls of the loop on the recorder.                                  *)
LEMMA OpenLoop ==
  ASSUME LoopInv, NEW d \in Desks, Open(d)
  PROVE  /\ LoopInv' /\ exec'[d].id = exec[d].id /\ exec'[d].steps = exec[d].steps
         /\ exec'[d].purse = exec[d].purse /\ exec'[d].at \in {"mark", "settle"}
         /\ exec'[d].at = "mark" => exec[d].steps[exec'[d].i] # "Done"
         /\ \A c \in Desks : c # d => exec'[c] = exec[c]
<1> DEFINE e == exec[d]
<1>1. /\ ExecOK(e) /\ e \in ExecState /\ e.at = "open" /\ e.steps \in [Steps -> StepStatus]
      /\ ~IsFatal(e.result)
  BY DeskOK DEF Open, At, ExecState, LoopOK
<1>2. \A j \in Steps : j <= 0 /\ Required(j) => e.steps[j] # "Failed"
  BY DEF Steps
<1>3. /\ ExecOK(Advance(e, 0)) /\ Advance(e, 0).at \in {"mark", "settle"}
      /\ Advance(e, 0).id = e.id /\ Advance(e, 0).steps = e.steps /\ Advance(e, 0).purse = e.purse
      /\ Advance(e, 0).at = "mark" => e.steps[Advance(e, 0).i] # "Done"
  <2> HIDE DEF e
  <2> QED BY <1>1, <1>2, AdvanceOK, ProcedureIs
<1>4. exec' = [exec EXCEPT ![d] = Advance(e, 0)] /\ Persist(d, "Running", e.steps)
      /\ UNCHANGED <<key, request, trail, listed, held, confirmed, wrote, wiped, unknown>>
  BY DEF Open, history
<1>5. "Running" \in RunStatus
  BY DEF RunStatus
<1>6. row' \in [Runs -> RunRow \cup {None}]
  BY <1>1, <1>4, <1>5, Persisted
<1> DEFINE f == Advance(e, 0)
<1>7. /\ exec' \in [Desks -> ExecState] /\ \A c \in Desks : LoopOK(exec'[c])
      /\ exec'[d] = f /\ \A c \in Desks : c # d => exec'[c] = exec[c]
  <2> HIDE DEF f
  <2> QED BY <1>3, <1>4, OneMoves DEF f
<1>8. LoopInv'
  BY <1>4, <1>6, <1>7 DEF LoopInv, TypeOK
<1> QED BY <1>3, <1>7, <1>8

LEMMA MarkLoop ==
  ASSUME LoopInv, NEW d \in Desks, Mark(d)
  PROVE  /\ LoopInv' /\ exec[d].i \in Steps
         /\ exec'[d] = [exec[d] EXCEPT !.at = "attempt", !.steps = [exec[d].steps EXCEPT ![exec[d].i] = "Running"]]
         /\ Persist(d, "Running", exec'[d].steps)
         /\ \A c \in Desks : c # d => exec'[c] = exec[c]
<1> DEFINE steps == [exec[d].steps EXCEPT ![exec[d].i] = "Running"]
           e == [exec[d] EXCEPT !.at = "attempt", !.steps = steps]
<1>1. exec[d] \in ExecState /\ LoopOK(exec[d]) /\ exec[d].at = "mark" /\ exec[d].steps \in [Steps -> StepStatus]
  BY DeskOK DEF Mark, At, ExecState
<1>2. exec' = [exec EXCEPT ![d] = e] /\ Persist(d, "Running", steps)
      /\ UNCHANGED <<key, request, trail, listed, held, confirmed, wrote, wiped, unknown>>
  BY <1>1 DEF Mark, history, LoopInv, TypeOK, ExecState
<1>3. steps \in [Steps -> StepStatus] /\ \A j \in Steps : steps[j] = "Failed" => exec[d].steps[j] = "Failed"
  BY <1>1 DEF StepStatus
<1>4. /\ e \in ExecState /\ e.at = "attempt" /\ e.steps = steps /\ e.i = exec[d].i /\ e.id = exec[d].id
      /\ e.guesses = exec[d].guesses /\ e.result = exec[d].result
  <2> HIDE DEF steps
  <2> QED BY <1>1, <1>3 DEF ExecState, Stages
<1>5. ExecOK(e)
  <2> HIDE DEF steps, e
  <2> QED BY <1>1, <1>3, <1>4 DEF ExecOK, LoopOK, Behind
<1>6. row' \in [Runs -> RunRow \cup {None}]
  <2> HIDE DEF steps
  <2> QED BY <1>1, <1>2, <1>3, Persisted DEF RunStatus
<1>7. exec[d].i \in Steps
  BY <1>1 DEF LoopOK
<1>8. /\ exec' \in [Desks -> ExecState] /\ \A c \in Desks : LoopOK(exec'[c])
      /\ exec'[d] = e /\ \A c \in Desks : c # d => exec'[c] = exec[c]
  <2> HIDE DEF e
  <2> QED BY <1>2, <1>5, OneMoves
<1>9. Persist(d, "Running", exec'[d].steps)
  BY <1>2, <1>4, <1>8
<1> HIDE DEF steps
<1> QED BY <1>2, <1>6, <1>7, <1>8, <1>9 DEF LoopInv, TypeOK, steps

(* An attempt goes from stage to stage with what it did to the key.        *)
LEMMA AttemptLoop ==
  ASSUME LoopInv, NEW d \in Desks, Attempt(d)
  PROVE  /\ LoopInv' /\ Keeps(key, key') /\ exec[d].i \in Steps
         /\ exec'[d].id = exec[d].id /\ exec'[d].steps = exec[d].steps /\ exec'[d].i = exec[d].i
         /\ exec[d].purse.made \subseteq exec'[d].purse.made
         /\ exec'[d].at \in {"attempt", "judge"}
         /\ exec'[d].result = "applied" => IsOn(Kind(exec[d].i), key')
         /\ unknown' \subseteq unknown \cup exec'[d].purse.made
         /\ wrote' \subseteq wrote \cup {<<exec[d].id, exec[d].i>>}
         /\ trail \subseteq trail'
         /\ \A c \in Desks : c # d => exec'[c] = exec[c]
<1> DEFINE e == exec[d]
           i == e.i
<1>1. /\ e \in ExecState /\ LoopOK(e) /\ e.at = "attempt" /\ e.purse \in Purse /\ e.id \in Runs
      /\ i \in Steps /\ Kind(i) \in Kinds /\ Behind(e) /\ e.guesses = 0 /\ key \in KeyState
      /\ e.attempt \in 1..Budget
  BY DeskOK, ProcedureIs DEF Attempt, At, ExecState, LoopOK, LoopInv, TypeOK
<1>2. PICK o \in Perform(Kind(i), key, e.purse, Certificate(e)) :
           /\ key' = o.key
           /\ request' = Requests(d, i, o)
           /\ wrote' = IF [o.key EXCEPT !.tries = key.tries] # key
                         THEN wrote \cup {<<e.id, i>>} ELSE wrote
           /\ unknown' = unknown \cup {s \in o.purse.made : o.key[s] # key[s]}
           /\ trail' = IF TriesAgain(e, o.result)
                         THEN trail \cup {<<e.id, i, "retried">>} ELSE trail
           /\ exec' = [exec EXCEPT ![d] =
                [e EXCEPT !.purse = o.purse,
                          !.guesses = IF o.key.tries < key.tries THEN @ + 1 ELSE @,
                          !.attempt = IF TriesAgain(e, o.result) THEN @ + 1 ELSE @,
                          !.at = IF TriesAgain(e, o.result) THEN "attempt" ELSE "judge",
                          !.result = o.result]]
  BY DEF Attempt
<1>3. Sound(Kind(i), key, e.purse, o)
  BY <1>1, <1>2, PerformSound
<1> DEFINE f == [e EXCEPT !.purse = o.purse,
                          !.guesses = IF o.key.tries < key.tries THEN @ + 1 ELSE @,
                          !.attempt = IF TriesAgain(e, o.result) THEN @ + 1 ELSE @,
                          !.at = IF TriesAgain(e, o.result) THEN "attempt" ELSE "judge",
                          !.result = o.result]
           guesses == IF o.key.tries < key.tries THEN 1 ELSE 0
           attempt == IF TriesAgain(e, o.result) THEN e.attempt + 1 ELSE e.attempt
           at == IF TriesAgain(e, o.result) THEN "attempt" ELSE "judge"
<1>4. /\ attempt \in 1..Budget /\ guesses \in {0, 1} /\ at \in Stages /\ at \in {"attempt", "judge"}
      /\ at = "attempt" => guesses = 0 /\ ~IsFatal(o.result)
  <2>1. e.attempt + 1 \in 1..Budget \/ ~TriesAgain(e, o.result)
    BY <1>1, ExecutorAssumption DEF TriesAgain
  <2>2. o.key.tries < key.tries => ~TriesAgain(e, o.result)
    BY <1>3 DEF Sound, TriesAgain, IsWorthRetrying
  <2>3. TriesAgain(e, o.result) => ~IsFatal(o.result)
    BY DEF TriesAgain, IsWorthRetrying, IsFatal
  <2> QED BY <1>1, <2>1, <2>2, <2>3 DEF Stages
<1>5. f = [e EXCEPT !.purse = o.purse, !.guesses = guesses, !.attempt = attempt, !.at = at, !.result = o.result]
  BY <1>1
<1>6. /\ f \in ExecState /\ f.at = at /\ f.guesses = guesses /\ f.id = e.id /\ f.i = i /\ f.steps = e.steps
      /\ f.purse = o.purse /\ f.result = o.result
  <2>1. o.purse \in Purse /\ o.result \in Results /\ guesses \in Nat
    BY <1>3, <1>4 DEF Sound, Grown
  <2> HIDE DEF f, guesses, attempt, at
  <2> QED BY <1>1, <1>4, <1>5, <2>1 DEF ExecState
<1>7. ExecOK(f)
  <2> HIDE DEF f, guesses, at
  <2> QED BY <1>1, <1>4, <1>6 DEF ExecOK, LoopOK, Behind
<1>8. /\ exec' \in [Desks -> ExecState] /\ \A c \in Desks : LoopOK(exec'[c])
      /\ exec'[d] = f /\ \A c \in Desks : c # d => exec'[c] = exec[c]
  <2>1. exec' = [exec EXCEPT ![d] = f]
    BY <1>2
  <2> HIDE DEF f
  <2> QED BY <1>7, <2>1, OneMoves
<1>9. UNCHANGED <<row, listed, held, confirmed, wiped>>
  BY DEF Attempt
<1>10. /\ request' \in [Runs -> {"none", "current", "stale"}]
       /\ trail' \subseteq Entries /\ trail \subseteq trail'
       /\ wrote' \subseteq Runs \X Steps /\ wrote' \subseteq wrote \cup {<<e.id, i>>}
       /\ unknown' \subseteq SecretKinds /\ unknown' \subseteq unknown \cup o.purse.made
       /\ key' \in KeyState
  <2>1. request' \in [Runs -> {"none", "current", "stale"}]
    BY <1>2 DEF Requests, LoopInv, TypeOK
  <2>2. trail' \subseteq Entries /\ trail \subseteq trail'
    BY <1>1, <1>2, EntriesOK DEF LoopInv, EventNames
  <2>3. wrote' \subseteq Runs \X Steps /\ wrote' \subseteq wrote \cup {<<e.id, i>>}
    BY <1>1, <1>2 DEF LoopInv, TypeOK
  <2>4. unknown' \subseteq SecretKinds /\ unknown' \subseteq unknown \cup o.purse.made
    BY <1>2, <1>3 DEF LoopInv, TypeOK, Sound, Grown, Purse
  <2> QED BY <1>2, <1>3, <2>1, <2>2, <2>3, <2>4 DEF Sound
<1>11. LoopInv'
  <2> HIDE DEF f, e
  <2> QED BY <1>8, <1>9, <1>10 DEF LoopInv, TypeOK, Entries, EventNames
<1> HIDE DEF f
<1> QED BY <1>1, <1>2, <1>3, <1>4, <1>6, <1>8, <1>10, <1>11 DEF Sound, Grown

LEMMA JudgeLoop ==
  ASSUME LoopInv, NEW d \in Desks, Judge(d)
  PROVE  /\ LoopInv' /\ exec[d].i \in Steps
         /\ exec'[d] = [exec[d] EXCEPT !.at = "record",
                                       !.steps = [exec[d].steps EXCEPT ![exec[d].i] = Verdict(exec[d].result)]]
         /\ Verdict(exec[d].result) \in {"Done", "Skipped", "Failed"}
         /\ Verdict(exec[d].result) = "Done" <=> exec[d].result = "applied"
         /\ \A c \in Desks : c # d => exec'[c] = exec[c]
<1> DEFINE verdict == Verdict(exec[d].result)
           steps == [exec[d].steps EXCEPT ![exec[d].i] = verdict]
           e == [exec[d] EXCEPT !.at = "record", !.steps = steps]
<1>1. exec[d] \in ExecState /\ LoopOK(exec[d]) /\ exec[d].at = "judge" /\ exec[d].steps \in [Steps -> StepStatus]
      /\ exec[d].result \in Results /\ exec[d].i \in Steps /\ exec[d].id \in Runs
  BY DeskOK DEF Judge, At, ExecState, LoopOK
<1>2. verdict \in {"Done", "Skipped", "Failed"} /\ (verdict = "Done" <=> exec[d].result = "applied")
  BY <1>1 DEF Verdict, Results, Errors
<1>3. exec' = [exec EXCEPT ![d] = e] /\ trail' = trail \cup {<<exec[d].id, exec[d].i, verdict>>}
      /\ UNCHANGED <<key, row, request, listed, held, confirmed, wrote, wiped, unknown>>
  BY <1>1 DEF Judge, history, LoopInv, TypeOK, ExecState
<1>4. steps \in [Steps -> StepStatus] /\ \A j \in Steps : j < exec[d].i => steps[j] = exec[d].steps[j]
  <2>1. \A j, k \in Steps : j < k => j # k
    BY ProcedureIs
  <2> HIDE DEF verdict
  <2> QED BY <1>1, <1>2, <2>1 DEF StepStatus
<1>5. /\ e \in ExecState /\ e.at = "record" /\ e.steps = steps /\ e.i = exec[d].i /\ e.id = exec[d].id
      /\ e.guesses = exec[d].guesses /\ e.result = exec[d].result
  <2> HIDE DEF steps
  <2> QED BY <1>1, <1>4 DEF ExecState, Stages
<1>6. ExecOK(e)
  <2>1. steps[exec[d].i] = verdict
    BY <1>1
  <2> HIDE DEF steps, e
  <2> QED BY <1>1, <1>4, <1>5, <2>1 DEF ExecOK, LoopOK, Behind
<1>7. trail' \subseteq Entries
  <2> HIDE DEF verdict
  <2> QED BY <1>1, <1>2, <1>3, EntriesOK DEF LoopInv, EventNames, StepStatus
<1>8. /\ exec' \in [Desks -> ExecState] /\ \A c \in Desks : LoopOK(exec'[c])
      /\ exec'[d] = e /\ \A c \in Desks : c # d => exec'[c] = exec[c]
  <2> HIDE DEF e
  <2> QED BY <1>3, <1>6, OneMoves
<1> HIDE DEF verdict
<1> QED BY <1>1, <1>2, <1>3, <1>7, <1>8 DEF LoopInv, TypeOK, Entries, EventNames, verdict

LEMMA RecordLoop ==
  ASSUME LoopInv, NEW d \in Desks, Record(d)
  PROVE  /\ LoopInv' /\ exec[d].i \in Steps
         /\ exec'[d].id = exec[d].id /\ exec'[d].steps = exec[d].steps /\ exec'[d].purse = exec[d].purse
         /\ exec'[d].at \in {"mark", "settle", "final"}
         /\ exec'[d].at = "mark" => exec[d].steps[exec'[d].i] # "Done"
         /\ exec'[d].at = "final" => exec'[d].status = "Failed"
         /\ \A c \in Desks : c # d => exec'[c] = exec[c]
<1> DEFINE e == exec[d]
           f == IF Aborts(e) THEN [e EXCEPT !.at = "final", !.status = "Failed"] ELSE Advance(e, e.i)
<1>1. /\ ExecOK(e) /\ e \in ExecState /\ LoopOK(e) /\ e.at = "record" /\ e.steps \in [Steps -> StepStatus]
      /\ e.i \in Steps /\ Behind(e) /\ e.steps[e.i] = Verdict(e.result)
  BY DeskOK DEF Record, At, ExecState, LoopOK
<1>2. /\ ExecOK(f) /\ f.id = e.id /\ f.steps = e.steps /\ f.purse = e.purse
      /\ f.at \in {"mark", "settle", "final"}
      /\ f.at = "mark" => e.steps[f.i] # "Done"
      /\ f.at = "final" => f.status = "Failed"
  <2>1. CASE Aborts(e)
    <3> DEFINE g == [e EXCEPT !.at = "final", !.status = "Failed"]
    <3>1. g \in ExecState /\ g.at = "final" /\ g.status = "Failed" /\ g.id = e.id /\ g.steps = e.steps
          /\ g.purse = e.purse /\ g.guesses = e.guesses
      BY <1>1 DEF ExecState, Stages, RunStatus
    <3> HIDE DEF g, e
    <3>2. ExecOK(g)
      BY <1>1, <3>1 DEF ExecOK, LoopOK
    <3> QED BY <2>1, <3>1, <3>2 DEF g
  <2>2. CASE ~Aborts(e)
    <3>1. \A j \in Steps : j <= e.i => j < e.i \/ j = e.i
      <4>1. e.i \in Nat /\ Steps \subseteq Nat
        BY <1>1, ProcedureIs
      <4> HIDE DEF e
      <4> QED BY <4>1
    <3>3. Required(e.i) => e.steps[e.i] # "Failed"
      BY <2>2 DEF Aborts
    <3>4. \A j \in Steps : j <= e.i /\ Required(j) => e.steps[j] # "Failed"
      BY <1>1, <3>1, <3>3 DEF Behind
    <3>2. e.i \in 0..Len(Procedure)
      BY <1>1, ProcedureIs
    <3>5. ~IsFatal(e.result)
      BY <1>1, <2>2 DEF Aborts, IsFatal, Verdict, Errors
    <3> HIDE DEF e
    <3> QED BY <1>1, <2>2, <3>4, <3>2, <3>5, AdvanceOK
  <2> QED BY <2>1, <2>2
<1>3. exec' = [exec EXCEPT ![d] = f] /\ Persist(d, "Running", e.steps)
      /\ UNCHANGED <<key, request, trail, listed, held, confirmed, wrote, wiped, unknown>>
  BY DEF Record, history, LoopInv, TypeOK
<1>4. row' \in [Runs -> RunRow \cup {None}]
  BY <1>1, <1>3, Persisted DEF RunStatus
<1>5. /\ exec' \in [Desks -> ExecState] /\ \A c \in Desks : LoopOK(exec'[c])
      /\ exec'[d] = f /\ \A c \in Desks : c # d => exec'[c] = exec[c]
  <2> HIDE DEF f
  <2> QED BY <1>2, <1>3, OneMoves
<1> HIDE DEF f
<1> QED BY <1>1, <1>2, <1>3, <1>4, <1>5 DEF LoopInv, TypeOK

LEMMA SettleLoop ==
  ASSUME LoopInv, NEW d \in Desks, Settle(d)
  PROVE  /\ LoopInv' /\ trail \subseteq trail'
         /\ exec'[d].id = exec[d].id /\ exec'[d].steps = exec[d].steps /\ exec'[d].purse = exec[d].purse
         /\ exec'[d].at = "final" /\ exec'[d].status \in {"Completed", "Failed", "Running"}
         /\ \A c \in Desks : c # d => exec'[c] = exec[c]
<1> DEFINE e == exec[d]
           status == IF Settled(e) = "Completed" /\ Unmet(e) # {} THEN "Failed" ELSE Settled(e)
           f == [e EXCEPT !.at = "final", !.status = status]
<1>1. e \in ExecState /\ LoopOK(e) /\ e.at = "settle" /\ e.id \in Runs
  BY DeskOK DEF Settle, At, LoopOK
<1>2. status \in {"Completed", "Failed", "Running"} /\ (status = "Completed" => AllDone(e.steps))
  BY DEF Settled, Unmet, AllDone
<1>3. exec' = [exec EXCEPT ![d] = f] /\ trail' \subseteq trail \cup {<<e.id, 0, "incomplete">>} /\ trail \subseteq trail'
      /\ UNCHANGED <<key, row, request, listed, held, confirmed, wrote, wiped, unknown>>
  BY DEF Settle, history, LoopInv, TypeOK
<1>4. f \in ExecState /\ f.at = "final" /\ f.status = status /\ f.id = e.id /\ f.steps = e.steps
      /\ f.purse = e.purse /\ f.guesses = e.guesses
  <2> HIDE DEF status
  <2> QED BY <1>1, <1>2 DEF ExecState, Stages, RunStatus
<1>5. ExecOK(f)
  <2> HIDE DEF f, status
  <2> QED BY <1>1, <1>2, <1>4 DEF ExecOK, LoopOK
<1>6. /\ exec' \in [Desks -> ExecState] /\ \A c \in Desks : LoopOK(exec'[c])
      /\ exec'[d] = f /\ \A c \in Desks : c # d => exec'[c] = exec[c]
  <2> HIDE DEF f
  <2> QED BY <1>3, <1>5, OneMoves
<1>7. trail' \subseteq Entries
  BY <1>1, <1>3, EntriesOK DEF LoopInv, EventNames
<1> HIDE DEF f, status
<1> QED BY <1>2, <1>3, <1>4, <1>6, <1>7 DEF LoopInv, TypeOK, Entries, EventNames

LEMMA FinalLoop ==
  ASSUME LoopInv, NEW d \in Desks, Final(d)
  PROVE  /\ LoopInv' /\ Persist(d, exec[d].status, exec[d].steps)
         /\ exec'[d] = [exec[d] EXCEPT !.at = "sign"]
         /\ exec[d].status \in {"Completed", "Failed", "Running"}
         /\ exec[d].status = "Completed" => AllDone(exec[d].steps)
         /\ \A c \in Desks : c # d => exec'[c] = exec[c]
<1> DEFINE e == exec[d]
           f == [e EXCEPT !.at = "sign"]
<1>1. e \in ExecState /\ LoopOK(e) /\ e.at = "final" /\ e.status \in RunStatus /\ e.steps \in [Steps -> StepStatus]
  BY DeskOK DEF Final, At, LoopOK, ExecState
<1>2. exec' = [exec EXCEPT ![d] = f] /\ Persist(d, e.status, e.steps)
      /\ UNCHANGED <<key, request, trail, listed, held, confirmed, wrote, wiped, unknown>>
  BY DEF Final, GoTo, history, LoopInv, TypeOK
<1>3. f \in ExecState /\ f.at = "sign" /\ f.status = e.status /\ f.id = e.id /\ f.steps = e.steps
      /\ f.purse = e.purse /\ f.guesses = e.guesses
  BY <1>1 DEF ExecState, Stages
<1>4. ExecOK(f)
  <2> HIDE DEF f
  <2> QED BY <1>1, <1>3 DEF ExecOK, LoopOK
<1>5. /\ exec' \in [Desks -> ExecState] /\ \A c \in Desks : LoopOK(exec'[c])
      /\ exec'[d] = f /\ \A c \in Desks : c # d => exec'[c] = exec[c]
  <2> HIDE DEF f
  <2> QED BY <1>2, <1>4, OneMoves
<1>6. row' \in [Runs -> RunRow \cup {None}]
  BY <1>1, <1>2, Persisted
<1> QED BY <1>1, <1>2, <1>5, <1>6 DEF LoopInv, TypeOK, LoopOK

(* The interface thread comes to rest: at the end of a run, at the end of  *)
(* closing one, at a failure of the recorder, at a crash.                  *)
LEMMA RestLoop ==
  ASSUME LoopInv, NEW d \in Desks,
         Sign(d) \/ AbandonWrite(d) \/ NotRecordable(d) \/ AbandonFails(d) \/ Crash(d)
  PROVE  /\ LoopInv' /\ exec'[d] = Idle /\ UNCHANGED <<key, wrote, wiped>> /\ trail \subseteq trail'
         /\ \A c \in Desks : c # d => exec'[c] = exec[c]
<1>1. exec' = [exec EXCEPT ![d] = Idle] /\ UNCHANGED <<key, request, wrote, wiped>>
  BY DEF Sign, AbandonWrite, NotRecordable, AbandonFails, Crash, history
<1>2. /\ exec' \in [Desks -> ExecState] /\ \A c \in Desks : LoopOK(exec'[c])
      /\ exec'[d] = Idle /\ \A c \in Desks : c # d => exec'[c] = exec[c]
  BY <1>1, IdleOK, OneMoves
<1>3. exec[d] \in ExecState /\ LoopOK(exec[d]) /\ exec[d].steps \in [Steps -> StepStatus] /\ exec[d].status \in RunStatus
  BY DeskOK DEF ExecState
<1>4. unknown' \subseteq SecretKinds /\ confirmed' \subseteq Desks
  BY DEF Sign, AbandonWrite, NotRecordable, AbandonFails, Crash, history, LoopInv, TypeOK, ShowSecrets
<1>5. trail' \subseteq Entries /\ trail \subseteq trail'
  <2>1. CASE Sign(d)
    BY <2>1, <1>3, EntriesOK DEF Sign, At, LoopOK, LoopInv, EventNames
  <2>2. CASE ~Sign(d)
    BY <2>2, EntriesOK DEF AbandonWrite, NotRecordable, AbandonFails, Crash, register, LoopInv
  <2> QED BY <2>1, <2>2
<1>6. row' \in [Runs -> RunRow \cup {None}]
  <2>1. CASE AbandonWrite(d)
    BY <2>1, <1>3, Persisted DEF AbandonWrite, At, RunStatus
  <2>2. CASE ~AbandonWrite(d)
    BY <2>2 DEF Sign, NotRecordable, AbandonFails, Crash, register, LoopInv, TypeOK
  <2> QED BY <2>1, <2>2
<1>7. listed' \in [Desks -> [Runs -> RunRow \cup {None}]]
  BY <1>6 DEF Sign, AbandonWrite, NotRecordable, AbandonFails, Crash, Reread, register, LoopInv, TypeOK
<1>8. held' \in [Desks -> [id : Runs, row : RunRow] \cup {None}]
  <2>1. CASE Sign(d)
    <3>1. Row(exec[d].status, exec[d].steps) \in RunRow /\ exec[d].id \in Runs
      BY <2>1, <1>3 DEF Row, RunRow, Sign, At, LoopOK
    <3> HIDE DEF Row
    <3> QED BY <2>1, <3>1 DEF Sign, LoopInv, TypeOK
  <2>2. CASE ~Sign(d)
    BY <2>2 DEF AbandonWrite, NotRecordable, AbandonFails, Crash, LoopInv, TypeOK
  <2> QED BY <2>1, <2>2
<1> QED BY <1>1, <1>2, <1>4, <1>5, <1>6, <1>7, <1>8 DEF LoopInv, TypeOK, Entries, EventNames

LEMMA MaxIs == MaxTries \in 0..MaxTries
BY DEF MaxTries

(* The key away from its desk.                                             *)
LEMMA AwayLoop ==
  ASSUME LoopInv, HolderChanges \/ ResetApplet
  PROVE  LoopInv' /\ UNCHANGED <<row, trail, listed, held, confirmed, exec, wrote>>
<1>1. UNCHANGED <<row, trail, listed, held, confirmed, exec, wrote>>
  BY DEF HolderChanges, ResetApplet, register, history
<1>2. CASE HolderChanges
  <2>1. key' \in KeyState
    <3>1. key \in KeyState
      BY DEF LoopInv, TypeOK
    <3>2. [key EXCEPT !.pin = "holder", !.tries = MaxTries] \in KeyState
      BY <3>1, MaxIs DEF KeyState
    <3>3. [key EXCEPT !.fido = "holder", !.forced = FALSE] \in KeyState
      BY <3>1 DEF KeyState
    <3> QED BY <1>2, <3>2, <3>3 DEF HolderChanges
  <2> QED BY <1>1, <1>2, <2>1 DEF HolderChanges, history, LoopInv, TypeOK
<1>3. CASE ResetApplet
  <2>1. \A applet \in {"fido2", "otp", "piv"} : Cleared(applet) \in KeyState
    <3>1. key \in KeyState
      BY DEF LoopInv, TypeOK
    <3>2. Cleared("fido2") \in KeyState
      BY <3>1 DEF Cleared, KeyState
    <3>3. Cleared("otp") \in KeyState
      BY <3>1 DEF Cleared, KeyState
    <3>4. Cleared("piv") \in KeyState
      BY <3>1, MaxIs DEF Cleared, KeyState
    <3> QED BY <3>2, <3>3, <3>4
  <2>2. key' \in KeyState /\ request' \in [Runs -> {"none", "current", "stale"}]
        /\ unknown' \subseteq SecretKinds /\ wiped' \subseteq Runs
    BY <1>3, <2>1 DEF ResetApplet, LoopInv, TypeOK
  <2> QED BY <1>1, <2>2 DEF LoopInv, TypeOK
<1> QED BY <1>1, <1>2, <1>3

LEMMA LoopInductive == LoopInv /\ [Next]_vars => LoopInv'
<1> SUFFICES ASSUME LoopInv, [Next]_vars PROVE LoopInv'
  OBVIOUS
<1>1. ASSUME NEW d \in Desks, Operator(d) PROVE LoopInv'
  <2>1. CASE Refresh(d) \/ Preflight(d) \/ StartAnother(d)
    <3>1. CASE Runs = {}
      BY <2>1, <3>1 DEF Refresh, Preflight, StartAnother, LoopInv, TypeOK, Reread, register, history
    <3> QED BY <2>1, <3>1, DeskWorkLoop
  <2>2. CASE Resume(d)
    <3>1. held[d].id \in Runs
      BY <2>2 DEF Resume, LoopInv, TypeOK
    <3> QED BY <2>2, <3>1, EnterLoop
  <2> QED BY <1>1, <2>1, <2>2, DeskWorkLoop, EnterLoop DEF Operator
<1>2. ASSUME NEW d \in Desks, Drive(d) \/ Fault(d) PROVE LoopInv'
  BY <1>2, OpenLoop, MarkLoop, AttemptLoop, JudgeLoop, RecordLoop, SettleLoop, FinalLoop, RestLoop
     DEF Drive, Fault
<1>3. CASE HolderChanges \/ ResetApplet
  BY <1>3, AwayLoop
<1>4. CASE UNCHANGED vars
  BY <1>4 DEF vars, LoopInv, TypeOK
<1> QED BY <1>1, <1>2, <1>3, <1>4 DEF Next

(* Rows, copies, executor and history have their types in every state      *)
(* (domain/bootstrap.rs, bootstrap/mod.rs).                                *)
THEOREM LoopStands == Spec => []LoopInv
<1> QED BY InitLoop, LoopInductive, PTL DEF Spec

(* No step is attempted once a required one before it has failed, for any  *)
(* procedure, budget and interruption (bootstrap/mod.rs, rules 3 and 7).   *)
THEOREM FailureStopsEver == Spec => []FailureStops
<1>1. LoopInv => FailureStops
  BY DEF LoopInv, LoopOK, Behind, FailureStops, At
<1> QED BY <1>1, LoopStands, PTL

(* A step gives the card one wrong PIN at most, whatever its budget.       *)
THEOREM OneGuessEver == Spec => []OneWrongGuess
<1>1. LoopInv => OneWrongGuess
  BY DEF LoopInv, LoopOK, OneWrongGuess
<1> QED BY <1>1, LoopStands, PTL

-----------------------------------------------------------------------------
(* What a run's row, and every copy of it, says is so.                     *)

(* A step that is Done has its entry, and its effect is on the key unless  *)
(* an applet was reset since the run began.                                *)
DoneSo(r, steps, t, w, k) ==
  \A i \in Steps : steps[i] = "Done" => <<r, i, "Done">> \in t /\ (Delivered(i, k) \/ r \in w)

RowSo(r, record, t, w, k) == record # None =>
  /\ DoneSo(r, record.steps, t, w, k)
  /\ record.status = "Completed" => AllDone(record.steps)
  /\ record.status = "Aborted" => <<r, 0, "abandoned">> \in t
CopySo(r, copy, record, t, w, k) == copy # None => record # None /\ DoneSo(r, copy.steps, t, w, k)

ExecSo(e, records, t, w, k) == e.at # "idle" =>
  /\ DoneSo(e.id, e.steps, t, w, k)
  /\ e.at # "open" => records[e.id] # None
  /\ e.at = "abandon" => <<e.id, 0, "abandoned">> \in t
  /\ e.at = "judge" /\ e.result = "applied" => Delivered(e.i, k) \/ e.id \in w

RowsSo == \A r \in Runs : RowSo(r, row[r], trail, wiped, key)
ListedSo == \A d \in Desks, r \in Runs : CopySo(r, listed[d][r], row[r], trail, wiped, key)
HeldSo == \A d \in Desks : held[d] # None =>
            CopySo(held[d].id, held[d].row, row[held[d].id], trail, wiped, key)
ExecsSo == \A d \in Desks : ExecSo(exec[d], row, trail, wiped, key)

RunInv == LoopInv /\ RowsSo /\ ListedSo /\ HeldSo /\ ExecsSo

LEMMA InitRun == Init => RunInv
<1> SUFFICES ASSUME Init PROVE RunInv
  OBVIOUS
<1>1. LoopInv
  BY InitLoop
<1>2. RowsSo /\ ListedSo /\ HeldSo
  BY DEF Init, RowsSo, ListedSo, HeldSo, RowSo, CopySo
<1>3. ExecsSo
  BY IdleOK DEF Init, ExecsSo, ExecSo
<1> QED BY <1>1, <1>2, <1>3 DEF RunInv

(* What is delivered stays delivered through whatever is done to the key   *)
(* short of a reset.                                                       *)
LEMMA KeptDelivered ==
  ASSUME NEW old, NEW k, Keeps(old, k) PROVE \A i \in Steps : Delivered(i, old) => Delivered(i, k)
BY ProcedureIs DEF Keeps, Delivered

LEMMA HolderDelivers ==
  ASSUME LoopInv, HolderChanges PROVE \A i \in Steps : Delivered(i, key) => Delivered(i, key')
<1> SUFFICES ASSUME NEW i \in Steps, Delivered(i, key) PROVE Delivered(i, key')
  OBVIOUS
<1>1. key \in KeyState /\ Kind(i) \in Kinds
  BY ProcedureIs DEF LoopInv, TypeOK
<1>2. CASE key.pin = "set" /\ key' = [key EXCEPT !.pin = "holder", !.tries = MaxTries]
  BY <1>1, <1>2 DEF Delivered, IsOn, KeyState
<1>3. CASE key.fido = "set" /\ key' = [key EXCEPT !.fido = "holder", !.forced = FALSE]
  BY <1>1, <1>3 DEF Delivered, IsOn, KeyState
<1> QED BY <1>2, <1>3 DEF HolderChanges

(* How far a step can change what is said: entries are added, resets are   *)
(* added, and the key loses nothing.                                       *)
Onward == /\ trail \subseteq trail' /\ wiped \subseteq wiped'
          /\ \A i \in Steps : Delivered(i, key) => Delivered(i, key')

LEMMA DoneStays ==
  ASSUME Onward
  PROVE  \A r, steps : DoneSo(r, steps, trail, wiped, key) => DoneSo(r, steps, trail', wiped', key')
BY DEF Onward, DoneSo

Written(id) ==
  /\ row'[id] \in RunRow
  /\ row'[id].status = "Completed" => AllDone(row'[id].steps)
  /\ row'[id].status = "Aborted" => <<id, 0, "abandoned">> \in trail'
  /\ DoneSo(id, row'[id].steps, trail', wiped', key')
  /\ \A r \in Runs : r # id => row'[r] = row[r]

(* A step that leaves the rows, or writes one that is so, leaves what is   *)
(* said in order.                                                          *)
LEMMA Told ==
  ASSUME RunInv, Onward, NEW d \in Desks,
         UNCHANGED row \/ \E id \in Runs : Written(id),
         \A c \in Desks : listed'[c] = listed[c] \/ listed'[c] = row \/ listed'[c] = row',
         \A c \in Desks : c # d => exec'[c] = exec[c],
         \A c \in Desks : c # d => held'[c] = held[c],
         \/ held'[d] = held[d] \/ held'[d] = None
         \/ CopySo(held'[d].id, held'[d].row, row'[held'[d].id], trail', wiped', key'),
         exec'[d] = exec[d] \/ ExecSo(exec'[d], row', trail', wiped', key')
  PROVE  RowsSo' /\ ListedSo' /\ HeldSo' /\ ExecsSo'
<1>1. \A r \in Runs : row[r] # None => row'[r] # None
  BY ExecutorAssumption DEF Written
<1>2. \A r \in Runs : RowSo(r, row'[r], trail', wiped', key')
  <2> SUFFICES ASSUME NEW r \in Runs PROVE RowSo(r, row'[r], trail', wiped', key')
    OBVIOUS
  <2>1. CASE row'[r] = row[r]
    BY <2>1, DoneStays DEF RunInv, RowsSo, RowSo, Onward
  <2>2. CASE row'[r] # row[r]
    BY <2>2 DEF Written, RowSo
  <2> QED BY <2>1, <2>2
<1>3. \A r \in Runs : row'[r] # None => DoneSo(r, row'[r].steps, trail', wiped', key')
  BY <1>2 DEF RowSo
<1>4. \A c \in Desks, r \in Runs : CopySo(r, listed'[c][r], row'[r], trail', wiped', key')
  <2> SUFFICES ASSUME NEW c \in Desks, NEW r \in Runs
               PROVE  CopySo(r, listed'[c][r], row'[r], trail', wiped', key')
    OBVIOUS
  <2>1. CASE listed'[c] = listed[c]
    BY <1>1, <2>1, DoneStays DEF RunInv, ListedSo, CopySo
  <2>2. CASE listed'[c] = row
    BY <1>1, <2>2, DoneStays DEF RunInv, RowsSo, RowSo, CopySo
  <2>3. CASE listed'[c] = row'
    BY <1>3, <2>3 DEF CopySo
  <2> QED BY <2>1, <2>2, <2>3
<1>5. \A c \in Desks : held'[c] # None =>
        CopySo(held'[c].id, held'[c].row, row'[held'[c].id], trail', wiped', key')
  <2> SUFFICES ASSUME NEW c \in Desks, held'[c] # None
               PROVE  CopySo(held'[c].id, held'[c].row, row'[held'[c].id], trail', wiped', key')
    OBVIOUS
  <2>1. CASE held'[c] = held[c]
    <3>1. held[c].id \in Runs
      BY <2>1 DEF RunInv, LoopInv, TypeOK
    <3> QED BY <1>1, <2>1, <3>1, DoneStays DEF RunInv, HeldSo, CopySo
  <2>2. CASE held'[c] # held[c]
    BY <2>2
  <2> QED BY <2>1, <2>2
<1>6. \A c \in Desks : ExecSo(exec'[c], row', trail', wiped', key')
  <2> SUFFICES ASSUME NEW c \in Desks, exec'[c] = exec[c] PROVE ExecSo(exec'[c], row', trail', wiped', key')
    OBVIOUS
  <2>1. ExecSo(exec[c], row, trail, wiped, key) /\ LoopOK(exec[c]) /\ exec'[c] = exec[c]
    BY DEF RunInv, ExecsSo, LoopInv
  <2>2. \A i \in Steps : Delivered(i, key) => Delivered(i, key')
    BY DEF Onward
  <2>3. trail \subseteq trail' /\ wiped \subseteq wiped'
    BY DEF Onward
  <2> QED BY <1>1, <2>1, <2>2, <2>3, DoneStays DEF ExecSo, LoopOK
<1> QED BY <1>2, <1>4, <1>5, <1>6 DEF RowsSo, ListedSo, HeldSo, ExecsSo

(* A write to the table is so if the steps it writes are.                  *)
LEMMA WriteSo ==
  ASSUME LoopInv, NEW d \in Desks, exec[d].at # "idle",
         NEW status \in RunStatus, NEW steps \in [Steps -> StepStatus], Persist(d, status, steps),
         status = "Completed" => AllDone(steps),
         status = "Aborted" => <<exec[d].id, 0, "abandoned">> \in trail',
         DoneSo(exec[d].id, steps, trail', wiped', key')
  PROVE  /\ exec[d].id \in Runs /\ row'[exec[d].id] # None
         /\ \E id \in Runs : Written(id)
<1>1. /\ exec[d].id \in Runs /\ row'[exec[d].id] = Row(status, steps) /\ Row(status, steps) \in RunRow
      /\ Row(status, steps).status = status /\ Row(status, steps).steps = steps
      /\ \A r \in Runs : r # exec[d].id => row'[r] = row[r]
  BY Persisted
<1>2. row'[exec[d].id] # None
  BY <1>1, ExecutorAssumption
<1>3. Written(exec[d].id)
  BY <1>1 DEF Written
<1> QED BY <1>1, <1>2, <1>3

LEMMA OnwardWhen ==
  ASSUME UNCHANGED <<key, wiped>>, trail \subseteq trail' PROVE Onward
BY DEF Onward

LEMMA DeskWorkTold ==
  ASSUME RunInv, NEW d \in Desks, NEW r \in Runs,
         Refresh(d) \/ Preflight(d) \/ StartAnother(d) \/ PickUp(d, r) \/ DryRun(d, r)
  PROVE  RowsSo' /\ ListedSo' /\ HeldSo' /\ ExecsSo'
<1>1. UNCHANGED <<key, exec, wiped>> /\ trail \subseteq trail'
  BY DEF Refresh, Preflight, StartAnother, PickUp, DryRun, register, history
<1>2. Onward
  BY <1>1, OnwardWhen
<1>3. UNCHANGED row \/ \E id \in Runs : Written(id)
  <2>1. CASE DryRun(d, r)
    <3>1. Row("Planned", [i \in Steps |-> "Skipped"]) \in RunRow
      BY DEF Row, RunRow, RunStatus, StepStatus
    <3>2. row'[r] = Row("Planned", [i \in Steps |-> "Skipped"]) /\ \A q \in Runs : q # r => row'[q] = row[q]
      BY <2>1 DEF DryRun, RunInv, LoopInv, TypeOK
    <3> QED BY <3>1, <3>2 DEF Written, DoneSo, Row
  <2>2. CASE ~DryRun(d, r)
    BY <2>2 DEF Refresh, Preflight, StartAnother, PickUp, register
  <2> QED BY <2>1, <2>2
<1>4. \A c \in Desks : listed'[c] = listed[c] \/ listed'[c] = row \/ listed'[c] = row'
  BY DEF Refresh, Preflight, StartAnother, PickUp, DryRun, Reread, RunInv, LoopInv, TypeOK
<1>5. /\ \A c \in Desks : c # d => held'[c] = held[c]
      /\ \/ held'[d] = held[d] \/ held'[d] = None
         \/ CopySo(held'[d].id, held'[d].row, row'[held'[d].id], trail', wiped', key')
  <2>1. CASE PickUp(d, r)
    <3>1. held'[d] = [id |-> r, row |-> listed[d][r]] /\ UNCHANGED <<row, trail>>
          /\ \A c \in Desks : c # d => held'[c] = held[c]
      BY <2>1 DEF PickUp, register, RunInv, LoopInv, TypeOK
    <3>2. CopySo(r, listed[d][r], row[r], trail, wiped, key)
      BY DEF RunInv, ListedSo
    <3> QED BY <1>1, <3>1, <3>2
  <2>2. CASE ~PickUp(d, r)
    BY <2>2 DEF Refresh, Preflight, StartAnother, DryRun, RunInv, LoopInv, TypeOK
  <2> QED BY <2>1, <2>2
<1> QED BY <1>1, <1>2, <1>3, <1>4, <1>5, Told

LEMMA EnterTold ==
  ASSUME RunInv, NEW d \in Desks, NEW r \in Runs, Start(d, r) \/ Resume(d) \/ Abandon(d, r)
  PROVE  RowsSo' /\ ListedSo' /\ HeldSo' /\ ExecsSo'
<1>1. UNCHANGED <<key, row, listed, held, wiped>> /\ trail \subseteq trail'
  BY DEF Start, Resume, Abandon, history
<1>2. Onward
  BY <1>1, OnwardWhen
<1>3. \A c \in Desks : c # d => exec'[c] = exec[c]
  BY EnterLoop DEF RunInv
<1>4. ExecSo(exec'[d], row', trail', wiped', key')
  <2>1. CASE Start(d, r)
    <3>1. exec'[d].at = "open" /\ exec'[d].steps = Pending
      BY <2>1, IdleOK DEF Start, RunInv, LoopInv, TypeOK, Idle
    <3> QED BY <3>1 DEF ExecSo, DoneSo, Pending
  <2>2. CASE Resume(d)
    <3>1. exec'[d].at = "open" /\ exec'[d].steps = held[d].row.steps /\ exec'[d].id = held[d].id
      BY <2>2 DEF Resume, RunInv, LoopInv, TypeOK, Idle
    <3>2. CopySo(held[d].id, held[d].row, row[held[d].id], trail, wiped, key) /\ held[d].row # None
      BY <2>2, ExecutorAssumption DEF RunInv, HeldSo, Resume, LoopInv, TypeOK
    <3> QED BY <1>2, <3>1, <3>2, DoneStays DEF ExecSo, CopySo
  <2>3. CASE Abandon(d, r)
    <3>1. /\ exec'[d].at = "abandon" /\ exec'[d].steps = listed[d][r].steps /\ exec'[d].id = r
          /\ <<r, 0, "abandoned">> \in trail' /\ listed[d][r] # None
      BY <2>3 DEF Abandon, RunInv, LoopInv, TypeOK, Idle, Resumable
    <3>2. CopySo(r, listed[d][r], row[r], trail, wiped, key)
      BY DEF RunInv, ListedSo
    <3> QED BY <1>1, <1>2, <3>1, <3>2, DoneStays DEF ExecSo, CopySo
  <2> QED BY <2>1, <2>2, <2>3
<1> QED BY <1>1, <1>2, <1>3, <1>4, Told

(* What an executor that is under way knows of its steps.                  *)
LEMMA DrivenSo ==
  ASSUME RunInv, NEW d \in Desks, exec[d].at # "idle"
  PROVE  /\ exec[d] \in ExecState /\ LoopOK(exec[d]) /\ exec[d].steps \in [Steps -> StepStatus]
         /\ exec[d].id \in Runs /\ exec[d].status \in RunStatus
         /\ ExecSo(exec[d], row, trail, wiped, key)
         /\ DoneSo(exec[d].id, exec[d].steps, trail, wiped, key)
         /\ exec[d].at # "open" => row[exec[d].id] # None
         /\ Onward => DoneSo(exec[d].id, exec[d].steps, trail', wiped', key')
BY DeskOK, DoneStays DEF RunInv, ExecsSo, ExecSo, ExecState, LoopOK

LEMMA WritingTold ==
  ASSUME RunInv, NEW d \in Desks, Open(d) \/ Mark(d) \/ Record(d) \/ Final(d)
  PROVE  RowsSo' /\ ListedSo' /\ HeldSo' /\ ExecsSo'
<1>1. UNCHANGED <<key, trail, listed, held, wiped>> /\ exec[d].at # "idle"
  BY DEF Open, Mark, Record, Final, history, At
<1>2. Onward
  BY <1>1, OnwardWhen
<1>3. DoneSo(exec[d].id, exec[d].steps, trail', wiped', key')
  BY <1>1, <1>2, DrivenSo
<1>4. /\ \E id \in Runs : Written(id)
      /\ \A c \in Desks : c # d => exec'[c] = exec[c]
      /\ ExecSo(exec'[d], row', trail', wiped', key')
  <2>1. CASE Open(d)
    <3>1. /\ exec'[d].id = exec[d].id /\ exec'[d].steps = exec[d].steps /\ exec'[d].at \in {"mark", "settle"}
          /\ \A c \in Desks : c # d => exec'[c] = exec[c]
      BY <2>1, OpenLoop DEF RunInv
    <3>2. row'[exec[d].id] # None /\ \E id \in Runs : Written(id)
      BY <1>1, <1>3, <2>1, DrivenSo, WriteSo DEF Open, RunInv, RunStatus
    <3> QED BY <1>3, <3>1, <3>2 DEF ExecSo
  <2>2. CASE Mark(d)
    <3>1. /\ exec[d].i \in Steps /\ Persist(d, "Running", exec'[d].steps)
          /\ exec'[d] = [exec[d] EXCEPT !.at = "attempt", !.steps = [exec[d].steps EXCEPT ![exec[d].i] = "Running"]]
          /\ \A c \in Desks : c # d => exec'[c] = exec[c]
      BY <2>2, MarkLoop DEF RunInv
    <3>2. /\ exec'[d].id = exec[d].id /\ exec'[d].at = "attempt" /\ exec'[d].steps \in [Steps -> StepStatus]
          /\ exec'[d].steps = [exec[d].steps EXCEPT ![exec[d].i] = "Running"]
      BY <1>1, <3>1, DrivenSo DEF ExecState, StepStatus
    <3>3. DoneSo(exec[d].id, exec'[d].steps, trail', wiped', key')
      BY <1>1, <1>3, <3>1, <3>2, DrivenSo DEF DoneSo
    <3>4. row'[exec[d].id] # None /\ \E id \in Runs : Written(id)
      BY <1>1, <3>1, <3>2, <3>3, WriteSo DEF RunInv, RunStatus
    <3> QED BY <3>1, <3>2, <3>3, <3>4 DEF ExecSo
  <2>3. CASE Record(d)
    <3>1. /\ exec'[d].id = exec[d].id /\ exec'[d].steps = exec[d].steps
          /\ exec'[d].at \in {"mark", "settle", "final"}
          /\ \A c \in Desks : c # d => exec'[c] = exec[c]
      BY <2>3, RecordLoop DEF RunInv
    <3>2. row'[exec[d].id] # None /\ \E id \in Runs : Written(id)
      BY <1>1, <1>3, <2>3, DrivenSo, WriteSo DEF Record, RunInv, RunStatus
    <3> QED BY <1>3, <3>1, <3>2 DEF ExecSo
  <2>4. CASE Final(d)
    <3>1. /\ Persist(d, exec[d].status, exec[d].steps)
          /\ exec'[d] = [exec[d] EXCEPT !.at = "sign"]
          /\ exec[d].status \in {"Completed", "Failed", "Running"}
          /\ exec[d].status = "Completed" => AllDone(exec[d].steps)
          /\ \A c \in Desks : c # d => exec'[c] = exec[c]
      BY <2>4, FinalLoop DEF RunInv
    <3>2. exec'[d].id = exec[d].id /\ exec'[d].at = "sign" /\ exec'[d].steps = exec[d].steps
      BY <1>1, <3>1, DrivenSo DEF ExecState
    <3>3. row'[exec[d].id] # None /\ \E id \in Runs : Written(id)
      BY <1>1, <1>3, <3>1, DrivenSo, WriteSo DEF RunInv
    <3> QED BY <1>3, <3>1, <3>2, <3>3 DEF ExecSo
  <2> QED BY <2>1, <2>2, <2>3, <2>4
<1> QED BY <1>1, <1>2, <1>4, Told

LEMMA AttemptTold ==
  ASSUME RunInv, NEW d \in Desks, Attempt(d)
  PROVE  RowsSo' /\ ListedSo' /\ HeldSo' /\ ExecsSo'
<1>1. UNCHANGED <<row, listed, held, wiped>> /\ exec[d].at = "attempt"
  BY DEF Attempt, At
<1>2. /\ Keeps(key, key') /\ exec[d].i \in Steps /\ trail \subseteq trail'
      /\ exec'[d].id = exec[d].id /\ exec'[d].steps = exec[d].steps /\ exec'[d].i = exec[d].i
      /\ exec'[d].at \in {"attempt", "judge"}
      /\ exec'[d].result = "applied" => IsOn(Kind(exec[d].i), key')
      /\ \A c \in Desks : c # d => exec'[c] = exec[c]
  BY AttemptLoop DEF RunInv
<1>3. Onward
  BY <1>1, <1>2, KeptDelivered DEF Onward
<1>4. DoneSo(exec[d].id, exec[d].steps, trail', wiped', key') /\ row[exec[d].id] # None
  BY <1>1, <1>3, DrivenSo
<1>5. ExecSo(exec'[d], row', trail', wiped', key')
  BY <1>1, <1>2, <1>4 DEF ExecSo, Delivered
<1> QED BY <1>1, <1>2, <1>3, <1>5, Told

LEMMA JudgeTold ==
  ASSUME RunInv, NEW d \in Desks, Judge(d)
  PROVE  RowsSo' /\ ListedSo' /\ HeldSo' /\ ExecsSo'
<1> DEFINE verdict == Verdict(exec[d].result)
<1>1. UNCHANGED <<key, row, listed, held, wiped>> /\ exec[d].at = "judge"
      /\ trail' = trail \cup {<<exec[d].id, exec[d].i, verdict>>}
  BY DEF Judge, At, history
<1>2. /\ exec[d].i \in Steps /\ (verdict = "Done" <=> exec[d].result = "applied")
      /\ exec'[d] = [exec[d] EXCEPT !.at = "record", !.steps = [exec[d].steps EXCEPT ![exec[d].i] = verdict]]
      /\ \A c \in Desks : c # d => exec'[c] = exec[c]
  BY JudgeLoop DEF RunInv
<1> HIDE DEF verdict
<1>3. exec'[d].id = exec[d].id /\ exec'[d].at = "record"
      /\ exec'[d].steps = [exec[d].steps EXCEPT ![exec[d].i] = verdict]
  BY <1>1, <1>2, DrivenSo DEF ExecState
<1>4. Onward
  BY <1>1, OnwardWhen
<1>5. DoneSo(exec[d].id, exec[d].steps, trail', wiped', key') /\ row[exec[d].id] # None
      /\ (exec[d].result = "applied" => Delivered(exec[d].i, key) \/ exec[d].id \in wiped)
  BY <1>1, <1>4, DrivenSo DEF ExecSo
<1>6. DoneSo(exec[d].id, exec'[d].steps, trail', wiped', key')
  BY <1>1, <1>2, <1>3, <1>5, DrivenSo DEF DoneSo
<1>7. ExecSo(exec'[d], row', trail', wiped', key')
  BY <1>1, <1>3, <1>5, <1>6 DEF ExecSo
<1> QED BY <1>1, <1>2, <1>4, <1>7, Told

LEMMA SettleTold ==
  ASSUME RunInv, NEW d \in Desks, Settle(d)
  PROVE  RowsSo' /\ ListedSo' /\ HeldSo' /\ ExecsSo'
<1>1. UNCHANGED <<key, row, listed, held, wiped>> /\ exec[d].at = "settle"
  BY DEF Settle, At, history
<1>2. /\ trail \subseteq trail' /\ exec'[d].id = exec[d].id /\ exec'[d].steps = exec[d].steps
      /\ exec'[d].at = "final" /\ \A c \in Desks : c # d => exec'[c] = exec[c]
  BY SettleLoop DEF RunInv
<1>3. Onward
  BY <1>1, <1>2, OnwardWhen
<1>4. ExecSo(exec'[d], row', trail', wiped', key')
  BY <1>1, <1>2, <1>3, DrivenSo DEF ExecSo
<1> QED BY <1>1, <1>2, <1>3, <1>4, Told

LEMMA RestTold ==
  ASSUME RunInv, NEW d \in Desks,
         Sign(d) \/ AbandonWrite(d) \/ NotRecordable(d) \/ AbandonFails(d) \/ Crash(d)
  PROVE  RowsSo' /\ ListedSo' /\ HeldSo' /\ ExecsSo'
<1>1. /\ exec'[d] = Idle /\ UNCHANGED <<key, wiped>> /\ trail \subseteq trail'
      /\ \A c \in Desks : c # d => exec'[c] = exec[c]
  BY RestLoop DEF RunInv
<1>2. Onward /\ ExecSo(exec'[d], row', trail', wiped', key')
  BY <1>1, OnwardWhen, IdleOK DEF ExecSo
<1>3. UNCHANGED row \/ \E id \in Runs : Written(id)
  <2>1. CASE AbandonWrite(d)
    <3>1. exec[d].at = "abandon" /\ Persist(d, "Aborted", exec[d].steps)
      BY <2>1 DEF AbandonWrite, At
    <3>2. <<exec[d].id, 0, "abandoned">> \in trail'
      BY <1>1, <3>1, DrivenSo DEF ExecSo
    <3> QED BY <1>2, <3>1, <3>2, DrivenSo, WriteSo DEF RunInv, RunStatus
  <2>2. CASE ~AbandonWrite(d)
    BY <2>2 DEF Sign, NotRecordable, AbandonFails, Crash, register
  <2> QED BY <2>1, <2>2
<1>4. \A c \in Desks : listed'[c] = listed[c] \/ listed'[c] = row \/ listed'[c] = row'
  BY DEF Sign, AbandonWrite, NotRecordable, AbandonFails, Crash, Reread, register, RunInv, LoopInv, TypeOK
<1>5. /\ \A c \in Desks : c # d => held'[c] = held[c]
      /\ \/ held'[d] = held[d] \/ held'[d] = None
         \/ CopySo(held'[d].id, held'[d].row, row'[held'[d].id], trail', wiped', key')
  <2>1. CASE Sign(d)
    <3>1. held'[d] = [id |-> exec[d].id, row |-> Row(exec[d].status, exec[d].steps)] /\ UNCHANGED row
          /\ exec[d].at = "sign" /\ \A c \in Desks : c # d => held'[c] = held[c]
      BY <2>1 DEF Sign, At, RunInv, LoopInv, TypeOK
    <3>2. held'[d].id = exec[d].id /\ held'[d].row.steps = exec[d].steps
      BY <3>1 DEF Row
    <3> QED BY <1>2, <3>1, <3>2, DrivenSo DEF CopySo
  <2>2. CASE ~Sign(d)
    BY <2>2 DEF AbandonWrite, NotRecordable, AbandonFails, Crash, RunInv, LoopInv, TypeOK
  <2> QED BY <2>1, <2>2
<1> QED BY <1>1, <1>2, <1>3, <1>4, <1>5, Told

(* A reset clears what runs put on the key, and knows them: they all have  *)
(* a row, for nobody is driving one.                                       *)
LEMMA ResetTold ==
  ASSUME RunInv, ResetApplet
  PROVE  RowsSo' /\ ListedSo' /\ HeldSo' /\ ExecsSo'
<1>1. /\ UNCHANGED <<row, trail, listed, held, exec>> /\ PortFree
      /\ wiped \subseteq wiped' /\ \A r \in Runs : row[r] # None => r \in wiped'
  BY DEF ResetApplet, register
<1>2. \A r \in Runs : row[r] # None =>
        \A steps : DoneSo(r, steps, trail, wiped, key) => DoneSo(r, steps, trail', wiped', key')
  BY <1>1 DEF DoneSo
<1>3. RowsSo'
  BY <1>1, <1>2 DEF RunInv, RowsSo, RowSo
<1>4. ListedSo'
  BY <1>1, <1>2 DEF RunInv, ListedSo, CopySo
<1>5. HeldSo'
  BY <1>1, <1>2 DEF RunInv, HeldSo, CopySo, LoopInv, TypeOK
<1>6. ExecsSo'
  <2> SUFFICES ASSUME NEW d \in Desks, exec[d].at # "idle" PROVE ExecSo(exec[d], row, trail', wiped', key')
    BY <1>1 DEF ExecsSo, ExecSo
  <2>1. exec[d].at = "abandon"
    BY <1>1 DEF PortFree, Drives
  <2> QED BY <1>1, <1>2, <2>1, DrivenSo DEF ExecSo
<1> QED BY <1>3, <1>4, <1>5, <1>6

LEMMA RunInductive == RunInv /\ [Next]_vars => RunInv'
<1> SUFFICES ASSUME RunInv, [Next]_vars PROVE RunInv'
  OBVIOUS
<1>1. LoopInv'
  BY LoopInductive DEF RunInv
<1> DEFINE Goal == (RowsSo /\ ListedSo /\ HeldSo /\ ExecsSo)'
<1>2. ASSUME NEW d \in Desks, Operator(d) PROVE Goal
  <2>1. CASE Runs = {}
    <3>1. held[d] = None
      BY <2>1 DEF RunInv, LoopInv, TypeOK
    <3>2. RowsSo' /\ ListedSo'
      BY <2>1 DEF RowsSo, ListedSo
    <3>3. \A c \in Desks : held'[c] = None
      BY <1>1, <2>1 DEF LoopInv, TypeOK
    <3>4. \A c \in Desks : exec'[c].at = "idle"
      BY <1>1, <2>1 DEF LoopInv, LoopOK
    <3> QED BY <3>2, <3>3, <3>4 DEF HeldSo, ExecsSo, ExecSo
  <2>2. CASE Runs # {}
    BY <1>2, <2>2, DeskWorkTold, EnterTold DEF Operator
  <2> QED BY <2>1, <2>2
<1>3. ASSUME NEW d \in Desks, Drive(d) \/ Fault(d) PROVE Goal
  BY <1>3, WritingTold, AttemptTold, JudgeTold, SettleTold, RestTold DEF Drive, Fault
<1>4. ASSUME HolderChanges PROVE Goal
  <2>1. UNCHANGED <<row, trail, listed, held, exec, wiped>>
    BY <1>4 DEF HolderChanges, register, history
  <2>2. Onward
    BY <1>4, <2>1, HolderDelivers DEF Onward, RunInv
  <2>3. CASE Desks = {}
    <3>1. RowsSo'
      BY <2>1, <2>2, DoneStays DEF RunInv, RowsSo, RowSo, Onward
    <3> QED BY <2>3, <3>1 DEF ListedSo, HeldSo, ExecsSo
  <2>4. ASSUME NEW d \in Desks PROVE Goal
    <3>1. ExecSo(exec'[d], row', trail', wiped', key')
      BY <2>1, <2>2, DoneStays DEF Onward, ExecSo, RunInv, ExecsSo, LoopInv, LoopOK
    <3> QED BY <2>1, <2>2, <3>1, Told
  <2> QED BY <2>3, <2>4
<1>5. ASSUME ResetApplet PROVE Goal
  BY <1>5, ResetTold
<1>6. ASSUME UNCHANGED vars PROVE Goal
  BY <1>6 DEF vars, RunInv, RowsSo, ListedSo, HeldSo, ExecsSo
<1> QED BY <1>1, <1>2, <1>3, <1>4, <1>5, <1>6 DEF Next, RunInv

(* The rows, every desk's copies of them and what each executor is about   *)
(* to write are so, whatever fails and whoever else is at work.            *)
THEOREM RunsStand == Spec => []RunInv
BY InitRun, RunInductive, PTL DEF Spec

(* The record follows the trail: no step is Done, and no run closed by     *)
(* hand, without its entry, for any number of desks and failing recorders  *)
(* (bootstrap/mod.rs, app.rs abandon_run).                                 *)
THEOREM RecordIsAuditedEver == Spec => []RecordIsAudited
<1>1. RunInv => RecordIsAudited
  BY DEF RunInv, RowsSo, RowSo, DoneSo, RecordIsAudited
<1> QED BY <1>1, RunsStand, PTL

(* A Completed run's required steps are Done, and what they did is on the  *)
(* key unless an applet was reset since: through stale copies, resumes,    *)
(* crashes and lost replies (domain/bootstrap.rs, bootstrap/mod.rs).       *)
THEOREM CompletedIsAppliedEver == Spec => []CompletedIsApplied
<1>1. RunInv => CompletedIsApplied
  BY DEF RunInv, RowsSo, RowSo, DoneSo, AllDone, CompletedIsApplied
<1> QED BY <1>1, RunsStand, PTL

-----------------------------------------------------------------------------
(* Which steps touch the key at all.                                       *)
LEMMA KeyMoves ==
  ASSUME NEW d \in Desks, Operator(d) \/ (Drive(d) /\ ~Attempt(d)) \/ Fault(d)
  PROVE  UNCHANGED key
BY DEF Operator, Refresh, Preflight, StartAnother, Resume, Start, PickUp, DryRun, Abandon,
       Drive, Open, Mark, Judge, Record, Settle, Final, Sign, AbandonWrite,
       Fault, NotRecordable, AbandonFails, Crash

LEMMA ClearedIs ==
  ASSUME key \in KeyState
  PROVE  /\ Cleared("fido2").pin = key.pin
         /\ Cleared("otp").pin = key.pin /\ Cleared("otp").fido = key.fido
         /\ Cleared("piv").fido = key.fido
BY DEF Cleared, KeyState

(* Whatever the desks do, the PIN a holder chose is replaced only with the *)
(* applet it is in (bootstrap/mod.rs, rule 4).                             *)
THEOREM HolderPinStandsEver == Spec => HolderPinStands
<1> DEFINE Stands == /\ key.pin = "holder" => key'.pin = "holder" \/ key' = Cleared("piv")
                     /\ key.fido = "holder" => key'.fido = "holder" \/ key' = Cleared("fido2")
<1>1. LoopInv /\ [Next]_vars => [Stands]_vars
  <2> SUFFICES ASSUME LoopInv, Next PROVE Stands
    BY DEF vars
  <2>1. key \in KeyState
    BY DEF LoopInv, TypeOK
  <2>2. CASE UNCHANGED key
    BY <2>2
  <2>3. ASSUME NEW d \in Desks, Attempt(d) PROVE Stands
    BY <2>3, AttemptLoop DEF Keeps
  <2>4. CASE HolderChanges
    BY <2>1, <2>4 DEF HolderChanges, KeyState
  <2>5. CASE ResetApplet
    <3>1. PICK applet \in {"fido2", "otp", "piv"} : key' = Cleared(applet)
      BY <2>5 DEF ResetApplet
    <3> QED BY <2>1, <3>1, ClearedIs
  <2> HIDE DEF Stands
  <2>6. ASSUME NEW d \in Desks, Operator(d) \/ Drive(d) \/ Fault(d) PROVE Stands
    BY <2>2, <2>3, <2>6, KeyMoves
  <2> QED BY <2>4, <2>5, <2>6 DEF Next
<1> QED BY <1>1, LoopStands, PTL DEF Spec, HolderPinStands

-----------------------------------------------------------------------------
(* A desk takes nothing unseen with it: what it made and put on the key is *)
(* shown or still in its purse.                                            *)
LEMMA Handed ==
  ASSUME SecretsAreShown, NEW d \in Desks, \A c \in Desks : c # d => exec'[c] = exec[c],
         unknown' \subseteq (unknown \ exec[d].purse.made) \cup exec'[d].purse.made
  PROVE  SecretsAreShown'
<1> SUFFICES ASSUME NEW s \in unknown' PROVE \E c \in Desks : s \in exec'[c].purse.made
  BY DEF SecretsAreShown
<1>1. CASE s \in exec'[d].purse.made
  BY <1>1
<1>2. CASE s \in unknown /\ s \notin exec[d].purse.made
  BY <1>2 DEF SecretsAreShown
<1> QED BY <1>1, <1>2

LEMMA ShownInductive ==
  ASSUME "crash" \notin Faults, LoopInv, SecretsAreShown, [Next]_vars
  PROVE  SecretsAreShown'
<1>1. CASE UNCHANGED <<exec, unknown>>
  BY <1>1 DEF SecretsAreShown
<1>2. ASSUME NEW d \in Desks, NEW r \in Runs, Start(d, r) \/ Resume(d) \/ Abandon(d, r)
      PROVE  SecretsAreShown'
  <2>1. exec[d].purse.made = {} /\ \A c \in Desks : c # d => exec'[c] = exec[c]
    BY <1>2, EnterLoop, IdleOK
  <2>2. UNCHANGED unknown
    BY <1>2 DEF Start, Resume, Abandon, history
  <2> QED BY <2>1, <2>2, Handed
<1>3. ASSUME NEW d \in Desks, Open(d) \/ Mark(d) \/ Judge(d) \/ Record(d) \/ Settle(d) \/ Final(d)
      PROVE  SecretsAreShown'
  <2>1. exec'[d].purse = exec[d].purse /\ \A c \in Desks : c # d => exec'[c] = exec[c]
    <3>1. exec[d] \in ExecState
      BY DeskOK
    <3>2. CASE Mark(d)
      <4>1. /\ exec'[d] = [exec[d] EXCEPT !.at = "attempt",
                                        !.steps = [exec[d].steps EXCEPT ![exec[d].i] = "Running"]]
            /\ \A c \in Desks : c # d => exec'[c] = exec[c]
        BY <3>2, MarkLoop
      <4>2. exec'[d].purse = exec[d].purse
        BY <3>1, <4>1 DEF ExecState
      <4> QED BY <4>1, <4>2
    <3>3. CASE Judge(d)
      <4>1. /\ exec'[d] = [exec[d] EXCEPT !.at = "record",
                                        !.steps = [exec[d].steps EXCEPT ![exec[d].i] = Verdict(exec[d].result)]]
            /\ \A c \in Desks : c # d => exec'[c] = exec[c]
        BY <3>3, JudgeLoop
      <4>2. exec'[d].purse = exec[d].purse
        BY <3>1, <4>1 DEF ExecState
      <4> QED BY <4>1, <4>2
    <3>4. CASE Final(d)
      <4>1. /\ exec'[d] = [exec[d] EXCEPT !.at = "sign"]
            /\ \A c \in Desks : c # d => exec'[c] = exec[c]
        BY <3>4, FinalLoop
      <4>2. exec'[d].purse = exec[d].purse
        BY <3>1, <4>1 DEF ExecState
      <4> QED BY <4>1, <4>2
    <3> QED BY <1>3, <3>2, <3>3, <3>4, OpenLoop, RecordLoop, SettleLoop
  <2>2. UNCHANGED unknown
    BY <1>3 DEF Open, Mark, Judge, Record, Settle, Final, history
  <2> QED BY <2>1, <2>2, Handed
<1>4. ASSUME NEW d \in Desks, Attempt(d) PROVE SecretsAreShown'
  BY <1>4, AttemptLoop, Handed
<1>5. ASSUME NEW d \in Desks, Sign(d) \/ NotRecordable(d) PROVE SecretsAreShown'
  BY <1>5, RestLoop, Handed DEF Sign, NotRecordable, ShowSecrets
<1>6. ASSUME NEW d \in Desks, AbandonWrite(d) \/ AbandonFails(d) PROVE SecretsAreShown'
  <2>1. exec[d].purse.made = {} /\ UNCHANGED unknown
    BY <1>6, DeskOK DEF AbandonWrite, AbandonFails, At, LoopOK, history
  <2> QED BY <1>6, <2>1, RestLoop, Handed
<1>7. CASE HolderChanges \/ ResetApplet
  BY <1>7 DEF HolderChanges, ResetApplet, history, SecretsAreShown
<1>8. ASSUME NEW d \in Desks, Resume(d) PROVE Runs # {}
  BY <1>8 DEF Resume, LoopInv, TypeOK
<1>9. ASSUME NEW d \in Desks, NEW r \in Runs,
             Refresh(d) \/ Preflight(d) \/ StartAnother(d) \/ PickUp(d, r) \/ DryRun(d, r)
      PROVE  UNCHANGED <<exec, unknown>>
  BY <1>9 DEF Refresh, Preflight, StartAnother, PickUp, DryRun, history
<1>10. ASSUME NEW d \in Desks, Operator(d) PROVE SecretsAreShown'
  <2>1. CASE Refresh(d) \/ Preflight(d) \/ StartAnother(d)
    BY <1>1, <2>1 DEF Refresh, Preflight, StartAnother, history
  <2> QED BY <1>1, <1>2, <1>8, <1>9, <1>10, <2>1 DEF Operator
<1>11. ASSUME NEW d \in Desks, Drive(d) \/ Fault(d) PROVE SecretsAreShown'
  BY <1>3, <1>4, <1>5, <1>6, <1>11 DEF Drive, Fault, Crash
<1>12. CASE UNCHANGED vars
  BY <1>1, <1>12 DEF vars
<1> QED BY <1>7, <1>10, <1>11, <1>12 DEF Next

(* Short of the machine going down, no secret is left on the key that the  *)
(* executor neither holds nor has shown (bootstrap/mod.rs, app.rs).        *)
THEOREM SecretsAreShownEver == ASSUME "crash" \notin Faults PROVE Spec => []SecretsAreShown
<1>1. Init => SecretsAreShown
  BY DEF Init, SecretsAreShown
<1>2. LoopInv /\ SecretsAreShown /\ [Next]_vars => SecretsAreShown'
  BY ShownInductive
<1> QED BY <1>1, <1>2, LoopStands, PTL DEF Spec

-----------------------------------------------------------------------------
(* One desk, whose recorder never fails: what it knows of the table.       *)

OneDesk == \A c, d \in Desks : c = d
Skips == [i \in Steps |-> "Skipped"]

(* Away from a run the list is the table, and a run put on the wizard is   *)
(* the table's until it is driven.                                         *)
Waits(e) == e.at \in {"idle", "abandon"}
KnowsTable(d) ==
  /\ Waits(exec[d]) => listed[d] = row
  /\ held[d] # None =>
       /\ row[held[d].id] # None /\ held[d].row.status # "Aborted"
       /\ Waits(exec[d]) \/ exec[d].id # held[d].id => held[d].row = row[held[d].id]

(* At each stage the row is as the executor last wrote it.                 *)
Sits(e, record) ==
  /\ e.at = "open" =>
       \/ record = None /\ e.steps = Pending
       \/ record # None /\ e.steps = record.steps /\ record.status # "Aborted" /\ AwaitsCertificate(record)
  /\ e.at \in {"mark", "attempt", "judge", "settle", "final"} => record = Row("Running", e.steps)
  /\ e.at = "mark" => e.steps[e.i] # "Done"
  /\ e.at \in {"attempt", "judge"} => e.steps[e.i] = "Running"
  /\ e.at = "record" =>
       /\ record = Row("Running", [e.steps EXCEPT ![e.i] = "Running"])
       /\ e.steps[e.i] \in {"Done", "Skipped", "Failed"}
  /\ e.at = "sign" => record = Row(e.status, e.steps)
  /\ e.at = "abandon" => record # None /\ record.steps = e.steps /\ record.status \notin {"Completed", "Aborted"}

PlansSkip == \A r \in Runs : row[r] # None /\ row[r].status = "Planned" => row[r].steps = Skips

SoloInv ==
  /\ RunInv /\ WriteIsAhead /\ PlansSkip
  /\ \A d \in Desks : KnowsTable(d) /\ (exec[d].at # "idle" => Sits(exec[d], row[exec[d].id]))

LEMMA SoloIs ==
  ASSUME SoloInv, NEW d \in Desks
  PROVE  /\ LoopInv /\ RunInv /\ KnowsTable(d) /\ exec[d] \in ExecState /\ LoopOK(exec[d])
         /\ exec[d].steps \in [Steps -> StepStatus]
         /\ exec[d].at # "idle" => Sits(exec[d], row[exec[d].id]) /\ exec[d].id \in Runs
         /\ row \in [Runs -> RunRow \cup {None}]
BY DeskOK DEF SoloInv, RunInv, LoopInv, TypeOK, ExecState, LoopOK

LEMMA RowIs ==
  ASSUME NEW status, NEW steps
  PROVE  /\ Row(status, steps).status = status /\ Row(status, steps).steps = steps
         /\ status \in RunStatus /\ steps \in [Steps -> StepStatus] => Row(status, steps) \in RunRow
BY DEF Row, RunRow

(* A row is written over with no step put back to Pending.                 *)
LEMMA AheadStays ==
  ASSUME SoloInv, NEW id \in Runs, NEW record \in RunRow, row' = [row EXCEPT ![id] = record], UNCHANGED wrote,
         row[id] # None => \A i \in Steps : row[id].steps[i] # "Pending" => record.steps[i] # "Pending",
         record.status = "Planned" => record.steps = Skips
  PROVE  WriteIsAhead' /\ PlansSkip' /\ row'[id] = record /\ record # None
         /\ \A r \in Runs : r # id => row'[r] = row[r]
<1>1. row'[id] = record /\ record # None /\ \A r \in Runs : r # id => row'[r] = row[r]
  BY ExecutorAssumption DEF SoloInv, RunInv, LoopInv, TypeOK
<1>2. WriteIsAhead'
  BY <1>1 DEF SoloInv, WriteIsAhead
<1>3. PlansSkip'
  BY <1>1 DEF SoloInv, PlansSkip
<1> QED BY <1>1, <1>2, <1>3

(* The rows stay, and so does what is said of them.                        *)
LEMMA RowsStay ==
  ASSUME SoloInv, UNCHANGED <<row, wrote>> PROVE WriteIsAhead' /\ PlansSkip'
BY DEF SoloInv, WriteIsAhead, PlansSkip

Alone(d) ==
  /\ WriteIsAhead' /\ PlansSkip' /\ KnowsTable(d)'
  /\ exec'[d].at # "idle" => Sits(exec'[d], row'[exec'[d].id])

(* In the middle of a run, on to the middle of the run.                    *)
LEMMA HeldOn ==
  ASSUME SoloInv, NEW d \in Desks, UNCHANGED held, ~Waits(exec[d]), ~Waits(exec'[d]), exec'[d].id = exec[d].id,
         \A r \in Runs : row[r] # None => row'[r] # None,
         \A r \in Runs : r # exec[d].id => row'[r] = row[r]
  PROVE  KnowsTable(d)'
<1>1. held[d] # None => held[d].id \in Runs
  BY DEF SoloInv, RunInv, LoopInv, TypeOK
<1> QED BY <1>1, SoloIs DEF KnowsTable

LEMMA OpenSolo ==
  ASSUME SoloInv, NEW d \in Desks, Open(d)
  PROVE  Alone(d)
<1> DEFINE e == exec[d]
           record == Row("Running", e.steps)
<1>1. /\ e.at = "open" /\ Sits(e, row[e.id]) /\ e.id \in Runs /\ LoopInv /\ e.steps \in [Steps -> StepStatus]
      /\ row' = [row EXCEPT ![e.id] = record] /\ UNCHANGED <<wrote, held>>
  BY SoloIs DEF Open, At, Persist, history
<1>2. /\ exec'[d].id = e.id /\ exec'[d].steps = e.steps /\ exec'[d].at \in {"mark", "settle"}
      /\ exec'[d].at = "mark" => e.steps[exec'[d].i] # "Done"
  BY <1>1, OpenLoop
<1>3. record \in RunRow /\ record.status = "Running" /\ record.steps = e.steps
  BY <1>1, RowIs DEF RunStatus
<1>4. row[e.id] # None => \A i \in Steps : row[e.id].steps[i] # "Pending" => record.steps[i] # "Pending"
  BY <1>1, <1>3 DEF Sits
<1> HIDE DEF record
<1>5. WriteIsAhead' /\ PlansSkip' /\ row'[e.id] = record /\ record # None
      /\ \A r \in Runs : r # e.id => row'[r] = row[r]
  BY <1>1, <1>3, <1>4, AheadStays
<1>6. KnowsTable(d)'
  BY <1>1, <1>2, <1>5, HeldOn DEF Waits
<1>7. Sits(exec'[d], row'[exec'[d].id])
  BY <1>1, <1>2, <1>5 DEF Sits, record
<1> QED BY <1>5, <1>6, <1>7 DEF Alone

LEMMA MarkSolo ==
  ASSUME SoloInv, NEW d \in Desks, Mark(d)
  PROVE  Alone(d)
<1> DEFINE e == exec[d]
           steps == [e.steps EXCEPT ![e.i] = "Running"]
           record == Row("Running", steps)
<1>1. /\ e.at = "mark" /\ Sits(e, row[e.id]) /\ e.id \in Runs /\ LoopInv /\ e.steps \in [Steps -> StepStatus]
      /\ row' = [row EXCEPT ![e.id] = record] /\ UNCHANGED <<wrote, held>> /\ e \in ExecState
  BY SoloIs DEF Mark, At, Persist, history
<1>2. /\ e.i \in Steps /\ exec'[d] = [e EXCEPT !.at = "attempt", !.steps = steps]
  BY <1>1, MarkLoop
<1>3. steps \in [Steps -> StepStatus] /\ steps[e.i] = "Running"
      /\ \A i \in Steps : e.steps[i] # "Pending" => steps[i] # "Pending"
  BY <1>1, <1>2 DEF StepStatus
<1> HIDE DEF steps
<1>4. exec'[d].id = e.id /\ exec'[d].at = "attempt" /\ exec'[d].steps = steps /\ exec'[d].i = e.i
  BY <1>1, <1>2 DEF ExecState
<1>5. record \in RunRow /\ record.status = "Running" /\ record.steps = steps /\ row[e.id].steps = e.steps
  BY <1>1, <1>3, RowIs DEF RunStatus, Sits
<1> HIDE DEF record
<1>6. WriteIsAhead' /\ PlansSkip' /\ row'[e.id] = record /\ record # None
      /\ \A r \in Runs : r # e.id => row'[r] = row[r]
  <2>1. \A i \in Steps : row[e.id].steps[i] # "Pending" => record.steps[i] # "Pending"
    BY <1>3, <1>5
  <2> QED BY <1>1, <1>5, <2>1, AheadStays
<1>7. KnowsTable(d)'
  BY <1>1, <1>4, <1>6, HeldOn DEF Waits
<1>8. Sits(exec'[d], row'[exec'[d].id])
  BY <1>3, <1>4, <1>6 DEF Sits, record
<1> QED BY <1>6, <1>7, <1>8 DEF Alone

LEMMA AttemptSolo ==
  ASSUME SoloInv, NEW d \in Desks, Attempt(d)
  PROVE  Alone(d)
<1> DEFINE e == exec[d]
<1>1. /\ e.at = "attempt" /\ Sits(e, row[e.id]) /\ e.id \in Runs /\ LoopInv
      /\ UNCHANGED <<row, held>>
  BY SoloIs DEF Attempt, At
<1>2. /\ e.i \in Steps /\ exec'[d].id = e.id /\ exec'[d].steps = e.steps /\ exec'[d].i = e.i
      /\ exec'[d].at \in {"attempt", "judge"} /\ wrote' \subseteq wrote \cup {<<e.id, e.i>>}
  BY <1>1, AttemptLoop
<1>3. row[e.id] = Row("Running", e.steps) /\ e.steps[e.i] = "Running"
  BY <1>1 DEF Sits
<1>4. row[e.id] # None /\ row[e.id].steps[e.i] # "Pending"
  <2>1. row[e.id] # None
    BY <1>1, DrivenSo DEF SoloInv
  <2> QED BY <2>1, <1>3, RowIs
<1>5. WriteIsAhead' /\ PlansSkip'
  BY <1>1, <1>2, <1>4 DEF SoloInv, WriteIsAhead, PlansSkip
<1>6. KnowsTable(d)'
  BY <1>1, <1>2, HeldOn DEF Waits
<1>7. Sits(exec'[d], row'[exec'[d].id])
  BY <1>1, <1>2, <1>3 DEF Sits
<1> QED BY <1>5, <1>6, <1>7 DEF Alone

LEMMA JudgeSolo ==
  ASSUME SoloInv, NEW d \in Desks, Judge(d)
  PROVE  Alone(d)
<1> DEFINE e == exec[d]
           verdict == Verdict(e.result)
           steps == [e.steps EXCEPT ![e.i] = verdict]
<1>1. /\ e.at = "judge" /\ Sits(e, row[e.id]) /\ e.id \in Runs /\ LoopInv /\ e \in ExecState
      /\ UNCHANGED <<row, wrote, held>> /\ e.steps \in [Steps -> StepStatus]
  BY SoloIs DEF Judge, At, history
<1>2. /\ e.i \in Steps /\ verdict \in {"Done", "Skipped", "Failed"}
      /\ exec'[d] = [e EXCEPT !.at = "record", !.steps = steps]
  BY <1>1, JudgeLoop
<1> HIDE DEF verdict
<1>3. steps[e.i] = verdict /\ e.steps = [steps EXCEPT ![e.i] = "Running"]
  BY <1>1, <1>2 DEF Sits
<1> HIDE DEF steps
<1>4. exec'[d].id = e.id /\ exec'[d].at = "record" /\ exec'[d].steps = steps /\ exec'[d].i = e.i
  BY <1>1, <1>2 DEF ExecState
<1>5. WriteIsAhead' /\ PlansSkip'
  BY <1>1, RowsStay
<1>6. KnowsTable(d)'
  BY <1>1, <1>4, HeldOn DEF Waits
<1>7. Sits(exec'[d], row'[exec'[d].id])
  BY <1>1, <1>2, <1>3, <1>4 DEF Sits
<1> QED BY <1>5, <1>6, <1>7 DEF Alone

LEMMA RecordSolo ==
  ASSUME SoloInv, NEW d \in Desks, Record(d)
  PROVE  Alone(d)
<1> DEFINE e == exec[d]
           record == Row("Running", e.steps)
<1>1. /\ e.at = "record" /\ Sits(e, row[e.id]) /\ e.id \in Runs /\ LoopInv /\ e.steps \in [Steps -> StepStatus]
      /\ row' = [row EXCEPT ![e.id] = record] /\ UNCHANGED <<wrote, held>>
  BY SoloIs DEF Record, At, Persist, history
<1>2. /\ e.i \in Steps /\ exec'[d].id = e.id /\ exec'[d].steps = e.steps
      /\ exec'[d].at \in {"mark", "settle", "final"}
      /\ exec'[d].at = "mark" => e.steps[exec'[d].i] # "Done"
  BY <1>1, RecordLoop
<1>3. record \in RunRow /\ record.status = "Running" /\ record.steps = e.steps
      /\ row[e.id].steps = [e.steps EXCEPT ![e.i] = "Running"]
  BY <1>1, RowIs DEF RunStatus, Sits
<1>4. \A i \in Steps : row[e.id].steps[i] # "Pending" => record.steps[i] # "Pending"
  BY <1>1, <1>2, <1>3 DEF Sits
<1> HIDE DEF record
<1>5. WriteIsAhead' /\ PlansSkip' /\ row'[e.id] = record /\ record # None
      /\ \A r \in Runs : r # e.id => row'[r] = row[r]
  BY <1>1, <1>3, <1>4, AheadStays
<1>6. KnowsTable(d)'
  BY <1>1, <1>2, <1>5, HeldOn DEF Waits
<1>7. Sits(exec'[d], row'[exec'[d].id])
  BY <1>2, <1>5 DEF Sits, record
<1> QED BY <1>5, <1>6, <1>7 DEF Alone

LEMMA SettleSolo ==
  ASSUME SoloInv, NEW d \in Desks, Settle(d)
  PROVE  Alone(d)
<1> DEFINE e == exec[d]
<1>1. /\ e.at = "settle" /\ Sits(e, row[e.id]) /\ e.id \in Runs /\ LoopInv
      /\ UNCHANGED <<row, wrote, held>>
  BY SoloIs DEF Settle, At, history
<1>2. exec'[d].id = e.id /\ exec'[d].steps = e.steps /\ exec'[d].at = "final"
  BY <1>1, SettleLoop
<1>3. KnowsTable(d)'
  BY <1>1, <1>2, HeldOn DEF Waits
<1>4. Sits(exec'[d], row'[exec'[d].id])
  BY <1>1, <1>2 DEF Sits
<1> QED BY <1>1, <1>3, <1>4, RowsStay DEF Alone

LEMMA FinalSolo ==
  ASSUME SoloInv, NEW d \in Desks, Final(d)
  PROVE  Alone(d)
<1> DEFINE e == exec[d]
           record == Row(e.status, e.steps)
<1>1. /\ e.at = "final" /\ Sits(e, row[e.id]) /\ e.id \in Runs /\ LoopInv /\ e.steps \in [Steps -> StepStatus]
      /\ e \in ExecState /\ row' = [row EXCEPT ![e.id] = record] /\ UNCHANGED <<wrote, held>>
  BY SoloIs DEF Final, At, Persist, history
<1>2. /\ exec'[d] = [e EXCEPT !.at = "sign"] /\ e.status \in {"Completed", "Failed", "Running"}
  BY <1>1, FinalLoop
<1>3. exec'[d].id = e.id /\ exec'[d].at = "sign" /\ exec'[d].steps = e.steps /\ exec'[d].status = e.status
  BY <1>1, <1>2 DEF ExecState
<1>4. record \in RunRow /\ record.status = e.status /\ record.steps = e.steps /\ row[e.id].steps = e.steps
  BY <1>1, <1>2, RowIs DEF RunStatus, Sits
<1> HIDE DEF record
<1>5. WriteIsAhead' /\ PlansSkip' /\ row'[e.id] = record /\ record # None
      /\ \A r \in Runs : r # e.id => row'[r] = row[r]
  <2>1. \A i \in Steps : row[e.id].steps[i] # "Pending" => record.steps[i] # "Pending"
    BY <1>4
  <2>2. record.status # "Planned"
    BY <1>2, <1>4
  <2> QED BY <1>1, <1>4, <2>1, <2>2, AheadStays
<1>6. KnowsTable(d)'
  BY <1>1, <1>3, <1>5, HeldOn DEF Waits
<1>7. Sits(exec'[d], row'[exec'[d].id])
  BY <1>3, <1>5 DEF Sits, record
<1> QED BY <1>5, <1>6, <1>7 DEF Alone

LEMMA AbandonSolo ==
  ASSUME SoloInv, NEW d \in Desks, AbandonWrite(d)
  PROVE  Alone(d)
<1> DEFINE e == exec[d]
           record == Row("Aborted", e.steps)
<1>1. /\ e.at = "abandon" /\ Sits(e, row[e.id]) /\ e.id \in Runs /\ LoopInv /\ e.steps \in [Steps -> StepStatus]
      /\ row' = [row EXCEPT ![e.id] = record] /\ UNCHANGED wrote /\ exec'[d] = Idle
      /\ listed' = [listed EXCEPT ![d] = row']
      /\ held' = IF held[d] # None /\ held[d].id = e.id THEN [held EXCEPT ![d] = None] ELSE held
      /\ KnowsTable(d)
  BY SoloIs, RestLoop DEF AbandonWrite, At, Persist, history
<1>2. record \in RunRow /\ record.status = "Aborted" /\ record.steps = e.steps /\ row[e.id].steps = e.steps
  BY <1>1, RowIs DEF RunStatus, Sits
<1> HIDE DEF record
<1>3. WriteIsAhead' /\ PlansSkip' /\ row'[e.id] = record /\ record # None
      /\ \A r \in Runs : r # e.id => row'[r] = row[r]
  <2>1. \A i \in Steps : row[e.id].steps[i] # "Pending" => record.steps[i] # "Pending"
    BY <1>2
  <2> QED BY <1>1, <1>2, <2>1, AheadStays
<1>4. listed'[d] = row'
  BY <1>1 DEF LoopInv, TypeOK
<1>5. held'[d] # None => /\ held'[d] = held[d] /\ held[d].id # e.id /\ held[d].id \in Runs
                         /\ held[d].row = row[held[d].id] /\ row[held[d].id] # None /\ held[d].row.status # "Aborted"
  BY <1>1 DEF LoopInv, TypeOK, KnowsTable, Waits
<1>6. KnowsTable(d)'
  BY <1>1, <1>3, <1>4, <1>5 DEF KnowsTable
<1> QED BY <1>1, <1>3, <1>6, IdleOK DEF Alone

LEMMA SignSolo ==
  ASSUME SoloInv, NEW d \in Desks, Sign(d)
  PROVE  Alone(d)
<1> DEFINE e == exec[d]
<1>1. /\ e.at = "sign" /\ Sits(e, row[e.id]) /\ e.id \in Runs /\ LoopInv /\ LoopOK(e)
      /\ UNCHANGED <<row, wrote>> /\ exec'[d] = Idle
      /\ listed' = [listed EXCEPT ![d] = row]
      /\ held' = [held EXCEPT ![d] = [id |-> e.id, row |-> Row(e.status, e.steps)]]
  BY SoloIs, RestLoop DEF Sign, At, Reread
<1>2. row[e.id] = Row(e.status, e.steps) /\ row[e.id] # None /\ e.status # "Aborted"
  BY <1>1, DrivenSo DEF Sits, LoopOK, SoloInv
<1>3. Row(e.status, e.steps).status = e.status
  BY RowIs
<1>4. listed'[d] = row' /\ held'[d] = [id |-> e.id, row |-> row[e.id]]
  BY <1>1, <1>2 DEF LoopInv, TypeOK
<1>5. KnowsTable(d)'
  BY <1>1, <1>2, <1>3, <1>4 DEF KnowsTable
<1> QED BY <1>1, <1>5, IdleOK, RowsStay DEF Alone

LEMMA CrashSolo ==
  ASSUME SoloInv, NEW d \in Desks, Crash(d)
  PROVE  Alone(d)
<1>1. UNCHANGED <<row, wrote>> /\ exec'[d] = Idle /\ listed'[d] = row' /\ held'[d] = None
  BY SoloIs DEF Crash, Reread, register, history, LoopInv, TypeOK
<1>2. KnowsTable(d)'
  BY <1>1 DEF KnowsTable
<1> QED BY <1>1, <1>2, IdleOK, RowsStay DEF Alone

(* What the desk does with its list and its wizard between runs.           *)
LEMMA DeskWorkSolo ==
  ASSUME SoloInv, NEW d \in Desks, NEW r \in Runs,
         Refresh(d) \/ Preflight(d) \/ StartAnother(d) \/ PickUp(d, r) \/ DryRun(d, r)
  PROVE  Alone(d)
<1>1. exec[d] = Idle /\ UNCHANGED <<exec, wrote>> /\ LoopInv /\ KnowsTable(d) /\ Idle.at = "idle"
  BY SoloIs, IdleOK DEF Refresh, Preflight, StartAnother, PickUp, DryRun, Free, history
<1>2. listed[d] = row
  BY <1>1 DEF KnowsTable, Waits
<1>3. CASE Refresh(d) \/ Preflight(d) \/ StartAnother(d)
  <2>1. UNCHANGED row /\ (UNCHANGED held \/ held'[d] = None) /\ listed'[d] = row
    BY <1>1, <1>2, <1>3 DEF Refresh, Preflight, StartAnother, Reread, register, LoopInv, TypeOK
  <2>2. KnowsTable(d)'
    BY <1>1, <2>1 DEF KnowsTable
  <2> QED BY <1>1, <2>1, <2>2, RowsStay DEF Alone
<1>4. CASE PickUp(d, r)
  <2>1. UNCHANGED <<row, listed>> /\ held'[d] = [id |-> r, row |-> row[r]] /\ row[r] # None /\ row[r].status # "Aborted"
    BY <1>1, <1>2, <1>4 DEF PickUp, Resumable, register, LoopInv, TypeOK
  <2>2. KnowsTable(d)'
    BY <1>1, <1>2, <2>1 DEF KnowsTable
  <2> QED BY <1>1, <2>1, <2>2, RowsStay DEF Alone
<1>5. CASE DryRun(d, r)
  <2> DEFINE record == Row("Planned", Skips)
  <2>1. /\ row' = [row EXCEPT ![r] = record] /\ row[r] = None /\ UNCHANGED held /\ listed'[d] = row'
    BY <1>1, <1>5 DEF DryRun, LoopInv, TypeOK, Skips
  <2>2. record \in RunRow /\ record.steps = Skips
    BY RowIs DEF RunStatus, StepStatus, Skips
  <2> HIDE DEF record
  <2>3. WriteIsAhead' /\ PlansSkip' /\ row'[r] = record /\ record # None
        /\ \A q \in Runs : q # r => row'[q] = row[q]
    BY <1>1, <2>1, <2>2, AheadStays
  <2>4. held[d] # None => held[d].id \in Runs /\ held[d].id # r
    BY <1>1, <2>1 DEF LoopInv, TypeOK, KnowsTable
  <2>5. KnowsTable(d)'
    BY <1>1, <2>1, <2>3, <2>4 DEF KnowsTable
  <2> QED BY <1>1, <2>3, <2>5 DEF Alone
<1> QED BY <1>3, <1>4, <1>5

LEMMA EnterSolo ==
  ASSUME SoloInv, NEW d \in Desks, NEW r \in Runs, Start(d, r) \/ Resume(d) \/ Abandon(d, r)
  PROVE  Alone(d)
<1>1. exec[d] = Idle /\ UNCHANGED <<row, wrote, held, listed>> /\ LoopInv /\ KnowsTable(d) /\ Waits(exec[d])
  BY SoloIs, IdleOK DEF Start, Resume, Abandon, Free, history, Waits
<1>2. listed[d] = row
  BY <1>1 DEF KnowsTable
<1>3. CASE Start(d, r)
  <2>1. exec'[d].at = "open" /\ exec'[d].steps = Pending /\ exec'[d].id = r /\ row[r] = None
    BY <1>1, <1>3, IdleOK DEF Start, LoopInv, TypeOK, Idle
  <2>2. KnowsTable(d)'
    BY <1>1, <2>1 DEF KnowsTable, Waits
  <2>3. Sits(exec'[d], row'[exec'[d].id])
    BY <1>1, <2>1 DEF Sits
  <2> QED BY <1>1, <2>2, <2>3, RowsStay DEF Alone
<1>4. CASE Resume(d)
  <2>1. exec'[d].at = "open" /\ exec'[d].steps = held[d].row.steps /\ exec'[d].id = held[d].id
        /\ held[d] # None /\ AwaitsCertificate(held[d].row)
    BY <1>1, <1>4, IdleOK DEF Resume, LoopInv, TypeOK, Idle
  <2>2. held[d].row = row[held[d].id] /\ row[held[d].id] # None /\ row[held[d].id].status # "Aborted"
    BY <1>1, <2>1 DEF KnowsTable
  <2>3. KnowsTable(d)'
    BY <1>1, <2>1, <2>2 DEF KnowsTable, Waits
  <2>4. Sits(exec'[d], row'[exec'[d].id])
    BY <1>1, <2>1, <2>2 DEF Sits
  <2> QED BY <1>1, <2>3, <2>4, RowsStay DEF Alone
<1>5. CASE Abandon(d, r)
  <2>1. exec'[d].at = "abandon" /\ exec'[d].steps = row[r].steps /\ exec'[d].id = r
        /\ row[r] # None /\ row[r].status \notin {"Completed", "Aborted"}
    BY <1>1, <1>2, <1>5, IdleOK DEF Abandon, Resumable, LoopInv, TypeOK, Idle
  <2>2. KnowsTable(d)'
    BY <1>1, <1>2, <2>1 DEF KnowsTable
  <2>3. Sits(exec'[d], row'[exec'[d].id])
    BY <1>1, <2>1 DEF Sits
  <2> QED BY <1>1, <2>2, <2>3, RowsStay DEF Alone
<1> QED BY <1>3, <1>4, <1>5

LEMMA SoloInductive ==
  ASSUME OneDesk, "io" \notin Faults, SoloInv, [Next]_vars
  PROVE  SoloInv'
<1>1. RunInv'
  BY RunInductive DEF SoloInv
<1>2. ASSUME NEW d \in Desks, Alone(d) PROVE SoloInv'
  BY <1>1, <1>2 DEF OneDesk, Alone, SoloInv
<1>3. ASSUME NEW d \in Desks, Drive(d) PROVE SoloInv'
  BY <1>2, <1>3, OpenSolo, MarkSolo, AttemptSolo, JudgeSolo, RecordSolo, SettleSolo, FinalSolo, SignSolo,
     AbandonSolo DEF Drive
<1>4. ASSUME NEW d \in Desks, Fault(d) PROVE SoloInv'
  BY <1>2, <1>4, CrashSolo DEF Fault, NotRecordable, AbandonFails
<1>5. CASE UNCHANGED <<row, listed, held, exec, wrote>>
  BY <1>1, <1>5, RowsStay DEF SoloInv, KnowsTable
<1>6. ASSUME NEW d \in Desks, Operator(d) PROVE SoloInv'
  <2>1. CASE Runs = {}
    <3>1. \A c \in Desks : held'[c] = None /\ exec'[c].at = "idle" /\ listed'[c] = row'
      BY <1>1, <2>1 DEF RunInv, LoopInv, TypeOK, LoopOK
    <3> QED BY <1>1, <2>1, <3>1 DEF SoloInv, WriteIsAhead, PlansSkip, KnowsTable
  <2>2. CASE Runs # {}
    BY <1>2, <1>6, <2>2, DeskWorkSolo, EnterSolo DEF Operator
  <2> QED BY <2>1, <2>2
<1>7. CASE HolderChanges \/ ResetApplet
  BY <1>5, <1>7 DEF HolderChanges, ResetApplet, register, history
<1>8. CASE UNCHANGED vars
  BY <1>5, <1>8 DEF vars
<1> QED BY <1>3, <1>4, <1>6, <1>7, <1>8 DEF Next

LEMMA InitSolo == Init => SoloInv
<1> SUFFICES ASSUME Init PROVE SoloInv
  OBVIOUS
<1> QED BY InitRun, IdleOK DEF Init, SoloInv, WriteIsAhead, PlansSkip, KnowsTable

(* The above in every state.                                               *)
LEMMA SoloStands == ASSUME OneDesk, "io" \notin Faults PROVE Spec => []SoloInv
<1>1. SoloInv /\ [Next]_vars => SoloInv'
  BY SoloInductive
<1> QED BY <1>1, InitSolo, PTL DEF Spec

(* A step that changed the key is known to the register as reached, on one *)
(* desk whose register can be written: a crash between any two calls       *)
(* leaves nothing done that the row calls Pending (bootstrap/mod.rs,       *)
(* rule 2).                                                                *)
THEOREM WriteIsAheadEver == ASSUME OneDesk, "io" \notin Faults PROVE Spec => []WriteIsAhead
<1>1. SoloInv => WriteIsAhead
  BY DEF SoloInv
<1>2. Spec => []SoloInv
  BY SoloStands
<1> QED BY <1>1, <1>2, PTL

-----------------------------------------------------------------------------
(* Every write to the table is one the promise allows.                     *)

LEMMA StatusIs ==
  ASSUME NEW r \in Runs, NEW status, row \in [Runs -> RunRow \cup {None}], row[r] # None
  PROVE  [row EXCEPT ![r].status = status] = [row EXCEPT ![r] = Row(status, row[r].steps)]
<1>1. row[r] \in RunRow
  OBVIOUS
<1>2. [row[r] EXCEPT !.status = status] = Row(status, row[r].steps)
  BY <1>1 DEF RunRow, Row
<1> QED BY <1>2

ImportsNeeded == \A i \in Steps : Kind(i) = "import" => Required(i)

(* What awaits its certificate is neither finished nor a plan.             *)
LEMMA AwaitingIsUnderway ==
  ASSUME ImportsNeeded, SoloInv, NEW r \in Runs, row[r] # None, row[r].status # "Aborted", AwaitsCertificate(row[r])
  PROVE  row[r].status \in {"Running", "Failed"}
<1>1. row[r].status \in RunStatus
  BY DEF SoloInv, RunInv, LoopInv, TypeOK, RunRow
<1>2. CASE row[r].status = "Completed"
  <2>1. AllDone(row[r].steps)
    BY <1>2 DEF SoloInv, RunInv, RowsSo, RowSo
  <2> QED BY <2>1 DEF AwaitsCertificate, AllDone, ImportsNeeded
<1>3. CASE row[r].status = "Planned"
  <2>1. row[r].steps = Skips
    BY <1>3 DEF SoloInv, PlansSkip
  <2> QED BY <2>1 DEF AwaitsCertificate, Skips
<1> QED BY <1>1, <1>2, <1>3 DEF RunStatus

LEMMA OpenKeeps ==
  ASSUME ImportsNeeded, SoloInv, NEW d \in Desks, Open(d) PROVE Promise!Next
<1> DEFINE e == exec[d]
<1>1. /\ Sits(e, row[e.id]) /\ e.at = "open" /\ e.id \in Runs /\ row \in [Runs -> RunRow \cup {None}]
      /\ row' = [row EXCEPT ![e.id] = Row("Running", e.steps)]
  BY SoloIs DEF Open, At, Persist
<1>2. CASE row[e.id] = None /\ e.steps = Pending
  <2>1. Promise!Begin(e.id)
    BY <1>1, <1>2 DEF Promise!Begin, Promise!Row, Promise!Fresh, Row, Pending
  <2> QED BY <1>1, <2>1 DEF Promise!Next
<1>3. CASE row[e.id] # None /\ e.steps = row[e.id].steps /\ row[e.id].status # "Aborted" /\ AwaitsCertificate(row[e.id])
  <2>1. row[e.id].status \in {"Running", "Failed"}
    BY <1>1, <1>3, AwaitingIsUnderway
  <2>2. Promise!TakeUp(e.id)
    BY <1>1, <1>3, <2>1, StatusIs DEF Promise!TakeUp, Promise!Underway
  <2> QED BY <1>1, <2>2 DEF Promise!Next
<1> QED BY <1>1, <1>2, <1>3 DEF Sits

LEMMA MarkKeeps ==
  ASSUME SoloInv, NEW d \in Desks, Mark(d) PROVE Promise!Next
<1> DEFINE e == exec[d]
           steps == [e.steps EXCEPT ![e.i] = "Running"]
<1>1. /\ Sits(e, row[e.id]) /\ e.at = "mark" /\ e.id \in Runs /\ e.i \in Steps
      /\ row' = [row EXCEPT ![e.id] = Row("Running", steps)]
  BY SoloIs, MarkLoop DEF Mark, At, Persist
<1>2. row[e.id] = Row("Running", e.steps) /\ e.steps[e.i] # "Done" /\ row[e.id] # None
  BY <1>1, DrivenSo DEF Sits, SoloInv
<1>3. Promise!Progress(e.id)
  <2>1. row[e.id].status = "Running" /\ row[e.id].steps = e.steps
    BY <1>2, RowIs
  <2>2. row' = [row EXCEPT ![e.id] = Promise!Row("Running", [row[e.id].steps EXCEPT ![e.i] = "Running"])]
    BY <1>1, <2>1 DEF Promise!Row, Row
  <2> QED BY <1>1, <1>2, <2>1, <2>2 DEF Promise!Progress, Promise!Underway
<1> QED BY <1>1, <1>3 DEF Promise!Next

LEMMA RecordKeeps ==
  ASSUME SoloInv, NEW d \in Desks, Record(d) PROVE Promise!Next
<1> DEFINE e == exec[d]
           before == [e.steps EXCEPT ![e.i] = "Running"]
<1>1. /\ Sits(e, row[e.id]) /\ e.at = "record" /\ e.id \in Runs /\ e.i \in Steps
      /\ row' = [row EXCEPT ![e.id] = Row("Running", e.steps)] /\ e.steps \in [Steps -> StepStatus]
  BY SoloIs, RecordLoop DEF Record, At, Persist
<1>2. row[e.id] = Row("Running", before) /\ e.steps[e.i] \in {"Done", "Skipped", "Failed"} /\ row[e.id] # None
  BY <1>1, DrivenSo DEF Sits, SoloInv
<1>3. before[e.i] # "Done" /\ e.steps = [before EXCEPT ![e.i] = e.steps[e.i]]
  BY <1>1
<1> HIDE DEF before
<1>4. row[e.id].status = "Running" /\ row[e.id].steps = before
  BY <1>2, RowIs
<1>5. Promise!Progress(e.id)
  <2>1. row' = [row EXCEPT ![e.id] = Promise!Row("Running", [row[e.id].steps EXCEPT ![e.i] = e.steps[e.i]])]
    BY <1>1, <1>3, <1>4 DEF Promise!Row, Row
  <2> QED BY <1>1, <1>2, <1>3, <1>4, <2>1 DEF Promise!Progress, Promise!Underway
<1> QED BY <1>1, <1>5 DEF Promise!Next

LEMMA FinalKeeps ==
  ASSUME SoloInv, NEW d \in Desks, Final(d) PROVE Promise!Next
<1> DEFINE e == exec[d]
<1>1. /\ Sits(e, row[e.id]) /\ e.at = "final" /\ e.id \in Runs /\ row \in [Runs -> RunRow \cup {None}]
      /\ row' = [row EXCEPT ![e.id] = Row(e.status, e.steps)]
      /\ e.status \in {"Completed", "Failed", "Running"} /\ (e.status = "Completed" => AllDone(e.steps))
  BY SoloIs, FinalLoop DEF Final, At, Persist
<1>2. row[e.id] # None /\ row[e.id].status = "Running" /\ row[e.id].steps = e.steps
  BY <1>1, DrivenSo, RowIs DEF Sits, SoloInv
<1>3. row' = [row EXCEPT ![e.id].status = e.status]
  <2>1. row' = [row EXCEPT ![e.id] = Row(e.status, row[e.id].steps)]
    BY <1>1, <1>2
  <2> HIDE DEF e
  <2> QED BY <1>1, <1>2, <2>1, StatusIs
<1>4. Promise!Finish(e.id) \/ Promise!TakeUp(e.id)
  BY <1>1, <1>2, <1>3 DEF Promise!Finish, Promise!TakeUp, Promise!Underway, AllDone
<1> QED BY <1>1, <1>4 DEF Promise!Next

LEMMA AbandonKeeps ==
  ASSUME SoloInv, NEW d \in Desks, AbandonWrite(d) PROVE Promise!Next
<1> DEFINE e == exec[d]
<1>1. /\ Sits(e, row[e.id]) /\ e.at = "abandon" /\ e.id \in Runs /\ row \in [Runs -> RunRow \cup {None}]
      /\ row' = [row EXCEPT ![e.id] = Row("Aborted", e.steps)]
  BY SoloIs DEF AbandonWrite, At, Persist
<1>2. row[e.id] # None /\ row[e.id].steps = e.steps /\ row[e.id].status \in {"Planned", "Running", "Failed"}
  BY <1>1 DEF Sits, RunRow, RunStatus
<1>3. row' = [row EXCEPT ![e.id].status = "Aborted"]
  <2>1. row' = [row EXCEPT ![e.id] = Row("Aborted", row[e.id].steps)]
    BY <1>1, <1>2
  <2> HIDE DEF e
  <2> QED BY <1>1, <1>2, <2>1, StatusIs
<1>4. Promise!Close(e.id)
  BY <1>2, <1>3 DEF Promise!Close, Promise!Underway
<1> QED BY <1>1, <1>4 DEF Promise!Next

LEMMA RecordStep ==
  ASSUME ImportsNeeded, OneDesk, "io" \notin Faults, SoloInv, [Next]_vars
  PROVE  [Promise!Next]_row
<1>1. ASSUME NEW d \in Desks, NEW r \in Runs, DryRun(d, r) PROVE Promise!Next
  BY <1>1 DEF DryRun, Promise!Next, Promise!Plan, Promise!Row, Row
<1>2. ASSUME NEW d \in Desks, Operator(d) PROVE Promise!Next \/ UNCHANGED row
  BY <1>1, <1>2 DEF Operator, Refresh, Preflight, StartAnother, Resume, Start, PickUp, Abandon, register
<1>3. ASSUME NEW d \in Desks, Drive(d) PROVE Promise!Next \/ UNCHANGED row
  BY <1>3, OpenKeeps, MarkKeeps, RecordKeeps, FinalKeeps, AbandonKeeps DEF Drive, Attempt, Judge, Settle, Sign
<1>4. ASSUME NEW d \in Desks, Fault(d) PROVE UNCHANGED row
  BY <1>4 DEF Fault, NotRecordable, AbandonFails, Crash, register
<1> QED BY <1>2, <1>3, <1>4 DEF Next, HolderChanges, ResetApplet, register, vars

(* The executor implements the abstract record: its writes begin, move one *)
(* step, take up, finish or close a run as RunRecord says, and never       *)
(* reopen one; where no procedure makes the import optional.               *)
THEOREM RecordIsKept ==
  ASSUME OneDesk, "io" \notin Faults, ImportsNeeded PROVE Spec => KeepsTheRecord
<1>1. Init => Promise!Init
  BY DEF Init, Promise!Init
<1>2. SoloInv /\ [Next]_vars => [Promise!Next]_row
  BY RecordStep
<1>3. Spec => []SoloInv
  BY SoloStands
<1> QED BY <1>1, <1>2, <1>3, PTL DEF Spec, KeepsTheRecord, Promise!Spec

-----------------------------------------------------------------------------
(* The signing key pair and the certificate that was requested for it.     *)

(* What an outcome may have to do with the signing key pair: it turns only *)
(* where a pair is generated behind a good PIN, a certificate or a request *)
(* needs the pair, and a PIN turns good only where the factory one was.    *)
PairTurns(kind, old, purse, o) ==
  /\ o.key.pair # old.pair =>
       /\ kind = "keygen" /\ purse.pin = "good"
       /\ o.result = "applied" \/ (LostReplies /\ o.result \in Errors)
  /\ o.key.cert => old.cert \/ (kind = "import" /\ purse.pin = "good" /\ old.pair # "none")
  /\ kind = "csr" /\ o.result = "applied" => purse.pin = "good" /\ old.pair # "none"
  /\ kind = "keygen" /\ o.result \in {"already", "skip"} => old.cert \/ purse.pin # "good"
PinTurns(old, purse, o) ==
  /\ o.key.pin = "default" => old.pin = "default" /\ (o.purse.pin = "good" => purse.pin = "good")
  /\ o.purse.pin = "good" => purse.pin = "good" \/ old.pin = "default"
Turns(kind, old, purse, o) == PairTurns(kind, old, purse, o) /\ PinTurns(old, purse, o)

(* An outcome that leaves the pair, the certificate and both PINs.         *)
LEMMA LeavesIt ==
  ASSUME NEW kind, NEW old, NEW purse, NEW o, kind # "csr",
         o.key.pair = old.pair, o.key.cert = old.cert, o.key.pin = old.pin,
         o.purse.pin # "good" \/ o.purse.pin = purse.pin,
         kind # "keygen" \/ o.result \notin {"already", "skip"}
  PROVE  Turns(kind, old, purse, o)
BY DEF Turns, PairTurns, PinTurns

LEMMA UnperformedIs ==
  ASSUME NEW k, NEW p, NEW o \in Unperformed(k, p)
  PROVE  o.key = k /\ o.purse = p /\ o.result \in {"retryable", "fatal"}
BY DEF Unperformed, Outcome

LEMMA WriteIs ==
  ASSUME NEW key1, NEW purse1, NEW key2, NEW purse2, NEW o \in Write(key1, purse1, key2, purse2)
  PROVE  \/ o.key = key1 /\ o.purse = purse1 /\ o.result \in {"retryable", "fatal"}
         \/ o.key = key2 /\ o.purse = purse2 /\ o.result = "applied"
         \/ o.key = key2 /\ o.purse = purse2 /\ o.result \in {"retryable", "fatal"} /\ LostReplies
BY UnperformedIs DEF Write, Outcome

LEMMA OutcomeOf ==
  ASSUME NEW k, NEW p, NEW r
  PROVE  Outcome(k, p, r).key = k /\ Outcome(k, p, r).purse = p /\ Outcome(k, p, r).result = r
BY DEF Outcome

(* The steps that have nothing to do with the signing key.                 *)
LEMMA AsideTurns ==
  ASSUME NEW old \in KeyState, NEW purse \in Purse
  PROVE  /\ \A o \in Fido2Pin(old, purse) : Turns("fidoPin", old, purse, o)
         /\ \A o \in Fido2MinPinLength(old, purse) : Turns("minLength", old, purse, o)
         /\ \A o \in Fido2ForcePinChange(old, purse) : Turns("forceChange", old, purse, o)
         /\ \A o \in Fido2Credential(old, purse) : Turns("credential", old, purse, o)
         /\ \A o \in OtpSlotConfig(old, purse) : Turns("otpSlot", old, purse, o)
         /\ \A o \in OtpAccessCode(old, purse) : Turns("otpCode", old, purse, o)
         /\ \A o \in PivManagementKey(old, purse) : Turns("mgmKey", old, purse, o)
         /\ \A o \in Verify(old, purse) : Turns("verify", old, purse, o)
<1> DEFINE Same(o) == /\ o.key.pair = old.pair /\ o.key.cert = old.cert /\ o.key.pin = old.pin
                      /\ o.purse.pin = purse.pin
<1>1. \A o \in Fido2Pin(old, purse) : Same(o)
  <2>1. EnsureFidoPin(purse).pin = purse.pin /\ [EnsureFidoPin(purse) EXCEPT !.fido = "good"].pin = purse.pin
    BY DEF EnsureFidoPin, Generate, Purse
  <2>2. \A o \in Fido2Pin(old, purse) :
          /\ o.key \in {old, [old EXCEPT !.fido = "set"]}
          /\ o.purse \in {purse, EnsureFidoPin(purse), [EnsureFidoPin(purse) EXCEPT !.fido = "good"]}
    BY WriteIs, OutcomeOf DEF Fido2Pin
  <2> QED BY <2>1, <2>2 DEF KeyState
<1>2. \A o \in Fido2MinPinLength(old, purse) : Same(o)
  <2>1. \A o \in Fido2MinPinLength(old, purse) : o.key \in {old, [old EXCEPT !.minLength = TRUE]} /\ o.purse = purse
    BY WriteIs, OutcomeOf DEF Fido2MinPinLength, WithFidoPin
  <2> QED BY <2>1 DEF KeyState
<1>3. \A o \in Fido2ForcePinChange(old, purse) : Same(o)
  <2>1. \A o \in Fido2ForcePinChange(old, purse) : o.key \in {old, [old EXCEPT !.forced = TRUE]} /\ o.purse = purse
    BY WriteIs, OutcomeOf DEF Fido2ForcePinChange, WithFidoPin
  <2> QED BY <2>1 DEF KeyState
<1>4. \A o \in Fido2Credential(old, purse) : Same(o)
  <2>1. \A o \in Fido2Credential(old, purse) : o.key \in {old, [old EXCEPT !.credential = TRUE]} /\ o.purse = purse
    BY WriteIs, OutcomeOf DEF Fido2Credential, WithFidoPin
  <2> QED BY <2>1 DEF KeyState
<1>5. \A o \in OtpSlotConfig(old, purse) : Same(o)
  <2>1. \A o \in OtpSlotConfig(old, purse) : o.key \in {old, [old EXCEPT !.slot = TRUE]} /\ o.purse = purse
    BY WriteIs, OutcomeOf DEF OtpSlotConfig
  <2> QED BY <2>1 DEF KeyState
<1>6. \A o \in OtpAccessCode(old, purse) : Same(o)
  <2>1. Generate(purse, "code").pin = purse.pin
    BY DEF Generate, Purse
  <2>2. \A o \in OtpAccessCode(old, purse) :
          o.key \in {old, [old EXCEPT !.code = TRUE]} /\ o.purse \in {purse, Generate(purse, "code")}
    BY WriteIs, OutcomeOf DEF OtpAccessCode
  <2> QED BY <2>1, <2>2 DEF KeyState
<1>7. \A o \in PivManagementKey(old, purse) : Same(o)
  <2>1. Generate(purse, "mgm").pin = purse.pin
    BY DEF Generate, Purse
  <2>2. \A o \in PivManagementKey(old, purse) :
          /\ o.key \in {old, [old EXCEPT !.mgm = "protected"], [old EXCEPT !.mgm = "unstored"]}
          /\ o.purse \in {purse, Generate(purse, "mgm")}
    BY WriteIs, UnperformedIs, OutcomeOf DEF PivManagementKey
  <2> QED BY <2>1, <2>2 DEF KeyState
<1>8. \A o \in Verify(old, purse) : Same(o)
  BY OutcomeOf DEF Verify
<1>9. \A kind, o : Same(o) /\ kind \notin {"csr", "keygen"} => Turns(kind, old, purse, o)
  BY LeavesIt
<1> HIDE DEF Same
<1> QED BY <1>1, <1>2, <1>3, <1>4, <1>5, <1>6, <1>7, <1>8, <1>9

LEMMA PivPinPukTurns ==
  ASSUME NEW old \in KeyState, NEW purse \in Purse, NEW o \in PivPinPuk(old, purse)
  PROVE  Turns("pinPuk", old, purse, o)
<1> DEFINE made == Generate(EnsurePivPin(purse), "puk")
           accepted == [made EXCEPT !.pin = "good"]
           pinOnly == [old EXCEPT !.pin = "set", !.tries = MaxTries]
           k == [pinOnly EXCEPT !.puk = "set"]
           guessed == [old EXCEPT !.tries = @ - 1]
<1>1. made.pin # "good" \/ made.pin = purse.pin
  BY DEF Generate, EnsurePivPin, Purse
<1>2. /\ guessed.pair = old.pair /\ guessed.cert = old.cert /\ guessed.pin = old.pin
      /\ pinOnly.pair = old.pair /\ pinOnly.cert = old.cert /\ pinOnly.pin = "set"
      /\ k.pair = old.pair /\ k.cert = old.cert /\ k.pin = "set"
  BY DEF KeyState
<1>3. \/ o.key \in {old, guessed} /\ o.purse \in {purse, made}
      \/ old.pin = "default" /\ o.key \in {k, pinOnly} /\ o.purse = accepted
  BY WriteIs, UnperformedIs, OutcomeOf DEF PivPinPuk, ChangePinPuk, PinIsDefault
<1> HIDE DEF made, accepted, pinOnly, k, guessed
<1> QED BY <1>1, <1>2, <1>3 DEF Turns, PairTurns, PinTurns

LEMMA BehindThePinTurns ==
  ASSUME NEW old \in KeyState, NEW purse \in Purse
  PROVE  /\ \A o \in PivKeygen(old, purse) : Turns("keygen", old, purse, o)
         /\ \A o \in PivCsr(old, purse) : Turns("csr", old, purse, o)
         /\ \A pem : \A o \in PivCertImport(old, purse, pem) : Turns("import", old, purse, o)
<1> DEFINE k == [old EXCEPT !.tries = MaxTries]
           guessed == [old EXCEPT !.tries = @ - 1]
           pairOn == [k EXCEPT !.pair = NewPair(@)]
           certOn == [k EXCEPT !.cert = TRUE]
<1>1. /\ guessed.pair = old.pair /\ guessed.cert = old.cert /\ guessed.pin = old.pin
      /\ k.pair = old.pair /\ k.cert = old.cert /\ k.pin = old.pin
      /\ pairOn.cert = old.cert /\ pairOn.pin = old.pin
      /\ certOn.pair = old.pair /\ certOn.pin = old.pin
  BY DEF KeyState
<1>2. \A o \in PivKeygen(old, purse) :
        /\ o.purse = purse
        /\ \/ o.key = old /\ (old.cert \/ purse.pin = "none")
           \/ o.key \in {old, guessed, k} /\ o.result \notin {"already", "skip"}
           \/ o.key = pairOn /\ purse.pin = "good" /\ o.result = "applied"
           \/ o.key = pairOn /\ purse.pin = "good" /\ LostReplies /\ o.result \in Errors
  BY WriteIs, OutcomeOf DEF PivKeygen, Administering, WithPin, Errors
<1>3. \A o \in PivCsr(old, purse) :
        /\ o.purse = purse /\ o.key \in {old, guessed, k}
        /\ o.result = "applied" => purse.pin = "good" /\ old.pair # "none"
  BY OutcomeOf DEF PivCsr, WithPin
<1>4. \A pem : \A o \in PivCertImport(old, purse, pem) :
        /\ o.purse = purse
        /\ o.key \in {old, guessed, k} \/ (o.key = certOn /\ purse.pin = "good" /\ old.pair # "none")
  BY WriteIs, OutcomeOf DEF PivCertImport, Administering, WithPin
<1> HIDE DEF k, guessed, pairOn, certOn
<1>5. \A o \in PivKeygen(old, purse) : Turns("keygen", old, purse, o)
  BY <1>1, <1>2 DEF Turns, PairTurns, PinTurns, Errors
<1>6. \A o \in PivCsr(old, purse) : Turns("csr", old, purse, o)
  BY <1>1, <1>3 DEF Turns, PairTurns, PinTurns
<1>7. \A pem : \A o \in PivCertImport(old, purse, pem) : Turns("import", old, purse, o)
  BY <1>1, <1>4 DEF Turns, PairTurns, PinTurns
<1> QED BY <1>5, <1>6, <1>7

LEMMA PerformTurns ==
  ASSUME NEW old \in KeyState, NEW purse \in Purse, NEW kind \in Kinds, NEW pem,
         NEW o \in Perform(kind, old, purse, pem)
  PROVE  Turns(kind, old, purse, o)
<1>1. CASE o \in Unperformed(old, purse)
  BY <1>1, UnperformedIs DEF Turns, PairTurns, PinTurns
<1>2. CASE o \notin Unperformed(old, purse)
  <2>1. \/ kind = "fidoPin" /\ o \in Fido2Pin(old, purse)
        \/ kind = "minLength" /\ o \in Fido2MinPinLength(old, purse)
        \/ kind = "forceChange" /\ o \in Fido2ForcePinChange(old, purse)
        \/ kind = "credential" /\ o \in Fido2Credential(old, purse)
        \/ kind = "otpCode" /\ o \in OtpAccessCode(old, purse)
        \/ kind = "otpSlot" /\ o \in OtpSlotConfig(old, purse)
        \/ kind = "pinPuk" /\ o \in PivPinPuk(old, purse)
        \/ kind = "mgmKey" /\ o \in PivManagementKey(old, purse)
        \/ kind = "keygen" /\ o \in PivKeygen(old, purse)
        \/ kind = "csr" /\ o \in PivCsr(old, purse)
        \/ kind = "import" /\ o \in PivCertImport(old, purse, pem)
        \/ kind = "verify" /\ o \in Verify(old, purse)
    BY <1>2 DEF Perform, Kinds
  <2> QED BY <2>1, AsideTurns, PivPinPukTurns, BehindThePinTurns
<1> QED BY <1>1, <1>2

(* A procedure generates the signing key once, and where the answer of     *)
(* that step can be lost it is one the run does not go on without.         *)
PairOnce ==
  \A i \in Steps : Kind(i) = "keygen" =>
    /\ Required(i) \/ ~LostReplies
    /\ \A j \in Steps : Kind(j) = "keygen" => j = i

(* The pair a request is for is there to stay: nothing is left to generate.*)
Paired(steps) == \A i \in Steps : Kind(i) = "keygen" => steps[i] = "Done"
Asked(steps) == \E i \in Steps : Kind(i) = "csr" /\ steps[i] = "Done"
AskedPaired(steps) == Asked(steps) => Paired(steps)

NoneOut(requests) == \A r \in Runs : requests[r] # "current"
Works(e) == e.at \in {"open", "mark", "attempt", "judge", "record"}

(* The drive has generated a pair, and it is not recorded yet.             *)
Generating(e) ==
  /\ e.at \in {"attempt", "judge", "record"} /\ Kind(e.i) = "keygen"
  /\ \/ e.at = "attempt" /\ Required(e.i)
     \/ e.at = "judge" /\ e.result = "applied"
     \/ e.at = "judge" /\ Required(e.i) /\ e.result \in Errors
     \/ e.at = "record" /\ Required(e.i) /\ e.steps[e.i] = "Failed"

(* Until then a drive with a good PIN has the applet as it was delivered.  *)
Before(e, k, requests) ==
  e.purse.pin = "good" => NoneOut(requests) /\ ~k.cert /\ (k.pair = "none" \/ Generating(e))

PairSo(e, k, requests) ==
  /\ e.at # "idle" => AskedPaired(e.steps)
  /\ Works(e) /\ e.purse.pin = "good" => k.pin # "default"
  /\ e.at \in {"mark", "attempt", "judge"} => e.steps[e.i] # "Done"
  /\ Works(e) => Paired(e.steps) \/ Before(e, k, requests)
  /\ e.at = "judge" /\ e.result = "applied" /\ Kind(e.i) = "csr" => Paired(e.steps)

OneDrives == \A c, d \in Desks : Drives(c) /\ Drives(d) => c = d
KeyBlank == key.pin = "default" => key.pair = "none" /\ ~key.cert /\ NoneOut(request)
RowsPaired == \A r \in Runs : row[r] # None => AskedPaired(row[r].steps)
ListedPaired == \A d \in Desks, r \in Runs : listed[d][r] # None => AskedPaired(listed[d][r].steps)
HeldPaired == \A d \in Desks : held[d] # None => AskedPaired(held[d].row.steps)
ExecsPaired == \A d \in Desks : PairSo(exec[d], key, request)

PairInv == LoopInv /\ OneDrives /\ KeyBlank /\ RowsPaired /\ ListedPaired /\ HeldPaired /\ ExecsPaired

LEMMA RestPaired == \A k, requests : PairSo(Idle, k, requests)
BY DEF PairSo, Idle, Works

LEMMA InitPair == Init => PairInv
<1> SUFFICES ASSUME Init PROVE PairInv
  OBVIOUS
<1>1. LoopInv
  BY InitLoop
<1>2. RowsPaired /\ ListedPaired /\ HeldPaired
  BY DEF Init, RowsPaired, ListedPaired, HeldPaired
<1>3. OneDrives
  BY IdleOK DEF Init, OneDrives, Drives
<1>4. KeyBlank
  BY DEF Init, KeyBlank, FactoryKey, NoneOut
<1>5. ExecsPaired
  BY RestPaired DEF Init, ExecsPaired
<1> QED BY <1>1, <1>2, <1>3, <1>4, <1>5 DEF PairInv

(* Rows, and copies of them, by a step that writes one that is in order.   *)
LEMMA CopiesPaired ==
  ASSUME PairInv, NEW d \in Desks,
         \A r \in Runs : row'[r] = row[r] \/ AskedPaired(row'[r].steps),
         \A c \in Desks : listed'[c] = listed[c] \/ listed'[c] = row \/ listed'[c] = row',
         \A c \in Desks : c # d => held'[c] = held[c],
         held'[d] = held[d] \/ held'[d] = None \/ AskedPaired(held'[d].row.steps)
  PROVE  RowsPaired' /\ ListedPaired' /\ HeldPaired'
<1>1. \A r \in Runs : row'[r] # None => AskedPaired(row'[r].steps)
  BY DEF PairInv, RowsPaired
<1>2. \A c \in Desks, r \in Runs : listed'[c][r] # None => AskedPaired(listed'[c][r].steps)
  BY <1>1 DEF PairInv, RowsPaired, ListedPaired
<1>3. \A c \in Desks : held'[c] # None => AskedPaired(held'[c].row.steps)
  BY DEF PairInv, HeldPaired
<1> QED BY <1>1, <1>2, <1>3 DEF RowsPaired, ListedPaired, HeldPaired

(* A drive is entered only when there is none.                             *)
LEMMA TurnTaken ==
  ASSUME PairInv, NEW d \in Desks, \A c \in Desks : c # d => exec'[c] = exec[c],
         exec'[d].at \in {"idle", "abandon"} \/ Drives(d) \/ PortFree
  PROVE  OneDrives'
BY DEF PairInv, OneDrives, PortFree, Drives

(* A step at a desk that does nothing to the key.                          *)
LEMMA QuietPaired ==
  ASSUME PairInv, NEW d \in Desks, UNCHANGED <<key, request>>,
         \A c \in Desks : c # d => exec'[c] = exec[c], PairSo(exec'[d], key, request)
  PROVE  KeyBlank' /\ ExecsPaired'
BY DEF PairInv, KeyBlank, ExecsPaired

PairRest == OneDrives /\ KeyBlank /\ RowsPaired /\ ListedPaired /\ HeldPaired /\ ExecsPaired

LEMMA DeskWorkPaired ==
  ASSUME PairInv, NEW d \in Desks, NEW r \in Runs,
         Refresh(d) \/ Preflight(d) \/ StartAnother(d) \/ PickUp(d, r) \/ DryRun(d, r)
  PROVE  PairRest'
<1>1. UNCHANGED <<key, request, exec>>
  BY DEF Refresh, Preflight, StartAnother, PickUp, DryRun, history
<1>2. KeyBlank' /\ ExecsPaired' /\ OneDrives'
  BY <1>1 DEF PairInv, KeyBlank, ExecsPaired, OneDrives, Drives
<1>3. \A q \in Runs : row'[q] = row[q] \/ AskedPaired(row'[q].steps)
  <2>1. CASE DryRun(d, r)
    <3>1. row' = [row EXCEPT ![r] = Row("Planned", [i \in Steps |-> "Skipped"])]
      BY <2>1 DEF DryRun
    <3>2. AskedPaired([i \in Steps |-> "Skipped"])
      BY DEF AskedPaired, Asked
    <3> QED BY <3>1, <3>2 DEF PairInv, LoopInv, TypeOK, Row
  <2>2. CASE ~DryRun(d, r)
    BY <2>2 DEF Refresh, Preflight, StartAnother, PickUp, register
  <2> QED BY <2>1, <2>2
<1>4. \A c \in Desks : listed'[c] = listed[c] \/ listed'[c] = row \/ listed'[c] = row'
  BY DEF Refresh, Preflight, StartAnother, PickUp, DryRun, Reread, PairInv, LoopInv, TypeOK
<1>5. /\ \A c \in Desks : c # d => held'[c] = held[c]
      /\ held'[d] = held[d] \/ held'[d] = None \/ AskedPaired(held'[d].row.steps)
  <2>1. CASE PickUp(d, r)
    <3>1. held' = [held EXCEPT ![d] = [id |-> r, row |-> listed[d][r]]] /\ listed[d][r] # None
      BY <2>1 DEF PickUp, Resumable
    <3>2. AskedPaired(listed[d][r].steps)
      BY <3>1 DEF PairInv, ListedPaired
    <3> QED BY <3>1, <3>2 DEF PairInv, LoopInv, TypeOK
  <2>2. CASE ~PickUp(d, r)
    BY <2>2 DEF Refresh, Preflight, StartAnother, DryRun, PairInv, LoopInv, TypeOK
  <2> QED BY <2>1, <2>2
<1> QED BY <1>2, <1>3, <1>4, <1>5, CopiesPaired DEF PairRest

(* A fresh run has no PIN yet; one that is resumed has its request, and so *)
(* its pair.                                                               *)
LEMMA EnterPaired ==
  ASSUME PairInv, NEW d \in Desks, NEW r \in Runs, Start(d, r) \/ Resume(d) \/ Abandon(d, r)
  PROVE  PairRest'
<1>1. UNCHANGED <<key, request, row, listed, held>>
  BY DEF Start, Resume, Abandon, history
<1>2. \A c \in Desks : c # d => exec'[c] = exec[c]
  BY EnterLoop DEF PairInv
<1>3. PairSo(exec'[d], key, request) /\ (exec'[d].at \in {"idle", "abandon"} \/ PortFree)
  <2>1. CASE Start(d, r)
    <3>1. /\ exec'[d].at = "open" /\ exec'[d].steps = Pending /\ exec'[d].purse.pin = "none" /\ PortFree
      BY <2>1, IdleOK DEF Start, PairInv, LoopInv, TypeOK, Idle, NoSecrets
    <3>2. AskedPaired(Pending)
      BY DEF AskedPaired, Asked, Pending
    <3> QED BY <3>1, <3>2 DEF PairSo, Before, Works
  <2>2. CASE Resume(d)
    <3>1. PICK pin \in {"good", "bad"} :
            /\ pin = "good" => key.pin # "default"
            /\ exec'[d].at = "open" /\ exec'[d].steps = held[d].row.steps
            /\ exec'[d].purse.pin = pin
      BY <2>2 DEF Resume, PairInv, LoopInv, TypeOK, Idle, NoSecrets
    <3>2. PortFree /\ AwaitsCertificate(held[d].row) /\ held[d] # None
      BY <2>2 DEF Resume
    <3>3. AskedPaired(held[d].row.steps) /\ Asked(held[d].row.steps)
      BY <3>2 DEF PairInv, HeldPaired, AwaitsCertificate, Asked
    <3>4. Paired(held[d].row.steps)
      BY <3>3 DEF AskedPaired
    <3> QED BY <3>1, <3>2, <3>3, <3>4 DEF PairSo, Works
  <2>3. CASE Abandon(d, r)
    <3>1. /\ exec'[d].at = "abandon" /\ exec'[d].steps = listed[d][r].steps /\ listed[d][r] # None
      BY <2>3 DEF Abandon, PairInv, LoopInv, TypeOK, Idle, Resumable
    <3>2. AskedPaired(listed[d][r].steps)
      BY <3>1 DEF PairInv, ListedPaired
    <3> QED BY <3>1, <3>2 DEF PairSo, Works
  <2> QED BY <2>1, <2>2, <2>3
<1>4. OneDrives'
  BY <1>2, <1>3, TurnTaken
<1>5. KeyBlank' /\ ExecsPaired'
  BY <1>1, <1>2, <1>3, QuietPaired
<1>6. RowsPaired' /\ ListedPaired' /\ HeldPaired'
  BY <1>1 DEF PairInv, RowsPaired, ListedPaired, HeldPaired
<1> QED BY <1>4, <1>5, <1>6 DEF PairRest

(* A drive at a desk: what it knows, and that no other desk is driving.    *)
LEMMA DrivenPaired ==
  ASSUME PairInv, NEW d \in Desks, Drives(d)
  PROVE  /\ exec[d] \in ExecState /\ LoopOK(exec[d]) /\ exec[d].steps \in [Steps -> StepStatus]
         /\ exec[d].id \in Runs /\ exec[d].at # "idle" /\ exec[d].status \in RunStatus
         /\ PairSo(exec[d], key, request) /\ AskedPaired(exec[d].steps)
         /\ \A c \in Desks : c # d => ~Drives(c)
BY DeskOK DEF PairInv, ExecsPaired, OneDrives, Drives, PairSo, ExecState, LoopOK

(* The calls on the recorder.                                              *)
LEMMA WritePaired ==
  ASSUME PairInv, NEW d \in Desks, Drives(d), NEW status \in RunStatus, NEW steps \in [Steps -> StepStatus],
         Persist(d, status, steps), AskedPaired(steps),
         UNCHANGED <<key, request, listed, held>>,
         \A c \in Desks : c # d => exec'[c] = exec[c], PairSo(exec'[d], key, request)
  PROVE  PairRest'
<1>1. OneDrives' /\ KeyBlank' /\ ExecsPaired'
  BY TurnTaken, QuietPaired
<1>2. \A r \in Runs : row'[r] = row[r] \/ AskedPaired(row'[r].steps)
  BY Persisted DEF PairInv, Drives
<1> QED BY <1>1, <1>2, CopiesPaired DEF PairRest

LEMMA OpenPaired ==
  ASSUME PairInv, NEW d \in Desks, Open(d) PROVE PairRest'
<1>1. exec[d].at = "open" /\ Drives(d) /\ Persist(d, "Running", exec[d].steps)
      /\ UNCHANGED <<key, request, listed, held>>
  BY DEF Open, At, Drives, history
<1>2. /\ exec'[d].steps = exec[d].steps /\ exec'[d].purse = exec[d].purse /\ exec'[d].at \in {"mark", "settle"}
      /\ exec'[d].at = "mark" => exec[d].steps[exec'[d].i] # "Done"
      /\ \A c \in Desks : c # d => exec'[c] = exec[c]
  BY OpenLoop DEF PairInv
<1>3. PairSo(exec'[d], key, request)
  BY <1>1, <1>2, DrivenPaired DEF PairSo, Works, Before, Generating
<1> QED BY <1>1, <1>2, <1>3, DrivenPaired, WritePaired DEF RunStatus

LEMMA MarkPaired ==
  ASSUME PairInv, NEW d \in Desks, Mark(d) PROVE PairRest'
<1> DEFINE e == exec[d]
           f == exec'[d]
<1>1. e.at = "mark" /\ Drives(d) /\ UNCHANGED <<key, request, listed, held>>
  BY DEF Mark, At, Drives, history
<1>2. /\ e.i \in Steps /\ Persist(d, "Running", f.steps)
      /\ f = [e EXCEPT !.at = "attempt", !.steps = [e.steps EXCEPT ![e.i] = "Running"]]
      /\ \A c \in Desks : c # d => exec'[c] = exec[c]
  BY MarkLoop DEF PairInv
<1>3. /\ e \in ExecState /\ e.steps \in [Steps -> StepStatus]
      /\ PairSo(e, key, request) /\ AskedPaired(e.steps)
  BY <1>1, DrivenPaired
<1>4. /\ f.at = "attempt" /\ f.i = e.i /\ f.purse = e.purse
      /\ f.steps = [e.steps EXCEPT ![e.i] = "Running"] /\ f.steps \in [Steps -> StepStatus]
  BY <1>2, <1>3 DEF ExecState, StepStatus
<1> HIDE DEF e, f
<1>5. e.steps[e.i] # "Done"
  BY <1>1, <1>3 DEF PairSo
<1>6. Paired(e.steps) => Paired(f.steps)
  BY <1>2, <1>3, <1>4, <1>5 DEF Paired
<1>7. AskedPaired(f.steps)
  BY <1>2, <1>3, <1>4, <1>6 DEF AskedPaired, Asked
<1>8. PairSo(f, key, request)
  <2>1. Before(e, key, request) => Before(f, key, request)
    BY <1>1, <1>4 DEF Before, Generating
  <2>2. f.steps[f.i] # "Done"
    BY <1>2, <1>3, <1>4
  <2> QED BY <1>1, <1>3, <1>4, <1>6, <1>7, <2>1, <2>2 DEF PairSo, Works
<1> QED BY <1>1, <1>2, <1>4, <1>7, <1>8, WritePaired DEF RunStatus, f

LEMMA JudgePaired ==
  ASSUME PairInv, PairOnce, NEW d \in Desks, Judge(d) PROVE PairRest'
<1> DEFINE e == exec[d]
           f == exec'[d]
           verdict == Verdict(e.result)
<1>1. e.at = "judge" /\ Drives(d) /\ UNCHANGED <<key, request, row, listed, held>>
  BY DEF Judge, At, Drives, history
<1>2. /\ e.i \in Steps
      /\ f = [e EXCEPT !.at = "record", !.steps = [e.steps EXCEPT ![e.i] = verdict]]
      /\ verdict \in {"Done", "Skipped", "Failed"} /\ (verdict = "Done" <=> e.result = "applied")
      /\ e.result \in Errors => verdict = "Failed"
      /\ \A c \in Desks : c # d => exec'[c] = exec[c]
  BY JudgeLoop DEF PairInv, Verdict, Errors
<1>3. /\ e \in ExecState /\ e.steps \in [Steps -> StepStatus]
      /\ PairSo(e, key, request) /\ AskedPaired(e.steps)
  BY <1>1, DrivenPaired
<1> HIDE DEF verdict
<1>4. /\ f.at = "record" /\ f.i = e.i /\ f.purse = e.purse /\ f.steps = [e.steps EXCEPT ![e.i] = verdict]
  BY <1>2, <1>3 DEF ExecState
<1> HIDE DEF e, f
<1>5. e.steps[e.i] # "Done"
  BY <1>1, <1>3 DEF PairSo
<1>6. Paired(e.steps) => Paired(f.steps)
  BY <1>2, <1>3, <1>4, <1>5 DEF Paired
<1>7. AskedPaired(f.steps)
  <2>1. CASE Kind(e.i) = "csr" /\ verdict = "Done"
    BY <1>1, <1>2, <1>3, <1>6, <2>1 DEF PairSo, AskedPaired
  <2>2. CASE ~(Kind(e.i) = "csr" /\ verdict = "Done")
    <3>1. Asked(f.steps) => Asked(e.steps)
      BY <1>2, <1>3, <1>4, <2>2 DEF Asked
    <3> QED BY <1>3, <1>6, <3>1 DEF AskedPaired
  <2> QED BY <2>1, <2>2
<1>8. Paired(f.steps) \/ Before(f, key, request)
  <2>1. CASE Paired(e.steps)
    BY <1>6, <2>1
  <2>2. CASE Kind(e.i) = "keygen" /\ verdict = "Done"
    BY <1>2, <1>3, <1>4, <2>2 DEF PairOnce, Paired
  <2>3. CASE Before(e, key, request) /\ ~(Kind(e.i) = "keygen" /\ verdict = "Done")
    <3>1. Generating(e) => Generating(f)
      BY <1>1, <1>2, <1>3, <1>4, <2>3 DEF Generating
    <3> QED BY <1>4, <2>3, <3>1 DEF Before
  <2> QED BY <1>1, <1>3, <2>1, <2>2, <2>3 DEF PairSo, Works
<1>9. PairSo(f, key, request)
  BY <1>1, <1>3, <1>4, <1>7, <1>8 DEF PairSo, Works
<1>10. OneDrives' /\ KeyBlank' /\ ExecsPaired'
  BY <1>1, <1>2, <1>9, TurnTaken, QuietPaired DEF f
<1>11. RowsPaired' /\ ListedPaired' /\ HeldPaired'
  BY <1>1 DEF PairInv, RowsPaired, ListedPaired, HeldPaired
<1> QED BY <1>10, <1>11 DEF PairRest

(* A drive whose generation failed does not go on.                         *)
LEMMA RecordPaired ==
  ASSUME PairInv, NEW d \in Desks, Record(d) PROVE PairRest'
<1> DEFINE e == exec[d]
           f == exec'[d]
<1>1. e.at = "record" /\ Drives(d) /\ Persist(d, "Running", e.steps) /\ UNCHANGED <<key, request, listed, held>>
  BY DEF Record, At, Drives, history
<1>2. /\ f.steps = e.steps /\ f.purse = e.purse /\ f.at \in {"mark", "settle", "final"}
      /\ f.at = "mark" => e.steps[f.i] # "Done"
      /\ \A c \in Desks : c # d => exec'[c] = exec[c]
  BY RecordLoop DEF PairInv
<1>3. f.at = "mark" => ~Aborts(e)
  BY <1>1, DrivenPaired DEF Record, PairInv, LoopInv, TypeOK, ExecState
<1>4. /\ e \in ExecState /\ e.steps \in [Steps -> StepStatus]
      /\ PairSo(e, key, request) /\ AskedPaired(e.steps)
  BY <1>1, DrivenPaired
<1> HIDE DEF e, f
<1>5. f.at = "mark" => ~Generating(e)
  BY <1>1, <1>3 DEF Generating, Aborts
<1>6. PairSo(f, key, request)
  BY <1>1, <1>2, <1>4, <1>5 DEF PairSo, Works, Before
<1> QED BY <1>1, <1>2, <1>4, <1>6, WritePaired DEF RunStatus, e, f

LEMMA EndPaired ==
  ASSUME PairInv, NEW d \in Desks, Settle(d) \/ Final(d) PROVE PairRest'
<1>1. Drives(d) /\ UNCHANGED <<key, request, listed, held>>
  BY DEF Settle, Final, At, Drives, history
<1>2. /\ exec[d] \in ExecState /\ exec[d].steps \in [Steps -> StepStatus] /\ exec[d].status \in RunStatus
      /\ AskedPaired(exec[d].steps)
  BY <1>1, DrivenPaired
<1>3. /\ exec'[d].steps = exec[d].steps /\ exec'[d].at \in {"final", "sign"}
      /\ \A c \in Desks : c # d => exec'[c] = exec[c]
  <2>1. CASE Settle(d)
    BY <2>1, SettleLoop DEF PairInv
  <2>2. CASE Final(d)
    <3>1. exec'[d] = [exec[d] EXCEPT !.at = "sign"] /\ \A c \in Desks : c # d => exec'[c] = exec[c]
      BY <2>2, FinalLoop DEF PairInv
    <3>2. exec'[d].steps = exec[d].steps /\ exec'[d].at = "sign"
      BY <1>2, <3>1 DEF ExecState
    <3> QED BY <3>1, <3>2
  <2> QED BY <2>1, <2>2
<1>4. PairSo(exec'[d], key, request)
  BY <1>2, <1>3 DEF PairSo, Works
<1>5. CASE Settle(d)
  <2>1. UNCHANGED row
    BY <1>5 DEF Settle
  <2> QED BY <1>1, <1>3, <1>4, <2>1, TurnTaken, QuietPaired
          DEF PairRest, PairInv, RowsPaired, ListedPaired, HeldPaired
<1>6. CASE Final(d)
  BY <1>1, <1>2, <1>3, <1>4, <1>6, FinalLoop, WritePaired DEF PairInv
<1> QED BY <1>5, <1>6

LEMMA StopPaired ==
  ASSUME PairInv, NEW d \in Desks,
         Sign(d) \/ AbandonWrite(d) \/ NotRecordable(d) \/ AbandonFails(d) \/ Crash(d)
  PROVE  PairRest'
<1>1. exec'[d] = Idle /\ UNCHANGED <<key, request>> /\ \A c \in Desks : c # d => exec'[c] = exec[c]
  BY RestLoop DEF PairInv, Sign, AbandonWrite, NotRecordable, AbandonFails, Crash, history
<1>2. OneDrives' /\ KeyBlank' /\ ExecsPaired'
  BY <1>1, RestPaired, IdleOK, TurnTaken, QuietPaired
<1>3. exec[d].at # "idle" => AskedPaired(exec[d].steps)
  BY DEF PairInv, ExecsPaired, PairSo
<1>4. \A r \in Runs : row'[r] = row[r] \/ AskedPaired(row'[r].steps)
  <2>1. CASE AbandonWrite(d)
    <3>1. exec[d].at = "abandon" /\ Persist(d, "Aborted", exec[d].steps) /\ exec[d].steps \in [Steps -> StepStatus]
      BY <2>1, DeskOK DEF AbandonWrite, At, PairInv, ExecState
    <3> QED BY <1>3, <3>1, Persisted DEF PairInv, RunStatus
  <2>2. CASE ~AbandonWrite(d)
    BY <2>2 DEF Sign, NotRecordable, AbandonFails, Crash, register
  <2> QED BY <2>1, <2>2
<1>5. \A c \in Desks : listed'[c] = listed[c] \/ listed'[c] = row \/ listed'[c] = row'
  BY DEF Sign, AbandonWrite, NotRecordable, AbandonFails, Crash, Reread, register, PairInv, LoopInv, TypeOK
<1>6. /\ \A c \in Desks : c # d => held'[c] = held[c]
      /\ held'[d] = held[d] \/ held'[d] = None \/ AskedPaired(held'[d].row.steps)
  <2>1. CASE Sign(d)
    BY <1>3, <2>1 DEF Sign, At, Row, PairInv, LoopInv, TypeOK
  <2>2. CASE ~Sign(d)
    BY <2>2 DEF AbandonWrite, NotRecordable, AbandonFails, Crash, PairInv, LoopInv, TypeOK
  <2> QED BY <2>1, <2>2
<1> QED BY <1>2, <1>4, <1>5, <1>6, CopiesPaired DEF PairRest

(* What an attempt made of the drive, and of the requests.                 *)
LEMMA AttemptMade ==
  ASSUME LoopInv, NEW d \in Desks, Attempt(d)
  PROVE  \E o \in Perform(Kind(exec[d].i), key, exec[d].purse, Certificate(exec[d])) :
           /\ key' = o.key /\ request' = Requests(d, exec[d].i, o)
           /\ exec'[d].purse = o.purse /\ exec'[d].result = o.result
           /\ exec'[d].at = IF TriesAgain(exec[d], o.result) THEN "attempt" ELSE "judge"
           /\ Turns(Kind(exec[d].i), key, exec[d].purse, o) /\ o.result \in Results
<1> DEFINE e == exec[d]
<1>1. e \in ExecState /\ e.purse \in Purse /\ Kind(e.i) \in Kinds /\ key \in KeyState
  BY DeskOK, ProcedureIs DEF Attempt, At, ExecState, LoopOK, LoopInv, TypeOK
<1>2. PICK o \in Perform(Kind(e.i), key, e.purse, Certificate(e)) :
        /\ key' = o.key /\ request' = Requests(d, e.i, o)
        /\ exec' = [exec EXCEPT ![d] =
             [e EXCEPT !.purse = o.purse,
                       !.guesses = IF o.key.tries < key.tries THEN @ + 1 ELSE @,
                       !.attempt = IF TriesAgain(e, o.result) THEN @ + 1 ELSE @,
                       !.at = IF TriesAgain(e, o.result) THEN "attempt" ELSE "judge",
                       !.result = o.result]]
  BY DEF Attempt
<1>3. Turns(Kind(e.i), key, e.purse, o) /\ o.result \in Results
  BY <1>1, <1>2, PerformTurns, PerformSound DEF Sound
<1>4. /\ exec'[d].purse = o.purse /\ exec'[d].result = o.result
      /\ exec'[d].at = IF TriesAgain(e, o.result) THEN "attempt" ELSE "judge"
  BY <1>1, <1>2 DEF LoopInv, TypeOK, ExecState
<1> QED BY <1>2, <1>3, <1>4

(* A step that still has nothing to generate over leaves every request     *)
(* that is out; one that has a pair to generate finds none out.            *)
LEMMA AttemptPaired ==
  ASSUME PairInv, PairOnce, NEW d \in Desks, Attempt(d)
  PROVE  PairRest' /\ \A r \in Runs : request[r] = "current" => request'[r] = "current"
<1> DEFINE e == exec[d]
           f == exec'[d]
           kind == Kind(exec[d].i)
<1>1. e.at = "attempt" /\ Drives(d) /\ UNCHANGED <<row, listed, held>>
  BY DEF Attempt, At, Drives
<1>2. /\ e.i \in Steps /\ f.id = e.id /\ f.steps = e.steps /\ f.i = e.i /\ f.at \in {"attempt", "judge"}
      /\ \A c \in Desks : c # d => exec'[c] = exec[c]
  BY AttemptLoop DEF PairInv
<1>3. PairSo(e, key, request) /\ AskedPaired(e.steps) /\ \A c \in Desks : c # d => ~Drives(c)
  BY <1>1, DrivenPaired
<1>4. PICK o \in Perform(kind, key, e.purse, Certificate(e)) :
           /\ key' = o.key /\ request' = Requests(d, e.i, o)
           /\ f.purse = o.purse /\ f.result = o.result
           /\ f.at = IF TriesAgain(e, o.result) THEN "attempt" ELSE "judge"
           /\ Turns(kind, key, e.purse, o) /\ o.result \in Results
  BY AttemptMade DEF PairInv
<1> DEFINE good == e.purse.pin = "good"
<1>5. PairTurns(kind, key, e.purse, o) /\ PinTurns(key, e.purse, o)
  BY <1>4 DEF Turns
<1>6. request' = [r \in Runs |-> IF kind = "csr" /\ r = e.id /\ o.result = "applied" THEN "current"
                                 ELSE IF o.key.pair # key.pair /\ request[r] = "current" THEN "stale"
                                 ELSE request[r]]
  BY <1>4 DEF Requests
<1>7. KeyBlank
  BY DEF PairInv
<1> HIDE DEF e, f, kind
<1>8. /\ e.steps[e.i] # "Done" /\ (Paired(e.steps) \/ Before(e, key, request))
      /\ e.purse.pin = "good" => key.pin # "default"
  BY <1>1, <1>3 DEF PairSo, Works
<1>9. kind = Kind(e.i)
  BY DEF kind, e
<1>10. Paired(e.steps) => kind # "keygen"
  BY <1>2, <1>8, <1>9 DEF Paired
<1>11. ~Paired(e.steps) /\ e.purse.pin = "good" =>
         NoneOut(request) /\ ~key.cert /\ (key.pair = "none" \/ (kind = "keygen" /\ Required(e.i)))
  BY <1>1, <1>8, <1>9 DEF Before, Generating
<1>12. \A r \in Runs : request[r] = "current" => request'[r] = "current"
  BY <1>5, <1>6, <1>10, <1>11 DEF PairTurns, NoneOut
<1>13. (~Paired(e.steps) \/ key'.pin = "default") /\ (key.pin = "default" \/ e.purse.pin = "good") =>
         /\ ~(kind = "csr" /\ o.result = "applied") /\ ~key'.cert
         /\ NoneOut(request')
  <2> SUFFICES ASSUME ~Paired(e.steps) \/ key'.pin = "default", key.pin = "default" \/ e.purse.pin = "good"
               PROVE  /\ ~(kind = "csr" /\ o.result = "applied") /\ ~key'.cert
                      /\ NoneOut(request')
    OBVIOUS
  <2>1. CASE key.pin = "default"
    <3>1. e.purse.pin # "good" /\ NoneOut(request) /\ ~key.cert
      BY <1>7, <1>8, <2>1 DEF KeyBlank
    <3> QED BY <1>4, <1>5, <1>6, <3>1 DEF PairTurns, NoneOut
  <2>2. CASE key.pin # "default"
    <3>1. ~Paired(e.steps) /\ e.purse.pin = "good"
      BY <1>4, <1>5, <2>2 DEF PinTurns
    <3> QED BY <1>4, <1>5, <1>6, <1>11, <3>1 DEF PairTurns, NoneOut
  <2> QED BY <2>1, <2>2
<1>14. KeyBlank'
  <2> SUFFICES ASSUME key'.pin = "default" PROVE key'.pair = "none" /\ ~key'.cert /\ NoneOut(request')
    BY DEF KeyBlank
  <2>1. key.pin = "default" /\ e.purse.pin # "good"
    BY <1>4, <1>5, <1>8 DEF PinTurns
  <2>2. key'.pair = "none"
    BY <1>4, <1>5, <1>7, <2>1 DEF PairTurns, KeyBlank
  <2> QED BY <1>13, <2>1, <2>2
<1>15. PairSo(f, key', request')
  <2>1. f.purse.pin = "good" => key'.pin # "default"
    BY <1>4, <1>5, <1>8 DEF PinTurns
  <2>2. ASSUME ~Paired(e.steps) PROVE Before(f, key', request')
    <3> SUFFICES ASSUME f.purse.pin = "good"
                 PROVE  NoneOut(request') /\ ~key'.cert /\ (key'.pair = "none" \/ Generating(f))
      BY DEF Before
    <3>1. key.pin = "default" \/ e.purse.pin = "good"
      BY <1>4, <1>5 DEF PinTurns
    <3>2. NoneOut(request') /\ ~key'.cert
      BY <1>13, <2>2, <3>1
    <3>3. CASE e.purse.pin # "good"
      BY <1>4, <1>5, <1>7, <3>1, <3>2, <3>3 DEF PairTurns, KeyBlank
    <3>4. CASE e.purse.pin = "good" /\ key'.pair # "none"
      <4>1. kind = "keygen" /\ (o.result = "applied" \/ Required(e.i))
        BY <1>2, <1>4, <1>5, <1>9, <1>11, <2>2, <3>4 DEF PairTurns, PairOnce
      <4>2. o.result \notin {"already", "skip"}
        BY <1>5, <1>11, <2>2, <3>4, <4>1 DEF PairTurns
      <4>3. o.result = "applied" \/ o.result \in Errors
        BY <1>4, <4>2 DEF Results, Errors
      <4>4. f.at = "attempt" => o.result # "applied"
        BY <1>4 DEF TriesAgain, IsWorthRetrying
      <4>5. Generating(f)
        BY <1>2, <1>4, <1>9, <4>1, <4>3, <4>4 DEF Generating
      <4> QED BY <3>2, <4>5
    <3> QED BY <3>2, <3>3, <3>4
  <2>3. f.result = "applied" /\ Kind(f.i) = "csr" => Paired(f.steps)
    <3> SUFFICES ASSUME o.result = "applied", kind = "csr" PROVE Paired(e.steps)
      BY <1>2, <1>4, <1>9
    <3>1. e.purse.pin = "good"
      BY <1>5 DEF PairTurns
    <3> QED BY <1>13, <3>1
  <2> QED BY <1>2, <1>3, <1>8, <2>1, <2>2, <2>3 DEF PairSo, Works
<1>16. ExecsPaired'
  <2> SUFFICES ASSUME NEW c \in Desks PROVE PairSo(exec'[c], key', request')
    BY DEF ExecsPaired
  <2>1. CASE c = d
    BY <1>15, <2>1 DEF f
  <2>2. CASE c # d
    <3>1. exec'[c] = exec[c] /\ exec[c].at \in {"idle", "abandon"} /\ PairSo(exec[c], key, request)
      BY <1>2, <1>3, <2>2 DEF Drives, PairInv, ExecsPaired
    <3> QED BY <3>1 DEF PairSo, Works
  <2> QED BY <2>1, <2>2
<1>17. OneDrives' /\ RowsPaired' /\ ListedPaired' /\ HeldPaired'
  BY <1>1, <1>2, TurnTaken DEF PairInv, RowsPaired, ListedPaired, HeldPaired
<1> QED BY <1>12, <1>14, <1>16, <1>17 DEF PairRest

LEMMA ClearedBlank ==
  ASSUME key \in KeyState
  PROVE  /\ \A applet \in {"fido2", "otp"} :
              /\ Cleared(applet).pin = key.pin /\ Cleared(applet).pair = key.pair
              /\ Cleared(applet).cert = key.cert
         /\ Cleared("piv").pair = "none" /\ ~Cleared("piv").cert
<1>1. Cleared("fido2").pin = key.pin /\ Cleared("fido2").pair = key.pair /\ Cleared("fido2").cert = key.cert
  BY DEF Cleared, KeyState
<1>2. Cleared("otp").pin = key.pin /\ Cleared("otp").pair = key.pair /\ Cleared("otp").cert = key.cert
  BY DEF Cleared, KeyState
<1>3. Cleared("piv").pair = "none" /\ ~Cleared("piv").cert
  BY DEF Cleared, KeyState
<1> QED BY <1>1, <1>2, <1>3

(* Away from a drive a request goes with the applet only.                  *)
LEMMA AwayPaired ==
  ASSUME PairInv, HolderChanges \/ ResetApplet
  PROVE  /\ PairRest'
         /\ \A r \in Runs : request[r] = "current" => request'[r] = "current" \/ key' = Cleared("piv")
<1>1. UNCHANGED <<row, listed, held, exec>> /\ PortFree
  BY AwayLoop DEF PairInv, HolderChanges, ResetApplet
<1>2. key \in KeyState
  BY DEF PairInv, LoopInv, TypeOK
<1>3. KeyBlank' /\ \A r \in Runs : request[r] = "current" => request'[r] = "current" \/ key' = Cleared("piv")
  <2>1. CASE HolderChanges
    BY <1>2, <2>1 DEF HolderChanges, KeyState, PairInv, KeyBlank
  <2>2. CASE ResetApplet
    <3>1. PICK applet \in {"fido2", "otp", "piv"} :
            /\ key' = Cleared(applet)
            /\ request' = [r \in Runs |-> IF applet = "piv" /\ request[r] = "current"
                                            THEN "stale" ELSE request[r]]
      BY <2>2 DEF ResetApplet
    <3> QED BY <1>2, <3>1, ClearedBlank DEF PairInv, KeyBlank, NoneOut
  <2> QED BY <2>1, <2>2
<1>4. ExecsPaired'
  BY <1>1 DEF PairInv, ExecsPaired, PairSo, Works, PortFree, Drives
<1> QED BY <1>1, <1>3, <1>4
        DEF PairRest, PairInv, OneDrives, Drives, RowsPaired, ListedPaired, HeldPaired

LEMMA PairInductive ==
  ASSUME PairOnce
  PROVE  PairInv /\ [Next]_vars => PairInv'
<1> SUFFICES ASSUME PairInv, [Next]_vars PROVE PairInv'
  OBVIOUS
<1>1. LoopInv'
  BY LoopInductive DEF PairInv
<1>2. ASSUME NEW d \in Desks, Operator(d) PROVE PairRest'
  <2>1. CASE Refresh(d) \/ Preflight(d) \/ StartAnother(d)
    <3>1. CASE Runs # {}
      BY <2>1, <3>1, DeskWorkPaired
    <3>2. CASE Runs = {}
      <4>1. UNCHANGED <<key, request, exec>>
        BY <2>1 DEF Refresh, Preflight, StartAnother, history
      <4>2. RowsPaired' /\ ListedPaired' /\ HeldPaired'
        BY <1>1, <3>2 DEF RowsPaired, ListedPaired, HeldPaired, LoopInv, TypeOK
      <4> QED BY <4>1, <4>2 DEF PairRest, PairInv, OneDrives, Drives, KeyBlank, ExecsPaired
    <3> QED BY <3>1, <3>2
  <2>2. CASE Resume(d)
    <3>1. held[d].id \in Runs
      BY <2>2 DEF Resume, PairInv, LoopInv, TypeOK
    <3> QED BY <2>2, <3>1, EnterPaired
  <2> QED BY <1>2, <2>1, <2>2, DeskWorkPaired, EnterPaired DEF Operator
<1>3. ASSUME NEW d \in Desks, Drive(d) \/ Fault(d) PROVE PairRest'
  BY <1>3, OpenPaired, MarkPaired, AttemptPaired, JudgePaired, RecordPaired, EndPaired, StopPaired
     DEF Drive, Fault
<1>4. ASSUME HolderChanges \/ ResetApplet PROVE PairRest'
  BY <1>4, AwayPaired
<1>5. ASSUME UNCHANGED vars PROVE PairRest'
  BY <1>5 DEF vars, PairRest, PairInv, OneDrives, Drives, KeyBlank, RowsPaired, ListedPaired,
              HeldPaired, ExecsPaired
<1>6. PairRest'
  BY <1>2, <1>3, <1>4, <1>5 DEF Next
<1> QED BY <1>1, <1>6 DEF PairInv, PairRest

(* Only an attempt and a reset touch a request.                            *)
LEMMA RequestMoves ==
  ASSUME NEW d \in Desks, Operator(d) \/ (Drive(d) /\ ~Attempt(d)) \/ Fault(d)
  PROVE  UNCHANGED request
BY DEF Operator, Refresh, Preflight, StartAnother, Resume, Start, PickUp, DryRun, Abandon,
       Drive, Open, Mark, Judge, Record, Settle, Final, Sign, AbandonWrite,
       Fault, NotRecordable, AbandonFails, Crash

(* A key pair that a certificate was requested for is not generated over,  *)
(* by a second run, a resume from any copy, or a retry of a step whose     *)
(* answer was lost: it goes with the PIV applet only (bootstrap/mod.rs,    *)
(* run_step).                                                              *)
THEOREM RequestStandsEver == ASSUME PairOnce PROVE Spec => RequestStands
<1> DEFINE Kept == \A r \in Runs : row[r] # None /\ AwaitsCertificate(row[r]) /\ request[r] = "current"
                     => request'[r] = "current" \/ key' = Cleared("piv")
<1>1. PairInv /\ [Next]_vars => PairInv'
  BY PairInductive
<1>2. PairInv /\ [Next]_vars => [Kept]_vars
  <2> SUFFICES ASSUME PairInv, Next PROVE Kept
    BY DEF vars
  <2> SUFFICES \A r \in Runs : request[r] = "current" => request'[r] = "current" \/ key' = Cleared("piv")
    OBVIOUS
  <2>1. ASSUME NEW d \in Desks, Operator(d) \/ Drive(d) \/ Fault(d)
        PROVE  \A r \in Runs : request[r] = "current" => request'[r] = "current"
    BY <2>1, AttemptPaired, RequestMoves
  <2> QED BY <2>1, AwayPaired DEF Next
<1> QED BY <1>1, <1>2, InitPair, PTL DEF Spec, RequestStands
=============================================================================
