----------------------------- MODULE MCExecutor -----------------------------
(* Procedures and instances of the executor for TLC.                       *)
EXTENDS Executor, TLC

Must(kind) == [kind |-> kind, required |-> TRUE]
May(kind) == [kind |-> kind, required |-> FALSE]

(* The PIV half of the standard procedure.                                 *)
Signing == <<Must("pinPuk"), Must("keygen"), Must("csr"), Must("import")>>

(* The two PINs: what a run that starts late could take from a holder.     *)
Pins == <<Must("fidoPin"), Must("pinPuk")>>

(* With a FIDO2 PIN in front, which the standard procedure requires.       *)
Whole == <<Must("fidoPin"), Must("pinPuk"), Must("keygen"), Must("csr"), Must("import")>>

(* And with that step optional.                                            *)
Mixed == <<May("fidoPin"), Must("pinPuk"), Must("keygen"), Must("csr"), Must("import")>>

(* The secrets of the PIV applet and what stands behind them, as a template *)
(* of the unit's own may have it: the PIN step is optional, so a run goes   *)
(* on past its failure and comes to it again when it is resumed.            *)
Managed == <<May("pinPuk"), Must("mgmKey"), May("keygen"), Must("csr"), Must("import")>>

(* The FIDO2 and OTP half.                                                 *)
Tokens == <<Must("fidoPin"), May("minLength"), Must("credential"), May("forceChange"),
            Must("otpSlot"), Must("otpCode"), Must("verify")>>

Symmetry == Permutations(Desks) \cup Permutations(Runs)
=============================================================================
