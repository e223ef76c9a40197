---------------------------- MODULE Remote_proofs ----------------------------
(* What is kept or done elsewhere: registers in a synchronised folder       *)
(* (SyncLease) and on a file server (ShareDesk), and what the elevated      *)
(* helper does to a key (HelperService).                                    *)
EXTENDS SyncLease, ShareDesk, HelperService, FiniteSetTheorems, TLAPS

(***************************************************************************)
(* One program writes a register in a synchronised folder, for any number  *)
(* of programs and copies of the folder, however often they open, crash    *)
(* and renew and however the client carries the lock, while the assumption *)
(* the code makes of the client holds.                                     *)
(***************************************************************************)

(* A program that has read its own name again, until it removes the file.  *)
Holds(p) == at[p] \in {"opening", "open", "releasing", "removing"}

(* What the code counts on: a client that carries a change within the      *)
(* settling time, no lock broken, no program that went on without a lock.  *)
CountedOn == quick /\ left.break = TakeOvers /\ ~bare

LeftOK == left \in [open : [Programs -> Nat], break : 0..TakeOvers, mishap : Nat]

(* A folder at rest shows one lock file everywhere.                        *)
AtRest == changed = {} => \A c, d \in Copies : lock[c] = lock[d]

(* While a program holds it no other does, no copy shows another session's *)
(* lock or none, and the only change on its way is the holder's.           *)
SoleHolder ==
  CountedOn => \A p \in Programs : Holds(p) =>
    /\ changed \subseteq {At[p]} /\ \A c \in Copies : lock[c] \in {Me(p), Garbled}
    /\ \A r \in Programs : Holds(r) => r = p

NoBreak == left.break = TakeOvers => breaking = {}

LeaseInv == LeaseTypeOK /\ LeftOK /\ AtRest /\ NoBreak /\ SoleHolder
-----------------------------------------------------------------------------
LEMMA SessionsDiffer ==
  ASSUME LeaseTypeOK, NEW p \in Programs, NEW q \in Programs
  PROVE  /\ Me(p) = Me(q) => p = q
         /\ Me(p) \notin {None, Garbled} /\ Me(p) \in Files /\ At[p] \in Copies
<1>1. life[p] \in 0..Mishaps /\ 0..Mishaps \subseteq Nat
  BY LeaseAssumption DEF LeaseTypeOK, Places
<1> QED BY <1>1, LeaseAssumption DEF Me, Files

LEMMA LeaseBegins == LeaseInit => LeaseInv
<1> SUFFICES ASSUME LeaseInit PROVE LeaseInv
  OBVIOUS
<1>1. LeftOK
  BY LeaseAssumption DEF LeaseInit, LeftOK
<1>2. LeaseTypeOK
  <2>1. 0 \in 0..Mishaps
    BY LeaseAssumption
  <2> QED BY <2>1 DEF LeaseInit, LeaseTypeOK, Places, Files
<1>3. AtRest /\ NoBreak /\ SoleHolder
  BY DEF LeaseInit, AtRest, NoBreak, SoleHolder, Holds
<1> QED BY <1>1, <1>2, <1>3 DEF LeaseInv

(* A step that leaves the lock files and what is counted on alone, and     *)
(* makes no program a holder, changes nothing for those who are.           *)
LEMMA LockStands ==
  ASSUME LeaseInv, UNCHANGED <<lock, changed, life>>, CountedOn' => CountedOn,
         \A p \in Programs : Holds(p)' => Holds(p)
  PROVE  AtRest' /\ SoleHolder'
<1>1. AtRest'
  BY DEF LeaseInv, AtRest
<1>2. SoleHolder'
  BY DEF LeaseInv, SoleHolder, Me
<1> QED BY <1>1, <1>2

(* A program that writes the lock of its copy: what it may write keeps the *)
(* holder's everywhere.                                                    *)
LEMMA Written ==
  ASSUME LeaseInv, NEW p \in Programs, NEW f \in Files, WriteLock(p, f)
  PROVE  /\ lock' \in [Copies -> Files] /\ changed' \subseteq Copies /\ changed' # {}
         /\ At[p] \in Copies /\ changed' = changed \cup {At[p]}
         /\ \A c \in Copies : lock'[c] = IF c = At[p] THEN f ELSE lock[c]
BY LeaseAssumption DEF LeaseInv, LeaseTypeOK, Places, WriteLock

(* Two programs that count on the client are not holders at once.          *)
LEMMA OneHolder ==
  ASSUME LeaseInv, CountedOn, NEW p \in Programs, NEW q \in Programs, Holds(p), Holds(q)
  PROVE  p = q
BY DEF LeaseInv, SoleHolder

(* What a refused call takes from the bounds is one refusal.                *)
LEMMA Refused ==
  ASSUME LeftOK, Refusal
  PROVE  LeftOK' /\ left'.break = left.break
<1>1. left.mishap \in Nat /\ left.mishap > 0
  BY DEF LeftOK, Refusal
<1>2. left.mishap - 1 \in Nat
  BY <1>1
<1>3. left' = [left EXCEPT !.mishap = left.mishap - 1]
  BY DEF LeftOK, Refusal
<1> QED BY <1>2, <1>3 DEF LeftOK

LEMMA AskHolds ==
  ASSUME LeaseInv, NEW p \in Programs, NEW deliberate \in BOOLEAN, Ask(p, deliberate)
  PROVE  LeaseInv'
<1>1. /\ left' \in [open : [Programs -> Nat], break : 0..TakeOvers, mishap : Nat]
      /\ left'.break = IF deliberate THEN left.break - 1 ELSE left.break
      /\ left.break \in 0..TakeOvers /\ TakeOvers \in Nat
  <2>1. /\ left.open \in [Programs -> Nat] /\ left.break \in 0..TakeOvers /\ TakeOvers \in Nat
        /\ left.open[p] > 0 /\ (deliberate => left.break > 0)
    BY LeaseAssumption DEF LeaseInv, LeftOK, Ask
  <2>2. left' = [left EXCEPT !.open = [left.open EXCEPT ![p] = @ - 1],
                             !.break = IF deliberate THEN left.break - 1 ELSE left.break]
    BY DEF Ask, LeaseInv, LeftOK
  <2>3. [left.open EXCEPT ![p] = @ - 1] \in [Programs -> Nat]
    BY <2>1
  <2>4. (IF deliberate THEN left.break - 1 ELSE left.break) \in 0..TakeOvers
    BY <2>1
  <2> QED BY <2>1, <2>2, <2>3, <2>4 DEF LeaseInv, LeftOK
<1>2. LeaseTypeOK' /\ LeftOK'
  BY <1>1 DEF LeaseInv, LeaseTypeOK, Places, LeftOK, Ask, Goto
<1>3. NoBreak' /\ (CountedOn' => CountedOn)
  BY <1>1 DEF LeaseInv, NoBreak, CountedOn, Ask
<1>4. \A q \in Programs : Holds(q)' => Holds(q)
  BY DEF Ask, Goto, Holds, LeaseInv, LeaseTypeOK, Places
<1>5. AtRest' /\ SoleHolder'
  BY <1>3, <1>4, LockStands DEF Ask
<1> QED BY <1>2, <1>3, <1>5 DEF LeaseInv

(* A program that moves on without writing the lock and without coming to  *)
(* hold it.                                                                *)
LEMMA MovesOn ==
  ASSUME LeaseInv, NEW p \in Programs,
         UNCHANGED <<quick, lock, changed, life, breaking, bare>>, UNCHANGED left \/ Refusal,
         NEW there \in Places,
         Goto(p, there), there \in {"opening", "open", "releasing", "removing"} => Holds(p)
  PROVE  LeaseInv'
<1>0. LeftOK' /\ left'.break = left.break
  BY Refused DEF LeaseInv, LeftOK
<1>1. LeaseTypeOK' /\ NoBreak'
  BY <1>0 DEF LeaseInv, LeaseTypeOK, Places, NoBreak, Goto
<1>2. (CountedOn' => CountedOn) /\ \A q \in Programs : Holds(q)' => Holds(q)
  BY <1>0 DEF Goto, Holds, CountedOn, LeaseInv, LeaseTypeOK, Places
<1>3. AtRest' /\ SoleHolder'
  BY <1>2, LockStands
<1> QED BY <1>0, <1>1, <1>3 DEF LeaseInv

(* A program that writes the lock, where no other holds it, or because it  *)
(* does itself.                                                            *)
LEMMA LockIsWritten ==
  ASSUME LeaseInv, NEW p \in Programs, NEW f \in Files, WriteLock(p, f),
         UNCHANGED <<quick, life, breaking, bare>>, UNCHANGED left \/ Refusal,
         at' \in [Programs -> Places],
         \A q \in Programs \ {p} : Holds(q)' => Holds(q),
         CountedOn => \A q \in Programs \ {p} : ~Holds(q),
         CountedOn /\ Holds(p)' => Holds(p) /\ f \in {Me(p), Garbled}
  PROVE  LeaseInv'
<1>1. /\ lock' \in [Copies -> Files] /\ changed' \subseteq Copies /\ changed' # {}
      /\ At[p] \in Copies /\ changed' = changed \cup {At[p]}
      /\ \A c \in Copies : lock'[c] = IF c = At[p] THEN f ELSE lock[c]
  BY Written
<1>2. LeftOK' /\ left'.break = left.break
  BY Refused DEF LeaseInv, LeftOK
<1>3. LeaseTypeOK' /\ NoBreak' /\ AtRest'
  BY <1>1, <1>2 DEF LeaseInv, LeaseTypeOK, Places, NoBreak, AtRest
<1>4. SoleHolder'
  <2> SUFFICES ASSUME CountedOn', NEW q \in Programs, Holds(q)'
               PROVE  /\ changed' \subseteq {At[q]} /\ \A c \in Copies : lock'[c] \in {Me(q)', Garbled}
                      /\ \A r \in Programs : Holds(r)' => r = q
    BY DEF SoleHolder
  <2>1. CountedOn /\ (\A r \in Programs : Holds(r)' => r = p) /\ Me(p)' = Me(p)
    BY <1>2 DEF CountedOn, Me
  <2>2. q = p /\ Holds(p) /\ f \in {Me(p), Garbled}
    BY <2>1
  <2>3. changed \subseteq {At[p]} /\ \A c \in Copies : lock[c] \in {Me(p), Garbled}
    BY <2>1, <2>2 DEF LeaseInv, SoleHolder
  <2> QED BY <1>1, <2>1, <2>2, <2>3
<1> QED BY <1>2, <1>3, <1>4 DEF LeaseInv

LEMMA ReadLockHolds == ASSUME LeaseInv, NEW p \in Programs, ReadLock(p) PROVE LeaseInv'
<1>1. CASE lock[At[p]] # None /\ p \in breaking
  <2>1. ~CountedOn /\ None \in Files
    BY <1>1 DEF LeaseInv, NoBreak, CountedOn, Files
  <2>2. WriteLock(p, None) /\ Goto(p, "creating")
    BY <1>1 DEF ReadLock
  <2>3. \A q \in Programs \ {p} : Holds(q)' => Holds(q)
    BY <2>2 DEF Goto, Holds, LeaseInv, LeaseTypeOK, Places
  <2>4. at' \in [Programs -> Places]
    BY <2>2 DEF Goto, LeaseInv, LeaseTypeOK, Places
  <2> QED BY <2>1, <2>2, <2>3, <2>4, LockIsWritten DEF ReadLock
<1>2. CASE lock[At[p]] = None
  BY <1>2, MovesOn DEF Places, ReadLock
<1>3. CASE lock[At[p]] # None /\ p \notin breaking
  BY <1>3, MovesOn DEF Places, ReadLock
<1> QED BY <1>1, <1>2, <1>3

LEMMA CreateLockHolds == ASSUME LeaseInv, NEW p \in Programs, CreateLock(p) PROVE LeaseInv'
<1>1. CASE lock[At[p]] = None
  <2>1. WriteLock(p, Me(p)) /\ Goto(p, "waiting") /\ Me(p) \in Files /\ At[p] \in Copies
    BY <1>1, SessionsDiffer DEF CreateLock, LeaseInv
  <2>2. CountedOn => \A q \in Programs : ~Holds(q)
    <3> SUFFICES ASSUME CountedOn, NEW q \in Programs, Holds(q) PROVE FALSE
      OBVIOUS
    <3>1. None \in {Me(q), Garbled}
      BY <1>1, <2>1 DEF LeaseInv, SoleHolder
    <3> QED BY <3>1, SessionsDiffer, LeaseAssumption DEF LeaseInv
  <2>3. ~Holds(p)' /\ \A q \in Programs \ {p} : Holds(q)' => Holds(q)
    BY <2>1 DEF Goto, Holds, LeaseInv, LeaseTypeOK, Places
  <2>4. at' \in [Programs -> Places]
    BY <2>1 DEF Goto, LeaseInv, LeaseTypeOK, Places
  <2> QED BY <2>1, <2>2, <2>3, <2>4, LockIsWritten DEF CreateLock
<1>2. CASE lock[At[p]] # None
  BY <1>2, MovesOn DEF Places, CreateLock
<1> QED BY <1>1, <1>2

(* The name read again, once the folder is at rest, is everywhere.         *)
LEMMA ReadAgainHolds == ASSUME LeaseInv, NEW p \in Programs, ReadAgain(p) PROVE LeaseInv'
<1>1. LeaseTypeOK' /\ LeftOK' /\ NoBreak' /\ AtRest'
  BY DEF ReadAgain, Goto, LeaseInv, LeaseTypeOK, Places, LeftOK, NoBreak, AtRest
<1>2. SoleHolder'
  <2> SUFFICES ASSUME CountedOn', NEW q \in Programs, Holds(q)'
               PROVE  /\ changed' \subseteq {At[q]} /\ \A c \in Copies : lock'[c] \in {Me(q)', Garbled}
                      /\ \A r \in Programs : Holds(r)' => r = q
    BY DEF SoleHolder
  <2>1. CountedOn /\ lock[At[p]] # None /\ changed = {} /\ Me(q)' = Me(q)
    BY DEF CountedOn, ReadAgain, Me
  <2>2. \A r \in Programs \ {p} : Holds(r)' => Holds(r)
    BY DEF ReadAgain, Goto, Holds, LeaseInv, LeaseTypeOK, Places
  <2>3. CASE ~Holds(p)'
    BY <2>1, <2>2, <2>3 DEF LeaseInv, SoleHolder, ReadAgain
  <2>4. CASE Holds(p)'
    <3>1. lock[At[p]] = Me(p)
      BY <2>1, <2>4 DEF ReadAgain, Goto, Holds, Another, LeaseInv, LeaseTypeOK, Places
    <3>2. \A c \in Copies : lock[c] = Me(p)
      BY <2>1, <3>1, SessionsDiffer DEF LeaseInv, AtRest
    <3>3. ASSUME NEW r \in Programs, Holds(r) PROVE r = p
      <4>1. lock[At[p]] \in {Me(r), Garbled}
        BY <2>1, <3>3, SessionsDiffer DEF LeaseInv, SoleHolder
      <4> QED BY <3>1, <4>1, SessionsDiffer DEF LeaseInv
    <3>4. \A r \in Programs : Holds(r)' => r = p
      BY <2>2, <3>3
    <3> QED BY <2>1, <3>2, <3>4 DEF ReadAgain
  <2> QED BY <2>3, <2>4
<1> QED BY <1>1, <1>2 DEF LeaseInv

LEMMA RenewHolds == ASSUME LeaseInv, NEW p \in Programs, Renew(p) PROVE LeaseInv'
<1>1. Holds(p) /\ Me(p) \in Files
  BY SessionsDiffer DEF Renew, Holds, LeaseInv
<1>2. CASE Another(p)
  BY <1>1, <1>2, MovesOn DEF Places, Renew
<1>3. CASE ~Another(p)
  <2>1. WriteLock(p, Me(p)) /\ UNCHANGED at
    BY <1>3 DEF Renew
  <2>2. CountedOn => \A q \in Programs \ {p} : ~Holds(q)
    BY <1>1, OneHolder
  <2>3. \A q \in Programs : Holds(q)' => Holds(q)
    BY <2>1 DEF Holds
  <2>4. at' \in [Programs -> Places]
    BY <2>1 DEF LeaseInv, LeaseTypeOK, Places
  <2> QED BY <1>1, <2>1, <2>2, <2>3, <2>4, LockIsWritten DEF Renew
<1> QED BY <1>2, <1>3

LEMMA RemoveHolds == ASSUME LeaseInv, NEW p \in Programs, ReleaseRemove(p) PROVE LeaseInv'
<1>1. Holds(p) /\ None \in Files /\ WriteLock(p, None) /\ Goto(p, "closed")
  BY DEF ReleaseRemove, Holds, Files
<1>2. CountedOn => \A q \in Programs \ {p} : ~Holds(q)
  BY <1>1, OneHolder
<1>3. ~Holds(p)' /\ \A q \in Programs \ {p} : Holds(q)' => Holds(q)
  BY <1>1 DEF Goto, Holds, LeaseInv, LeaseTypeOK, Places
<1>4. at' \in [Programs -> Places]
  BY <1>1 DEF Goto, LeaseInv, LeaseTypeOK, Places
<1> QED BY <1>1, <1>2, <1>3, <1>4, LockIsWritten DEF ReleaseRemove

LEMMA CrashHolds == ASSUME LeaseInv, NEW p \in Programs, Crash(p) PROVE LeaseInv'
<1>1. LeftOK' /\ left'.break = left.break
  BY DEF Crash, LeaseInv, LeftOK
<1>2. LeaseTypeOK'
  <2>1. life' \in [Programs -> 0..Mishaps]
    BY LeaseAssumption DEF Crash, LeaseInv, LeaseTypeOK, Places
  <2> QED BY <2>1 DEF Crash, Goto, LeaseInv, LeaseTypeOK, Places
<1>3. NoBreak' /\ AtRest'
  BY <1>1 DEF Crash, LeaseInv, NoBreak, AtRest
<1>4. SoleHolder'
  <2> SUFFICES ASSUME CountedOn', NEW q \in Programs, Holds(q)'
               PROVE  /\ changed' \subseteq {At[q]} /\ \A c \in Copies : lock'[c] \in {Me(q)', Garbled}
                      /\ \A r \in Programs : Holds(r)' => r = q
    BY DEF SoleHolder
  <2>1. CountedOn /\ q # p /\ \A r \in Programs : Holds(r)' => Holds(r)
    BY <1>1 DEF CountedOn, Crash, Goto, Holds, LeaseInv, LeaseTypeOK, Places
  <2>2. Me(q)' = Me(q)
    BY <2>1 DEF Crash, Me, LeaseInv, LeaseTypeOK, Places
  <2> QED BY <2>1, <2>2 DEF Crash, LeaseInv, SoleHolder
<1> QED BY <1>1, <1>2, <1>3, <1>4 DEF LeaseInv

(* What the client carries is the holder's, whole or by half.              *)
LEMMA SyncHolds == ASSUME LeaseInv, Sync PROVE LeaseInv'
<1>1. /\ LeaseTypeOK' /\ LeftOK' /\ NoBreak'
      /\ UNCHANGED <<quick, at, life, bare, left>>
  BY DEF Sync, Carry, CarryHalf, LeaseInv, LeaseTypeOK, Places, LeftOK, NoBreak, Files
<1>2. AtRest'
  BY DEF Sync, Carry, CarryHalf, LeaseInv, AtRest
<1>3. SoleHolder'
  <2> SUFFICES ASSUME CountedOn', NEW q \in Programs, Holds(q)'
               PROVE  /\ changed' \subseteq {At[q]} /\ \A c \in Copies : lock'[c] \in {Me(q)', Garbled}
                      /\ \A r \in Programs : Holds(r)' => r = q
    BY DEF SoleHolder
  <2>1. Me(q)' = Me(q) /\ At[q] \in Copies
    BY <1>1, SessionsDiffer DEF Me, LeaseInv
  <2>2. /\ changed \subseteq {At[q]} /\ \A c \in Copies : lock[c] \in {Me(q), Garbled}
        /\ \A r \in Programs : Holds(r)' => r = q
    BY <1>1 DEF LeaseInv, SoleHolder, CountedOn, Holds
  <2>3. ASSUME NEW c \in Copies, Carry(c)
        PROVE  changed' = {} /\ \A d \in Copies : lock'[d] \in {Me(q), Garbled}
    BY <2>2, <2>3 DEF Carry
  <2>4. ASSUME NEW c \in Copies, NEW d \in Copies \ {c}, CarryHalf(c, d)
        PROVE  /\ changed' = changed /\ d # At[q]
               /\ \A e \in Copies : lock'[e] = IF e = d THEN Garbled ELSE lock[e]
    BY <2>2, <2>4 DEF CarryHalf, LeaseInv, LeaseTypeOK, Places
  <2>5. CASE \E c \in Copies : Carry(c)
    BY <2>1, <2>2, <2>3, <2>5
  <2>6. CASE \E c \in Copies : \E d \in Copies \ {c} : CarryHalf(c, d)
    BY <2>1, <2>2, <2>4, <2>6
  <2> QED BY <2>5, <2>6 DEF Sync
<1> QED BY <1>1, <1>2, <1>3 DEF LeaseInv

(* A refused call writes nothing, or what could be its own, where no other  *)
(* program holds the lock; or nothing is counted on any more.               *)
LEMMA TakingRefusedHolds == ASSUME LeaseInv, NEW p \in Programs, TakingRefused(p) PROVE LeaseInv'
<1>1. Refusal /\ UNCHANGED <<quick, life, breaking>>
  BY DEF TakingRefused
<1>2. CASE UNCHANGED <<lock, changed, bare>> /\ (Goto(p, "creating") \/ Goto(p, "closed"))
  BY <1>1, <1>2, MovesOn DEF Places
<1>3. ASSUME at[p] = "creating", lock[At[p]] = None, Goto(p, "closed"), UNCHANGED bare,
             NEW file \in {Me(p), Garbled}, WriteLock(p, file)
      PROVE  LeaseInv'
  <2>1. At[p] \in Copies /\ file \in Files
    BY SessionsDiffer DEF LeaseInv, Files
  <2>2. CountedOn => \A q \in Programs : ~Holds(q)
    <3> SUFFICES ASSUME CountedOn, NEW q \in Programs, Holds(q) PROVE FALSE
      OBVIOUS
    <3>1. None \in {Me(q), Garbled}
      BY <1>3, <2>1 DEF LeaseInv, SoleHolder
    <3> QED BY <3>1, SessionsDiffer, LeaseAssumption DEF LeaseInv
  <2>3. ~Holds(p)' /\ (\A q \in Programs \ {p} : Holds(q)' => Holds(q)) /\ at' \in [Programs -> Places]
    BY <1>3 DEF Goto, Holds, LeaseInv, LeaseTypeOK, Places
  <2> QED BY <1>1, <1>3, <2>1, <2>2, <2>3, LockIsWritten
<1>4. CASE UNCHANGED <<lock, changed>> /\ Goto(p, "opening") /\ bare' = TRUE
  <2>1. LeftOK' /\ left'.break = left.break
    BY <1>1, Refused DEF LeaseInv
  <2> QED BY <1>1, <1>4, <2>1
          DEF LeaseInv, LeaseTypeOK, Places, Goto, AtRest, NoBreak, SoleHolder, CountedOn
<1> QED BY <1>2, <1>3, <1>4 DEF TakingRefused

LEMMA KeepingRefusedHolds == ASSUME LeaseInv, NEW p \in Programs, KeepingRefused(p) PROVE LeaseInv'
<1>1. /\ Refusal /\ UNCHANGED <<quick, life, breaking, bare>>
      /\ Holds(p) /\ Me(p) \in Files /\ Garbled \in Files
  BY SessionsDiffer DEF KeepingRefused, Holds, LeaseInv, Files
<1>2. CASE UNCHANGED <<lock, changed>> /\ Goto(p, "releasing")
  BY <1>1, <1>2, MovesOn DEF Places
<1>3. CASE UNCHANGED <<lock, changed, at>>
  <2>1. Goto(p, at[p]) /\ at[p] \in Places
    BY <1>3 DEF Goto, LeaseInv, LeaseTypeOK
  <2> QED BY <1>1, <1>3, <2>1, MovesOn
<1>4. ASSUME NEW f \in {Me(p), Garbled}, WriteLock(p, f), UNCHANGED at PROVE LeaseInv'
  <2>1. CountedOn => \A q \in Programs \ {p} : ~Holds(q)
    BY <1>1, OneHolder
  <2>2. (\A q \in Programs : Holds(q)' => Holds(q)) /\ at' \in [Programs -> Places]
    BY <1>4 DEF Holds, LeaseInv, LeaseTypeOK, Places
  <2> QED BY <1>1, <1>4, <2>1, <2>2, LockIsWritten
<1> QED BY <1>2, <1>3, <1>4 DEF KeepingRefused

LEMMA GivingRefusedHolds == ASSUME LeaseInv, NEW p \in Programs, GivingRefused(p) PROVE LeaseInv'
<1>1. Holds(p) /\ Refusal /\ UNCHANGED <<quick, lock, changed, life, breaking, bare>>
  BY DEF GivingRefused, Holds
<1> QED BY <1>1, MovesOn DEF GivingRefused, Places

LEMMA LeaseInductive == LeaseInv /\ [LeaseNext]_leaseVars => LeaseInv'
<1> SUFFICES ASSUME LeaseInv, [LeaseNext]_leaseVars PROVE LeaseInv'
  OBVIOUS
<1>1. ASSUME NEW p \in Programs, FinishOpen(p) \/ OpenFails(p) \/ Close(p) \/ ReleaseRead(p) PROVE LeaseInv'
  <2>1. Holds(p)
    BY <1>1 DEF FinishOpen, OpenFails, Close, ReleaseRead, Holds
  <2> QED BY <1>1, <2>1, MovesOn DEF Places, FinishOpen, OpenFails, Close, ReleaseRead
<1>2. ASSUME NEW p \in Programs,
             (\E deliberate \in BOOLEAN : Ask(p, deliberate)) \/ Step(p) \/ Close(p) \/ Crash(p)
      PROVE  LeaseInv'
  BY <1>1, <1>2, AskHolds, ReadLockHolds, CreateLockHolds, ReadAgainHolds, RenewHolds, RemoveHolds, CrashHolds
     DEF Step
<1>4. ASSUME NEW p \in Programs, TakingRefused(p) \/ KeepingRefused(p) \/ GivingRefused(p) PROVE LeaseInv'
  BY <1>4, TakingRefusedHolds, KeepingRefusedHolds, GivingRefusedHolds
<1>3. CASE UNCHANGED leaseVars
  BY <1>3 DEF leaseVars, LeaseInv, LeaseTypeOK, Places, LeftOK, AtRest, NoBreak, SoleHolder, CountedOn,
       Holds, Me
<1> QED BY <1>2, <1>3, <1>4, SyncHolds DEF LeaseNext

(* Of any number of programs on any number of copies, one at most has the  *)
(* register open (Lease::acquire, renew_lease and release in cloud.rs).    *)
THEOREM OneWriterEver == LeaseSpec => []OneWriter
<1>1. LeaseInv => OneWriter
  <2> SUFFICES ASSUME LeaseInv, CountedOn PROVE Cardinality(Opened) <= 1
    BY DEF OneWriter, OneWriterAlways, CountedOn
  <2>1. \A p, q \in Opened : p = q
    BY OneHolder DEF Opened, Holds
  <2>2. ASSUME Opened = {} PROVE Cardinality(Opened) <= 1
    BY <2>2, FS_EmptySet
  <2>3. ASSUME NEW p \in Opened PROVE Cardinality(Opened) <= 1
    <3>1. Opened = {p}
      BY <2>1
    <3>2. Cardinality({p}) = 1
      BY FS_Singleton
    <3>3. Cardinality(Opened) = 1
      BY <3>1, <3>2, Zenon
    <3> QED BY <3>3
  <2> QED BY <2>2, <2>3
<1> QED BY <1>1, LeaseBegins, LeaseInductive, PTL DEF LeaseSpec

(***************************************************************************)
(* A lock goes with the program that made it, if none crashes and no call  *)
(* on the file is refused, whether the client is quick or not and whoever  *)
(* breaks locks.                                                           *)
(***************************************************************************)

(* Where a program looks for its own name again before it leaves.           *)
Looks(p) == at[p] \in {"waiting", "opening", "open", "releasing", "removing"}

Orderly == left.mishap = Mishaps

(* A change on its way was made by a program of that copy.                  *)
OwnChange(c) == lock[c] = None \/ \E q \in Programs : At[q] = c /\ lock[c] = Me(q)
Named(c) == lock[c] \in {None, Garbled} \/ \E q \in Programs : lock[c] = Me(q)
Looked(p) == lock[At[p]] = Me(p) => Looks(p)

OrphanInv ==
  /\ left.mishap \in 0..Mishaps
  /\ Orderly => /\ \A c \in Copies : Named(c)
                /\ \A c \in changed : OwnChange(c)
                /\ changed = {} => \A c \in Copies : lock[c] # Garbled
                /\ \A p \in Programs : Looked(p)

(* A program that goes its way leaves only when the file is not its own.    *)
LEMMA OrphanMoves ==
  ASSUME OrphanInv, UNCHANGED <<lock, changed, life, left>>,
         \A p \in Programs : Looked(p)'
  PROVE  OrphanInv'
BY DEF OrphanInv, Orderly, Named, OwnChange, Me

LEMMA OrphanGoes ==
  ASSUME LeaseInv, OrphanInv, NEW p \in Programs, NEW there \in Places, Goto(p, there),
         UNCHANGED <<lock, changed, life, left>>,
         Orderly /\ lock[At[p]] = Me(p) /\ Looks(p) =>
           there \in {"waiting", "opening", "open", "releasing", "removing"}
  PROVE  OrphanInv'
<1>1. CASE ~Orderly
  BY <1>1 DEF OrphanInv, Orderly
<1>2. CASE Orderly
  <2>1. ASSUME NEW q \in Programs PROVE Looked(q)'
    <3>1. Looked(q)
      BY <1>2 DEF OrphanInv
    <3>2. at'[q] = IF q = p THEN there ELSE at[q]
      BY DEF Goto, LeaseInv, LeaseTypeOK
    <3> QED BY <1>2, <3>1, <3>2 DEF Looked, Looks, Me
  <2> QED BY <2>1, OrphanMoves
<1> QED BY <1>1, <1>2

LEMMA OrphanWrites ==
  ASSUME LeaseInv, OrphanInv, NEW p \in Programs, NEW f \in {None, Me(p)}, WriteLock(p, f),
         UNCHANGED <<life, left>>, f = Me(p) => Looks(p)',
         \A q \in Programs \ {p} : at'[q] = at[q]
  PROVE  OrphanInv'
<1>1. /\ changed' # {} /\ At[p] \in Copies /\ changed' = changed \cup {At[p]}
      /\ \A c \in Copies : lock'[c] = IF c = At[p] THEN f ELSE lock[c]
  BY Written, SessionsDiffer DEF LeaseInv, Files
<1>2. CASE ~Orderly
  BY <1>2 DEF OrphanInv, Orderly
<1>3. CASE Orderly
  <2>1. \A q \in Programs : Me(q)' = Me(q)
    BY DEF Me
  <2>2. ASSUME NEW c \in Copies PROVE Named(c)'
    BY <1>1, <1>3, <2>1 DEF OrphanInv, Named
  <2>3. ASSUME NEW c \in changed' PROVE OwnChange(c)'
    <3>1. c \in Copies
      BY <1>1, <2>3 DEF LeaseInv, LeaseTypeOK
    <3>2. CASE c = At[p]
      BY <1>1, <2>1, <3>2 DEF OwnChange
    <3>3. CASE c # At[p]
      <4>1. OwnChange(c)
        BY <1>1, <1>3, <3>3 DEF OrphanInv
      <4> QED BY <1>1, <2>1, <3>1, <3>3, <4>1 DEF OwnChange
    <3> QED BY <3>2, <3>3
  <2>4. ASSUME NEW q \in Programs PROVE Looked(q)'
    <3>1. CASE q = p
      <4>1. f # Me(p) => lock'[At[p]] # Me(p)
        BY <1>1, SessionsDiffer DEF LeaseInv
      <4> QED BY <2>1, <3>1, <4>1 DEF Looked
    <3>2. CASE q # p
      <4>1. At[q] \in Copies /\ f # Me(q)
        BY <3>2, SessionsDiffer DEF LeaseInv
      <4>2. Looked(q)
        BY <1>3 DEF OrphanInv
      <4> QED BY <1>1, <2>1, <3>2, <4>1, <4>2 DEF Looked, Looks
    <3> QED BY <3>1, <3>2
  <2> QED BY <1>1, <2>2, <2>3, <2>4 DEF OrphanInv
<1> QED BY <1>2, <1>3

(* What the client carries, whole or by half, is a change of somebody's.    *)
LEMMA OrphanCarries ==
  ASSUME LeaseInv, OrphanInv, NEW c \in Copies, Carry(c)
  PROVE  OrphanInv'
<1>1. /\ c \in changed /\ changed' = {} /\ UNCHANGED <<at, life, left>>
      /\ \A d \in Copies : lock'[d] = lock[c]
  BY DEF Carry
<1>2. CASE ~Orderly
  BY <1>1, <1>2 DEF OrphanInv, Orderly
<1>3. CASE Orderly
  <2>1. \A q \in Programs : Me(q)' = Me(q) /\ At[q] \in Copies /\ Me(q) \notin {None, Garbled}
    BY <1>1, SessionsDiffer DEF Me, LeaseInv
  <2>2. OwnChange(c)
    BY <1>1, <1>3 DEF OrphanInv
  <2>3. \A d \in Copies : lock'[d] # Garbled /\ Named(d)'
    BY <1>1, <2>1, <2>2, LeaseAssumption DEF OwnChange, Named
  <2>4. ASSUME NEW q \in Programs PROVE Looked(q)'
    <3>1. lock[c] = Me(q) => At[q] = c
      BY <2>1, <2>2, SessionsDiffer DEF OwnChange, LeaseInv
    <3>2. Looked(q)
      BY <1>3 DEF OrphanInv
    <3> QED BY <1>1, <2>1, <3>1, <3>2 DEF Looked, Looks
  <2> QED BY <1>1, <2>3, <2>4 DEF OrphanInv
<1> QED BY <1>2, <1>3

LEMMA OrphanHalves ==
  ASSUME LeaseInv, OrphanInv, NEW c \in Copies, NEW d \in Copies \ {c}, CarryHalf(c, d)
  PROVE  OrphanInv'
<1>1. /\ c \in changed /\ d \notin changed /\ UNCHANGED <<changed, at, life, left>>
      /\ \A e \in Copies : lock'[e] = IF e = d THEN Garbled ELSE lock[e]
  BY DEF CarryHalf, LeaseInv, LeaseTypeOK
<1>2. CASE ~Orderly
  BY <1>1, <1>2 DEF OrphanInv, Orderly
<1>3. CASE Orderly
  <2>1. \A q \in Programs : Me(q)' = Me(q) /\ At[q] \in Copies /\ Me(q) # Garbled
    BY <1>1, SessionsDiffer DEF Me, LeaseInv
  <2>2. \A e \in Copies : Named(e)'
    BY <1>1, <1>3, <2>1 DEF OrphanInv, Named
  <2>3. ASSUME NEW e \in changed' PROVE OwnChange(e)'
    <3>1. e \in Copies /\ e # d /\ OwnChange(e)
      BY <1>1, <1>3 DEF OrphanInv, LeaseInv, LeaseTypeOK
    <3> QED BY <1>1, <2>1, <3>1 DEF OwnChange
  <2>4. ASSUME NEW q \in Programs PROVE Looked(q)'
    <3>1. Looked(q)
      BY <1>3 DEF OrphanInv
    <3> QED BY <1>1, <2>1, <3>1 DEF Looked, Looks
  <2> QED BY <1>1, <2>2, <2>3, <2>4 DEF OrphanInv
<1> QED BY <1>2, <1>3

(* A step of a program.                                                     *)
LEMMA OrphanStep ==
  ASSUME LeaseInv, OrphanInv, NEW p \in Programs, Step(p) \/ Close(p)
  PROVE  OrphanInv'
<1>1. CASE ReadLock(p)
  <2>1. CASE lock[At[p]] # None /\ p \in breaking
    <3>1. WriteLock(p, None) /\ Goto(p, "creating") /\ UNCHANGED <<life, left>>
      BY <1>1, <2>1 DEF ReadLock
    <3>2. \A q \in Programs \ {p} : at'[q] = at[q]
      BY <3>1 DEF Goto, LeaseInv, LeaseTypeOK
    <3>3. None # Me(p)
      BY SessionsDiffer DEF LeaseInv
    <3> QED BY <3>1, <3>2, <3>3, OrphanWrites
  <2>2. CASE ~(lock[At[p]] # None /\ p \in breaking)
    <3>1. ~Looks(p) /\ UNCHANGED <<lock, changed, life, left>>
      BY <1>1, <2>2 DEF ReadLock, Looks
    <3>2. Goto(p, "creating") \/ Goto(p, "closed")
      BY <1>1, <2>2 DEF ReadLock
    <3> QED BY <3>1, <3>2, OrphanGoes DEF Places
  <2> QED BY <2>1, <2>2
<1>2. CASE CreateLock(p)
  <2>1. CASE lock[At[p]] = None
    <3>1. WriteLock(p, Me(p)) /\ Goto(p, "waiting") /\ UNCHANGED <<life, left>>
      BY <1>2, <2>1 DEF CreateLock
    <3>2. Looks(p)' /\ \A q \in Programs \ {p} : at'[q] = at[q]
      BY <3>1 DEF Goto, Looks, LeaseInv, LeaseTypeOK
    <3> QED BY <3>1, <3>2, OrphanWrites
  <2>2. CASE lock[At[p]] # None
    <3>1. ~Looks(p) /\ Goto(p, "closed") /\ UNCHANGED <<lock, changed, life, left>>
      BY <1>2, <2>2 DEF CreateLock, Looks
    <3> QED BY <3>1, OrphanGoes DEF Places
  <2> QED BY <2>1, <2>2
<1>3. CASE ReadAgain(p) \/ ReleaseRead(p)
  <2>1. UNCHANGED <<lock, changed, life, left>>
    BY <1>3 DEF ReadAgain, ReleaseRead
  <2>2. CASE Another(p)
    <3>1. Goto(p, "closed") /\ lock[At[p]] # Me(p)
      BY <1>3, <2>2 DEF ReadAgain, ReleaseRead, Another
    <3> QED BY <2>1, <3>1, OrphanGoes DEF Places
  <2>3. CASE ~Another(p)
    <3>1. Goto(p, "opening") \/ Goto(p, "removing")
      BY <1>3, <2>3 DEF ReadAgain, ReleaseRead
    <3> QED BY <2>1, <3>1, OrphanGoes DEF Places
  <2> QED BY <2>2, <2>3
<1>4. CASE FinishOpen(p) \/ OpenFails(p) \/ Close(p)
  <2>1. UNCHANGED <<lock, changed, life, left>> /\ (Goto(p, "open") \/ Goto(p, "releasing"))
    BY <1>4 DEF FinishOpen, OpenFails, Close
  <2> QED BY <2>1, OrphanGoes DEF Places
<1>5. CASE Renew(p)
  <2>1. CASE Another(p)
    <3>1. UNCHANGED <<lock, changed, life, left>> /\ Goto(p, "releasing")
      BY <1>5, <2>1 DEF Renew
    <3> QED BY <3>1, OrphanGoes DEF Places
  <2>2. CASE ~Another(p)
    <3>1. /\ WriteLock(p, Me(p)) /\ UNCHANGED <<at, life, left>> /\ Looks(p)'
      BY <1>5, <2>2 DEF Renew, Looks
    <3> QED BY <3>1, OrphanWrites
  <2> QED BY <2>1, <2>2
<1>6. CASE ReleaseRemove(p)
  <2>1. WriteLock(p, None) /\ Goto(p, "closed") /\ UNCHANGED <<life, left>>
    BY <1>6 DEF ReleaseRemove
  <2>2. None # Me(p) /\ \A q \in Programs \ {p} : at'[q] = at[q]
    BY <2>1, SessionsDiffer DEF Goto, LeaseInv, LeaseTypeOK
  <2> QED BY <2>1, <2>2, OrphanWrites
<1> QED BY <1>1, <1>2, <1>3, <1>4, <1>5, <1>6 DEF Step

LEMMA OrphanAsks ==
  ASSUME LeaseInv, OrphanInv, NEW p \in Programs, NEW deliberate \in BOOLEAN,
         Ask(p, deliberate)
  PROVE  OrphanInv'
<1>1. left'.mishap = left.mishap /\ UNCHANGED <<lock, changed, life>>
  BY DEF Ask, LeaseInv, LeftOK
<1>2. CASE ~Orderly
  BY <1>1, <1>2 DEF OrphanInv, Orderly
<1>3. CASE Orderly
  <2>1. ASSUME NEW q \in Programs PROVE Looked(q)'
    <3>1. Looked(q)
      BY <1>3 DEF OrphanInv
    <3>2. Looks(q) => Looks(q)'
      BY DEF Ask, Goto, Looks, LeaseInv, LeaseTypeOK
    <3> QED BY <1>1, <3>1, <3>2 DEF Looked, Me
  <2> QED BY <1>1, <1>3, <2>1 DEF OrphanInv, Orderly, Named, OwnChange, Me
<1> QED BY <1>2, <1>3

(* From the first crash or refusal on nothing is promised.                  *)
LEMMA OrphanMishap ==
  ASSUME LeaseInv, OrphanInv, Refusal
  PROVE  OrphanInv'
<1>1. left'.mishap = left.mishap - 1 /\ left.mishap > 0
  BY DEF Refusal, LeaseInv, LeftOK
<1>2. left.mishap \in 0..Mishaps /\ Mishaps \in Nat
  BY LeaseAssumption DEF OrphanInv
<1>3. left'.mishap \in 0..Mishaps /\ left'.mishap # Mishaps
  BY <1>1, <1>2
<1> QED BY <1>3 DEF OrphanInv, Orderly

LEMMA OrphanInductive ==
  ASSUME LeaseInv, OrphanInv, [LeaseNext]_leaseVars
  PROVE  OrphanInv'
<1>1. CASE UNCHANGED leaseVars
  BY <1>1 DEF leaseVars, OrphanInv, Orderly, Named, OwnChange, Looked, Looks, Me
<1>2. ASSUME NEW p \in Programs, Crash(p) \/ TakingRefused(p) \/ KeepingRefused(p) \/ GivingRefused(p)
      PROVE  Refusal
  BY <1>2 DEF Crash, TakingRefused, KeepingRefused, GivingRefused, Refusal
<1> QED BY <1>1, <1>2, OrphanStep, OrphanAsks, OrphanMishap, OrphanCarries, OrphanHalves
        DEF LeaseNext, Sync

(* A refused, failed or lost opening, and one that broke another's lock,    *)
(* leaves no lock file behind in any copy, while no program crashes and no  *)
(* call on the file is refused (Lease::acquire, remove_our_lock).           *)
THEOREM NoOrphanLockEver == LeaseSpec => []NoOrphanLock
<1>1. LeaseInit => OrphanInv
  <2> SUFFICES ASSUME LeaseInit PROVE OrphanInv
    OBVIOUS
  <2>1. left.mishap \in 0..Mishaps
    BY LeaseAssumption DEF LeaseInit
  <2>2. \A c \in Copies : lock[c] = None
    BY DEF LeaseInit
  <2>3. \A p \in Programs : lock[At[p]] # Me(p)
    BY <2>2, LeaseBegins, SessionsDiffer DEF LeaseInv
  <2> QED BY <2>1, <2>2, <2>3, LeaseAssumption DEF LeaseInit, OrphanInv, Named, Looked
<1>2. LeaseInv /\ OrphanInv => NoOrphanLock
  <2> SUFFICES ASSUME LeaseInv, OrphanInv, Orderly, changed = {},
                      \A p \in Programs : at[p] = "closed", NEW c \in Copies
               PROVE  lock[c] = None
    BY DEF NoOrphanLock, Orderly
  <2>1. lock[c] # Garbled /\ Named(c)
    BY DEF OrphanInv
  <2>2. ASSUME NEW q \in Programs, lock[c] = Me(q) PROVE FALSE
    <3>1. lock[At[q]] = Me(q)
      BY <2>2, SessionsDiffer DEF LeaseInv, AtRest
    <3>2. Looks(q)
      BY <3>1 DEF OrphanInv, Looked
    <3> QED BY <3>2 DEF Looks
  <2> QED BY <2>1, <2>2 DEF Named
<1> QED BY <1>1, <1>2, LeaseBegins, LeaseInductive, OrphanInductive, PTL DEF LeaseSpec

(***************************************************************************)
(* What one workstation mounts for a register it unmounts.                  *)
(***************************************************************************)

(* The connection goes with the register it was made for, and somebody      *)
(* else's mount is not returned.                                            *)
ShareInv ==
  /\ mount \in {"none", "ours", "theirs"} /\ held \in {"none", "ours", "theirs"}
  /\ stuck \in BOOLEAN
  /\ place # "share" => held = "none"
  /\ MountsAreReturned

LEMMA ReleaseKeeps ==
  ASSUME NEW connection \in {"none", "ours", "theirs"}, NEW m \in {"none", "ours", "theirs"},
         stuck \in BOOLEAN, Release(connection, m), held' = "none",
         m = "ours" => connection = "ours" \/ stuck
  PROVE  ShareInv'
<1>1. CASE mount' = (IF connection = "ours" THEN "none" ELSE m) /\ UNCHANGED stuck
  BY <1>1, Zenon DEF ShareInv, MountsAreReturned
<1>2. CASE connection = "ours" /\ mount' = m /\ stuck' = TRUE
  BY <1>2, Zenon DEF ShareInv, MountsAreReturned
<1> QED BY <1>1, <1>2 DEF Release

(* An opening, through the mount m, that found our mount only if it is held *)
(* for it or could not be returned.                                         *)
LEMMA SettleKeeps ==
  ASSUME ShareInv, NEW connection \in {"none", "ours", "theirs"},
         NEW m \in {"none", "ours", "theirs"}, NEW password, NEW save, NEW access,
         Settle(connection, m, password, save, access),
         m = "ours" => connection = "ours" \/ stuck \/ (connection = "none" /\ held = "ours")
  PROVE  ShareInv'
<1>1. CASE Outcome(m, password) = "opened"
  <2>1. /\ connection # "none" => place' = "share"
        /\ held' = connection /\ mount' = m
        /\ stuck' = (stuck \/ (held = "ours" /\ m = "ours"))
    BY <1>1 DEF Settle
  <2>2. /\ mount' \in {"none", "ours", "theirs"} /\ held' \in {"none", "ours", "theirs"}
        /\ place' # "share" => held' = "none"
    BY <2>1
  <2>3. stuck' \in BOOLEAN /\ (mount' = "ours" => held' = "ours" \/ stuck')
    BY <2>1, Zenon DEF ShareInv
  <2> QED BY <2>2, <2>3 DEF ShareInv, MountsAreReturned
<1>2. CASE Outcome(m, password) # "opened" /\ connection = "none"
  <2>1. /\ held' = "none" /\ mount' = m
        /\ stuck' = (stuck \/ (held = "ours" /\ m = "ours"))
    BY <1>2 DEF Settle
  <2> QED BY <1>2, <2>1, Zenon DEF ShareInv, MountsAreReturned
<1>3. CASE Outcome(m, password) # "opened" /\ connection # "none"
  <2>1. held' = "none" /\ Release(connection, m)
    BY <1>3 DEF Settle
  <2>2. m = "ours" => connection = "ours" \/ stuck
    BY <1>3, Zenon
  <2>3. stuck \in BOOLEAN
    BY Zenon DEF ShareInv
  <2> QED BY <2>1, <2>2, <2>3, ReleaseKeeps, Zenon
<1> QED BY <1>1, <1>2, <1>3

LEMMA DroppedKeeps ==
  ASSUME ShareInv, NEW access \in Accesses, Dropped(access)
  PROVE  ShareInv'
BY ReleaseKeeps DEF Dropped, ShareInv, MountsAreReturned

(* Through a share: what is mounted is somebody's, or is mounted now.       *)
LEMMA AttachedKeeps ==
  ASSUME ShareInv, place = "none", NEW connection \in {"ours", "theirs"},
         NEW m \in {"ours", "theirs"}, NEW password, NEW save, NEW access,
         Attach(mount, connection, m), Settle(connection, m, password, save, access)
  PROVE  ShareInv'
<1>1. m = "ours" => connection = "ours" \/ stuck
  BY Zenon DEF Attach, ShareInv, MountsAreReturned
<1> QED BY <1>1, SettleKeeps

LEMMA OpenPathKeeps ==
  ASSUME ShareInv, NEW password, NEW save, OpenPath(password, save)
  PROVE  ShareInv'
<1>1. PICK m \in Left :
        \/ /\ held' = "none" /\ mount' = m
           /\ stuck' = (stuck \/ (held = "ours" /\ m = "ours"))
        \/ Settle("none", m, password, save, lostShare)
  BY DEF OpenPath
<1>2. m \in {"none", "ours", "theirs"} /\ (m = "ours" => stuck \/ held = "ours")
  BY Zenon DEF Left, ShareInv, MountsAreReturned
<1>3. CASE /\ held' = "none" /\ mount' = m
           /\ stuck' = (stuck \/ (held = "ours" /\ m = "ours"))
  BY <1>2, <1>3, Zenon DEF ShareInv, MountsAreReturned
<1>4. CASE Settle("none", m, password, save, lostShare)
  BY <1>2, <1>4, SettleKeeps
<1> QED BY <1>1, <1>3, <1>4

LEMMA ShareNextKeeps ==
  ASSUME ShareInv, [ShareNext]_shareVars
  PROVE  ShareInv'
<1>1. CASE UNCHANGED <<mount, held, place, stuck>>
  BY <1>1 DEF ShareInv, MountsAreReturned
<1>2. CASE ConnectFails \/ ReconnectFails \/ WorkElsewhere \/ SavePassword \/ ForgetPassword
           \/ DelayPasses \/ PasswordChanges \/ UNCHANGED shareVars
  BY <1>1, <1>2 DEF ConnectFails, ReconnectFails, WorkElsewhere, SavePassword, ForgetPassword,
                    DelayPasses, PasswordChanges, shareVars
<1>3. CASE CloseShare
  BY <1>3, ReleaseKeeps DEF CloseShare, ShareInv, MountsAreReturned
<1>4. CASE Server \/ SomebodyMounts
  <2>1. mount' \in {mount, "none", "theirs"} /\ UNCHANGED <<held, place, stuck>>
    BY <1>4 DEF Server, SomebodyMounts
  <2> QED BY <2>1, Zenon DEF ShareInv, MountsAreReturned
<1>5. ASSUME NEW access \in Accesses, Tick(access) \/ ConnectionDies(access)
      PROVE  ShareInv'
  <2>1. CASE Dropped(access)
    BY <2>1, DroppedKeeps
  <2>2. CASE UNCHANGED <<mount, held, stuck>> /\ place # "share" /\ place' # "share"
    BY <2>2 DEF ShareInv, MountsAreReturned
  <2> QED BY <1>5, <2>1, <2>2 DEF Tick, ConnectionDies
<1>6. ASSUME NEW password \in Given, NEW save \in BOOLEAN,
             OpenPath(password, save) \/ Reconnect(password, save) \/ Connect(password, save)
      PROVE  ShareInv'
  BY <1>6, OpenPathKeeps, AttachedKeeps DEF Reconnect, Connect
<1> QED BY <1>2, <1>3, <1>4, <1>5, <1>6 DEF ShareNext

(* A share this session mounted is mounted only while the session holds it: *)
(* every way an opening can fail, a register be closed, lost, or left for   *)
(* another gives the mount back, or tried to (ShareConnection's release and *)
(* Drop).                                                                   *)
THEOREM MountsAreReturnedEver == ShareSpec => []MountsAreReturned
<1>1. ShareInit => ShareInv
  BY DEF ShareInit, ShareInv, MountsAreReturned
<1>2. ShareInv /\ [ShareNext]_shareVars => ShareInv'
  BY ShareNextKeeps
<1>3. ShareInv => MountsAreReturned
  BY DEF ShareInv
<1> QED BY <1>1, <1>2, <1>3, PTL DEF ShareSpec

(***************************************************************************)
(* What a program is told by the elevated helper, for any number of        *)
(* programs and requests, whoever dies and whenever the service is stopped *)
(* or started again.                                                       *)
(***************************************************************************)

(* Where a request may still be carried out from: its program has yet to   *)
(* send it, it lies in the pipe, or the service has it in hand.            *)
Unsent(a, n) == n > caller[a].n \/ (n = caller[a].n /\ caller[a].access = "helper"
                                      /\ caller[a].at \in {"asking", "busy"})
Lying(a, n) == pipe.request = <<a, n>>
InHand(a, n) == service.at = "performing" /\ service.doing = <<a, n>>

(* A request is in one of them at a time, and not carried out before it    *)
(* has left them all.                                                      *)
OncePending ==
  \A a \in Callers, n \in 1..Asks :
    /\ ~(Unsent(a, n) /\ Lying(a, n)) /\ ~(Unsent(a, n) /\ InHand(a, n)) /\ ~(Lying(a, n) /\ InHand(a, n))
    /\ Unsent(a, n) \/ Lying(a, n) \/ InHand(a, n) => applied[<<a, n>>] = 0
    /\ applied[<<a, n>>] \in {0, 1}

Over(a, n) == ~Unsent(a, n) /\ ~Lying(a, n) /\ ~InHand(a, n)
True(a, n, outcome) == /\ Over(a, n)
                       /\ outcome = "done" => applied[<<a, n>>] = 1
                       /\ outcome = "refused" => applied[<<a, n>>] = 0
                       /\ outcome # "pong"

(* What was told is so and will stay so.                                   *)
ToldIsSo == \A a \in Callers, n \in 1..Asks, outcome \in {"done", "refused", "pong"} :
              <<<<a, n>>, outcome>> \in answers => True(a, n, outcome)

(* What the service is about to answer is so of what it did.               *)
AnswerIsSo == \A a \in Callers, n \in 1..Asks :
  /\ service.at = "answering" \/ (service.at = "hanging" /\ pipe.state = "open" /\ pipe.reply # NoReply)
  /\ service.doing = <<a, n>>
  => True(a, n, service.outcome)

(* An open pipe is the asker's, who waits; the request in it, what the     *)
(* service has in hand and the reply in it are that program's.             *)
PipeIsTheAskers ==
  /\ pipe.state = "open" =>
       /\ pipe.who \in Callers /\ caller[pipe.who].at = "sent"
       /\ pipe.request # NoRequest => pipe.request = Request(pipe.who)
       /\ service.at \in {"performing", "answering"} => service.doing = Request(pipe.who)
       /\ service.at \notin {"performing", "answering", "hanging"} => pipe.request # NoRequest
       /\ pipe.reply # NoReply => /\ service.at = "hanging" /\ service.doing = Request(pipe.who)
                                  /\ pipe.reply = service.outcome
  /\ pipe.state \in {"gone", "listening", "dropped"} =>
       pipe.who = NoCaller /\ pipe.request = NoRequest /\ pipe.reply = NoReply
  /\ service.at \in {"reading", "performing", "answering", "hanging"} => pipe.state \in {"open", "left"}
  /\ service.at = "down" => pipe.state = "gone"

AskersHope == \A a \in Callers : caller[a].at # "idle" => caller[a].access # "none"

HelperInv == HelperTypeOK /\ OncePending /\ ToldIsSo /\ AnswerIsSo /\ PipeIsTheAskers /\ AskersHope
-----------------------------------------------------------------------------
LEMMA WritesAre == /\ \A a \in Callers, n \in 1..Asks : <<a, n>> \in Writes
                   /\ \A w \in Writes : \E a \in Callers, n \in 1..Asks : w = <<a, n>>
BY DEF Writes

(* No program is the one that is none.                                     *)
LEMMA RequestOK ==
  ASSUME HelperTypeOK, NEW a \in Callers
  PROVE  Request(a) \in Requests /\ Request(a) # NoRequest /\ a # NoCaller
<1>1. caller[a].n \in 0..Asks /\ 0 \in 0..Asks /\ Asks \in Nat /\ a # NoCaller
  BY HelperAssumption DEF HelperTypeOK, CallerStates
<1> QED BY <1>1 DEF Request, Requests, NoRequest

LEMMA InitOK == HelperInit => HelperInv
<1> SUFFICES ASSUME HelperInit PROVE HelperInv
  OBVIOUS
<1> USE DEF HelperInit, Fresh, NoPipe, Resting, NoReply, NoRequest
<1>1. HelperTypeOK
  BY HelperAssumption DEF HelperTypeOK, Requests, Outcomes, CallerStates, Pipes, Loop
<1>2. \A a \in Callers, n \in 1..Asks : applied[<<a, n>>] = 0 /\ ~Lying(a, n) /\ ~InHand(a, n)
  BY WritesAre, HelperAssumption DEF Lying, InHand, NoCaller
<1>3. OncePending
  BY <1>2 DEF OncePending
<1>4. ToldIsSo /\ AnswerIsSo /\ PipeIsTheAskers /\ AskersHope
  BY DEF ToldIsSo, AnswerIsSo, PipeIsTheAskers, AskersHope
<1> QED BY <1>1, <1>3, <1>4 DEF HelperInv

(* A program that moves leaves the others where they are.                  *)
LEMMA CallerMoves ==
  ASSUME HelperTypeOK, NEW a \in Callers, NEW r \in CallerStates, caller' = [caller EXCEPT ![a] = r]
  PROVE  /\ caller' \in [Callers -> CallerStates]
         /\ \A b \in Callers : caller'[b] = IF b = a THEN r ELSE caller[b]
BY DEF HelperTypeOK

(* Nothing is asked anew by a program that keeps its count and does not go *)
(* back to asking: no condition but the pipe's depends on where it is.     *)
LEMMA NoneAsked ==
  ASSUME HelperInv, UNCHANGED <<service, applied>>, pipe'.request \in {pipe.request, NoRequest},
         \A a \in Callers, n \in 1..Asks : Unsent(a, n)' => Unsent(a, n),
         \A a \in Callers, n \in 1..Asks, o \in {"done", "refused", "pong"} :
           <<<<a, n>>, o>> \in answers' => <<<<a, n>>, o>> \in answers \/ True(a, n, o),
         pipe'.state = "open" => UNCHANGED <<pipe>>
  PROVE  OncePending' /\ ToldIsSo' /\ AnswerIsSo'
<1>1. \A a \in Callers, n \in 1..Asks : Lying(a, n)' => Lying(a, n)
  BY HelperAssumption DEF Lying, NoRequest
<1>2. \A a \in Callers, n \in 1..Asks : InHand(a, n)' <=> InHand(a, n)
  BY DEF InHand
<1>3. OncePending'
  BY <1>1, <1>2 DEF HelperInv, OncePending
<1>4. \A a \in Callers, n \in 1..Asks : \A o : True(a, n, o) => True(a, n, o)'
  BY <1>1, <1>2 DEF True, Over
<1>5. ToldIsSo'
  BY <1>4 DEF HelperInv, ToldIsSo
<1>6. AnswerIsSo'
  BY <1>4 DEF HelperInv, AnswerIsSo
<1> QED BY <1>3, <1>5, <1>6

(* The pipe stays the asker's when another program moves, and is no one's  *)
(* when the asker leaves it.                                               *)
LEMMA StillTheAskers ==
  ASSUME HelperInv, UNCHANGED service,
         pipe' = pipe \/ (pipe.state \in {"open", "left"} /\ pipe'.state = "left"),
         pipe'.state = "open" => caller'[pipe.who] = caller[pipe.who]
  PROVE  PipeIsTheAskers'
<1>1. CASE pipe'.state = "open"
  <2>1. pipe' = pipe
    BY <1>1
  <2>2. Request(pipe.who)' = Request(pipe.who)
    BY <1>1, <2>1 DEF Request
  <2> QED BY <1>1, <2>1, <2>2 DEF HelperInv, PipeIsTheAskers, Request
<1>2. CASE pipe'.state # "open"
  BY <1>2 DEF HelperInv, PipeIsTheAskers
<1> QED BY <1>1, <1>2

LEMMA AskKeeps == ASSUME HelperInv, NEW a \in Callers, AskHelper(a) PROVE HelperInv'
<1> DEFINE count == IF caller[a].access = "helper" THEN caller[a].n + 1 ELSE caller[a].n
           r == [caller[a] EXCEPT !.at = "asking", !.n = count]
<1>1. caller[a] \in CallerStates /\ HelperTypeOK /\ caller[a].n < Asks /\ caller[a].access # "none"
      /\ caller[a].at = "idle"
  BY DEF HelperInv, HelperTypeOK, AskHelper
<1>2. count \in 0..Asks
  BY <1>1, HelperAssumption DEF CallerStates
<1>3. caller' = [caller EXCEPT ![a] = r]
  BY <1>1 DEF AskHelper, HelperTypeOK
<1>4. r \in CallerStates /\ r.at = "asking" /\ r.access = caller[a].access /\ r.n = count
  <2> HIDE DEF count
  <2> QED BY <1>2, <1>1 DEF CallerStates
<1> HIDE DEF r
<1>5. caller' \in [Callers -> CallerStates] /\ \A b \in Callers : caller'[b] = IF b = a THEN r ELSE caller[b]
  BY <1>1, <1>4, <1>3, CallerMoves
<1>6. UNCHANGED <<pipe, service, applied, answers>>
  BY DEF AskHelper
<1>7. \A b \in Callers, n \in 1..Asks : Unsent(b, n)' => Unsent(b, n)
  BY <1>1, <1>4, <1>5, HelperAssumption DEF Unsent, CallerStates
<1>8. OncePending' /\ ToldIsSo' /\ AnswerIsSo'
  BY <1>6, <1>7, NoneAsked
<1>9. PipeIsTheAskers' /\ AskersHope'
  BY <1>1, <1>4, <1>5, <1>6 DEF HelperInv, PipeIsTheAskers, AskersHope, Request
<1>10. HelperTypeOK'
  BY <1>1, <1>5, <1>6 DEF HelperTypeOK
<1> QED BY <1>8, <1>9, <1>10 DEF HelperInv

(* A program that is told of its request goes idle, and may be told of it  *)
(* what is so of it and will stay so.                                      *)
LEMMA Tells ==
  ASSUME HelperTypeOK, NEW a \in Callers, NEW reply, Told(a, reply)
  PROVE  /\ caller' \in [Callers -> CallerStates]
         /\ \A b \in Callers : b # a => caller'[b] = caller[b]
         /\ caller'[a].at = "idle" /\ caller'[a].n = caller[a].n
         /\ \A b \in Callers, n \in 1..Asks : Unsent(b, n)' => Unsent(b, n)
         /\ answers' \subseteq answers \cup {<<Request(a), reply>>}
         /\ caller[a].at = "sent" => \A n \in 1..Asks : Request(a) = <<a, n>> => ~Unsent(a, n)'
<1> DEFINE idle == [caller[a] EXCEPT !.at = "idle"]
           decided == [caller[a] EXCEPT !.at = "idle", !.access = Decided(reply),
                                        !.missing = ~Running \/ ~service.current]
           r == IF caller[a].access = "unknown" THEN decided ELSE idle
<1>1. caller[a] \in CallerStates /\ service \in Loop /\ caller[a].n \in Nat
  BY HelperAssumption DEF HelperTypeOK, CallerStates
<1>2. idle \in CallerStates /\ idle.at = "idle" /\ idle.n = caller[a].n /\ idle.access = caller[a].access
  BY <1>1 DEF CallerStates
<1>3. decided \in CallerStates /\ decided.at = "idle" /\ decided.n = caller[a].n
  BY <1>1 DEF CallerStates, Decided, Running, Loop
<1>4. caller' = [caller EXCEPT ![a] = r]
  BY <1>1 DEF Told, Moves, HelperTypeOK
<1>5. r \in CallerStates /\ r.at = "idle" /\ r.n = caller[a].n
  BY <1>2, <1>3
<1>6. answers' \subseteq answers \cup {<<Request(a), reply>>}
  BY DEF Told
<1> HIDE DEF r
<1>7. caller' \in [Callers -> CallerStates] /\ \A b \in Callers : caller'[b] = IF b = a THEN r ELSE caller[b]
  BY <1>4, <1>5, CallerMoves
<1>8. \A b \in Callers, n \in 1..Asks : Unsent(b, n)' => Unsent(b, n)
  BY <1>1, <1>5, <1>7 DEF Unsent
<1>9. \A n \in 1..Asks : Request(a) = <<a, n>> => ~Unsent(a, n)'
  BY <1>1, <1>5, <1>7, HelperAssumption DEF Unsent, Request
<1> QED BY <1>5, <1>6, <1>7, <1>8, <1>9

LEMMA OpenKeeps == ASSUME HelperInv, NEW a \in Callers, OpenPipe(a) PROVE HelperInv'
<1> DEFINE sent == [caller[a] EXCEPT !.at = "sent"]
           busy == [caller[a] EXCEPT !.at = "busy"]
<1>1. /\ caller[a] \in CallerStates /\ pipe \in Pipes /\ HelperTypeOK /\ caller[a].n \in Nat
      /\ caller[a].at \in {"asking", "busy"} /\ caller[a].access # "none"
      /\ UNCHANGED <<service, applied>>
  BY HelperAssumption DEF HelperInv, HelperTypeOK, AskersHope, OpenPipe, CallerStates
<1>2. pipe.state = "open" => pipe.who # a
  BY <1>1 DEF HelperInv, PipeIsTheAskers
<1>3. CASE pipe.state = "listening" /\ Moves(a, "sent") /\ UNCHANGED answers /\
           pipe' = [pipe EXCEPT !.state = "open", !.who = a, !.request = Request(a)]
  <2>1. sent \in CallerStates /\ sent.at = "sent" /\ sent.n = caller[a].n /\ sent.access = caller[a].access
    BY <1>1 DEF CallerStates
  <2>2. caller' = [caller EXCEPT ![a] = sent]
    BY <1>1, <1>3 DEF Moves, HelperTypeOK
  <2> HIDE DEF sent
  <2>3. caller' \in [Callers -> CallerStates] /\ \A b \in Callers : caller'[b] = IF b = a THEN sent ELSE caller[b]
    BY <1>1, <2>1, <2>2, CallerMoves
  <2>4. Request(a)' = Request(a) /\ Request(a) # NoRequest /\ Request(a) \in Requests
    BY <1>1, <2>1, <2>3, RequestOK DEF Request
  <2>5. pipe' \in Pipes /\ pipe'.state = "open" /\ pipe'.who = a /\ pipe'.request = Request(a)
        /\ pipe'.reply = pipe.reply
    BY <1>1, <1>3, <2>4 DEF Pipes
  <2>6. /\ service.at \notin {"reading", "performing", "answering", "hanging"}
        /\ pipe.request = NoRequest /\ pipe.reply = NoReply
    BY <1>3 DEF HelperInv, PipeIsTheAskers
  <2>7. \A b \in Callers, n \in 1..Asks : ~Lying(b, n) /\ ~InHand(b, n) /\ ~InHand(b, n)'
    BY <1>1, <2>6, HelperAssumption DEF Lying, InHand, NoRequest
  <2>8. \A b \in Callers, n \in 1..Asks : Lying(b, n)' => Unsent(b, n) /\ ~Unsent(b, n)'
    <3>1. \A b \in Callers, n \in 1..Asks :
            Request(a) = <<b, n>> => b = a /\ n = caller[a].n /\ caller[a].access = "helper"
      BY <1>1, HelperAssumption DEF Request, CallerStates
    <3> QED BY <1>1, <2>1, <2>3, <2>5, <3>1 DEF Lying, Unsent
  <2>9. \A b \in Callers, n \in 1..Asks : Unsent(b, n)' => Unsent(b, n)
    BY <1>1, <2>1, <2>3 DEF Unsent
  <2>10. OncePending'
    BY <1>1, <2>7, <2>8, <2>9 DEF HelperInv, OncePending
  <2>11. ToldIsSo' /\ AnswerIsSo'
    BY <1>1, <1>3, <2>6, <2>7, <2>8, <2>9 DEF HelperInv, ToldIsSo, AnswerIsSo, True, Over
  <2>12. PipeIsTheAskers'
    <3>1. pipe'.request = Request(pipe.who)'
      BY <2>4, <2>5 DEF Request
    <3>2. pipe'.who \in Callers /\ caller'[pipe'.who].at = "sent" /\ pipe'.request # NoRequest
      BY <2>1, <2>3, <2>4, <2>5
    <3> QED BY <1>1, <1>3, <2>5, <2>6, <3>1, <3>2 DEF HelperInv, PipeIsTheAskers
  <2>13. AskersHope' /\ HelperTypeOK'
    BY <1>1, <2>1, <2>3, <2>5 DEF HelperInv, AskersHope, HelperTypeOK
  <2> QED BY <2>10, <2>11, <2>12, <2>13 DEF HelperInv
<1>4. CASE Told(a, "failed") /\ UNCHANGED pipe
  <2>1. /\ caller' \in [Callers -> CallerStates] /\ \A b \in Callers : b # a => caller'[b] = caller[b]
        /\ caller'[a].at = "idle" /\ \A b \in Callers, n \in 1..Asks : Unsent(b, n)' => Unsent(b, n)
        /\ answers' \subseteq answers \cup {<<Request(a), "failed">>}
    BY <1>1, <1>4, Tells
  <2>2. OncePending' /\ ToldIsSo' /\ AnswerIsSo'
    BY <1>1, <1>4, <2>1, NoneAsked
  <2>3. PipeIsTheAskers'
    BY <1>1, <1>2, <1>4, <2>1, StillTheAskers DEF HelperInv, PipeIsTheAskers
  <2>4. AskersHope' /\ HelperTypeOK'
    BY <1>1, <1>4, <2>1 DEF HelperInv, AskersHope, HelperTypeOK
  <2> QED BY <2>2, <2>3, <2>4 DEF HelperInv
<1>5. CASE caller[a].at = "asking" /\ Moves(a, "busy") /\ UNCHANGED <<pipe, answers>>
  <2>1. busy \in CallerStates /\ busy.at = "busy" /\ busy.n = caller[a].n /\ busy.access = caller[a].access
    BY <1>1 DEF CallerStates
  <2>2. caller' = [caller EXCEPT ![a] = busy]
    BY <1>1, <1>5 DEF Moves, HelperTypeOK
  <2> HIDE DEF busy
  <2>3. caller' \in [Callers -> CallerStates] /\ \A b \in Callers : caller'[b] = IF b = a THEN busy ELSE caller[b]
    BY <1>1, <2>1, <2>2, CallerMoves
  <2>4. \A b \in Callers, n \in 1..Asks : Unsent(b, n)' => Unsent(b, n)
    BY <1>5, <2>1, <2>3 DEF Unsent
  <2>5. OncePending' /\ ToldIsSo' /\ AnswerIsSo'
    BY <1>1, <1>5, <2>4, NoneAsked
  <2>6. PipeIsTheAskers'
    BY <1>1, <1>2, <1>5, <2>3, StillTheAskers DEF HelperInv, PipeIsTheAskers
  <2>7. AskersHope' /\ HelperTypeOK'
    BY <1>1, <1>5, <2>1, <2>3 DEF HelperInv, AskersHope, HelperTypeOK
  <2> QED BY <2>5, <2>6, <2>7 DEF HelperInv
<1> QED BY <1>3, <1>4, <1>5 DEF OpenPipe

LEMMA ReceiveKeeps == ASSUME HelperInv, NEW a \in Callers, Receive(a) PROVE HelperInv'
<1>1. /\ HelperTypeOK /\ pipe \in Pipes /\ caller[a].at = "sent" /\ UNCHANGED <<service, applied>>
  BY DEF HelperInv, HelperTypeOK, Receive
<1> DEFINE reply == IF Hears(a) THEN pipe.reply ELSE "failed"
<1>2. Told(a, reply)
  BY DEF Receive, Unheard
<1>3. /\ caller' \in [Callers -> CallerStates] /\ \A b \in Callers : b # a => caller'[b] = caller[b]
      /\ caller'[a].at = "idle" /\ \A b \in Callers, n \in 1..Asks : Unsent(b, n)' => Unsent(b, n)
      /\ answers' \subseteq answers \cup {<<Request(a), reply>>}
  <2> HIDE DEF reply
  <2> QED BY <1>1, <1>2, Tells
<1>4. AskersHope'
  BY <1>3 DEF HelperInv, AskersHope
<1>5. CASE Hears(a)
  <2>1. pipe' = [pipe EXCEPT !.state = "left", !.reply = NoReply] /\ pipe.reply # NoReply
    BY <1>1, <1>5 DEF Receive, Abandoned, Pipes
  <2>2. pipe' \in Pipes /\ pipe'.state = "left" /\ pipe'.request = pipe.request
    BY <1>1, <2>1 DEF Pipes, Outcomes, NoReply
  <2>3. \A n \in 1..Asks : Request(a) = <<a, n>> => True(a, n, pipe.reply)
    BY <1>5, <2>1 DEF HelperInv, PipeIsTheAskers, AnswerIsSo, Hears
  <2>4. \A n \in 1..Asks, b \in Callers : Request(a) = <<b, n>> => a = b
    BY DEF Request
  <2>5. OncePending' /\ ToldIsSo' /\ AnswerIsSo'
    BY <1>1, <1>3, <1>5, <2>2, <2>3, <2>4, NoneAsked
  <2>6. PipeIsTheAskers'
    BY <1>1, <1>5, <2>2, StillTheAskers DEF Hears
  <2> QED BY <1>1, <1>3, <1>4, <2>2, <2>5, <2>6 DEF HelperInv, HelperTypeOK
<1>6. CASE ~Hears(a)
  <2>1. UNCHANGED pipe /\ answers' \subseteq answers \cup {<<Request(a), "failed">>}
    BY <1>3, <1>6 DEF Receive, Unheard
  <2>2. OncePending' /\ ToldIsSo' /\ AnswerIsSo'
    BY <1>1, <1>3, <2>1, NoneAsked
  <2>3. PipeIsTheAskers'
    BY <1>1, <1>3, <1>6, <2>1, StillTheAskers DEF HelperInv, PipeIsTheAskers, Hears
  <2> QED BY <1>1, <1>3, <1>4, <2>1, <2>2, <2>3 DEF HelperInv, HelperTypeOK
<1> QED BY <1>5, <1>6

LEMMA DiesKeeps == ASSUME HelperInv, NEW a \in Callers, CallerDies(a) PROVE HelperInv'
<1> DEFINE r == [Fresh EXCEPT !.n = caller[a].n]
<1>1. /\ HelperTypeOK /\ pipe \in Pipes /\ caller[a] \in CallerStates /\ caller[a].n \in 0..Asks
      /\ UNCHANGED <<service, applied, answers>>
  BY DEF HelperInv, HelperTypeOK, CallerStates, CallerDies
<1>2. r \in CallerStates /\ r.at = "idle" /\ r.access = "unknown" /\ r.n = caller[a].n
  BY <1>1 DEF CallerStates, Fresh
<1>3. caller' = [caller EXCEPT ![a] = r]
  BY DEF CallerDies
<1> HIDE DEF r
<1>4. caller' \in [Callers -> CallerStates] /\ \A b \in Callers : caller'[b] = IF b = a THEN r ELSE caller[b]
  BY <1>1, <1>2, <1>3, CallerMoves
<1>5. /\ pipe' = pipe \/ (pipe.who = a /\ pipe' = [pipe EXCEPT !.state = "left"])
      /\ pipe.who = a => pipe'.state = "left"
  BY <1>1 DEF CallerDies, Abandoned, Pipes
<1>6. pipe' \in Pipes /\ pipe'.request = pipe.request /\ (pipe'.state = "open" => pipe' = pipe)
      /\ (pipe' = pipe \/ (pipe.who = a /\ pipe'.state = "left"))
  BY <1>1, <1>5 DEF Pipes
<1>7. pipe.who = a => pipe.state \in {"open", "left"}
  BY <1>1, RequestOK DEF HelperInv, PipeIsTheAskers, Pipes
<1>8. \A b \in Callers, n \in 1..Asks : Unsent(b, n)' => Unsent(b, n)
  BY <1>2, <1>4 DEF Unsent
<1>9. OncePending' /\ ToldIsSo' /\ AnswerIsSo'
  BY <1>1, <1>6, <1>8, NoneAsked
<1>10. PipeIsTheAskers'
  <2>1. pipe'.state = "open" => pipe.who # a /\ pipe.who \in Callers
    BY <1>5, <1>6 DEF HelperInv, PipeIsTheAskers
  <2> QED BY <1>1, <1>4, <1>6, <1>7, <2>1, StillTheAskers
<1>11. AskersHope' /\ HelperTypeOK'
  BY <1>1, <1>2, <1>4, <1>6 DEF HelperInv, AskersHope, HelperTypeOK
<1> QED BY <1>9, <1>10, <1>11 DEF HelperInv

-----------------------------------------------------------------------------
(* A step of the service's that carries nothing out takes a request from   *)
(* the pipe into its hands, or lets go of it, and tells no one anything.   *)
LEMMA NoneServed ==
  ASSUME HelperInv, UNCHANGED <<caller, applied, answers>>,
         \A a \in Callers, n \in 1..Asks : Lying(a, n)' => Lying(a, n),
         \A a \in Callers, n \in 1..Asks : InHand(a, n)' => InHand(a, n) \/ (Lying(a, n) /\ ~Lying(a, n)')
  PROVE  OncePending' /\ ToldIsSo' /\ AskersHope'
         /\ \A a \in Callers, n \in 1..Asks : \A o : True(a, n, o) => True(a, n, o)'
<1>1. \A a \in Callers, n \in 1..Asks : Unsent(a, n)' <=> Unsent(a, n)
  BY DEF Unsent
<1>2. OncePending'
  BY <1>1 DEF HelperInv, OncePending
<1>3. \A a \in Callers, n \in 1..Asks : \A o : True(a, n, o) => True(a, n, o)'
  BY <1>1 DEF True, Over
<1>4. ToldIsSo'
  BY <1>3 DEF HelperInv, ToldIsSo
<1>5. AskersHope'
  BY DEF HelperInv, AskersHope
<1> QED BY <1>2, <1>3, <1>4, <1>5

(* One that is not about to answer, and moves neither request nor reply.   *)
LEMMA ServiceMoves ==
  ASSUME HelperInv, UNCHANGED <<caller, applied, answers>>, service' \in Loop, pipe' \in Pipes,
         pipe'.request \in {pipe.request, NoRequest}, service'.at \notin {"performing", "answering"},
         service'.at = "hanging" /\ pipe'.state = "open" => pipe'.reply = NoReply,
         PipeIsTheAskers'
  PROVE  HelperInv'
<1>1. \A a \in Callers, n \in 1..Asks : (Lying(a, n)' => Lying(a, n)) /\ ~InHand(a, n)'
  BY HelperAssumption DEF Lying, InHand, NoRequest
<1>2. OncePending' /\ ToldIsSo' /\ AskersHope'
  BY <1>1, NoneServed
<1>3. AnswerIsSo'
  BY DEF AnswerIsSo
<1> QED BY <1>2, <1>3 DEF HelperInv, HelperTypeOK

(* Whose request it is does not change while the programs stand.           *)
LEMMA RequestStands == ASSUME UNCHANGED caller PROVE \A a : Request(a)' = Request(a)
BY DEF Request

LEMMA ServeKeeps ==
  ASSUME HelperInv,
         (\E current \in BOOLEAN : StartService(current)) \/ CheckStopping \/ Listen \/ Accept
           \/ HangUp \/ StopService \/ ServiceDies
  PROVE  HelperInv'
<1>1. /\ service \in Loop /\ pipe \in Pipes /\ NoPipe \in Pipes /\ Resting \in Loop
      /\ UNCHANGED <<caller, applied, answers>> /\ PipeIsTheAskers
  <2>1. UNCHANGED <<caller, applied, answers>>
    BY DEF StartService, CheckStopping, Listen, Accept, HangUp, StopService, ServiceDies
  <2> QED BY <2>1, HelperAssumption
        DEF HelperInv, HelperTypeOK, NoPipe, Resting, Pipes, Loop, Requests, Outcomes, NoReply
<1> USE DEF PipeIsTheAskers, NoPipe, Pipes, Loop
<1>2. ASSUME NEW current \in BOOLEAN, StartService(current) PROVE HelperInv'
  <2>1. /\ service' \in Loop /\ service'.at = "checking" /\ pipe' \in Pipes
        /\ pipe'.state = "listening" /\ pipe'.request = NoRequest /\ pipe'.who = NoCaller /\ pipe'.reply = NoReply
    BY <1>1, <1>2 DEF StartService, Resting
  <2> QED BY <1>1, <2>1, ServiceMoves
<1>3. CASE CheckStopping
  <2>1. CASE service.stopping
    BY <1>1, <1>3, <2>1, ServiceMoves DEF CheckStopping, Loops
  <2>2. CASE ~service.stopping
    BY <1>1, <1>3, <2>2, RequestStands, ServiceMoves DEF CheckStopping, Loops
  <2> QED BY <2>1, <2>2
<1>4. CASE Listen
  BY <1>1, <1>4, RequestStands, ServiceMoves DEF Listen, Loops
<1>5. CASE Accept
  BY <1>1, <1>5, RequestStands, ServiceMoves DEF Accept, Loops
<1>6. CASE HangUp
  BY <1>1, <1>6, ServiceMoves DEF HangUp, Loops, Disconnected
<1>7. CASE StopService
  <2>1. /\ service' \in Loop /\ service'.at = service.at /\ service'.doing = service.doing
        /\ service'.outcome = service.outcome /\ service.at # "down"
    BY <1>1, <1>7 DEF StopService, Running
  <2>2. /\ pipe' \in Pipes /\ pipe'.request = pipe.request
        /\ pipe' = pipe \/ (pipe.state = "listening" /\ pipe'.state = "left")
    BY <1>1, <1>7 DEF StopService, Abandoned
  <2>3. OncePending' /\ ToldIsSo' /\ AskersHope'
        /\ \A a \in Callers, n \in 1..Asks : \A o : True(a, n, o) => True(a, n, o)'
    BY <1>1, <2>1, <2>2, NoneServed DEF Lying, InHand
  <2>4. AnswerIsSo'
    BY <2>1, <2>2, <2>3 DEF HelperInv, AnswerIsSo
  <2>5. PipeIsTheAskers'
    BY <1>1, <2>1, <2>2, RequestStands
  <2> QED BY <1>1, <2>1, <2>2, <2>3, <2>4, <2>5 DEF HelperInv, HelperTypeOK
<1>8. CASE ServiceDies
  BY <1>1, <1>8, ServiceMoves DEF ServiceDies, Resting
<1> QED BY <1>2, <1>3, <1>4, <1>5, <1>6, <1>7, <1>8

LEMMA ReadKeeps == ASSUME HelperInv, ReadRequest PROVE HelperInv'
<1> USE DEF Pipes, Loop
<1>1. /\ service \in Loop /\ pipe \in Pipes /\ HelperTypeOK /\ PipeIsTheAskers /\ service.at = "reading"
      /\ UNCHANGED <<caller, applied, answers>>
  BY DEF HelperInv, HelperTypeOK, ReadRequest
<1>2. CASE /\ pipe.request # NoRequest
           /\ service' = [service EXCEPT !.at = "performing", !.doing = pipe.request]
           /\ pipe' = [pipe EXCEPT !.request = NoRequest]
  <2>1. /\ service' \in Loop /\ service'.at = "performing" /\ service'.doing = pipe.request
        /\ pipe' \in Pipes /\ pipe'.request = NoRequest /\ pipe'.state = pipe.state
        /\ pipe'.who = pipe.who /\ pipe'.reply = pipe.reply
    BY <1>1, <1>2 DEF Requests
  <2>2. OncePending' /\ ToldIsSo' /\ AskersHope'
    <3>1. \A a \in Callers, n \in 1..Asks : ~Lying(a, n)' /\ (InHand(a, n)' => Lying(a, n))
      BY <2>1, HelperAssumption DEF Lying, InHand, NoRequest
    <3> QED BY <1>1, <3>1, NoneServed
  <2>3. AnswerIsSo'
    BY <2>1 DEF AnswerIsSo
  <2>4. PipeIsTheAskers'
    BY <1>1, <1>2, <2>1, RequestStands DEF PipeIsTheAskers
  <2> QED BY <1>1, <2>1, <2>2, <2>3, <2>4 DEF HelperInv, HelperTypeOK
<1>3. CASE pipe.state = "left" /\ Loops("hanging") /\ UNCHANGED pipe
  <2>1. service' \in Loop /\ service'.at = "hanging"
    BY <1>1, <1>3 DEF Loops
  <2>2. PipeIsTheAskers'
    BY <1>1, <1>3, <2>1, RequestStands DEF PipeIsTheAskers
  <2> QED BY <1>1, <1>3, <2>1, <2>2, ServiceMoves
<1> QED BY <1>2, <1>3 DEF ReadRequest

LEMMA AnswerKeeps == ASSUME HelperInv, Answer PROVE HelperInv'
<1> USE DEF Pipes, Loop
<1>1. /\ service \in Loop /\ pipe \in Pipes /\ PipeIsTheAskers /\ service.at = "answering"
      /\ UNCHANGED <<caller, applied, answers>> /\ HelperTypeOK
  BY DEF HelperInv, HelperTypeOK, Answer
<1>2. service' \in Loop /\ service'.at = "hanging" /\ service'.doing = service.doing
      /\ service'.outcome = service.outcome
  BY <1>1 DEF Answer, Loops
<1>3. /\ pipe' \in Pipes /\ pipe'.request = pipe.request /\ pipe'.state = pipe.state /\ pipe'.who = pipe.who
      /\ pipe.state = "open" => pipe'.reply = service.outcome
      /\ pipe.state # "open" => pipe' = pipe
  BY <1>1 DEF Answer
<1>4. OncePending' /\ ToldIsSo' /\ AskersHope'
      /\ \A a \in Callers, n \in 1..Asks : \A o : True(a, n, o) => True(a, n, o)'
  BY <1>1, <1>2, <1>3, NoneServed DEF Lying, InHand
<1>5. AnswerIsSo'
  BY <1>1, <1>2, <1>4 DEF HelperInv, AnswerIsSo
<1>6. PipeIsTheAskers'
  BY <1>1, <1>2, <1>3, RequestStands DEF PipeIsTheAskers
<1> QED BY <1>1, <1>2, <1>3, <1>4, <1>5, <1>6 DEF HelperInv, HelperTypeOK

(* What is carried out had not been, and is out of the service's hands.    *)
LEMMA PerformKeeps == ASSUME HelperInv, Perform PROVE HelperInv'
<1> USE DEF Pipes, Loop
<1>1. /\ service \in Loop /\ pipe \in Pipes /\ PipeIsTheAskers /\ service.at = "performing"
      /\ UNCHANGED <<caller, pipe, answers>> /\ HelperTypeOK
  BY DEF HelperInv, HelperTypeOK, Perform
<1>2. /\ service' \in Loop /\ service'.doing = service.doing
      /\ service'.at \in {"answering", "hanging"}
      /\ \/ UNCHANGED applied
         \/ service.doing \in Writes /\ applied' = [applied EXCEPT ![service.doing] = @ + 1]
      /\ service'.at = "answering" /\ service.doing \in Writes =>
           \/ service'.outcome = "refused" /\ UNCHANGED applied
           \/ service'.outcome = "done" /\ applied' = [applied EXCEPT ![service.doing] = @ + 1]
  BY <1>1, ZenonT(60) DEF Perform, Answers, Asked, Pong, Loops, AfterPanic, AppliedOnce, Outcomes
<1>3. applied' \in [Writes -> Nat]
  BY <1>1, <1>2 DEF HelperTypeOK
<1>4. \A a \in Callers, n \in 1..Asks :
        /\ Unsent(a, n)' <=> Unsent(a, n)
        /\ Lying(a, n)' <=> Lying(a, n)
        /\ ~InHand(a, n)' /\ (InHand(a, n) <=> service.doing = <<a, n>>)
        /\ <<a, n>> \in Writes
        /\ service.doing # <<a, n>> => applied'[<<a, n>>] = applied[<<a, n>>]
  BY <1>1, <1>2, <1>3, WritesAre DEF Unsent, Lying, InHand, HelperTypeOK
<1>5. \A a \in Callers, n \in 1..Asks : service.doing = <<a, n>> =>
        /\ Over(a, n)' /\ applied[<<a, n>>] = 0 /\ applied'[<<a, n>>] \in {0, 1}
        /\ service'.at = "answering" => True(a, n, service.outcome)'
  <2> SUFFICES ASSUME NEW a \in Callers, NEW n \in 1..Asks, service.doing = <<a, n>>
               PROVE  /\ Over(a, n)' /\ applied[<<a, n>>] = 0 /\ applied'[<<a, n>>] \in {0, 1}
                      /\ service'.at = "answering" => True(a, n, service.outcome)'
    OBVIOUS
  <2>1. Over(a, n)' /\ applied[<<a, n>>] = 0
    BY <1>4 DEF HelperInv, OncePending, Over
  <2>2. applied'[<<a, n>>] \in {0, 1}
    BY <1>1, <1>2, <1>4, <2>1 DEF HelperTypeOK
  <2>3. service'.at = "answering" => True(a, n, service.outcome)'
    BY <1>1, <1>2, <1>4, <2>1 DEF HelperTypeOK, True
  <2> QED BY <2>1, <2>2, <2>3
<1>6. OncePending'
  BY <1>4, <1>5 DEF HelperInv, OncePending, Over
<1>7. ToldIsSo'
  <2> SUFFICES ASSUME NEW a \in Callers, NEW n \in 1..Asks, NEW o \in {"done", "refused", "pong"},
                      (<<<<a, n>>, o>> \in answers)'
               PROVE  True(a, n, o)'
    BY DEF ToldIsSo
  <2>1. True(a, n, o)
    BY <1>1 DEF HelperInv, ToldIsSo
  <2>2. ~InHand(a, n)
    BY <2>1 DEF True, Over
  <2>3. service.doing # <<a, n>>
    BY <1>4, <2>2
  <2>4. applied'[<<a, n>>] = applied[<<a, n>>] /\ Over(a, n)'
    BY <1>4, <2>1, <2>3 DEF True, Over
  <2> QED BY <2>1, <2>4 DEF True
<1>8. AnswerIsSo'
  BY <1>1, <1>2, <1>5 DEF AnswerIsSo, PipeIsTheAskers
<1>9. PipeIsTheAskers'
  BY <1>1, <1>2, RequestStands DEF PipeIsTheAskers
<1>10. AskersHope' /\ HelperTypeOK'
  BY <1>1, <1>2, <1>3 DEF HelperInv, AskersHope, HelperTypeOK
<1> QED BY <1>6, <1>7, <1>8, <1>9, <1>10 DEF HelperInv

-----------------------------------------------------------------------------
(* HelperInv holds of every state: a request is at one place at a time,    *)
(* and what is about to be answered was done (service.rs, serve_one).      *)
THEOREM HelperStaysTrue == HelperSpec => []HelperInv
<1>1. HelperInv /\ [HelperNext]_helperVars => HelperInv'
  <2> SUFFICES ASSUME HelperInv, [HelperNext]_helperVars PROVE HelperInv'
    OBVIOUS
  <2>1. ASSUME NEW a \in Callers, AskHelper(a) \/ OpenPipe(a) \/ Receive(a) \/ CallerDies(a)
        PROVE HelperInv'
    BY <2>1, AskKeeps, OpenKeeps, ReceiveKeeps, DiesKeeps
  <2>2. CASE Serve \/ StopService \/ ServiceDies \/ \E current \in BOOLEAN : StartService(current)
    BY <2>2, ServeKeeps, ReadKeeps, PerformKeeps, AnswerKeeps DEF Serve
  <2>3. CASE UNCHANGED helperVars
    <3>1. UNCHANGED <<caller, pipe, service, applied, answers>>
      BY <2>3 DEF helperVars
    <3>2. HelperTypeOK' /\ AskersHope'
      BY <3>1 DEF HelperInv, HelperTypeOK, AskersHope
    <3>3. OncePending' /\ ToldIsSo' /\ AnswerIsSo'
      <4>1. \A a \in Callers, n \in 1..Asks : Unsent(a, n)' => Unsent(a, n)
        BY <3>1 DEF Unsent
      <4> QED BY <3>1, <4>1, NoneAsked
    <3>4. PipeIsTheAskers'
      BY <3>1, StillTheAskers
    <3> QED BY <3>2, <3>3, <3>4 DEF HelperInv
  <2> QED BY <2>1, <2>2, <2>3 DEF HelperNext
<1> QED BY <1>1, InitOK, PTL DEF HelperSpec

(* What a program is told of a request is so of the key, and no request is *)
(* carried out twice, for any programs, deaths and restarts (device/helper *)
(* /client.rs, service.rs).                                                *)
THEOREM HelperTells == HelperSpec => []HelperIsTrue
<1>1. HelperInv => HelperIsTrue
  <2> SUFFICES ASSUME HelperInv, NEW w \in Writes
               PROVE  /\ applied[w] <= 1
                      /\ <<w, "done">> \in answers => applied[w] = 1
                      /\ <<w, "refused">> \in answers => applied[w] = 0
                      /\ <<w, "pong">> \notin answers
    BY DEF HelperIsTrue
  <2>1. PICK a \in Callers, n \in 1..Asks : w = <<a, n>>
    BY WritesAre
  <2>2. applied[w] \in {0, 1}
    BY <2>1 DEF HelperInv, OncePending
  <2>3. \A o \in {"done", "refused", "pong"} : <<w, o>> \in answers => True(a, n, o)
    BY <2>1 DEF HelperInv, ToldIsSo
  <2> QED BY <2>1, <2>2, <2>3 DEF True
<1> QED BY <1>1, HelperStaysTrue, PTL
=============================================================================
