------------------------------ MODULE SyncLease ------------------------------
(* The single-writer lock of a register in a synchronised folder            *)
(* (store/cloud.rs) and the programs that take it, renew it and lose it     *)
(* (store/mod.rs, app.rs).  Every workstation sees its own copy of the      *)
(* folder; the sync client carries the lock file from copy to copy, may     *)
(* show half of it on the way, and keeps one side's of two that changed.    *)
EXTENDS FiniteSets, Naturals, TLC

CONSTANTS Programs,   \* programs started on a workstation
          Copies,     \* copies of the folder
          At,         \* the copy each program works on
          Opens,      \* bound: how often a program asks for the register
          TakeOvers,  \* bound: how often a lock is broken deliberately
          Mishaps,    \* bound: programs that die, calls on the lock file refused
          None, Garbled

ASSUME LeaseAssumption == /\ At \in [Programs -> Copies]
                          /\ None # Garbled
                          /\ None \notin Programs \X Nat /\ Garbled \notin Programs \X Nat
                          /\ {Opens, TakeOvers, Mishaps} \subseteq Nat

VARIABLES quick,   \* the client carries a change within the settling time
          lock,    \* the lock file in each copy: the session it names
          changed, \* the copies whose change the client has yet to carry
          at,      \* where each program stands
          life,    \* the session of a program: a new one when it restarts
          breaking,\* programs that take the lock over
          bare,    \* some program has found no lock when it read again
          left     \* what the bounds still allow

leaseVars == <<quick, lock, changed, at, life, breaking, bare, left>>

Me(p) == <<p, life[p]>>
Files == {None, Garbled} \cup (Programs \X (0..Mishaps))
Opened == {p \in Programs : at[p] = "open"}

(* An unreadable file is a holder nobody is: is_local says no to it.        *)
Another(p) == lock[At[p]] \notin {None, Me(p)}

Goto(p, place) == at' = [at EXCEPT ![p] = place]
WriteLock(p, file) == /\ lock' = [lock EXCEPT ![At[p]] = file]
                      /\ changed' = changed \cup {At[p]}

LeaseInit ==
  /\ quick \in BOOLEAN
  /\ lock = [c \in Copies |-> None]
  /\ changed = {}
  /\ at = [p \in Programs |-> "closed"]
  /\ life = [p \in Programs |-> 0]
  /\ breaking = {} /\ bare = FALSE
  /\ left = [open |-> [p \in Programs |-> Opens],
             break |-> TakeOvers, mishap |-> Mishaps]

(* The operator opens the register, or takes the lock over from the panel a *)
(* refusal leaves on the screen.  wait_until_settled only delays.           *)
Ask(p, deliberate) ==
  /\ at[p] = "closed" /\ left.open[p] > 0
  /\ deliberate => left.break > 0
  /\ breaking' = IF deliberate THEN breaking \cup {p} ELSE breaking \ {p}
  /\ left' = [left EXCEPT !.open[p] = @ - 1,
                          !.break = IF deliberate THEN @ - 1 ELSE @]
  /\ Goto(p, "settled")
  /\ UNCHANGED <<quick, lock, changed, life, bare>>

(* A lock that is there refuses, stale or not, ours or not.                 *)
ReadLock(p) ==
  /\ at[p] = "settled"
  /\ IF lock[At[p]] = None
     THEN Goto(p, "creating") /\ UNCHANGED <<lock, changed>>
     ELSE IF p \in breaking
     THEN /\ WriteLock(p, None)
          /\ Goto(p, "creating")
     ELSE Goto(p, "closed") /\ UNCHANGED <<lock, changed>>
  /\ UNCHANGED <<quick, life, breaking, bare, left>>

(* Mutant: the file is written whatever is there.                            *)
CreateLock_Anyway(p) ==
  /\ at[p] = "creating"
  /\ WriteLock(p, Me(p)) /\ Goto(p, "waiting")
  /\ UNCHANGED <<quick, life, breaking, bare, left>>

(* create_new fails when the file has appeared meanwhile.                   *)
CreateLock(p) ==
  /\ at[p] = "creating"
  /\ IF lock[At[p]] = None
     THEN WriteLock(p, Me(p)) /\ Goto(p, "waiting")
     ELSE Goto(p, "closed") /\ UNCHANGED <<lock, changed>>
  /\ UNCHANGED <<quick, life, breaking, bare, left>>

(* Mutant: nobody looks again.                                             *)
ReadAgain_Skipped(p) ==
  /\ at[p] = "waiting"
  /\ Goto(p, "opening")
  /\ UNCHANGED <<quick, lock, changed, life, breaking, bare, left>>

(* The settling time is over: a quick client has carried everything.  The   *)
(* code refuses another's name and accepts an absent file.                  *)
ReadAgain(p) ==
  /\ at[p] = "waiting"
  /\ quick => changed = {}
  /\ Goto(p, IF Another(p) THEN "closed" ELSE "opening")
  /\ bare' = (bare \/ lock[At[p]] = None)
  /\ UNCHANGED <<quick, lock, changed, life, breaking, left>>

(* Mutant: a failed opening leaves its lock.                                *)
OpenFails_KeepsLock(p) ==
  /\ at[p] = "opening"
  /\ Goto(p, "closed")
  /\ UNCHANGED <<quick, lock, changed, life, breaking, bare, left>>

(* finish_open: it may fail (the password, the schema), and then the lease  *)
(* is dropped.                                                              *)
FinishOpen(p) ==
  /\ at[p] = "opening"
  /\ Goto(p, "open")
  /\ UNCHANGED <<quick, lock, changed, life, breaking, bare, left>>

OpenFails(p) ==
  /\ at[p] = "opening"
  /\ Goto(p, "releasing")
  /\ UNCHANGED <<quick, lock, changed, life, breaking, bare, left>>

(* Mutant: the renewal writes without reading.                              *)
Renew_Blindly(p) ==
  /\ at[p] = "open" /\ At[p] \notin changed
  /\ WriteLock(p, Me(p))
  /\ UNCHANGED <<quick, at, life, breaking, bare, left>>

(* The tick, a minute after the last one: what was written then has been    *)
(* carried by now.  The file is read and written back to back; another's    *)
(* name closes the register at once.                                        *)
Renew(p) ==
  /\ at[p] = "open" /\ At[p] \notin changed
  /\ IF Another(p) THEN Goto(p, "releasing") /\ UNCHANGED <<lock, changed>>
                   ELSE WriteLock(p, Me(p)) /\ UNCHANGED at
  /\ UNCHANGED <<quick, life, breaking, bare, left>>

Close(p) ==
  /\ at[p] = "open"
  /\ Goto(p, "releasing")
  /\ UNCHANGED <<quick, lock, changed, life, breaking, bare, left>>

(* remove_our_lock reads the file and leaves another's; then it removes.    *)
ReleaseRead(p) ==
  /\ at[p] = "releasing"
  /\ Goto(p, IF Another(p) THEN "closed" ELSE "removing")
  /\ UNCHANGED <<quick, lock, changed, life, breaking, bare, left>>

ReleaseRemove(p) ==
  /\ at[p] = "removing"
  /\ WriteLock(p, None)
  /\ Goto(p, "closed")
  /\ UNCHANGED <<quick, life, breaking, bare, left>>

Crash(p) ==
  /\ at[p] # "closed" /\ left.mishap > 0 /\ life[p] < Mishaps
  /\ left' = [left EXCEPT !.mishap = @ - 1]
  /\ life' = [life EXCEPT ![p] = @ + 1]
  /\ Goto(p, "closed")
  /\ UNCHANGED <<quick, lock, changed, breaking, bare>>

(* A call on the lock file is refused by the folder's file system.  A file  *)
(* that cannot be opened is taken for no lock, one that is opened and       *)
(* cannot be read for another's.                                            *)
Refusal == left.mishap > 0 /\ left' = [left EXCEPT !.mishap = @ - 1]

(* On the way to the lock: opening or removing the one that is there,       *)
(* creating or writing ours (what was written of it stays), reading again.  *)
TakingRefused(p) ==
  /\ Refusal
  /\ \/ at[p] = "settled" /\ Goto(p, "creating") /\ UNCHANGED <<lock, changed, bare>>
     \/ /\ at[p] = "creating" /\ Goto(p, "closed") /\ UNCHANGED bare
        /\ \/ UNCHANGED <<lock, changed>>
           \/ lock[At[p]] = None /\ \E file \in {Me(p), Garbled} : WriteLock(p, file)
     \/ /\ at[p] = "waiting" /\ (quick => changed = {}) /\ UNCHANGED <<lock, changed>>
        /\ \/ Goto(p, "opening") /\ bare' = TRUE
           \/ Goto(p, "closed") /\ UNCHANGED bare
  /\ UNCHANGED <<quick, life, breaking>>

(* While it is held: the tick takes it for gone or for another's, or has it *)
(* cut short or not written, and says so.                                   *)
KeepingRefused(p) ==
  /\ Refusal
  /\ at[p] = "open" /\ At[p] \notin changed
  /\ \/ WriteLock(p, Me(p)) /\ UNCHANGED at
     \/ Goto(p, "releasing") /\ UNCHANGED <<lock, changed>>
     \/ ~Another(p) /\ WriteLock(p, Garbled) /\ UNCHANGED at
     \/ ~Another(p) /\ UNCHANGED <<lock, changed, at>>
  /\ UNCHANGED <<quick, life, breaking, bare>>

(* And as it is given up: removed whosever it is, or left behind.           *)
GivingRefused(p) ==
  /\ Refusal
  /\ \/ at[p] = "releasing" /\ (Goto(p, "removing") \/ Goto(p, "closed"))
     \/ at[p] = "removing" /\ Goto(p, "closed")
  /\ UNCHANGED <<quick, lock, changed, life, breaking, bare>>

(* The sync client: half a file first, perhaps; the whole of it; and one    *)
(* side's when both sides changed.                                          *)
CarryHalf(c, d) ==
  /\ c \in changed /\ d \notin changed /\ lock[c] \notin {None, Garbled}
  /\ lock[d] # Garbled
  /\ lock' = [lock EXCEPT ![d] = Garbled]
  /\ UNCHANGED <<quick, changed, at, life, breaking, bare, left>>

Carry(c) ==
  /\ c \in changed
  /\ lock' = [d \in Copies |-> lock[c]]
  /\ changed' = {}
  /\ UNCHANGED <<quick, at, life, breaking, bare, left>>

Step(p) ==
  \/ ReadLock(p) \/ CreateLock(p) \/ ReadAgain(p)
  \/ FinishOpen(p) \/ OpenFails(p)
  \/ Renew(p)
  \/ ReleaseRead(p) \/ ReleaseRemove(p)

Sync == \E c \in Copies : Carry(c) \/ \E d \in Copies \ {c} : CarryHalf(c, d)

LeaseNext ==
  \/ \E p \in Programs : \/ \E deliberate \in BOOLEAN : Ask(p, deliberate)
                         \/ Step(p) \/ Close(p) \/ Crash(p)
                         \/ TakingRefused(p) \/ KeepingRefused(p) \/ GivingRefused(p)
  \/ Sync

(* A program that is running goes on, the client carries what has changed,  *)
(* and ticks a minute apart find a folder at rest again and again.          *)
LeaseFair ==
  /\ \A p \in Programs : WF_leaseVars(Step(p)) /\ SF_leaseVars(Renew(p))
  /\ WF_leaseVars(\E c \in Copies : Carry(c))

LeaseSpec == LeaseInit /\ [][LeaseNext]_leaseVars /\ LeaseFair
-----------------------------------------------------------------------------
Places == {"closed", "settled", "creating", "waiting", "opening", "open", "releasing", "removing"}

(* A lock file names a session or is unreadable, and a program is on its    *)
(* way to the lock, has it, or gives it up (store/cloud.rs).                *)
LeaseTypeOK ==
  /\ quick \in BOOLEAN
  /\ lock \in [Copies -> Files]
  /\ changed \subseteq Copies
  /\ at \in [Programs -> Places]
  /\ life \in [Programs -> 0..Mishaps]
  /\ breaking \subseteq Programs /\ bare \in BOOLEAN

(* One program writes at a time, as long as the client carries a change     *)
(* within the settling time and nobody breaks a lock deliberately: the      *)
(* accident the lock is there for, two operators opening together, on two   *)
(* computers or on one, or beside a lock that has arrived by half, whatever *)
(* call on the lock file is refused.                                        *)
OneWriterAlways == (quick /\ left.break = TakeOvers) => Cardinality(Opened) <= 1

(* It does, but for the program that reads again and finds no lock at all.  *)
OneWriter == ~bare => OneWriterAlways

(* A lock file never outlives its session but by a crash or a refused call: *)
(* a refused, a failed or a lost opening, and one that broke another's      *)
(* lock, leave nothing behind that would refuse the next operator.          *)
NoOrphanLock ==
  (left.mishap = Mishaps /\ changed = {} /\ \A p \in Programs : at[p] = "closed")
    => \A c \in Copies : lock[c] = None

(* Two programs that both have it open, through a slow client or a broken   *)
(* lock, do not go on: a renewal tells all but one of them.                 *)
TwoWritersEnd == Cardinality(Opened) > 1 ~> Cardinality(Opened) <= 1
=============================================================================
