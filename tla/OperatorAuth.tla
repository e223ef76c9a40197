---------------------------- MODULE OperatorAuth ----------------------------
(* Who may use the register: the accounts and failure rows it keeps         *)
(* (store/operators.rs, operator/), and on every workstation the session    *)
(* and the authority its store enforces (operator/session.rs, app.rs).      *)
(* A clock reading kept in a record is modelled by the steps left until it  *)
(* matters, or gone since; argon2, user names and passwords are reduced to  *)
(* whether what was presented is right.  The two readings a sign-in takes   *)
(* of the clock, one for the session and a later one for the store          *)
(* (app.rs, accept_sign_in), are one instant here.                          *)
EXTENDS FiniteSets, Integers

CONSTANTS Desks, Names,
          Split,       \* another workstation may come between the reading and
                       \* the writing of one call
          Window, LockAfter, TimeoutAfter,  \* the three clocks of a session
          First, Second, Third,             \* the penalties of the lockout
          Budgets,     \* bound: how often the register is opened, an account
                       \* is made, one is managed, a wrong credential is given
          Nobody, Absent

Roles == {"administrator", "distributor", "auditor"}
Actions == {"Read", "RunBootstrap", "ManageTemplates", "ManageOperators",
            "Export", "VerifyAudit"}
Sensitive == {"ManageTemplates", "ManageOperators", "Export"}
Penalties == 0..Third

ASSUME AuthAssumption ==
  /\ Split \in BOOLEAN /\ Nobody \notin Names /\ IsFiniteSet(Names)
  /\ Absent \notin [role : Roles, active : BOOLEAN]
  /\ {Window, LockAfter, TimeoutAfter, First, Second, Third} \subseteq Nat
  /\ LockAfter < TimeoutAfter /\ First <= Second /\ Second <= Third

VARIABLES accounts, \* the operators table: role and whether it is active
          failures, \* operator_sign_ins: the count and when it unlocks
          wrote,    \* the names that are the actor of an audit entry
          desk,     \* a workstation: session, authority and clocks
          call,     \* the call a workstation has read for and not written
          budget,
          tries,    \* history: wrong credentials judged for a name, and what
                    \* is left of the penalty for them
          proof,    \* history: what is left of the window after the right
                    \* credential was presented at a desk
          gone      \* history: how long a name has been disabled or removed

authVars == <<accounts, failures, wrote, desk, call, budget, tries, proof, gone>>

Operators == {n \in Names : accounts[n] # Absent}
Active(n) == n \in Operators /\ accounts[n].active
Administrators == {n \in Operators : Active(n) /\ accounts[n].role = "administrator"}

Closed == [who |-> Nobody, role |-> "none", locked |-> FALSE, verified |-> 0,
           idle |-> 0, authority |-> "closed", until |-> 0,
           asks |-> FALSE]
NoAccounts == [n \in Names |-> Absent]
NoCall == [op |-> "none"]
NoFailures == [count |-> 0, until |-> 0]
NoTries == [count |-> 0, wait |-> 0, odd |-> FALSE, judged |-> FALSE]
Here == -1   \* in gone: the name is on the register and active
Most == 7    \* from the seventh failure on nothing changes

(* Role::may, and Authority::may on top of it.                              *)
RoleMay(role, a) ==
  CASE role = "administrator" -> TRUE
    [] role = "distributor"   -> a \in {"Read", "RunBootstrap", "Export"}
    [] role = "auditor"       -> a \in {"Read", "Export", "VerifyAudit"}

AuthorityMay(d, a) ==
  \/ desk[d].authority = "unenrolled"
  \/ desk[d].authority = "out" /\ a = "Read"
  \/ desk[d].authority \in Roles /\ RoleMay(desk[d].authority, a)

(* Store::is_reverified_at and Store::require.                              *)
StoreFresh(d) == desk[d].authority = "unenrolled" \/ desk[d].until > 0
Require(d, a) == AuthorityMay(d, a) /\ (a \in Sensitive => StoreFresh(d))

(* Session::is_reverified_at.                                               *)
SessionFresh(d) == ~desk[d].locked /\ desk[d].verified > 0

(* Mutant: the third failure is free as well.                               *)
After_Lenient(n) == CASE n <= 3 -> 0
                      [] n = 4 -> First
                      [] n \in {5, 6} -> Second
                      [] OTHER -> Third

(* lockout::after: two free attempts, then steps that only grow.            *)
After(n) == CASE n <= 2 -> 0
              [] n \in {3, 4} -> First
              [] n \in {5, 6} -> Second
              [] OTHER -> Third

RecordFailure(row) ==
  LET n == IF row.count < Most THEN row.count + 1 ELSE Most
  IN [count |-> n, until |-> After(n)]

(* The screen that manages operators is painted for a session only.         *)
Manages(d) == desk[d].who # Nobody /\ Require(d, "ManageOperators")

(* Unless calls may be split, one is whole before the next begins.          *)
Turn(d) == Split \/ \A e \in Desks \ {d} : call[e] = NoCall
Idle(d) == call[d] = NoCall /\ Turn(d) /\ desk[d].authority # "closed"
SignedIn(d) == desk[d].who # Nobody

AuthInit ==
  /\ accounts = NoAccounts
  /\ failures = [n \in Names |-> NoFailures]
  /\ wrote = {}
  /\ desk = [d \in Desks |-> Closed]
  /\ call = [d \in Desks |-> NoCall]
  /\ budget \in Budgets
  /\ tries = [n \in Names |-> NoTries]
  /\ proof = [d \in Desks |-> 0]
  /\ gone = [n \in Names |-> Here]

(* adopt_register_authority: a session never outlives the register it was   *)
(* opened on.                                                               *)
Adopted(table) ==
  [Closed EXCEPT !.authority = IF \A n \in Names : table[n] = Absent
                               THEN "unenrolled" ELSE "out"]

(* The table as it is counted: a count that fails is taken for none.        *)
Counted(table) == {table, NoAccounts}

OpenRegister(d) ==
  /\ desk[d].authority = "closed" /\ Turn(d) /\ budget.open > 0
  /\ \E table \in Counted(accounts) : desk' = [desk EXCEPT ![d] = Adopted(table)]
  /\ budget' = [budget EXCEPT !.open = @ - 1]
  /\ UNCHANGED <<accounts, failures, wrote, call, tries, proof, gone>>

CloseRegister(d) ==
  /\ Idle(d)
  /\ desk' = [desk EXCEPT ![d] = Closed]
  /\ proof' = [proof EXCEPT ![d] = 0]
  /\ UNCHANGED <<accounts, failures, wrote, call, budget, tries, gone>>

Less(n) == IF n > 0 THEN n - 1 ELSE 0
More(n, cap) == IF n < cap THEN n + 1 ELSE cap

(* A step of the clock.                                                     *)
Pass ==
  /\ Split \/ \A d \in Desks : call[d] = NoCall
  /\ failures' = [n \in Names |-> [failures[n] EXCEPT !.until = Less(@)]]
  /\ desk' = [d \in Desks |->
       [desk[d] EXCEPT !.verified = Less(@), !.until = Less(@),
          !.idle = IF SignedIn(d) THEN More(@, TimeoutAfter) ELSE 0]]
  /\ tries' = [n \in Names |-> [tries[n] EXCEPT !.wait = Less(@)]]
  /\ proof' = [d \in Desks |-> Less(proof[d])]
  /\ gone' = [n \in Names |-> IF gone[n] = Here THEN Here ELSE More(gone[n], Window)]
  /\ UNCHANGED <<accounts, wrote, call, budget>>

Begin(d, c) == call' = [call EXCEPT ![d] = c]
End(d) == call' = [call EXCEPT ![d] = NoCall]

(* enrol_first_administrator reads the table and inserts.                   *)
EnrolFirst(d, n) ==
  /\ Idle(d) /\ desk[d].authority = "unenrolled"
  /\ Operators = {} /\ budget.enrol > 0
  /\ Begin(d, [op |-> "first", name |-> n])
  /\ budget' = [budget EXCEPT !.enrol = @ - 1]
  /\ UNCHANGED <<accounts, failures, wrote, desk, tries, proof, gone>>

NewAccount(n, role) ==
  /\ accounts' = [accounts EXCEPT ![n] = [role |-> role, active |-> TRUE]]
  /\ gone' = [gone EXCEPT ![n] = Here]

(* The username is UNIQUE: a name another workstation took meanwhile is an  *)
(* error of the statement.  Enrolling leaves this desk signed out.          *)
FinishFirst(d) ==
  /\ call[d].op = "first" /\ End(d)
  /\ IF accounts[call[d].name] = Absent
     THEN /\ NewAccount(call[d].name, "administrator")
          /\ \E table \in Counted(accounts') : desk' = [desk EXCEPT ![d] = Adopted(table)]
     ELSE UNCHANGED <<accounts, gone, desk>>
  /\ UNCHANGED <<failures, wrote, budget, tries, proof>>

(* enrol_operator: the role and a fresh credential, then a new name.        *)
Enrol(d, n, role) ==
  /\ Idle(d) /\ Manages(d)
  /\ accounts[n] = Absent /\ budget.enrol > 0
  /\ NewAccount(n, role)
  /\ wrote' = wrote \cup {desk[d].who}
  /\ budget' = [budget EXCEPT !.enrol = @ - 1]
  /\ UNCHANGED <<failures, desk, call, tries, proof>>

(* The management calls that look at the table before they write it: a role,*)
(* an account on or off, an account removed.                                *)
LosesAdministrator(n) == n \in Administrators /\ Cardinality(Administrators) <= 1

Rule(d, n, what) ==
  /\ Idle(d) /\ Manages(d)
  /\ n \in Operators /\ budget.rule > 0
  /\ budget' = [budget EXCEPT !.rule = @ - 1]
  /\ Begin(d, [op |-> what, name |-> n])
  /\ UNCHANGED <<accounts, failures, wrote, desk, tries, proof, gone>>

(* Mutant: the administrators are not counted.                              *)
SetRole_Uncounted(d, n, role) ==
  /\ Rule(d, n, role) /\ accounts[n].role # role

SetRole(d, n, role) ==
  /\ Rule(d, n, role) /\ accounts[n].role # role
  /\ accounts[n].role = "administrator" => Cardinality(Administrators) > 1

SetActive(d, n) ==
  /\ ~(Active(n) /\ LosesAdministrator(n))
  /\ Rule(d, n, "toggle")

(* Mutant: what the name wrote is not looked at.                            *)
Remove_Anyone(d, n) ==
  /\ n # desk[d].who /\ ~LosesAdministrator(n)
  /\ Rule(d, n, "remove")

Remove(d, n) ==
  /\ n # desk[d].who /\ ~LosesAdministrator(n)
  /\ n \notin wrote
  /\ Rule(d, n, "remove")

FinishRule(d) ==
  LET n == call[d].name IN
  /\ call[d].op \in Roles \cup {"toggle", "remove"} /\ End(d)
  /\ IF accounts[n] = Absent
     THEN UNCHANGED <<accounts, failures, tries, gone>>
     ELSE CASE call[d].op \in Roles ->
                 /\ accounts' = [accounts EXCEPT ![n].role = call[d].op]
                 /\ UNCHANGED <<failures, tries, gone>>
            [] call[d].op = "toggle" ->
                 /\ accounts' = [accounts EXCEPT ![n].active = ~@]
                 /\ gone' = [gone EXCEPT ![n] = IF accounts[n].active THEN 0 ELSE Here]
                 /\ UNCHANGED <<failures, tries>>
            [] call[d].op = "remove" ->
                 /\ accounts' = [accounts EXCEPT ![n] = Absent]
                 /\ failures' = [failures EXCEPT ![n] = NoFailures]
                 /\ tries' = [tries EXCEPT ![n] = NoTries]
                 /\ gone' = [gone EXCEPT ![n] = 0]
  /\ wrote' = wrote \cup {desk[d].who}
  /\ UNCHANGED <<desk, budget, proof>>

(* set_operator_password and clear_operator_lockout lift a lockout.         *)
Lift(d, n) ==
  /\ Idle(d) /\ Manages(d) /\ budget.rule > 0
  /\ failures' = [failures EXCEPT ![n] = NoFailures]
  /\ tries' = [tries EXCEPT ![n] = NoTries]
  /\ wrote' = wrote \cup {desk[d].who}
  /\ budget' = [budget EXCEPT !.rule = @ - 1]
  /\ UNCHANGED <<accounts, desk, call, proof, gone>>

(* register_operator_credential: another key for an account; what failed    *)
(* and what is signed in stand.                                             *)
RegisterKey(d, n) ==
  /\ Idle(d) /\ Manages(d) /\ n \in Operators
  /\ wrote' = wrote \cup {desk[d].who}
  /\ UNCHANGED <<accounts, failures, desk, call, budget, tries, proof, gone>>

(* A locked session offers its own name only; confirming is for the name of *)
(* the session.                                                             *)
Presented(d, n, confirm) ==
  IF confirm THEN SignedIn(d) /\ desk[d].asks /\ n = desk[d].who
  ELSE ~desk[d].asks /\ (SignedIn(d) => desk[d].locked /\ n = desk[d].who)

(* Mutant: a credential is judged whether or not the account is active.     *)
Judge_Disabled(n, right) == right /\ n \in Operators

(* sign_in_with_password, sign_in_with_credential: an account that is off   *)
(* is refused whatever is presented.                                        *)
Judge(n, right) == right /\ Active(n)

(* Signing in reads the account and judges what was presented, reads the    *)
(* failure row, and writes.                                                 *)
SignIn(d, n, right, confirm) ==
  /\ Idle(d) /\ desk[d].authority # "unenrolled" /\ Presented(d, n, confirm)
  /\ Begin(d, [op |-> "signin", name |-> n, right |-> Judge(n, right),
               role |-> IF n \in Operators THEN accounts[n].role ELSE "none",
               row |-> failures[n], confirm |-> confirm])
  /\ right \/ budget.guess > 0
  /\ budget' = IF right THEN budget ELSE [budget EXCEPT !.guess = @ - 1]
  /\ UNCHANGED <<accounts, failures, wrote, desk, tries, proof, gone>>

(* What the history keeps of a judged credential: the wrong ones in a row,  *)
(* and what the norm makes the next one wait.                               *)
Norm(n) == IF n < 3 THEN 0 ELSE IF n < 5 THEN First ELSE IF n < 7 THEN Second ELSE Third
Judged(t, right) ==
  LET n == IF right THEN 0 ELSE IF t.count < Most THEN t.count + 1 ELSE Most
  IN [count |-> n, wait |-> Norm(n), odd |-> ~t.odd, judged |-> TRUE]

(* finish_sign_in: a locked name is refused uncounted, right or not.        *)
FinishRefused(d) ==
  LET c == call[d] IN
  /\ c.op = "signin" /\ End(d)
  /\ c.row.until > 0
  /\ UNCHANGED <<accounts, failures, wrote, desk, budget, tries, proof, gone>>

FinishWrong(d) ==
  LET c == call[d] IN
  /\ c.op = "signin" /\ End(d)
  /\ c.row.until = 0 /\ ~c.right
  /\ failures' = [failures EXCEPT ![c.name] = RecordFailure(c.row)]
  /\ tries' = [tries EXCEPT ![c.name] = Judged(@, FALSE)]
  /\ UNCHANGED <<accounts, wrote, desk, budget, proof, gone>>

(* Mutant: confirming renews the session's clock and not the store's.       *)
Signed_SessionOnly(d, c) ==
  IF c.confirm THEN [desk[d] EXCEPT !.verified = Window, !.idle = 0, !.asks = FALSE]
  ELSE [desk[d] EXCEPT !.who = c.name, !.role = c.role, !.locked = FALSE,
                       !.verified = Window, !.idle = 0,
                       !.authority = c.role, !.until = Window, !.asks = FALSE]

(* accept_sign_in opens a session and acts as it; complete_reverification   *)
(* renews the two clocks, and a session that locked meanwhile stays locked. *)
Signed(d, c) ==
  IF c.confirm THEN [desk[d] EXCEPT !.verified = Window, !.idle = 0, !.asks = FALSE,
                                    !.until = Window]
  ELSE [desk[d] EXCEPT !.who = c.name, !.role = c.role, !.locked = FALSE,
                       !.verified = Window, !.idle = 0,
                       !.authority = c.role, !.until = Window, !.asks = FALSE]

FinishRight(d) ==
  LET c == call[d] IN
  /\ c.op = "signin" /\ End(d)
  /\ c.row.until = 0 /\ c.right
  /\ failures' = [failures EXCEPT ![c.name] = NoFailures]
  /\ wrote' = wrote \cup {c.name}
  /\ desk' = [desk EXCEPT ![d] = Signed(d, c)]
  /\ proof' = [proof EXCEPT ![d] = Window]
  /\ tries' = [tries EXCEPT ![c.name] = Judged(@, TRUE)]
  /\ UNCHANGED <<accounts, budget, gone>>

(* require_reverification: a stale session is asked for its credential, and *)
(* the question can be dismissed.                                           *)
AskAgain(d) ==
  /\ Idle(d) /\ SignedIn(d) /\ ~desk[d].locked
  /\ desk' = [desk EXCEPT ![d].asks = IF @ THEN FALSE ELSE ~SessionFresh(d)]
  /\ UNCHANGED <<accounts, failures, wrote, call, budget, tries, proof, gone>>

SignedOutDesk(s) == [s EXCEPT !.who = Nobody, !.role = "none", !.locked = FALSE, !.idle = 0,
                              !.verified = 0, !.authority = "out",
                              !.until = 0, !.asks = FALSE]
LockedDesk(s) == [s EXCEPT !.locked = TRUE, !.verified = 0,
                           !.authority = "out", !.until = 0]

SignOut(d) ==
  /\ Idle(d) /\ SignedIn(d)
  /\ wrote' = wrote \cup {desk[d].who}
  /\ desk' = [desk EXCEPT ![d] = SignedOutDesk(@)]
  /\ UNCHANGED <<accounts, failures, call, budget, tries, proof, gone>>

Lock(d) ==
  /\ Idle(d) /\ SignedIn(d) /\ ~desk[d].locked
  /\ wrote' = wrote \cup {desk[d].who}
  /\ desk' = [desk EXCEPT ![d] = LockedDesk(@)]
  /\ UNCHANGED <<accounts, failures, call, budget, tries, proof, gone>>

(* Mutant: an idle session is locked on the screen and the store never told.*)
Ticked_NotSynced(s) ==
  IF s.locked THEN s
  ELSE IF s.idle >= TimeoutAfter THEN SignedOutDesk(s)
  ELSE IF s.idle >= LockAfter THEN [s EXCEPT !.locked = TRUE, !.verified = 0] ELSE s

(* tick_session: a locked session is past the clock.                        *)
Ticked(s) ==
  IF s.locked THEN s
  ELSE IF s.idle >= TimeoutAfter THEN SignedOutDesk(s)
  ELSE IF s.idle >= LockAfter THEN LockedDesk(s) ELSE s

(* A frame touches the session when it carries input, and then ticks.       *)
Frame(d, input) ==
  /\ Idle(d) /\ SignedIn(d)
  /\ LET s == IF input THEN [desk[d] EXCEPT !.idle = 0] ELSE desk[d]
         t == Ticked(s)
     IN /\ desk' = [desk EXCEPT ![d] = t]
        /\ wrote' = IF t = s THEN wrote ELSE wrote \cup {desk[d].who}
  /\ UNCHANGED <<accounts, failures, call, budget, tries, proof, gone>>

AuthNext ==
  \/ Pass
  \/ \E d \in Desks :
       \/ OpenRegister(d) \/ CloseRegister(d) \/ AskAgain(d) \/ SignOut(d) \/ Lock(d)
       \/ FinishFirst(d) \/ FinishRule(d)
       \/ FinishRefused(d) \/ FinishWrong(d) \/ FinishRight(d)
       \/ \E input \in BOOLEAN : Frame(d, input)
       \/ \E n \in Names :
            \/ EnrolFirst(d, n) \/ SetActive(d, n) \/ Remove(d, n) \/ Lift(d, n)
            \/ RegisterKey(d, n)
            \/ \E role \in Roles : Enrol(d, n, role) \/ SetRole(d, n, role)
            \/ \E right, confirm \in BOOLEAN : SignIn(d, n, right, confirm)

AuthSpec == AuthInit /\ [][AuthNext]_authVars

(***************************************************************************)
(* Properties.                                                              *)
(***************************************************************************)

(* The authority a store enforces is that of the session on its screen, and *)
(* the two clocks that ask for a credential again agree while it is unlocked*)
(* (sync_operator, mark_reverified): a screen that believes it is fresh     *)
(* while the store refuses would never ask.                                 *)
ClocksAgree ==
  \A d \in Desks : SignedIn(d) =>
    /\ desk[d].authority = (IF desk[d].locked THEN "out" ELSE desk[d].role)
    /\ ~desk[d].locked => (SessionFresh(d) <=> StoreFresh(d))

(* Nothing sensitive is open to an enrolled desk unless the credential of   *)
(* its operator was presented there less than a window ago.                 *)
SensitiveIsFresh ==
  \A d \in Desks, a \in Sensitive :
    (desk[d].authority \in Roles /\ Require(d, a)) =>
      proof[d] > 0

(* Both: the screen and the store keep one account of who may do what.      *)
GatesAgree == ClocksAgree /\ SensitiveIsFresh

(* An operator disabled or removed from one workstation can start nothing   *)
(* sensitive on another once the last credential they gave there is a window*)
(* old: asking again reads the account (finish_sign_in).                    *)
RevocationBites ==
  \A d \in Desks, a \in Sensitive :
    (SignedIn(d) /\ gone[desk[d].who] >= Window) => ~Require(d, a)

(* What is presented for a name is judged, right or wrong, only when the    *)
(* penalty for the wrong ones before it has passed (lockout::after).        *)
GuessesAreSpaced ==
  [][\A n \in Names : (tries'[n].judged /\ tries'[n].odd # tries[n].odd)
                       => tries[n].wait = 0]_authVars

(* A register with operators has an administrator who is active, and every  *)
(* operator an audit entry names is on it (administrator_count,             *)
(* audit_entries_by).                                                       *)
AdministratorRemains == Operators # {} => Administrators # {}
ActorsRemain == (wrote \ {Nobody}) \subseteq Operators

(* Both.                                                                    *)
AccountsStand == AdministratorRemains /\ ActorsRemain

(* Said by the documentation, and not so: an idle session ends; a desk that *)
(* has the register open knows that operators were enrolled; a demoted      *)
(* administrator administers no longer than a credential lasts.             *)
IdleSessionEnds ==
  \A d \in Desks : SignedIn(d) /\ desk[d].idle >= TimeoutAfter
                     => Ticked(desk[d]).who = Nobody
EverybodySignsIn ==
  \A d \in Desks : Operators # {} => desk[d].authority # "unenrolled"
=============================================================================
