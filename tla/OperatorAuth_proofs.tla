------------------------ MODULE OperatorAuth_proofs ------------------------
(* Proofs about OperatorAuth.  The first part holds however the calls of    *)
(* two workstations are interleaved; the second for calls that are whole,   *)
(* since each of its three properties is lost when another workstation      *)
(* writes between the reading and the writing of one.                       *)
EXTENDS OperatorAuth, FiniteSetTheorems, TLAPS

(***************************************************************************)
(* Types.                                                                   *)
(***************************************************************************)

Account == [role : Roles, active : BOOLEAN]

DeskState ==
  [who : Names \cup {Nobody}, role : Roles \cup {"none"}, locked : BOOLEAN,
   verified : 0..Window, idle : 0..TimeoutAfter,
   authority : Roles \cup {"closed", "unenrolled", "out"},
   until : 0..Window, asks : BOOLEAN]

Rulings == Roles \cup {"toggle", "remove"}
FailureRow == [count : 0..Most, until : Penalties]
Tries == [count : 0..Most, wait : Penalties, odd : BOOLEAN, judged : BOOLEAN]

CallState ==
  {NoCall} \cup [op : {"first"} \cup Rulings, name : Names]
    \cup [op : {"signin"}, name : Names, right : BOOLEAN,
          role : Roles \cup {"none"}, row : FailureRow, confirm : BOOLEAN]

TablesOK ==
  /\ accounts \in [Names -> Account \cup {Absent}]
  /\ failures \in [Names -> FailureRow]
  /\ wrote \subseteq Names \cup {Nobody}
  /\ tries \in [Names -> Tries]
  /\ gone \in [Names -> Here..Window]

DesksTyped ==
  /\ desk \in [Desks -> DeskState]
  /\ call \in [Desks -> CallState]
  /\ proof \in [Desks -> 0..Window]

AuthTypeOK == TablesOK /\ DesksTyped

(***************************************************************************)
(* What every desk keeps to, split calls or not.                            *)
(***************************************************************************)

(* The store's authority and clock against the session on the screen and    *)
(* the credential last presented there.                                     *)
SessionOK(s, p) ==
  /\ s.who # Nobody => /\ s.role \in Roles
                       /\ s.authority = (IF s.locked THEN "out" ELSE s.role)
  /\ s.who = Nobody => s.authority \notin Roles
  /\ s.verified = s.until
  /\ s.until \in {0, p}

(* A pending call against the desk that began it.                           *)
CallOK(s, c) ==
  /\ c # NoCall => s.authority # "closed"
  /\ c.op = "signin" /\ c.right => c.role \in Roles
  /\ c.op = "signin" /\ c.confirm => s.who = c.name
  /\ c.op \in Rulings => s.who # Nobody

DesksOK == \A d \in Desks : SessionOK(desk[d], proof[d]) /\ CallOK(desk[d], call[d])

AuthInv == AuthTypeOK /\ DesksOK

(***************************************************************************)
(* The shapes a step can have.                                              *)
(***************************************************************************)

(* One desk moves to t, with call c pending and proof p.                    *)
OnDesk(d, t, c, p) ==
  /\ desk' = [desk EXCEPT ![d] = t]
  /\ call' = [call EXCEPT ![d] = c]
  /\ proof' = [proof EXCEPT ![d] = p]

(* A step of the desk alone: the session goes on, or ends; no clock that    *)
(* asks for a credential is set forward; the trail may name the session.    *)
SessionStep(d) ==
  /\ Turn(d) /\ call[d] = NoCall
  /\ \E t \in DeskState, p \in 0..Window :
       /\ OnDesk(d, t, NoCall, p) /\ SessionOK(t, p)
       /\ t.who \in {Nobody, desk[d].who} /\ t.until \in {0, desk[d].until}
  /\ wrote' \in {wrote, wrote \cup {desk[d].who}}
  /\ wrote' # wrote => desk[d].who # Nobody
  /\ UNCHANGED <<accounts, failures, tries, gone>>

(* A call has read and is to write.                                         *)
CallBegins(d, c) ==
  /\ Idle(d) /\ Begin(d, c) /\ c \in CallState /\ CallOK(desk[d], c)
  /\ UNCHANGED <<accounts, failures, wrote, desk, tries, proof, gone>>

(***************************************************************************)
(* Lemmas.                                                                  *)
(***************************************************************************)

LEMMA Numbers ==
  /\ Window \in Nat /\ LockAfter \in Nat /\ TimeoutAfter \in Nat
  /\ First \in Penalties /\ Second \in Penalties /\ Third \in Penalties
  /\ First \in Nat /\ Second \in Nat /\ Third \in Nat
  /\ 0 \in Penalties
BY AuthAssumption DEF AuthAssumption, Penalties

LEMMA CallFields ==
  ASSUME NEW c \in CallState
  PROVE  /\ c.op = "signin" =>
              /\ c.name \in Names /\ c.right \in BOOLEAN
              /\ c.role \in Roles \cup {"none"} /\ c.row \in FailureRow
              /\ c.confirm \in BOOLEAN
         /\ c.op \in {"first"} \cup Rulings => c.name \in Names
         /\ c.op = "none" <=> c = NoCall
BY DEF CallState, NoCall, Rulings, Roles

LEMMA RowsAreTyped ==
  /\ NoFailures \in FailureRow /\ NoTries \in Tries
  /\ \A row \in FailureRow : RecordFailure(row) \in FailureRow
  /\ \A t \in Tries, right \in BOOLEAN : Judged(t, right) \in Tries
<1>1. NoFailures \in FailureRow /\ NoTries \in Tries
  BY Numbers DEF NoFailures, NoTries, FailureRow, Tries, Most
<1>2. \A n \in 0..Most : After(n) \in Penalties /\ Norm(n) \in Penalties
  BY Numbers DEF After, Norm, Most
<1>3. ASSUME NEW row \in FailureRow PROVE RecordFailure(row) \in FailureRow
  <2> DEFINE n == IF row.count < Most THEN row.count + 1 ELSE Most
  <2>1. n \in 0..Most
    BY DEF FailureRow, Most
  <2>2. RecordFailure(row) = [count |-> n, until |-> After(n)]
    BY DEF RecordFailure
  <2> HIDE DEF n
  <2> QED BY <2>1, <2>2, <1>2 DEF FailureRow
<1>4. ASSUME NEW t \in Tries, NEW right \in BOOLEAN PROVE Judged(t, right) \in Tries
  <2> DEFINE n == IF right THEN 0 ELSE IF t.count < Most THEN t.count + 1 ELSE Most
  <2>1. n \in 0..Most
    BY DEF Tries, Most
  <2>2. Judged(t, right) = [count |-> n, wait |-> Norm(n), odd |-> ~t.odd, judged |-> TRUE]
    BY DEF Judged
  <2> HIDE DEF n
  <2> QED BY <2>1, <2>2, <1>2 DEF Tries
<1> QED BY <1>1, <1>3, <1>4

LEMMA DeskMoves ==
  ASSUME AuthInv, NEW d \in Desks, NEW t \in DeskState, NEW c \in CallState,
         NEW p \in 0..Window, OnDesk(d, t, c, p), SessionOK(t, p), CallOK(t, c)
  PROVE  DesksTyped' /\ DesksOK'
<1>1. DesksTyped'
  BY DEF AuthInv, AuthTypeOK, DesksTyped, OnDesk
<1>2. ASSUME NEW e \in Desks
      PROVE  SessionOK(desk'[e], proof'[e]) /\ CallOK(desk'[e], call'[e])
  <2>1. CASE e = d
    <3>1. desk'[e] = t /\ call'[e] = c /\ proof'[e] = p
      BY <2>1 DEF AuthInv, AuthTypeOK, DesksTyped, OnDesk
    <3> QED BY <3>1
  <2>2. CASE e # d
    <3>1. desk'[e] = desk[e] /\ call'[e] = call[e] /\ proof'[e] = proof[e]
      BY <2>2 DEF AuthInv, AuthTypeOK, DesksTyped, OnDesk
    <3> QED BY <3>1 DEF AuthInv, DesksOK
  <2> QED BY <2>1, <2>2
<1> QED BY <1>1, <1>2 DEF DesksOK, SessionOK, CallOK

(* What is not touched can be said to move to where it is.                  *)
LEMMA Untouched ==
  ASSUME AuthInv, NEW d \in Desks
  PROVE  /\ desk = [desk EXCEPT ![d] = desk[d]] /\ desk[d] \in DeskState
         /\ call = [call EXCEPT ![d] = call[d]] /\ call[d] \in CallState
         /\ proof = [proof EXCEPT ![d] = proof[d]] /\ proof[d] \in 0..Window
         /\ SessionOK(desk[d], proof[d]) /\ CallOK(desk[d], call[d])
BY DEF AuthInv, AuthTypeOK, DesksTyped, DesksOK

LEMMA TablesStay ==
  ASSUME AuthInv, UNCHANGED <<accounts, failures, tries, gone>>,
         wrote' \subseteq Names \cup {Nobody}
  PROVE  TablesOK'
BY DEF AuthInv, AuthTypeOK, TablesOK

LEMMA SessionStepKeeps ==
  ASSUME AuthInv, NEW d \in Desks, SessionStep(d)
  PROVE  AuthInv'
<1>1. PICK t \in DeskState, p \in 0..Window : OnDesk(d, t, NoCall, p) /\ SessionOK(t, p)
  BY DEF SessionStep
<1>2. NoCall \in CallState /\ CallOK(t, NoCall)
  BY DEF CallState, CallOK, NoCall, Rulings, Roles
<1>3. DesksTyped' /\ DesksOK'
  BY <1>1, <1>2, DeskMoves
<1>4. desk[d].who \in Names \cup {Nobody}
  BY Untouched DEF DeskState
<1>5. wrote' \subseteq Names \cup {Nobody}
  BY <1>4 DEF SessionStep, AuthInv, AuthTypeOK, TablesOK
<1>6. TablesOK'
  BY <1>5, TablesStay DEF SessionStep
<1> QED BY <1>3, <1>6 DEF AuthInv, AuthTypeOK

LEMMA CallBeginsKeeps ==
  ASSUME AuthInv, NEW d \in Desks, NEW c, CallBegins(d, c)
  PROVE  AuthInv'
<1>1. OnDesk(d, desk[d], c, proof[d])
  BY Untouched DEF CallBegins, Begin, OnDesk
<1>2. DesksTyped' /\ DesksOK'
  BY <1>1, Untouched, DeskMoves DEF CallBegins
<1>3. TablesOK'
  BY TablesStay DEF CallBegins, AuthInv, AuthTypeOK, TablesOK
<1> QED BY <1>2, <1>3 DEF AuthInv, AuthTypeOK

LEMMA Clocks ==
  ASSUME NEW n \in Nat, NEW cap \in Nat, n <= cap
  PROVE  Less(n) \in 0..cap /\ More(n, cap) \in 0..cap
BY DEF Less, More
(***************************************************************************)
(* Every action has one of the shapes.                                      *)
(***************************************************************************)

LEMMA DeskFields ==
  ASSUME AuthInv, NEW d \in Desks
  PROVE  /\ desk[d].who \in Names \cup {Nobody} /\ desk[d].role \in Roles \cup {"none"}
         /\ desk[d].locked \in BOOLEAN /\ desk[d].verified \in 0..Window
         /\ desk[d].idle \in 0..TimeoutAfter
         /\ desk[d].authority \in Roles \cup {"closed", "unenrolled", "out"}
         /\ desk[d].until \in 0..Window /\ desk[d].asks \in BOOLEAN
BY Untouched DEF DeskState

LEMMA FreshDesks ==
  ASSUME NEW table, NEW p \in 0..Window
  PROVE  /\ Closed \in DeskState /\ Adopted(table) \in DeskState
         /\ SessionOK(Closed, p) /\ SessionOK(Adopted(table), p)
         /\ Closed.who = Nobody /\ Closed.until = 0
         /\ Adopted(table).who = Nobody /\ Adopted(table).until = 0
         /\ Closed.authority = "closed" /\ Adopted(table).authority # "closed"
<1>1. Closed \in DeskState
  BY Numbers DEF Closed, DeskState
<1>2. Adopted(table) \in {[Closed EXCEPT !.authority = "unenrolled"],
                          [Closed EXCEPT !.authority = "out"]}
  BY DEF Adopted
<1>3. /\ [Closed EXCEPT !.authority = "unenrolled"] \in DeskState
      /\ [Closed EXCEPT !.authority = "out"] \in DeskState
  BY <1>1 DEF Closed, DeskState
<1>4. /\ SessionOK(Closed, p) /\ Closed.who = Nobody /\ Closed.until = 0
      /\ Closed.authority = "closed"
  BY DEF SessionOK, Closed, Roles
<1>5. \A a \in {"unenrolled", "out"} :
        LET t == [Closed EXCEPT !.authority = a]
        IN SessionOK(t, p) /\ t.who = Nobody /\ t.until = 0 /\ t.authority # "closed"
  BY DEF SessionOK, Closed, Roles
<1>6. /\ Adopted(table) \in DeskState /\ SessionOK(Adopted(table), p)
      /\ Adopted(table).who = Nobody /\ Adopted(table).until = 0
      /\ Adopted(table).authority # "closed"
  BY <1>2, <1>3, <1>5
<1> QED BY <1>1, <1>4, <1>6

(* A session that is ended or locked.                                       *)
LEMMA EndedDesks ==
  ASSUME AuthInv, NEW s \in DeskState, NEW p \in 0..Window, SessionOK(s, p)
  PROVE  /\ SignedOutDesk(s) \in DeskState /\ SessionOK(SignedOutDesk(s), p)
         /\ SignedOutDesk(s).who = Nobody /\ SignedOutDesk(s).until = 0
         /\ s.who # Nobody => SessionOK(LockedDesk(s), p)
         /\ LockedDesk(s) \in DeskState
         /\ LockedDesk(s).who = s.who /\ LockedDesk(s).until = 0
<1>1. SignedOutDesk(s) \in DeskState /\ LockedDesk(s) \in DeskState
  <2> DEFINE out == [s EXCEPT !.who = Nobody, !.role = "none", !.locked = FALSE, !.idle = 0]
             locked == [s EXCEPT !.locked = TRUE, !.verified = 0]
  <2>1. 0 \in 0..Window /\ 0 \in 0..TimeoutAfter
    BY Numbers
  <2>2. out \in DeskState
    BY <2>1 DEF DeskState
  <2>3. locked \in DeskState
    BY <2>1 DEF DeskState
  <2>4. SignedOutDesk(s) = [out EXCEPT !.verified = 0, !.authority = "out",
                                       !.until = 0, !.asks = FALSE]
    BY DEF SignedOutDesk
  <2>5. LockedDesk(s) = [locked EXCEPT !.authority = "out", !.until = 0]
    BY DEF LockedDesk
  <2> HIDE DEF out, locked
  <2>6. SignedOutDesk(s) \in DeskState
    BY <2>1, <2>2, <2>4 DEF DeskState
  <2>7. LockedDesk(s) \in DeskState
    BY <2>1, <2>3, <2>5 DEF DeskState
  <2> QED BY <2>6, <2>7
<1>2. /\ SignedOutDesk(s).who = Nobody /\ SignedOutDesk(s).until = 0
      /\ SignedOutDesk(s).verified = 0 /\ SignedOutDesk(s).authority = "out"
  BY DEF SignedOutDesk, DeskState
<1>3. /\ LockedDesk(s).who = s.who /\ LockedDesk(s).until = 0
      /\ LockedDesk(s).verified = 0 /\ LockedDesk(s).authority = "out"
      /\ LockedDesk(s).locked /\ LockedDesk(s).role = s.role
  BY DEF LockedDesk, DeskState
<1>4. SessionOK(SignedOutDesk(s), p)
  BY <1>2 DEF SessionOK, Roles
<1>5. s.who # Nobody => SessionOK(LockedDesk(s), p)
  BY <1>3 DEF SessionOK
<1> QED BY <1>1, <1>2, <1>3, <1>4, <1>5

LEMMA OpenIsSession ==
  ASSUME AuthInv, NEW d \in Desks, OpenRegister(d)
  PROVE  SessionStep(d)
<1>1. call[d] = NoCall
  BY Untouched DEF OpenRegister, CallOK
<1>2. PICK table : OnDesk(d, Adopted(table), NoCall, proof[d])
  BY <1>1, Untouched DEF OpenRegister, OnDesk
<1> QED BY <1>1, <1>2, Untouched, FreshDesks DEF OpenRegister, SessionStep

LEMMA CloseIsSession ==
  ASSUME AuthInv, NEW d \in Desks, CloseRegister(d)
  PROVE  SessionStep(d)
<1>1. OnDesk(d, Closed, NoCall, 0)
  BY Untouched DEF CloseRegister, OnDesk, Idle
<1>2. 0 \in 0..Window
  BY Numbers
<1> QED BY <1>1, <1>2, FreshDesks DEF CloseRegister, SessionStep, Idle

LEMMA AskIsSession ==
  ASSUME AuthInv, NEW d \in Desks, AskAgain(d)
  PROVE  SessionStep(d)
<1> DEFINE s == desk[d]
           t == [s EXCEPT !.asks = IF @ THEN FALSE ELSE ~SessionFresh(d)]
<1>1. t \in DeskState
  <2>1. (IF s.asks THEN FALSE ELSE ~SessionFresh(d)) \in BOOLEAN
    BY DEF SessionFresh
  <2> QED BY <2>1, Untouched DEF DeskState
<1>2. /\ t.who = s.who /\ t.role = s.role /\ t.locked = s.locked
      /\ t.verified = s.verified /\ t.authority = s.authority /\ t.until = s.until
  BY Untouched DEF DeskState
<1>3. SessionOK(t, proof[d])
  BY <1>2, Untouched DEF SessionOK
<1>4. OnDesk(d, t, NoCall, proof[d])
  BY Untouched DEF AskAgain, OnDesk, Idle
<1> HIDE DEF t
<1> QED BY <1>1, <1>2, <1>3, <1>4, Untouched DEF AskAgain, SessionStep, Idle

LEMMA SignOutIsSession ==
  ASSUME AuthInv, NEW d \in Desks, SignOut(d)
  PROVE  SessionStep(d)
<1>1. OnDesk(d, SignedOutDesk(desk[d]), NoCall, proof[d])
  BY Untouched DEF SignOut, OnDesk, Idle
<1> QED BY <1>1, EndedDesks, Untouched DEF SignOut, SessionStep, Idle, SignedIn

LEMMA LockIsSession ==
  ASSUME AuthInv, NEW d \in Desks, Lock(d)
  PROVE  SessionStep(d)
<1>1. OnDesk(d, LockedDesk(desk[d]), NoCall, proof[d])
  BY Untouched DEF Lock, OnDesk, Idle
<1> QED BY <1>1, EndedDesks, Untouched DEF Lock, SessionStep, Idle, SignedIn

LEMMA FrameIsSession ==
  ASSUME AuthInv, NEW d \in Desks, NEW input \in BOOLEAN, Frame(d, input)
  PROVE  SessionStep(d)
<1> DEFINE s == IF input THEN [desk[d] EXCEPT !.idle = 0] ELSE desk[d]
           t == Ticked(s)
<1>1. s \in DeskState
  BY Untouched, Numbers DEF DeskState
<1>2. /\ s.who = desk[d].who /\ s.role = desk[d].role /\ s.locked = desk[d].locked
      /\ s.verified = desk[d].verified /\ s.authority = desk[d].authority
      /\ s.until = desk[d].until
  BY Untouched DEF DeskState
<1>3. SessionOK(s, proof[d]) /\ s.who # Nobody
  BY <1>2, Untouched DEF SessionOK, Frame, SignedIn
<1>4. t \in {s, SignedOutDesk(s), LockedDesk(s)}
  BY DEF Ticked
<1>5. OnDesk(d, t, NoCall, proof[d])
  BY Untouched DEF Frame, OnDesk, Idle
<1>6. wrote' \in {wrote, wrote \cup {desk[d].who}} /\ desk[d].who # Nobody
  BY DEF Frame, SignedIn
<1>7. Turn(d) /\ call[d] = NoCall /\ UNCHANGED <<accounts, failures, tries, gone>>
  BY DEF Frame, Idle
<1> HIDE DEF s, t
<1>8. t \in DeskState /\ SessionOK(t, proof[d])
  BY <1>1, <1>3, <1>4, EndedDesks, Untouched
<1>9. t.who \in {Nobody, desk[d].who} /\ t.until \in {0, desk[d].until}
  BY <1>1, <1>2, <1>3, <1>4, EndedDesks, Untouched
<1>10. \E u \in DeskState, p \in 0..Window :
          /\ OnDesk(d, u, NoCall, p) /\ SessionOK(u, p)
          /\ u.who \in {Nobody, desk[d].who} /\ u.until \in {0, desk[d].until}
  BY <1>5, <1>8, <1>9, Untouched
<1> QED BY <1>6, <1>7, <1>10 DEF SessionStep

SessionActs(d) ==
  \/ OpenRegister(d) \/ CloseRegister(d) \/ AskAgain(d) \/ SignOut(d) \/ Lock(d)
  \/ \E input \in BOOLEAN : Frame(d, input)

LEMMA SessionActsAreSessions ==
  ASSUME AuthInv, NEW d \in Desks, SessionActs(d)
  PROVE  SessionStep(d)
BY OpenIsSession, CloseIsSession, AskIsSession, SignOutIsSession, LockIsSession,
   FrameIsSession DEF SessionActs

(***************************************************************************)
(* The calls that read now and write later.                                 *)
(***************************************************************************)

(* What a management call has begun with.                                   *)
LEMMA RuleIsACall ==
  ASSUME AuthInv, NEW d \in Desks, NEW n \in Names, NEW what \in Rulings, Rule(d, n, what)
  PROVE  CallBegins(d, [op |-> what, name |-> n])
<1> DEFINE c == [op |-> what, name |-> n]
<1>1. c \in CallState
  BY DEF CallState
<1>2. c.op = what /\ what # "signin"
  BY DEF Rulings, Roles
<1>3. CallOK(desk[d], c)
  BY <1>2 DEF CallOK, Rule, Idle, Manages
<1> HIDE DEF c
<1>4. Rule(d, n, what) => Begin(d, c)
  BY DEF Rule, c
<1>5. CallBegins(d, c)
  BY <1>1, <1>3, <1>4 DEF CallBegins, Rule
<1> QED BY <1>5 DEF c

LEMMA FirstIsACall ==
  ASSUME AuthInv, NEW d \in Desks, NEW n \in Names, EnrolFirst(d, n)
  PROVE  CallBegins(d, [op |-> "first", name |-> n])
<1> DEFINE c == [op |-> "first", name |-> n]
<1>1. c \in CallState
  BY DEF CallState
<1>2. c.op = "first" /\ c.op \notin Rulings
  BY DEF Rulings, Roles
<1>3. CallOK(desk[d], c)
  BY <1>2 DEF CallOK, EnrolFirst, Idle
<1> HIDE DEF c
<1>4. Begin(d, c)
  BY DEF EnrolFirst, c
<1>5. CallBegins(d, c)
  BY <1>1, <1>3, <1>4 DEF CallBegins, EnrolFirst
<1> QED BY <1>5 DEF c

SignInCall(n, right, confirm) ==
  [op |-> "signin", name |-> n, right |-> Judge(n, right),
   role |-> IF n \in Operators THEN accounts[n].role ELSE "none",
   row |-> failures[n], confirm |-> confirm]

LEMMA AccountFields ==
  ASSUME AuthInv, NEW n \in Operators
  PROVE  n \in Names /\ accounts[n] \in Account /\ accounts[n].role \in Roles
BY DEF AuthInv, AuthTypeOK, TablesOK, Operators, Account

LEMMA SignInIsACall ==
  ASSUME AuthInv, NEW d \in Desks, NEW n \in Names, NEW right \in BOOLEAN,
         NEW confirm \in BOOLEAN, SignIn(d, n, right, confirm)
  PROVE  CallBegins(d, SignInCall(n, right, confirm))
<1> DEFINE c == SignInCall(n, right, confirm)
           r == IF n \in Operators THEN accounts[n].role ELSE "none"
<1>1. Judge(n, right) \in BOOLEAN /\ (Judge(n, right) => n \in Operators)
  <2>1. (accounts[n] # Absent => accounts[n].active \in BOOLEAN)
    BY DEF AuthInv, AuthTypeOK, TablesOK, Account
  <2> QED BY <2>1 DEF Judge, Active, Operators
<1>2. r \in Roles \cup {"none"} /\ (n \in Operators => r \in Roles)
  BY AccountFields
<1>3. failures[n] \in FailureRow
  BY DEF AuthInv, AuthTypeOK, TablesOK
<1> HIDE DEF r
<1>4. c = [op |-> "signin", name |-> n, right |-> Judge(n, right), role |-> r,
           row |-> failures[n], confirm |-> confirm]
  BY DEF SignInCall, r
<1>5. c \in CallState
  BY <1>1, <1>2, <1>3, <1>4 DEF CallState
<1>6. /\ c.op = "signin" /\ c.op \notin Rulings /\ (c.right => c.role \in Roles)
      /\ c.confirm = confirm /\ c.name = n
  BY <1>1, <1>2, <1>4 DEF Rulings, Roles
<1>7. Begin(d, c)
  BY DEF SignIn, SignInCall
<1> HIDE DEF c
<1>8. CallOK(desk[d], c)
  BY <1>6 DEF CallOK, SignIn, Idle, Presented
<1>9. CallBegins(d, c)
  BY <1>5, <1>7, <1>8 DEF CallBegins, SignIn
<1> QED BY <1>9 DEF c

(***************************************************************************)
(* The calls that are whole.                                                *)
(***************************************************************************)

(* Only the tables are written.                                             *)
LEMMA TableStep ==
  ASSUME AuthInv, UNCHANGED <<desk, call, proof>>
  PROVE  DesksTyped' /\ DesksOK'
BY DEF AuthInv, AuthTypeOK, DesksTyped, DesksOK, SessionOK, CallOK

LEMMA NewAccountTyped ==
  ASSUME AuthInv, NEW n \in Names, NEW role \in Roles, NewAccount(n, role)
  PROVE  /\ accounts' \in [Names -> Account \cup {Absent}]
         /\ gone' \in [Names -> Here..Window]
<1>1. [role |-> role, active |-> TRUE] \in Account
  BY DEF Account
<1>2. Here \in Here..Window
  BY Numbers DEF Here
<1> QED BY <1>1, <1>2 DEF NewAccount, AuthInv, AuthTypeOK, TablesOK

LEMMA EnrolKeeps ==
  ASSUME AuthInv, NEW d \in Desks, NEW n \in Names, NEW role \in Roles, Enrol(d, n, role)
  PROVE  AuthInv'
<1>1. TablesOK'
  <2>1. wrote' \subseteq Names \cup {Nobody}
    BY DeskFields DEF Enrol, AuthInv, AuthTypeOK, TablesOK
  <2> QED BY <2>1, NewAccountTyped DEF Enrol, AuthInv, AuthTypeOK, TablesOK
<1> QED BY <1>1, TableStep DEF Enrol, AuthInv, AuthTypeOK

LEMMA LiftKeeps ==
  ASSUME AuthInv, NEW d \in Desks, NEW n \in Names, Lift(d, n)
  PROVE  AuthInv'
<1>1. TablesOK'
  <2>1. wrote' \subseteq Names \cup {Nobody}
    BY DeskFields DEF Lift, AuthInv, AuthTypeOK, TablesOK
  <2> QED BY <2>1, RowsAreTyped DEF Lift, AuthInv, AuthTypeOK, TablesOK
<1> QED BY <1>1, TableStep DEF Lift, AuthInv, AuthTypeOK

LEMMA RegisterKeyKeeps ==
  ASSUME AuthInv, NEW d \in Desks, NEW n \in Names, RegisterKey(d, n)
  PROVE  AuthInv'
<1>1. TablesOK'
  <2>1. wrote' \subseteq Names \cup {Nobody}
    BY DeskFields DEF RegisterKey, AuthInv, AuthTypeOK, TablesOK
  <2> QED BY <2>1, TablesStay DEF RegisterKey
<1> QED BY <1>1, TableStep DEF RegisterKey, AuthInv, AuthTypeOK

(***************************************************************************)
(* The calls that finish.                                                   *)
(***************************************************************************)

LEMMA NoCallIsOK ==
  ASSUME NEW s
  PROVE  NoCall \in CallState /\ CallOK(s, NoCall)
BY DEF CallState, CallOK, NoCall, Rulings, Roles

LEMMA CallIsTyped ==
  ASSUME AuthInv, NEW d \in Desks
  PROVE  /\ call[d].op = "signin" =>
              /\ call[d].name \in Names /\ call[d].right \in BOOLEAN
              /\ call[d].role \in Roles \cup {"none"} /\ call[d].row \in FailureRow
              /\ call[d].confirm \in BOOLEAN
         /\ call[d].op \in {"first"} \cup Rulings => call[d].name \in Names
         /\ call[d].op # "none" => call[d] # NoCall
BY Untouched, CallFields

LEMMA FinishFirstKeeps ==
  ASSUME AuthInv, NEW d \in Desks, FinishFirst(d)
  PROVE  AuthInv'
<1> DEFINE n == call[d].name
<1>1. n \in Names
  BY CallIsTyped DEF FinishFirst
<1>2. "administrator" \in Roles
  BY DEF Roles
<1>3. TablesOK'
  <2>1. CASE accounts[n] = Absent
    BY <1>1, <1>2, <2>1, NewAccountTyped DEF FinishFirst, AuthInv, AuthTypeOK, TablesOK
  <2>2. CASE accounts[n] # Absent
    BY <1>1, <2>2, TablesStay DEF FinishFirst, AuthInv, AuthTypeOK, TablesOK
  <2> QED BY <2>1, <2>2
<1>4. DesksTyped' /\ DesksOK'
  <2>1. CASE accounts[n] = Absent
    <3>1. PICK table : OnDesk(d, Adopted(table), NoCall, proof[d])
      BY <2>1, Untouched DEF FinishFirst, OnDesk, End
    <3> QED BY <3>1, FreshDesks, NoCallIsOK, Untouched, DeskMoves
  <2>2. CASE accounts[n] # Absent
    <3>1. OnDesk(d, desk[d], NoCall, proof[d])
      BY <2>2, Untouched DEF FinishFirst, OnDesk, End
    <3> QED BY <3>1, NoCallIsOK, Untouched, DeskMoves
  <2> QED BY <2>1, <2>2
<1> QED BY <1>3, <1>4 DEF AuthInv, AuthTypeOK

(* What a management call finds when it writes.                             *)
LEMMA RuleWrites ==
  ASSUME AuthInv, NEW d \in Desks, FinishRule(d)
  PROVE  LET n == call[d].name IN
         /\ n \in Names
         /\ \/ UNCHANGED <<accounts, failures, tries, gone>>
            \/ /\ n \in Operators /\ call[d].op \in Roles
               /\ accounts' = [accounts EXCEPT ![n].role = call[d].op]
               /\ UNCHANGED <<failures, tries, gone>>
            \/ /\ n \in Operators /\ call[d].op = "toggle"
               /\ accounts' = [accounts EXCEPT ![n].active = ~@]
               /\ gone' = [gone EXCEPT ![n] = IF accounts[n].active THEN 0 ELSE Here]
               /\ UNCHANGED <<failures, tries>>
            \/ /\ n \in Operators /\ call[d].op = "remove"
               /\ accounts' = [accounts EXCEPT ![n] = Absent]
               /\ failures' = [failures EXCEPT ![n] = NoFailures]
               /\ tries' = [tries EXCEPT ![n] = NoTries]
               /\ gone' = [gone EXCEPT ![n] = 0]
<1>1. call[d].name \in Names
  BY CallIsTyped DEF FinishRule, Rulings
<1>2. CASE accounts[call[d].name] = Absent
  BY <1>1, <1>2 DEF FinishRule
<1>3. CASE accounts[call[d].name] # Absent
  <2>1. call[d].name \in Operators
    BY <1>1, <1>3 DEF Operators
  <2>2. CASE call[d].op \in Roles
    BY <1>1, <1>3, <2>1, <2>2 DEF FinishRule
  <2>3. CASE call[d].op = "toggle"
    BY <1>1, <1>3, <2>1, <2>3 DEF FinishRule, Roles
  <2>4. CASE call[d].op = "remove"
    BY <1>1, <1>3, <2>1, <2>4 DEF FinishRule, Roles
  <2> QED BY <2>2, <2>3, <2>4 DEF FinishRule
<1> QED BY <1>2, <1>3

LEMMA FinishRuleKeeps ==
  ASSUME AuthInv, NEW d \in Desks, FinishRule(d)
  PROVE  AuthInv'
<1> DEFINE n == call[d].name
<1>1. n \in Names
  BY RuleWrites
<1>2. wrote' \subseteq Names \cup {Nobody}
  BY DeskFields DEF FinishRule, AuthInv, AuthTypeOK, TablesOK
<1>3. Here \in Here..Window /\ 0 \in Here..Window
  BY Numbers DEF Here
<1>4. TablesOK'
  <2>1. CASE UNCHANGED <<accounts, failures, tries, gone>>
    BY <1>2, <2>1, TablesStay
  <2>2. CASE /\ n \in Operators /\ call[d].op \in Roles
             /\ accounts' = [accounts EXCEPT ![n].role = call[d].op]
             /\ UNCHANGED <<failures, tries, gone>>
    <3>1. [accounts[n] EXCEPT !.role = call[d].op] \in Account
      BY <2>2, AccountFields DEF Account
    <3> QED BY <1>1, <1>2, <2>2, <3>1 DEF AuthInv, AuthTypeOK, TablesOK
  <2>3. CASE /\ n \in Operators /\ call[d].op = "toggle"
             /\ accounts' = [accounts EXCEPT ![n].active = ~@]
             /\ gone' = [gone EXCEPT ![n] = IF accounts[n].active THEN 0 ELSE Here]
             /\ UNCHANGED <<failures, tries>>
    <3>1. [accounts[n] EXCEPT !.active = ~@] \in Account
      BY <2>3, AccountFields DEF Account
    <3>2. (IF accounts[n].active THEN 0 ELSE Here) \in Here..Window
      BY <1>3
    <3> QED BY <1>1, <1>2, <2>3, <3>1, <3>2 DEF AuthInv, AuthTypeOK, TablesOK
  <2>4. CASE /\ n \in Operators /\ call[d].op = "remove"
             /\ accounts' = [accounts EXCEPT ![n] = Absent]
             /\ failures' = [failures EXCEPT ![n] = NoFailures]
             /\ tries' = [tries EXCEPT ![n] = NoTries]
             /\ gone' = [gone EXCEPT ![n] = 0]
    BY <1>1, <1>2, <1>3, <2>4, RowsAreTyped DEF AuthInv, AuthTypeOK, TablesOK
  <2> QED BY <2>1, <2>2, <2>3, <2>4, RuleWrites
<1>5. OnDesk(d, desk[d], NoCall, proof[d])
  BY Untouched DEF FinishRule, OnDesk, End
<1>6. DesksTyped' /\ DesksOK'
  BY <1>5, NoCallIsOK, Untouched, DeskMoves
<1> QED BY <1>4, <1>6 DEF AuthInv, AuthTypeOK

LEMMA FinishRefusedKeeps ==
  ASSUME AuthInv, NEW d \in Desks, FinishRefused(d)
  PROVE  AuthInv'
<1>1. OnDesk(d, desk[d], NoCall, proof[d])
  BY Untouched DEF FinishRefused, OnDesk, End
<1>2. DesksTyped' /\ DesksOK'
  BY <1>1, NoCallIsOK, Untouched, DeskMoves
<1>3. TablesOK'
  BY TablesStay DEF FinishRefused, AuthInv, AuthTypeOK, TablesOK
<1> QED BY <1>2, <1>3 DEF AuthInv, AuthTypeOK

LEMMA FinishWrongKeeps ==
  ASSUME AuthInv, NEW d \in Desks, FinishWrong(d)
  PROVE  AuthInv'
<1>1. OnDesk(d, desk[d], NoCall, proof[d])
  BY Untouched DEF FinishWrong, OnDesk, End
<1>2. DesksTyped' /\ DesksOK'
  BY <1>1, NoCallIsOK, Untouched, DeskMoves
<1>3. call[d].name \in Names /\ call[d].row \in FailureRow
  BY CallIsTyped DEF FinishWrong
<1>4. /\ RecordFailure(call[d].row) \in FailureRow
      /\ Judged(tries[call[d].name], FALSE) \in Tries
  BY <1>3, RowsAreTyped DEF AuthInv, AuthTypeOK, TablesOK
<1>5. TablesOK'
  BY <1>3, <1>4 DEF FinishWrong, AuthInv, AuthTypeOK, TablesOK
<1> QED BY <1>2, <1>5 DEF AuthInv, AuthTypeOK

(* The session that signing in, or confirming, leaves.                      *)
LEMMA SignedIsOK ==
  ASSUME AuthInv, NEW d \in Desks, call[d].op = "signin", call[d].right
  PROVE  /\ Signed(d, call[d]) \in DeskState /\ SessionOK(Signed(d, call[d]), Window)
         /\ Signed(d, call[d]).who = call[d].name
<1> DEFINE c == call[d]
           s == desk[d]
           conf == [s EXCEPT !.verified = Window, !.idle = 0, !.asks = FALSE, !.until = Window]
           half == [s EXCEPT !.who = c.name, !.role = c.role, !.locked = FALSE,
                             !.verified = Window]
           open == [half EXCEPT !.idle = 0, !.authority = c.role, !.until = Window,
                                !.asks = FALSE]
<1>1. /\ Window \in 0..Window /\ 0 \in 0..TimeoutAfter
  BY Numbers
<1>2. c.name \in Names /\ c.role \in Roles /\ (c.confirm => s.who = c.name)
  BY CallIsTyped, Untouched DEF CallOK
<1>3. s \in DeskState /\ SessionOK(s, proof[d])
  BY Untouched
<1>4. conf \in DeskState
  BY <1>1, <1>3 DEF DeskState
<1>5. half \in DeskState
  BY <1>1, <1>2, <1>3 DEF DeskState
<1>6. half.who = c.name /\ half.role = c.role /\ ~half.locked /\ half.verified = Window
  BY <1>3 DEF DeskState
<1>7. Signed(d, c) = IF c.confirm THEN conf ELSE open
  BY DEF Signed
<1>8. /\ conf.who = s.who /\ conf.role = s.role /\ conf.locked = s.locked
      /\ conf.authority = s.authority /\ conf.verified = Window /\ conf.until = Window
  BY <1>3 DEF DeskState
<1> HIDE DEF half
<1>9. open \in DeskState
  BY <1>1, <1>2, <1>5 DEF DeskState
<1>10. /\ open.who = c.name /\ open.role = c.role /\ ~open.locked
       /\ open.authority = c.role /\ open.verified = Window /\ open.until = Window
  BY <1>5, <1>6 DEF DeskState
<1> HIDE DEF conf, open
<1>11. SessionOK(open, Window)
  BY <1>2, <1>10, AuthAssumption DEF SessionOK, AuthAssumption
<1>12. SessionOK(conf, Window)
  BY <1>3, <1>8 DEF SessionOK
<1> QED BY <1>2, <1>4, <1>7, <1>8, <1>9, <1>10, <1>11, <1>12

LEMMA FinishRightKeeps ==
  ASSUME AuthInv, NEW d \in Desks, FinishRight(d)
  PROVE  AuthInv'
<1>1. call[d].op = "signin" /\ call[d].right /\ call[d].name \in Names
  BY CallIsTyped DEF FinishRight
<1>2. OnDesk(d, Signed(d, call[d]), NoCall, Window) /\ Window \in 0..Window
  BY Numbers DEF FinishRight, OnDesk, End
<1>3. DesksTyped' /\ DesksOK'
  BY <1>1, <1>2, SignedIsOK, NoCallIsOK, DeskMoves
<1>4. Judged(tries[call[d].name], TRUE) \in Tries
  BY <1>1, RowsAreTyped DEF AuthInv, AuthTypeOK, TablesOK
<1>5. TablesOK'
  BY <1>1, <1>4, RowsAreTyped DEF FinishRight, AuthInv, AuthTypeOK, TablesOK
<1> QED BY <1>3, <1>5 DEF AuthInv, AuthTypeOK

(***************************************************************************)
(* The clock.                                                               *)
(***************************************************************************)

LEMMA PassOnADesk ==
  ASSUME AuthInv, Pass, NEW d \in Desks
  PROVE  /\ desk'[d] \in DeskState
         /\ desk'[d].who = desk[d].who /\ desk'[d].role = desk[d].role
         /\ desk'[d].locked = desk[d].locked /\ desk'[d].authority = desk[d].authority
         /\ desk'[d].verified = Less(desk[d].verified)
         /\ desk'[d].until = Less(desk[d].until)
         /\ proof'[d] = Less(proof[d])
<1> DEFINE i == IF SignedIn(d) THEN More(desk[d].idle, TimeoutAfter) ELSE 0
<1>1. i \in 0..TimeoutAfter
  BY DeskFields, Numbers DEF More
<1>2. Less(desk[d].verified) \in 0..Window /\ Less(desk[d].until) \in 0..Window
  BY DeskFields, Numbers DEF Less
<1>3. desk'[d] = [desk[d] EXCEPT !.verified = Less(@), !.until = Less(@), !.idle = i]
  BY DEF Pass
<1>4. proof'[d] = Less(proof[d])
  BY DEF Pass
<1> HIDE DEF i
<1> QED BY <1>1, <1>2, <1>3, <1>4, Untouched DEF DeskState

LEMMA PassKeeps ==
  ASSUME AuthInv, Pass
  PROVE  AuthInv'
<1>1. TablesOK'
  <2>1. \A n \in Names : [failures[n] EXCEPT !.until = Less(@)] \in FailureRow
    BY Numbers DEF AuthInv, AuthTypeOK, TablesOK, FailureRow, Penalties, Less
  <2>2. \A n \in Names : [tries[n] EXCEPT !.wait = Less(@)] \in Tries
    BY Numbers DEF AuthInv, AuthTypeOK, TablesOK, Tries, Penalties, Less
  <2>3. \A n \in Names : (IF gone[n] = Here THEN Here ELSE More(gone[n], Window)) \in Here..Window
    BY Numbers DEF AuthInv, AuthTypeOK, TablesOK, Here, More
  <2>4. failures' \in [Names -> FailureRow]
    BY <2>1 DEF Pass
  <2>5. tries' \in [Names -> Tries]
    BY <2>2 DEF Pass
  <2>6. gone' \in [Names -> Here..Window]
    BY <2>3 DEF Pass
  <2> QED BY <2>4, <2>5, <2>6 DEF Pass, AuthInv, AuthTypeOK, TablesOK
<1>2. DesksTyped'
  <2>1. desk' \in [Desks -> DeskState]
    <3>1. \A d \in Desks : desk'[d] \in DeskState
      BY PassOnADesk
    <3>2. desk' = [d \in Desks |-> desk'[d]]
      BY DEF Pass
    <3> QED BY <3>1, <3>2
  <2>2. \A d \in Desks : Less(proof[d]) \in 0..Window
    BY Numbers DEF AuthInv, AuthTypeOK, DesksTyped, Less
  <2>3. proof' \in [Desks -> 0..Window]
    BY <2>2 DEF Pass
  <2> QED BY <2>1, <2>3 DEF Pass, AuthInv, AuthTypeOK, DesksTyped
<1>3. DesksOK'
  <2>1. ASSUME NEW d \in Desks
        PROVE  SessionOK(desk'[d], proof'[d]) /\ CallOK(desk'[d], call'[d])
    <3>1. SessionOK(desk[d], proof[d]) /\ CallOK(desk[d], call[d]) /\ call'[d] = call[d]
      BY Untouched DEF Pass
    <3>2. Less(0) = 0
      BY DEF Less
    <3>3. SessionOK(desk'[d], proof'[d])
      BY <3>1, <3>2, PassOnADesk DEF SessionOK
    <3>4. CallOK(desk'[d], call'[d])
      BY <3>1, PassOnADesk DEF CallOK
    <3> QED BY <3>3, <3>4
  <2> QED BY <2>1 DEF DesksOK, SessionOK, CallOK
<1> QED BY <1>1, <1>2, <1>3 DEF AuthInv, AuthTypeOK

(***************************************************************************)
(* The invariant of every desk.                                             *)
(***************************************************************************)

CallActs(d) ==
  \E n \in Names :
    \/ EnrolFirst(d, n) \/ SetActive(d, n) \/ Remove(d, n)
    \/ \E role \in Roles : SetRole(d, n, role)
    \/ \E right, confirm \in BOOLEAN : SignIn(d, n, right, confirm)

TableActs(d) ==
  \E n \in Names : \/ Lift(d, n) \/ RegisterKey(d, n)
                   \/ \E role \in Roles : Enrol(d, n, role)

FinishActs(d) ==
  FinishFirst(d) \/ FinishRule(d) \/ FinishRefused(d) \/ FinishWrong(d) \/ FinishRight(d)

LEMMA NextIsOneOf ==
  ASSUME AuthNext
  PROVE  Pass \/ \E d \in Desks : SessionActs(d) \/ CallActs(d) \/ TableActs(d) \/ FinishActs(d)
BY DEF AuthNext, SessionActs, CallActs, TableActs, FinishActs

LEMMA CallActsBegin ==
  ASSUME AuthInv, NEW d \in Desks, CallActs(d)
  PROVE  \E c \in CallState : CallBegins(d, c)
<1>1. ASSUME NEW n \in Names, EnrolFirst(d, n)
      PROVE  \E c \in CallState : CallBegins(d, c)
  BY <1>1, FirstIsACall DEF CallBegins
<1>2. ASSUME NEW n \in Names, NEW what \in Rulings, Rule(d, n, what)
      PROVE  \E c \in CallState : CallBegins(d, c)
  BY <1>2, RuleIsACall DEF CallBegins
<1>3. ASSUME NEW n \in Names, NEW right \in BOOLEAN, NEW confirm \in BOOLEAN,
             SignIn(d, n, right, confirm)
      PROVE  \E c \in CallState : CallBegins(d, c)
  BY <1>3, SignInIsACall DEF CallBegins
<1>4. ASSUME NEW n \in Names, SetActive(d, n) \/ Remove(d, n) \/ \E role \in Roles : SetRole(d, n, role)
      PROVE  \E what \in Rulings : Rule(d, n, what)
  BY <1>4 DEF SetActive, Remove, SetRole, Rulings
<1> QED BY <1>1, <1>2, <1>3, <1>4 DEF CallActs

LEMMA InitIsOK == AuthInit => AuthInv
<1> SUFFICES ASSUME AuthInit PROVE AuthInv
  OBVIOUS
<1>1. TablesOK
  BY Numbers, RowsAreTyped DEF AuthInit, NoAccounts, TablesOK, Here
<1>2. 0 \in 0..Window
  BY Numbers
<1>3. DesksTyped
  BY <1>2, FreshDesks, NoCallIsOK DEF AuthInit, DesksTyped
<1>4. DesksOK
  BY <1>2, FreshDesks, NoCallIsOK DEF AuthInit, DesksOK
<1> QED BY <1>1, <1>3, <1>4 DEF AuthInv, AuthTypeOK

LEMMA NextKeeps == AuthInv /\ [AuthNext]_authVars => AuthInv'
<1> SUFFICES ASSUME AuthInv, [AuthNext]_authVars PROVE AuthInv'
  OBVIOUS
<1>1. CASE Pass
  BY <1>1, PassKeeps
<1>2. ASSUME NEW d \in Desks, SessionActs(d) PROVE AuthInv'
  BY <1>2, SessionActsAreSessions, SessionStepKeeps
<1>3. ASSUME NEW d \in Desks, CallActs(d) PROVE AuthInv'
  BY <1>3, CallActsBegin, CallBeginsKeeps
<1>4. ASSUME NEW d \in Desks, TableActs(d) PROVE AuthInv'
  BY <1>4, EnrolKeeps, LiftKeeps, RegisterKeyKeeps DEF TableActs
<1>5. ASSUME NEW d \in Desks, FinishActs(d) PROVE AuthInv'
  BY <1>5, FinishFirstKeeps, FinishRuleKeeps, FinishRefusedKeeps, FinishWrongKeeps,
     FinishRightKeeps DEF FinishActs
<1>6. CASE UNCHANGED authVars
  <2>1. DesksTyped' /\ DesksOK'
    BY <1>6, TableStep DEF authVars
  <2>2. TablesOK'
    BY <1>6 DEF authVars, AuthInv, AuthTypeOK, TablesOK
  <2> QED BY <2>1, <2>2 DEF AuthInv, AuthTypeOK
<1> QED BY <1>1, <1>2, <1>3, <1>4, <1>5, <1>6, NextIsOneOf

(* Whatever two desks do between the halves of each other's calls, every    *)
(* table, session and pending call is well formed, and a session is never   *)
(* on a screen with an authority that is not its own.                       *)
THEOREM DesksStand == AuthSpec => []AuthInv
<1>1. AuthInit => AuthInv
  BY InitIsOK
<1>2. AuthInv /\ [AuthNext]_authVars => AuthInv'
  BY NextKeeps
<1> QED BY <1>1, <1>2, PTL DEF AuthSpec

(* The screen and the store give one account of who may do what and for how *)
(* long (sync_operator, mark_reverified, Store::require), whatever the      *)
(* interleaving.                                                            *)
THEOREM GatesAgreeEver == AuthSpec => []GatesAgree
<1>1. AuthInv => GatesAgree
  <2> SUFFICES ASSUME AuthInv PROVE GatesAgree
    OBVIOUS
  <2>1. ASSUME NEW d \in Desks, SignedIn(d)
        PROVE  /\ desk[d].authority = (IF desk[d].locked THEN "out" ELSE desk[d].role)
               /\ ~desk[d].locked => (SessionFresh(d) <=> StoreFresh(d))
    BY <2>1, Untouched, DeskFields DEF SignedIn, SessionOK, SessionFresh, StoreFresh, Roles
  <2>2. ASSUME NEW d \in Desks, NEW a \in Sensitive, desk[d].authority \in Roles, Require(d, a)
        PROVE  proof[d] > 0
    BY <2>2, Untouched, DeskFields DEF Require, StoreFresh, SessionOK, Roles
  <2> QED BY <2>1, <2>2 DEF GatesAgree, ClocksAgree, SensitiveIsFresh
<1> QED BY <1>1, DesksStand, PTL

(***************************************************************************)
(* Whole calls.                                                             *)
(***************************************************************************)

OneCall == \A d, e \in Desks : call[d] # NoCall /\ call[e] # NoCall => d = e

(* What a pending call read is still so.                                    *)
Another(n) == \E m \in Administrators : m # n

ReadIsSo(c) ==
  /\ c.op = "signin" => c.row = failures[c.name] /\ (c.right => Active(c.name))
  /\ c.op \in Rulings => Another(c.name)
  /\ c.op = "remove" => c.name \notin wrote

(* A session outlives its account by what was left of its window then.      *)
Spent(s) == s.who # Nobody /\ gone[s.who] # Here => s.until <= Window - gone[s.who]

(* The failure row is the count of the wrong ones and the wait they cost.   *)
CountsAgree ==
  \A n \in Names : failures[n].count = tries[n].count /\ failures[n].until = tries[n].wait

ActiveIsHere == \A n \in Names : Active(n) => gone[n] = Here

SessionsStand ==
  \A d \in Desks : Spent(desk[d]) /\ (SignedIn(d) => desk[d].who \in wrote)

ReadsStand == \A d \in Desks : ReadIsSo(call[d])

WholeInv ==
  /\ AuthInv /\ OneCall /\ ReadsStand
  /\ CountsAgree /\ AccountsStand /\ ActiveIsHere /\ SessionsStand

AllQuiet == \A d \in Desks : call[d] = NoCall

(* A desk that acts acts alone.                                             *)
LEMMA Alone ==
  ASSUME ~Split, OneCall, NEW d \in Desks, call[d] # NoCall \/ Turn(d)
  PROVE  \A e \in Desks \ {d} : call[e] = NoCall
BY DEF OneCall, Turn

(* Nothing was read when nothing is pending.                                *)
LEMMA QuietIsFine ==
  ASSUME AllQuiet'
  PROVE  OneCall' /\ ReadsStand'
<1>1. OneCall'
  BY DEF AllQuiet, OneCall
<1>2. NoCall.op = "none" /\ "none" \notin Rulings
  BY DEF NoCall, Rulings, Roles
<1>3. ReadsStand'
  BY <1>2 DEF AllQuiet, ReadsStand, ReadIsSo
<1> QED BY <1>1, <1>3

LEMMA ActsQuietly ==
  ASSUME WholeInv, ~Split, NEW d \in Desks,
         \/ call[d] = NoCall /\ Turn(d) /\ call' = [call EXCEPT ![d] = NoCall]
         \/ call[d] # NoCall /\ End(d)
         \/ call[d] = NoCall /\ Turn(d) /\ UNCHANGED call
  PROVE  AllQuiet'
BY Alone DEF WholeInv, AllQuiet, End, AuthInv, AuthTypeOK, DesksTyped

(* More than one administrator: another one, whoever is meant.              *)
LEMMA MoreThanOne ==
  ASSUME NEW n, Cardinality(Administrators) > 1
  PROVE  Another(n)
<1> SUFFICES ASSUME \A m \in Administrators : m = n PROVE FALSE
  BY DEF Another
<1>1. IsFiniteSet(Administrators) /\ Administrators \subseteq {n} /\ IsFiniteSet({n})
  BY AuthAssumption, FS_Subset, FS_Singleton DEF AuthAssumption, Administrators, Operators
<1>2. Cardinality(Administrators) <= Cardinality({n}) /\ Cardinality({n}) = 1
  BY <1>1, FS_Subset, FS_Singleton
<1>3. Cardinality(Administrators) \in Nat
  BY <1>1, FS_CardinalityType
<1> QED BY <1>2, <1>3

LEMMA NotTheLast ==
  ASSUME AccountsStand, NEW n \in Operators, ~LosesAdministrator(n)
  PROVE  Another(n)
<1>1. CASE n \in Administrators
  <2>1. Cardinality(Administrators) \in Nat
    BY AuthAssumption, FS_Subset, FS_CardinalityType
    DEF AuthAssumption, Administrators, Operators
  <2>2. Cardinality(Administrators) > 1
    BY <1>1, <2>1 DEF LosesAdministrator
  <2> QED BY <2>2, MoreThanOne
<1>2. CASE n \notin Administrators
  BY <1>2 DEF AccountsStand, AdministratorRemains, Another
<1> QED BY <1>1, <1>2

LEMMA TablesAlone ==
  ASSUME WholeInv, UNCHANGED <<accounts, failures, wrote, tries, gone>>
  PROVE  CountsAgree' /\ AccountsStand' /\ ActiveIsHere'
BY DEF WholeInv, CountsAgree, AccountsStand, AdministratorRemains, ActorsRemain,
       ActiveIsHere, Administrators, Operators, Active

LEMMA SessionStepWhole ==
  ASSUME WholeInv, ~Split, NEW d \in Desks, SessionStep(d)
  PROVE  WholeInv'
<1>1. AuthInv'
  BY SessionStepKeeps DEF WholeInv
<1>2. PICK t \in DeskState, p \in 0..Window :
        OnDesk(d, t, NoCall, p) /\ t.who \in {Nobody, desk[d].who} /\ t.until \in {0, desk[d].until}
  BY DEF SessionStep
<1>3. OneCall' /\ ReadsStand'
  BY <1>2, ActsQuietly, QuietIsFine DEF SessionStep, OnDesk
<1>4. wrote' = wrote
  BY DEF SessionStep, WholeInv, SessionsStand, SignedIn
<1>5. CountsAgree' /\ AccountsStand' /\ ActiveIsHere'
  BY <1>4, TablesAlone DEF SessionStep
<1>6. SessionsStand'
  <2>1. ASSUME NEW e \in Desks
        PROVE  Spent(desk[e])' /\ (SignedIn(e) => desk[e].who \in wrote)'
    <3>1. CASE e # d
      <4>1. desk'[e] = desk[e]
        BY <1>2, <3>1, Untouched DEF OnDesk, WholeInv
      <4> QED BY <1>4, <4>1 DEF WholeInv, SessionsStand, Spent, SignedIn, SessionStep
    <3>2. CASE e = d
      <4>1. desk'[e] = t
        BY <1>2, <3>2, Untouched DEF OnDesk, WholeInv, AuthInv, AuthTypeOK, DesksTyped
      <4>2. Spent(desk[d]) /\ (SignedIn(d) => desk[d].who \in wrote)
        BY DEF WholeInv, SessionsStand
      <4>3. (SignedIn(e) => desk[e].who \in wrote)'
        BY <1>2, <1>4, <3>2, <4>1, <4>2 DEF SignedIn
      <4>4. Spent(desk[e])'
        <5> SUFFICES ASSUME t.who # Nobody, gone[t.who] # Here
                     PROVE  t.until <= Window - gone[t.who]
          BY <4>1 DEF Spent, SessionStep
        <5>1. t.who = desk[d].who /\ desk[d].until <= Window - gone[t.who]
          BY <1>2, <4>2 DEF Spent
        <5>2. t.who \in Names /\ gone[t.who] \in 0..Window
          BY <5>1, DeskFields, Numbers DEF WholeInv, AuthInv, AuthTypeOK, TablesOK, Here
        <5> QED BY <1>2, <5>1, <5>2, Numbers
      <4> QED BY <4>3, <4>4
    <3> QED BY <3>1, <3>2
  <2> QED BY <2>1 DEF SessionsStand
<1> QED BY <1>1, <1>3, <1>5, <1>6 DEF WholeInv

LEMMA CallBeginsWhole ==
  ASSUME WholeInv, ~Split, NEW d \in Desks, NEW c, CallBegins(d, c), ReadIsSo(c)
  PROVE  WholeInv'
<1>1. AuthInv'
  BY CallBeginsKeeps DEF WholeInv
<1>2. \A e \in Desks \ {d} : call[e] = NoCall
  BY Alone DEF WholeInv, CallBegins, Idle
<1>3. /\ call'[d] = c
      /\ \A e \in Desks \ {d} : call'[e] = NoCall
  BY <1>2 DEF CallBegins, Begin, WholeInv, AuthInv, AuthTypeOK, DesksTyped
<1>4. OneCall'
  BY <1>3 DEF OneCall
<1>5. ReadsStand'
  <2>1. NoCall.op = "none" /\ "none" \notin Rulings
    BY DEF NoCall, Rulings, Roles
  <2>2. ReadIsSo(call[d])'
    BY <1>3 DEF ReadIsSo, CallBegins, Another, Administrators, Operators, Active
  <2>3. \A e \in Desks \ {d} : ReadIsSo(call[e])'
    BY <1>3, <2>1 DEF ReadIsSo
  <2> QED BY <2>2, <2>3 DEF ReadsStand
<1>6. CountsAgree' /\ AccountsStand' /\ ActiveIsHere'
  BY TablesAlone DEF CallBegins
<1>7. SessionsStand'
  BY DEF CallBegins, WholeInv, SessionsStand, Spent, SignedIn
<1> QED BY <1>1, <1>4, <1>5, <1>6, <1>7 DEF WholeInv

(* What each call reads is so when it is read.                              *)
LEMMA CallActsRead ==
  ASSUME WholeInv, NEW d \in Desks, CallActs(d)
  PROVE  \E c : CallBegins(d, c) /\ ReadIsSo(c)
<1>0. AuthInv /\ AccountsStand
  BY DEF WholeInv
<1>1. ASSUME NEW n \in Names, EnrolFirst(d, n)
      PROVE  \E c : CallBegins(d, c) /\ ReadIsSo(c)
  <2>1. ReadIsSo([op |-> "first", name |-> n])
    BY DEF ReadIsSo, Rulings, Roles
  <2> QED BY <1>0, <1>1, <2>1, FirstIsACall
<1>2. ASSUME NEW n \in Names, NEW what \in Rulings, Rule(d, n, what), Another(n),
             what = "remove" => n \notin wrote
      PROVE  \E c : CallBegins(d, c) /\ ReadIsSo(c)
  <2>1. ReadIsSo([op |-> what, name |-> n])
    BY <1>2 DEF ReadIsSo, Rulings, Roles
  <2> QED BY <1>0, <1>2, <2>1, RuleIsACall
<1>3. ASSUME NEW n \in Names, NEW right \in BOOLEAN, NEW confirm \in BOOLEAN,
             SignIn(d, n, right, confirm)
      PROVE  \E c : CallBegins(d, c) /\ ReadIsSo(c)
  <2>1. ReadIsSo(SignInCall(n, right, confirm))
    BY DEF ReadIsSo, SignInCall, Judge, Rulings, Roles
  <2> QED BY <1>0, <1>3, <2>1, SignInIsACall
<1>4. ASSUME NEW n \in Names, NEW role \in Roles, SetRole(d, n, role)
      PROVE  \E c : CallBegins(d, c) /\ ReadIsSo(c)
  <2>1. Rule(d, n, role) /\ n \in Operators /\ role \in Rulings /\ role # "remove"
    BY <1>4 DEF SetRole, Rule, Rulings, Roles
  <2>2. Another(n)
    <3>1. CASE accounts[n].role = "administrator"
      BY <1>4, <3>1, MoreThanOne DEF SetRole
    <3>2. CASE accounts[n].role # "administrator"
      <4>1. n \notin Administrators
        BY <3>2 DEF Administrators
      <4> QED BY <1>0, <2>1, <4>1 DEF AccountsStand, AdministratorRemains, Another
    <3> QED BY <3>1, <3>2
  <2> QED BY <1>2, <2>1, <2>2
<1>5. ASSUME NEW n \in Names, SetActive(d, n)
      PROVE  \E c : CallBegins(d, c) /\ ReadIsSo(c)
  <2>1. Rule(d, n, "toggle") /\ n \in Operators /\ "toggle" \in Rulings /\ "toggle" # "remove"
    BY <1>5 DEF SetActive, Rule, Rulings, Roles
  <2>2. Another(n)
    <3>1. CASE Active(n)
      BY <1>0, <1>5, <2>1, <3>1, NotTheLast DEF SetActive
    <3>2. CASE ~Active(n)
      <4>1. n \notin Administrators
        BY <3>2 DEF Administrators
      <4> QED BY <1>0, <2>1, <4>1 DEF AccountsStand, AdministratorRemains, Another
    <3> QED BY <3>1, <3>2
  <2> QED BY <1>2, <2>1, <2>2
<1>6. ASSUME NEW n \in Names, Remove(d, n)
      PROVE  \E c : CallBegins(d, c) /\ ReadIsSo(c)
  <2>1. Rule(d, n, "remove") /\ n \in Operators /\ "remove" \in Rulings /\ n \notin wrote
    BY <1>6 DEF Remove, Rule, Rulings
  <2>2. Another(n)
    BY <1>0, <1>6, <2>1, NotTheLast DEF Remove
  <2> QED BY <1>2, <2>1, <2>2
<1> QED BY <1>1, <1>3, <1>4, <1>5, <1>6 DEF CallActs

LEMMA SessionsAlone ==
  ASSUME WholeInv, UNCHANGED <<desk, gone>>, wrote \subseteq wrote'
  PROVE  SessionsStand'
BY DEF WholeInv, SessionsStand, Spent, SignedIn

(* Who is signed in has written before.                                     *)
LEMMA NothingNewIsNamed ==
  ASSUME WholeInv, NEW d \in Desks, desk[d].who # Nobody,
         wrote' = wrote \cup {desk[d].who}
  PROVE  wrote' = wrote
BY DEF WholeInv, SessionsStand, SignedIn

LEMMA LiftWhole ==
  ASSUME WholeInv, ~Split, NEW d \in Desks, NEW n \in Names, Lift(d, n)
  PROVE  WholeInv'
<1>1. AuthInv'
  BY LiftKeeps DEF WholeInv
<1>2. OneCall' /\ ReadsStand'
  BY ActsQuietly, QuietIsFine DEF Lift, Idle
<1>3. wrote' = wrote
  BY NothingNewIsNamed DEF Lift, Manages
<1>4. CountsAgree'
  BY DEF Lift, WholeInv, CountsAgree, AuthInv, AuthTypeOK, TablesOK, NoFailures, NoTries
<1>5. AccountsStand' /\ ActiveIsHere'
  BY <1>3 DEF Lift, WholeInv, AccountsStand, AdministratorRemains, ActorsRemain,
              ActiveIsHere, Administrators, Operators, Active
<1>6. SessionsStand'
  BY <1>3, SessionsAlone DEF Lift
<1> QED BY <1>1, <1>2, <1>4, <1>5, <1>6 DEF WholeInv

LEMMA RegisterKeyWhole ==
  ASSUME WholeInv, ~Split, NEW d \in Desks, NEW n \in Names, RegisterKey(d, n)
  PROVE  WholeInv'
<1>1. AuthInv'
  BY RegisterKeyKeeps DEF WholeInv
<1>2. OneCall' /\ ReadsStand'
  BY ActsQuietly, QuietIsFine DEF RegisterKey, Idle
<1>3. wrote' = wrote
  BY NothingNewIsNamed DEF RegisterKey, Manages
<1>4. CountsAgree' /\ AccountsStand' /\ ActiveIsHere'
  BY <1>3, TablesAlone DEF RegisterKey
<1>5. SessionsStand'
  BY <1>3, SessionsAlone DEF RegisterKey
<1> QED BY <1>1, <1>2, <1>4, <1>5 DEF WholeInv

(* What a new account leaves.                                               *)
LEMMA NewAccountStands ==
  ASSUME WholeInv, NEW n \in Names, NEW role \in Roles, accounts[n] = Absent,
         NewAccount(n, role), wrote' = wrote, UNCHANGED <<failures, tries>>,
         Operators = {} => role = "administrator"
  PROVE  CountsAgree' /\ AccountsStand' /\ ActiveIsHere'
<1> DEFINE account == [role |-> role, active |-> TRUE]
<1>1. /\ accounts'[n] = account /\ gone'[n] = Here
      /\ \A m \in Names \ {n} : accounts'[m] = accounts[m] /\ gone'[m] = gone[m]
  BY DEF NewAccount, WholeInv, AuthInv, AuthTypeOK, TablesOK
<1>2. account # Absent /\ account.role = role /\ account.active
  <2>1. account \in [role : Roles, active : BOOLEAN]
    OBVIOUS
  <2>2. Absent \notin [role : Roles, active : BOOLEAN]
    BY AuthAssumption DEF AuthAssumption
  <2>3. account # Absent
    BY <2>1, <2>2
  <2> QED BY <2>3
<1> HIDE DEF account
<1>3. Operators' = Operators \cup {n}
  BY <1>1, <1>2 DEF Operators
<1>4. Administrators \subseteq Administrators'
  BY <1>1 DEF Administrators, Operators, Active
<1>5. role = "administrator" => n \in Administrators'
  BY <1>1, <1>2 DEF Administrators, Operators, Active
<1>6. AccountsStand'
  BY <1>3, <1>4, <1>5 DEF WholeInv, AccountsStand, AdministratorRemains, ActorsRemain
<1>7. ActiveIsHere'
  BY <1>1 DEF WholeInv, ActiveIsHere, Active, Operators
<1>8. CountsAgree'
  BY DEF WholeInv, CountsAgree
<1> QED BY <1>6, <1>7, <1>8

(* A new account is nobody's session: who is signed in is on the register.  *)
LEMMA SessionsOfOthers ==
  ASSUME WholeInv, NEW n \in Names, NEW role \in Roles, NewAccount(n, role),
         NEW d \in Desks, desk'[d] = desk[d], wrote' = wrote
  PROVE  Spent(desk[d])' /\ (SignedIn(d) => desk[d].who \in wrote)'
<1>1. Spent(desk[d]) /\ (SignedIn(d) => desk[d].who \in wrote)
  BY DEF WholeInv, SessionsStand
<1>2. \A m \in Names : gone'[m] \in {Here, gone[m]}
  BY DEF NewAccount, WholeInv, AuthInv, AuthTypeOK, TablesOK
<1>3. desk[d].who \in Names \cup {Nobody}
  BY DeskFields DEF WholeInv
<1> QED BY <1>1, <1>2, <1>3 DEF Spent, SignedIn

LEMMA EnrolWhole ==
  ASSUME WholeInv, ~Split, NEW d \in Desks, NEW n \in Names, NEW role \in Roles,
         Enrol(d, n, role)
  PROVE  WholeInv'
<1>1. AuthInv'
  BY EnrolKeeps DEF WholeInv
<1>2. OneCall' /\ ReadsStand'
  BY ActsQuietly, QuietIsFine DEF Enrol, Idle
<1>3. wrote' = wrote /\ Operators # {}
  <2>1. wrote' = wrote
    BY NothingNewIsNamed DEF Enrol, Manages
  <2>2. desk[d].who \in wrote \ {Nobody}
    BY DEF Enrol, Manages, WholeInv, SessionsStand, SignedIn
  <2> QED BY <2>1, <2>2 DEF WholeInv, AccountsStand, ActorsRemain
<1>4. CountsAgree' /\ AccountsStand' /\ ActiveIsHere'
  BY <1>3, NewAccountStands DEF Enrol
<1>5. SessionsStand'
  <2>1. ASSUME NEW e \in Desks
        PROVE  Spent(desk[e])' /\ (SignedIn(e) => desk[e].who \in wrote)'
    BY <1>3, SessionsOfOthers DEF Enrol
  <2> QED BY <2>1 DEF SessionsStand
<1> QED BY <1>1, <1>2, <1>4, <1>5 DEF WholeInv

LEMMA FinishFirstWhole ==
  ASSUME WholeInv, ~Split, NEW d \in Desks, FinishFirst(d)
  PROVE  WholeInv'
<1> DEFINE n == call[d].name
<1>1. AuthInv'
  BY FinishFirstKeeps DEF WholeInv
<1>2. n \in Names /\ call[d] # NoCall /\ "administrator" \in Roles
  BY CallIsTyped DEF FinishFirst, WholeInv, Roles
<1>3. OneCall' /\ ReadsStand'
  BY <1>2, ActsQuietly, QuietIsFine DEF FinishFirst
<1>4. CountsAgree' /\ AccountsStand' /\ ActiveIsHere'
  <2>1. CASE accounts[n] = Absent
    BY <1>2, <2>1, NewAccountStands DEF FinishFirst
  <2>2. CASE accounts[n] # Absent
    BY <2>2, TablesAlone DEF FinishFirst
  <2> QED BY <2>1, <2>2
<1>5. SessionsStand'
  <2>1. CASE accounts[n] # Absent
    BY <2>1, SessionsAlone DEF FinishFirst
  <2>2. CASE accounts[n] = Absent
    <3>1. ASSUME NEW e \in Desks
          PROVE  Spent(desk[e])' /\ (SignedIn(e) => desk[e].who \in wrote)'
      <4>1. CASE e # d
        <5>1. desk'[e] = desk[e]
          BY <2>2, <4>1 DEF FinishFirst, WholeInv, AuthInv, AuthTypeOK, DesksTyped
        <5> QED BY <1>2, <2>2, <5>1, SessionsOfOthers DEF FinishFirst
      <4>2. CASE e = d
        <5>1. PICK table : desk'[e] = Adopted(table)
          BY <2>2, <4>2 DEF FinishFirst, WholeInv, AuthInv, AuthTypeOK, DesksTyped
        <5>2. desk'[e].who = Nobody
          BY <5>1, FreshDesks, Numbers
        <5> QED BY <5>2 DEF Spent, SignedIn
      <4> QED BY <4>1, <4>2
    <3> QED BY <3>1 DEF SessionsStand
  <2> QED BY <2>1, <2>2
<1> QED BY <1>1, <1>3, <1>4, <1>5 DEF WholeInv

(* An account that is changed or removed while another administrator        *)
(* stands, and, if it is removed, named by no entry.                        *)
LEMMA AccountsStandWithout ==
  ASSUME WholeInv, NEW n \in Operators, Another(n), wrote' = wrote,
         NEW account, accounts' = [accounts EXCEPT ![n] = account],
         account = Absent => n \notin wrote
  PROVE  AccountsStand'
<1>1. PICK m \in Administrators : m # n
  BY DEF Another
<1>2. n \in Names /\ m \in Names
  BY <1>1 DEF Operators, Administrators
<1>3. /\ accounts'[n] = account
      /\ \A k \in Names \ {n} : accounts'[k] = accounts[k]
  BY <1>2 DEF WholeInv, AuthInv, AuthTypeOK, TablesOK
<1>4. m \in Administrators'
  BY <1>1, <1>2, <1>3 DEF Administrators, Operators, Active
<1>5. Operators \ {n} \subseteq Operators' /\ (account # Absent => n \in Operators')
  BY <1>2, <1>3 DEF Operators
<1>6. ActorsRemain'
  BY <1>5 DEF WholeInv, AccountsStand, ActorsRemain
<1> QED BY <1>4, <1>6 DEF AccountsStand, AdministratorRemains

LEMMA FinishRuleWhole ==
  ASSUME WholeInv, ~Split, NEW d \in Desks, FinishRule(d)
  PROVE  WholeInv'
<1> DEFINE n == call[d].name
<1>1. AuthInv /\ AuthInv'
  BY FinishRuleKeeps DEF WholeInv
<1>2. call[d] # NoCall /\ call[d].op \in Rulings /\ n \in Names
  BY <1>1, CallIsTyped DEF FinishRule, Rulings, Roles
<1>3. OneCall' /\ ReadsStand'
  BY <1>2, ActsQuietly, QuietIsFine DEF FinishRule
<1>4. wrote' = wrote
  BY <1>1, <1>2, Untouched, NothingNewIsNamed DEF FinishRule, CallOK
<1>5. Another(n) /\ (call[d].op = "remove" => n \notin wrote)
  BY <1>2 DEF WholeInv, ReadsStand, ReadIsSo
<1>6. /\ accounts \in [Names -> Account \cup {Absent}] /\ failures \in [Names -> FailureRow]
      /\ tries \in [Names -> Tries] /\ gone \in [Names -> Here..Window]
  BY <1>1 DEF AuthInv, AuthTypeOK, TablesOK
<1>7. \A e \in Desks : /\ desk'[e] = desk[e] /\ desk[e].who \in Names \cup {Nobody}
                       /\ desk[e].until \in 0..Window
  BY <1>1, DeskFields DEF FinishRule
<1> DEFINE Stand == CountsAgree /\ AccountsStand /\ ActiveIsHere /\ SessionsStand
<1> SUFFICES Stand'
  BY <1>1, <1>3 DEF WholeInv
<1>8. CASE UNCHANGED <<accounts, failures, tries, gone>>
  <2>1. SessionsStand'
    BY <1>4, <1>8, SessionsAlone DEF FinishRule
  <2> QED BY <1>4, <1>8, <2>1, TablesAlone
<1>9. CASE /\ n \in Operators /\ call[d].op \in Roles
           /\ accounts' = [accounts EXCEPT ![n].role = call[d].op]
           /\ UNCHANGED <<failures, tries, gone>>
  <2> DEFINE account == [accounts[n] EXCEPT !.role = call[d].op]
  <2>1. account \in Account /\ account.active = accounts[n].active
    BY <1>1, <1>9, AccountFields DEF Account
  <2>2. account # Absent
    BY <2>1, AuthAssumption DEF AuthAssumption, Account
  <2>3. accounts' = [accounts EXCEPT ![n] = account]
    BY <1>9
  <2> HIDE DEF account
  <2>4. AccountsStand'
    BY <1>4, <1>5, <1>9, <2>2, <2>3, AccountsStandWithout
  <2>5. ActiveIsHere'
    BY <1>2, <1>6, <1>9, <2>1, <2>3 DEF WholeInv, ActiveIsHere, Active, Operators
  <2>6. SessionsStand'
    BY <1>4, <1>9, SessionsAlone DEF FinishRule
  <2>7. CountsAgree'
    BY <1>9 DEF WholeInv, CountsAgree
  <2> QED BY <2>4, <2>5, <2>6, <2>7
<1>10. CASE /\ n \in Operators /\ call[d].op = "toggle"
            /\ accounts' = [accounts EXCEPT ![n].active = ~@]
            /\ gone' = [gone EXCEPT ![n] = IF accounts[n].active THEN 0 ELSE Here]
            /\ UNCHANGED <<failures, tries>>
  <2> DEFINE account == [accounts[n] EXCEPT !.active = ~@]
  <2>1. account \in Account /\ account.active = ~accounts[n].active
    BY <1>1, <1>10, AccountFields DEF Account
  <2>2. account # Absent
    BY <2>1, AuthAssumption DEF AuthAssumption, Account
  <2>3. accounts' = [accounts EXCEPT ![n] = account]
    BY <1>10
  <2> HIDE DEF account
  <2>4. AccountsStand'
    BY <1>4, <1>5, <1>10, <2>2, <2>3, AccountsStandWithout
  <2>5. /\ gone'[n] \in {0, Here} /\ (account.active => gone'[n] = Here)
        /\ \A m \in Names \ {n} : gone'[m] = gone[m] /\ accounts'[m] = accounts[m]
        /\ accounts'[n] = account
    BY <1>2, <1>6, <1>10, <2>1, <2>3
  <2>6. ActiveIsHere'
    BY <2>5 DEF WholeInv, ActiveIsHere, Active, Operators
  <2>7. SessionsStand'
    BY <1>4, <1>7, <2>5, Numbers DEF WholeInv, SessionsStand, Spent, SignedIn, Here
  <2>8. CountsAgree'
    BY <1>10 DEF WholeInv, CountsAgree
  <2> QED BY <2>4, <2>6, <2>7, <2>8
<1>11. CASE /\ n \in Operators /\ call[d].op = "remove"
            /\ accounts' = [accounts EXCEPT ![n] = Absent]
            /\ failures' = [failures EXCEPT ![n] = NoFailures]
            /\ tries' = [tries EXCEPT ![n] = NoTries]
            /\ gone' = [gone EXCEPT ![n] = 0]
  <2>1. AccountsStand'
    BY <1>4, <1>5, <1>11, AccountsStandWithout
  <2>2. /\ gone'[n] = 0 /\ accounts'[n] = Absent
        /\ \A m \in Names \ {n} : gone'[m] = gone[m] /\ accounts'[m] = accounts[m]
    BY <1>2, <1>6, <1>11
  <2>3. ActiveIsHere'
    BY <2>2 DEF WholeInv, ActiveIsHere, Active, Operators
  <2>4. SessionsStand'
    BY <1>4, <1>7, <2>2, Numbers DEF WholeInv, SessionsStand, Spent, SignedIn, Here
  <2>5. CountsAgree'
    BY <1>6, <1>11 DEF WholeInv, CountsAgree, NoFailures, NoTries
  <2> QED BY <2>1, <2>3, <2>4, <2>5
<1> QED BY <1>1, <1>8, <1>9, <1>10, <1>11, RuleWrites

LEMMA FinishRefusedWhole ==
  ASSUME WholeInv, ~Split, NEW d \in Desks, FinishRefused(d)
  PROVE  WholeInv'
<1>1. AuthInv /\ AuthInv'
  BY FinishRefusedKeeps DEF WholeInv
<1>2. call[d] # NoCall
  BY <1>1, CallIsTyped DEF FinishRefused
<1>3. OneCall' /\ ReadsStand'
  BY <1>2, ActsQuietly, QuietIsFine DEF FinishRefused
<1>4. CountsAgree' /\ AccountsStand' /\ ActiveIsHere' /\ SessionsStand'
  BY TablesAlone, SessionsAlone DEF FinishRefused
<1> QED BY <1>1, <1>3, <1>4 DEF WholeInv

(* The lockout of the code and the norm of the history are one table.       *)
LEMMA LockoutIsTheNorm ==
  ASSUME NEW row \in FailureRow, NEW t \in Tries, row.count = t.count
  PROVE  /\ RecordFailure(row).count = Judged(t, FALSE).count
         /\ RecordFailure(row).until = Judged(t, FALSE).wait
         /\ Judged(t, TRUE).count = 0 /\ Judged(t, TRUE).wait = 0
<1> DEFINE n == IF row.count < Most THEN row.count + 1 ELSE Most
<1>1. n \in 0..Most
  BY DEF FailureRow, Most
<1>2. \A k \in 0..Most : After(k) = Norm(k)
  BY DEF After, Norm, Most
<1>3. RecordFailure(row).count = n /\ RecordFailure(row).until = After(n)
  BY DEF RecordFailure
<1>4. Judged(t, FALSE).count = n /\ Judged(t, FALSE).wait = Norm(n)
  BY DEF Judged
<1>5. Judged(t, TRUE).count = 0 /\ Judged(t, TRUE).wait = 0
  BY DEF Judged, Norm
<1> HIDE DEF n
<1> QED BY <1>1, <1>2, <1>3, <1>4, <1>5

LEMMA FinishWrongWhole ==
  ASSUME WholeInv, ~Split, NEW d \in Desks, FinishWrong(d)
  PROVE  WholeInv'
<1> DEFINE n == call[d].name
<1>1. AuthInv /\ AuthInv'
  BY FinishWrongKeeps DEF WholeInv
<1>2. call[d] # NoCall /\ call[d].op = "signin" /\ n \in Names
  BY <1>1, CallIsTyped DEF FinishWrong
<1>3. OneCall' /\ ReadsStand'
  BY <1>2, ActsQuietly, QuietIsFine DEF FinishWrong
<1>4. AccountsStand' /\ ActiveIsHere'
  BY DEF FinishWrong, WholeInv, AccountsStand, AdministratorRemains, ActorsRemain,
         ActiveIsHere, Administrators, Operators, Active
<1>5. SessionsStand'
  BY SessionsAlone DEF FinishWrong
<1>6. CountsAgree'
  <2>1. /\ failures \in [Names -> FailureRow] /\ tries \in [Names -> Tries]
    BY <1>1 DEF AuthInv, AuthTypeOK, TablesOK
  <2>2. call[d].row = failures[n]
    BY <1>2 DEF WholeInv, ReadsStand, ReadIsSo
  <2>3. /\ failures'[n] = RecordFailure(failures[n]) /\ tries'[n] = Judged(tries[n], FALSE)
        /\ \A m \in Names \ {n} : failures'[m] = failures[m] /\ tries'[m] = tries[m]
    BY <1>2, <2>1, <2>2 DEF FinishWrong
  <2>4. failures[n] \in FailureRow /\ tries[n] \in Tries /\ failures[n].count = tries[n].count
    BY <1>2, <2>1 DEF WholeInv, CountsAgree
  <2>5. failures'[n].count = tries'[n].count /\ failures'[n].until = tries'[n].wait
    BY <2>3, <2>4, LockoutIsTheNorm
  <2> HIDE DEF n
  <2> QED BY <2>3, <2>5 DEF WholeInv, CountsAgree
<1> QED BY <1>1, <1>3, <1>4, <1>5, <1>6 DEF WholeInv

LEMMA FinishRightWhole ==
  ASSUME WholeInv, ~Split, NEW d \in Desks, FinishRight(d)
  PROVE  WholeInv'
<1> DEFINE n == call[d].name
<1>1. AuthInv /\ AuthInv'
  BY FinishRightKeeps DEF WholeInv
<1>2. call[d] # NoCall /\ call[d].op = "signin" /\ n \in Names /\ call[d].right
  BY <1>1, CallIsTyped DEF FinishRight
<1>3. OneCall' /\ ReadsStand'
  BY <1>2, ActsQuietly, QuietIsFine DEF FinishRight
<1>4. Active(n)
  BY <1>2 DEF WholeInv, ReadsStand, ReadIsSo
<1>5. AccountsStand' /\ ActiveIsHere'
  <2>1. n \in Operators
    BY <1>4 DEF Active
  <2> QED BY <2>1 DEF FinishRight, WholeInv, AccountsStand, AdministratorRemains,
             ActorsRemain, ActiveIsHere, Administrators, Operators, Active
<1>6. SessionsStand'
  <2>1. ASSUME NEW e \in Desks
        PROVE  Spent(desk[e])' /\ (SignedIn(e) => desk[e].who \in wrote)'
    <3>1. CASE e = d
      <4>1. desk'[e] = Signed(d, call[d])
        BY <1>1, <3>1 DEF FinishRight, AuthInv, AuthTypeOK, DesksTyped
      <4>2. desk'[e].who = n
        BY <1>1, <1>2, <4>1, SignedIsOK
      <4>3. gone'[n] = Here
        BY <1>2, <1>4 DEF FinishRight, WholeInv, ActiveIsHere
      <4> QED BY <4>2, <4>3 DEF Spent, SignedIn, FinishRight
    <3>2. CASE e # d
      <4>1. desk'[e] = desk[e]
        BY <1>1, <3>2 DEF FinishRight, AuthInv, AuthTypeOK, DesksTyped
      <4> QED BY <4>1 DEF Spent, SignedIn, FinishRight, WholeInv, SessionsStand
    <3> QED BY <3>1, <3>2
  <2> QED BY <2>1 DEF SessionsStand
<1>7. CountsAgree'
  <2>1. /\ failures \in [Names -> FailureRow] /\ tries \in [Names -> Tries]
    BY <1>1 DEF AuthInv, AuthTypeOK, TablesOK
  <2>2. /\ failures'[n] = NoFailures /\ tries'[n] = Judged(tries[n], TRUE)
        /\ \A m \in Names \ {n} : failures'[m] = failures[m] /\ tries'[m] = tries[m]
    BY <1>2, <2>1 DEF FinishRight
  <2>3. NoFailures.count = 0 /\ NoFailures.until = 0
    BY DEF NoFailures
  <2>4. failures[n] \in FailureRow /\ tries[n] \in Tries /\ failures[n].count = tries[n].count
    BY <1>2, <2>1 DEF WholeInv, CountsAgree
  <2>5. failures'[n].count = tries'[n].count /\ failures'[n].until = tries'[n].wait
    BY <2>2, <2>3, <2>4, LockoutIsTheNorm, ZenonT(60)
  <2> HIDE DEF n
  <2> QED BY <2>2, <2>5 DEF WholeInv, CountsAgree
<1> QED BY <1>1, <1>3, <1>5, <1>6, <1>7 DEF WholeInv

LEMMA PassWhole ==
  ASSUME WholeInv, ~Split, Pass
  PROVE  WholeInv'
<1>1. AuthInv /\ AuthInv'
  BY PassKeeps DEF WholeInv
<1>2. OneCall' /\ ReadsStand'
  <2>1. AllQuiet'
    BY DEF Pass, AllQuiet
  <2> QED BY <2>1, QuietIsFine
<1>3. AccountsStand'
  BY DEF Pass, WholeInv, AccountsStand, AdministratorRemains, ActorsRemain,
         Administrators, Operators, Active
<1>4. ActiveIsHere'
  BY DEF Pass, WholeInv, ActiveIsHere, Operators, Active
<1>5. CountsAgree'
  <2>1. ASSUME NEW n \in Names
        PROVE  failures'[n].count = tries'[n].count /\ failures'[n].until = tries'[n].wait
    <3>1. /\ failures[n] \in FailureRow /\ tries[n] \in Tries
          /\ failures[n].count = tries[n].count /\ failures[n].until = tries[n].wait
      BY <1>1 DEF AuthInv, AuthTypeOK, TablesOK, WholeInv, CountsAgree
    <3>2. /\ failures'[n].count = failures[n].count
          /\ failures'[n].until = Less(failures[n].until)
      BY <3>1 DEF Pass, FailureRow
    <3>3. tries'[n].count = tries[n].count /\ tries'[n].wait = Less(tries[n].wait)
      BY <3>1 DEF Pass, Tries
    <3> QED BY <3>1, <3>2, <3>3
  <2> QED BY <2>1 DEF CountsAgree
<1>6. SessionsStand'
  <2>1. ASSUME NEW e \in Desks
        PROVE  Spent(desk[e])' /\ (SignedIn(e) => desk[e].who \in wrote)'
    <3>1. Spent(desk[e]) /\ (SignedIn(e) => desk[e].who \in wrote)
      BY DEF WholeInv, SessionsStand
    <3>2. desk'[e].who = desk[e].who /\ desk'[e].until = Less(desk[e].until)
      BY <1>1, PassOnADesk
    <3>3. (SignedIn(e) => desk[e].who \in wrote)'
      <4>1. wrote' = wrote
        BY DEF Pass
      <4> QED BY <3>1, <3>2, <4>1 DEF SignedIn
    <3>4. Spent(desk[e])'
      <4> DEFINE m == desk[e].who
      <4> SUFFICES ASSUME m # Nobody, gone'[m] # Here
                   PROVE  Less(desk[e].until) <= Window - gone'[m]
        BY <3>2 DEF Spent
      <4>1. m \in Names /\ desk[e].until \in 0..Window /\ gone[m] \in Here..Window
        BY <1>1, DeskFields DEF AuthInv, AuthTypeOK, TablesOK
      <4>2. gone'[m] = IF gone[m] = Here THEN Here ELSE More(gone[m], Window)
        BY <4>1 DEF Pass
      <4>3. gone[m] # Here /\ desk[e].until <= Window - gone[m] /\ gone[m] \in 0..Window
        BY <3>1, <4>1, <4>2, Numbers DEF Spent, Here
      <4>4. gone'[m] = IF gone[m] < Window THEN gone[m] + 1 ELSE Window
        BY <4>2, <4>3 DEF More
      <4> HIDE DEF m
      <4> QED BY <4>1, <4>3, <4>4, Numbers DEF Less
    <3> QED BY <3>3, <3>4
  <2> QED BY <2>1 DEF SessionsStand
<1> QED BY <1>1, <1>2, <1>3, <1>4, <1>5, <1>6 DEF WholeInv

(***************************************************************************)
(* What whole calls guarantee.                                              *)
(***************************************************************************)

LEMMA InitIsWhole == AuthInit => WholeInv
<1> SUFFICES ASSUME AuthInit PROVE WholeInv
  OBVIOUS
<1>1. AuthInv
  BY InitIsOK
<1>2. OneCall /\ ReadsStand
  <2>1. NoCall.op = "none" /\ "none" \notin Rulings
    BY DEF NoCall, Rulings, Roles
  <2> QED BY <2>1 DEF AuthInit, OneCall, ReadsStand, ReadIsSo
<1>3. CountsAgree
  BY DEF AuthInit, CountsAgree, NoFailures, NoTries
<1>4. AccountsStand
  BY DEF AuthInit, NoAccounts, AccountsStand, AdministratorRemains, ActorsRemain, Operators
<1>5. ActiveIsHere
  BY DEF AuthInit, ActiveIsHere
<1>6. SessionsStand
  BY DEF AuthInit, SessionsStand, Spent, SignedIn, Closed
<1> QED BY <1>1, <1>2, <1>3, <1>4, <1>5, <1>6 DEF WholeInv

LEMMA NextIsWhole ==
  ASSUME ~Split, WholeInv, [AuthNext]_authVars
  PROVE  WholeInv'
<1>1. CASE Pass
  BY <1>1, PassWhole
<1>2. ASSUME NEW d \in Desks, SessionActs(d) PROVE WholeInv'
  BY <1>2, SessionActsAreSessions, SessionStepWhole DEF WholeInv
<1>3. ASSUME NEW d \in Desks, CallActs(d) PROVE WholeInv'
  BY <1>3, CallActsRead, CallBeginsWhole
<1>4. ASSUME NEW d \in Desks, TableActs(d) PROVE WholeInv'
  BY <1>4, EnrolWhole, LiftWhole, RegisterKeyWhole DEF TableActs
<1>5. ASSUME NEW d \in Desks, FinishActs(d) PROVE WholeInv'
  BY <1>5, FinishFirstWhole, FinishRuleWhole, FinishRefusedWhole, FinishWrongWhole,
     FinishRightWhole DEF FinishActs
<1>6. CASE UNCHANGED authVars
  <2>1. AuthInv'
    BY <1>6, NextKeeps DEF WholeInv
  <2>2. OneCall' /\ ReadsStand'
    BY <1>6 DEF authVars, WholeInv, OneCall, ReadsStand, ReadIsSo, Another,
                Administrators, Operators, Active
  <2>3. CountsAgree' /\ AccountsStand' /\ ActiveIsHere' /\ SessionsStand'
    BY <1>6, TablesAlone, SessionsAlone DEF authVars
  <2> QED BY <2>1, <2>2, <2>3 DEF WholeInv
<1> QED BY <1>1, <1>2, <1>3, <1>4, <1>5, <1>6, NextIsOneOf

LEMMA WholeEver ==
  ASSUME ~Split
  PROVE  AuthSpec => []WholeInv
<1>1. AuthInit => WholeInv
  BY InitIsWhole
<1>2. WholeInv /\ [AuthNext]_authVars => WholeInv'
  BY NextIsWhole
<1> QED BY <1>1, <1>2, PTL DEF AuthSpec

(* Where calls are whole, an operator disabled or removed from one desk     *)
(* starts nothing sensitive on another once a window has passed: the        *)
(* credential that would renew it is refused (finish_sign_in).              *)
THEOREM RevocationBitesEver ==
  ASSUME ~Split
  PROVE  AuthSpec => []RevocationBites
<1>1. WholeInv => RevocationBites
  <2> SUFFICES ASSUME WholeInv, NEW d \in Desks, NEW a \in Sensitive,
                      SignedIn(d), gone[desk[d].who] >= Window
               PROVE  ~Require(d, a)
    BY DEF RevocationBites
  <2>1. AuthInv /\ Spent(desk[d])
    BY DEF WholeInv, SessionsStand
  <2>2. desk[d].who \in Names /\ desk[d].until \in 0..Window
    BY <2>1, DeskFields DEF SignedIn
  <2>3. gone[desk[d].who] \in Here..Window
    BY <2>1, <2>2 DEF AuthInv, AuthTypeOK, TablesOK
  <2>4. desk[d].until = 0
    BY <2>1, <2>2, <2>3, Numbers DEF Spent, SignedIn, Here
  <2>5. desk[d].authority # "unenrolled"
    BY <2>1, Untouched DEF SessionOK, SignedIn, Roles
  <2> QED BY <2>4, <2>5 DEF Require, StoreFresh
<1>2. AuthSpec => []WholeInv
  BY WholeEver
<1> QED BY <1>1, <1>2, PTL

(* Where calls are whole, a register with operators has an active           *)
(* administrator, and every operator its trail names is on it.              *)
THEOREM AccountsStandEver ==
  ASSUME ~Split
  PROVE  AuthSpec => []AccountsStand
<1>1. WholeInv => AccountsStand
  BY DEF WholeInv
<1>2. AuthSpec => []WholeInv
  BY WholeEver
<1> QED BY <1>1, <1>2, PTL

(* Where calls are whole, no credential is judged for a name, at any desk,  *)
(* before the penalty for the wrong ones before it has passed.              *)
THEOREM GuessesAreSpacedEver ==
  ASSUME ~Split
  PROVE  AuthSpec => GuessesAreSpaced
<1> DEFINE Spaced == \A n \in Names :
             (tries'[n].judged /\ tries'[n].odd # tries[n].odd) => tries[n].wait = 0
<1>1. WholeInv /\ [AuthNext]_authVars => [Spaced]_authVars
  <2> SUFFICES ASSUME WholeInv, AuthNext, NEW n \in Names,
                      tries'[n].judged, tries'[n].odd # tries[n].odd
               PROVE  tries[n].wait = 0
    OBVIOUS
  <2>1. AuthInv /\ failures[n].until = tries[n].wait /\ tries \in [Names -> Tries]
    BY DEF WholeInv, CountsAgree, AuthInv, AuthTypeOK, TablesOK
  <2>2. CASE Pass
    <3>1. tries'[n].odd = tries[n].odd
      BY <2>1, <2>2 DEF Pass, Tries
    <3> QED BY <3>1
  <2>3. ASSUME NEW d \in Desks, SessionActs(d) PROVE FALSE
    BY <2>1, <2>3, SessionActsAreSessions DEF SessionStep
  <2>4. ASSUME NEW d \in Desks, CallActs(d) PROVE FALSE
    BY <2>1, <2>4, CallActsBegin DEF CallBegins
  <2>5. ASSUME NEW d \in Desks, TableActs(d) PROVE FALSE
    <3>1. PICK m \in Names : \/ Lift(d, m) \/ RegisterKey(d, m)
                             \/ \E role \in Roles : Enrol(d, m, role)
      BY <2>5 DEF TableActs
    <3>2. UNCHANGED tries \/ tries' = [tries EXCEPT ![m] = NoTries]
      BY <3>1 DEF Lift, RegisterKey, Enrol
    <3> QED BY <2>1, <3>2 DEF NoTries
  <2>6. ASSUME NEW d \in Desks, FinishActs(d) PROVE tries[n].wait = 0
    <3>1. CASE FinishFirst(d) \/ FinishRefused(d)
      BY <3>1 DEF FinishFirst, FinishRefused
    <3>2. CASE FinishRule(d)
      <4>1. UNCHANGED tries \/ tries' = [tries EXCEPT ![call[d].name] = NoTries]
        BY <2>1, <3>2, RuleWrites
      <4> QED BY <2>1, <4>1 DEF NoTries
    <3>3. CASE FinishWrong(d) \/ FinishRight(d)
      <4>1. /\ call[d].op = "signin" /\ call[d].row.until = 0
            /\ \A m \in Names : m # call[d].name => tries'[m] = tries[m]
        BY <2>1, <3>3 DEF FinishWrong, FinishRight
      <4>2. call[d].row = failures[call[d].name]
        BY <4>1 DEF WholeInv, ReadsStand, ReadIsSo
      <4> QED BY <2>1, <4>1, <4>2
    <3> QED BY <2>6, <3>1, <3>2, <3>3 DEF FinishActs
  <2> QED BY <2>2, <2>3, <2>4, <2>5, <2>6, NextIsOneOf
<1>2. AuthSpec => []WholeInv
  BY WholeEver
<1> QED BY <1>1, <1>2, PTL DEF AuthSpec, GuessesAreSpaced
=============================================================================
