----------------------------- MODULE Bench_proofs -----------------------------
(* What an operator does with a key in hand, for any keys, versions, plans   *)
(* and bounds: a factory reset, the pre-flight, the wizard, and the three    *)
(* side by side as MCBench runs them.                                        *)
EXTENDS MCBench, FiniteSetTheorems, TLAPS

(***************************************************************************)
(* The invariant of the reset.                                              *)
(***************************************************************************)

Statuses == {"done", "failed", "skipped"}
Told == [applet : Applets, status : Statuses]
Threads == {"off", "asleep", "listing", "gave up"}
SomeKey == Keys \cup {NoKey}

(* What another key in the port may have lost: empty as long as none was.   *)
Strays == {a \in {"fido2"} : swapped}

PortOK == port \subseteq Keys /\ writing \in {"none", "reset", "run"} /\ thread \in Threads
CardOK ==
  /\ panel = [key |-> panel.key, ticked |-> panel.ticked, typed |-> panel.typed,
              outcomes |-> panel.outcomes, said |-> panel.said]
  /\ panel.key \in SomeKey /\ panel.ticked \subseteq Applets /\ panel.outcomes \subseteq Told
ShakeOK == shake \in [stage : {"none", "removal", "insertion", "gave up"},
                      key : SomeKey, applets : SUBSET Applets]
EyeOK == eye \in [thread : Threads, saw : {"unknown", "there", "gone"}]
WorkOK ==
  /\ work = [key |-> work.key, todo |-> work.todo, detached |-> work.detached,
             outcomes |-> work.outcomes]
  /\ work.key \in SomeKey /\ work.todo \in Seq(Applets) /\ work.outcomes \subseteq Told
BooksOK ==
  /\ content \in [Keys -> SUBSET Applets]
  /\ cleared \subseteq Keys \X Applets /\ agreed \subseteq Keys \X Applets
  /\ unsaid \subseteq Keys \X Applets
  /\ refusals \in 0..Refusals

(* One at a time in the port: the watch, the presence thread, a writer.     *)
Turns ==
  /\ shake.stage = "none" => shake = NoShake
  /\ shake.stage = "none" <=> eye.thread = "off"
  /\ shake.stage # "none" => thread = "off" /\ writing = "none"
  /\ writing # "none" => thread = "off"

(* What is in hand is of the key on the card, which may have been put away  *)
(* since, and was agreed to.                                                *)
Agreed(k, a) == <<k, a>> \in agreed
Shaken == shake.stage # "none" =>
            /\ shake.key \in Keys /\ panel.key \in {NoKey, shake.key}
            /\ \A a \in shake.applets : Agreed(shake.key, a)
Begun == /\ writing = "reset" => /\ work.key \in Keys /\ panel.key \in {NoKey, work.key}
                                 /\ panel.said # "nothing written"
         /\ writing # "reset" => work = NoWork
InHand ==
  /\ \A i \in 1..Len(work.todo) : Agreed(work.key, work.todo[i])
  /\ \A o \in work.outcomes : Agreed(work.key, o.applet)
OnCard == panel.key # NoKey => \A o \in panel.outcomes : Agreed(panel.key, o.applet)

(* What is cleared was agreed to, what is on record is clear, and what was  *)
(* cleared is in hand until it is on record.                                *)
Meant == \A k \in Keys : \A a \in Applets \ content[k] : Agreed(k, a) \/ a \in Strays
Clear ==
  Strays = {} => /\ \A x \in cleared : x[2] \notin content[x[1]]
                 /\ \A o \in work.outcomes : o.status \in {"done", "skipped"}
                                               => o.applet \notin content[work.key]
Known ==
  Strays = {} /\ refusals = Refusals =>
    /\ writing # "reset" => unsaid = {}
    /\ writing = "reset" => unsaid \subseteq {work.key} \X Applets

TypesOK == PortOK /\ CardOK /\ ShakeOK /\ EyeOK /\ WorkOK /\ BooksOK
ResetInv == TypesOK /\ Turns /\ Shaken /\ Begun /\ InHand /\ OnCard /\ Meant /\ Clear /\ Known

(***************************************************************************)
(* Lemmas.                                                                  *)
(***************************************************************************)

LEMMA Bounds == NoKey \notin Keys /\ Refusals \in Nat /\ Cards \in Nat
  BY WatchAssumption, ResetAssumption

LEMMA StraysStand == ASSUME UNCHANGED swapped PROVE Strays' = Strays
  BY DEF Strays

LEMMA StraysGrow ==
  ASSUME NEW k, NEW a, Done(k, a)
  PROVE /\ Strays \subseteq Strays' /\ (k # work.key => Strays' = {"fido2"})
        /\ Strays' \subseteq {"fido2"}
<1>1. swapped' = (swapped \/ k # work.key)
  BY DEF Done
<1>2. \A x \in Strays : x \in Strays'
  BY <1>1, Zenon DEF Strays
<1>3. k # work.key => "fido2" \in Strays'
  BY <1>1, Zenon DEF Strays
<1>4. \A x \in Strays' : x = "fido2"
  BY Zenon DEF Strays
<1> QED BY <1>2, <1>3, <1>4

(* FIDO2 has no serial on the wire; the others go to the key of theirs.     *)
LEMMA Targets ==
  ASSUME PortOK, NEW a
  PROVE /\ Target(a) \in SomeKey
        /\ a # "fido2" => Target(a) \in {work.key, NoKey}
<1>1. Cardinality(port) = 1 => \E k : k \in port
  BY FS_EmptySet
<1>2. Cardinality(port) = 1 => (CHOOSE k \in port : TRUE) \in port
  BY <1>1
<1> QED BY <1>2 DEF Target, SomeKey, PortOK

LEMMA InOrder ==
  ASSUME NEW s \in SUBSET Applets
  PROVE /\ Ordered(s) \in Seq(Applets)
        /\ \A i \in 1..Len(Ordered(s)) : Ordered(s)[i] \in s
<1> DEFINE One(a) == IF a \in s THEN <<a>> ELSE <<>>
<1>1. ASSUME NEW a \in Applets PROVE One(a) \in Seq(s)
  BY DEF Applets
<1>2. Ordered(s) = One("fido2") \o One("piv") \o One("otp")
  BY DEF Ordered
<1>3. One("fido2") \in Seq(s) /\ One("piv") \in Seq(s) /\ One("otp") \in Seq(s)
  BY <1>1 DEF Applets
<1> HIDE DEF One
<1>4. Ordered(s) \in Seq(s)
  BY <1>2, <1>3
<1> QED BY <1>4

LEMMA NothingInHand ==
  ASSUME work' = NoWork
  PROVE /\ WorkOK' /\ work'.outcomes = {} /\ work'.todo = <<>>
        /\ InHand'
<1>1. work'.outcomes = {} /\ work'.todo = <<>> /\ work'.key = NoKey
  BY DEF NoWork
<1>2. work' = [key |-> work'.key, todo |-> work'.todo, detached |-> work'.detached,
               outcomes |-> work'.outcomes]
  BY DEF NoWork
<1>3. WorkOK'
  BY <1>1, <1>2 DEF WorkOK, SomeKey
<1>4. InHand'
  BY <1>1 DEF InHand
<1> QED BY <1>1, <1>3, <1>4

(* A step that clears nothing leaves the books right.                       *)
LEMMA BooksStand ==
  ASSUME BooksOK, WorkOK, Meant, Clear, Known,
         UNCHANGED <<content, cleared, unsaid, swapped>>,
         agreed \subseteq agreed', agreed' \subseteq Keys \X Applets,
         refusals' = refusals \/ (refusals > 0 /\ refusals' = refusals - 1),
         work' = work \/ work'.outcomes = {},
         \/ work' = work /\ (writing' = "reset" <=> writing = "reset")
         \/ writing = "none" /\ writing' = "reset"
  PROVE BooksOK' /\ Meant' /\ Clear' /\ Known'
<1>1. Strays' = Strays
  BY StraysStand
<1>2. BooksOK'
  BY Bounds DEF BooksOK
<1>3. Meant'
  BY <1>1 DEF Meant, Agreed
<1>4. Clear'
  BY <1>1 DEF Clear
<1>5. refusals' = Refusals => refusals = Refusals
  BY Bounds DEF BooksOK
<1>6. Known'
  BY <1>1, <1>5 DEF Known
<1> QED BY <1>2, <1>3, <1>4, <1>6

(***************************************************************************)
(* What the port and the screens do while a reset is prepared.              *)
(***************************************************************************)

LEMMA WatchShape ==
  ASSUME PortOK, WatchMoves
  PROVE /\ PortOK' /\ (writing' = "reset" <=> writing = "reset")
        /\ shake # NoShake /\ thread = "off" /\ writing = "none"
             => thread' = "off" /\ writing' = "none"
        /\ (writing # "none" => thread = "off") => (writing' # "none" => thread' = "off")
<1> DEFINE Goal == /\ PortOK' /\ (writing' = "reset" <=> writing = "reset")
                   /\ shake # NoShake /\ thread = "off" /\ writing = "none"
                        => thread' = "off" /\ writing' = "none"
                   /\ (writing # "none" => thread = "off")
                        => (writing' # "none" => thread' = "off")
<1>1. ASSUME NEW k \in Keys, Plug(k) \/ Unplug(k) PROVE Goal
  BY <1>1 DEF Plug, Unplug, PortOK
<1>2. CASE WindowCloses \/ ListBegins \/ ListEnds \/ ToolIsMissing
  BY <1>2 DEF WindowCloses, ListBegins, ListEnds, ToolIsMissing, PortOK, Threads
<1>3. ASSUME NEW t, Turn(t) PROVE Goal
  BY <1>3 DEF Turn, PortOK
<1>4. CASE shake = NoShake /\ (StartsWatch \/ LeavesScreen \/ PollWatch)
  BY <1>4 DEF StartsWatch, LeavesScreen, PollWatch, StopWatch, PortOK, Threads
<1>5. ASSUME shake = NoShake, NEW k \in Keys, SelectKey(k) PROVE Goal
  BY <1>5 DEF SelectKey, PortOK
<1>6. CASE shake = NoShake /\ (RunBegins \/ RunEnds)
  BY <1>6 DEF RunBegins, RunEnds, StopWatch, PortOK, Threads
<1> QED BY <1>1, <1>2, <1>3, <1>4, <1>5, <1>6
  DEF WatchMoves, Outside, OnScreen, WatchNext

LEMMA WatchKeeps == ASSUME ResetInv, WatchMoves PROVE ResetInv'
<1> USE DEF ResetInv, TypesOK
<1>1. UNCHANGED resetVars
  BY DEF WatchMoves
<1>2. UNCHANGED <<content, panel, shake, eye, work, cleared, refusals, agreed, unsaid, swapped>>
  BY <1>1 DEF resetVars
<1>3. BooksOK' /\ Meant' /\ Clear' /\ Known'
  <2>1. agreed' \subseteq Keys \X Applets
    BY <1>2 DEF BooksOK
  <2> QED BY <1>2, <2>1, WatchShape, BooksStand
<1>4. PortOK' /\ Turns'
  BY <1>2, WatchShape DEF Turns, NoShake
<1>5. CardOK' /\ ShakeOK' /\ EyeOK' /\ WorkOK'
  BY <1>2 DEF CardOK, ShakeOK, EyeOK, WorkOK
<1>6. Shaken' /\ InHand' /\ OnCard'
  BY <1>2 DEF Shaken, InHand, OnCard, Agreed
<1>7. Begun'
  BY <1>2, WatchShape DEF Begun
<1> QED BY <1>3, <1>4, <1>5, <1>6, <1>7

(***************************************************************************)
(* The card and the handshake.  Each step leaves the books alone and one    *)
(* of a few shapes behind.                                                  *)
(***************************************************************************)

(* The handshake is over, and nothing else begins.                          *)
LEMMA HandshakeOver ==
  ASSUME ResetInv, UNCHANGED <<content, work, cleared, agreed, unsaid, swapped,
                               port, thread, writing>>,
         refusals' = refusals \/ (refusals > 0 /\ refusals' = refusals - 1),
         Free, shake' = NoShake, eye' = NoEye, CardOK', OnCard'
  PROVE ResetInv'
<1> USE DEF ResetInv, TypesOK
<1>1. BooksOK' /\ Meant' /\ Clear' /\ Known'
  <2>1. agreed' \subseteq Keys \X Applets
    BY DEF BooksOK
  <2> QED BY <2>1, BooksStand
<1>2. PortOK' /\ Turns'
  BY DEF PortOK, Turns, NoShake, NoEye, Free
<1>3. ShakeOK' /\ EyeOK' /\ WorkOK'
  BY DEF ShakeOK, EyeOK, WorkOK, NoShake, NoEye, SomeKey, Threads
<1>4. Shaken' /\ InHand' /\ Begun'
  BY DEF Shaken, InHand, Begun, Agreed, NoShake, Free
<1> QED BY <1>1, <1>2, <1>3, <1>4

(* A handshake goes on, or starts, for the key on the card.                 *)
LEMMA HandshakeRuns ==
  ASSUME ResetInv, UNCHANGED <<content, work, cleared, unsaid, swapped, port, writing>>,
         agreed \subseteq agreed', agreed' \subseteq Keys \X Applets,
         refusals' = refusals \/ (refusals > 0 /\ refusals' = refusals - 1),
         Free, thread' = "off", shake'.stage # "none", eye'.thread # "off",
         ShakeOK', EyeOK', CardOK', OnCard', Shaken'
  PROVE ResetInv'
<1> USE DEF ResetInv, TypesOK
<1>1. BooksOK' /\ Meant' /\ Clear' /\ Known'
  BY BooksStand
<1>2. PortOK' /\ Turns'
  BY DEF PortOK, Turns, Free, Threads
<1>3. WorkOK'
  BY DEF WorkOK
<1>4. InHand' /\ Begun'
  BY DEF InHand, Begun, Agreed, Free
<1> QED BY <1>1, <1>2, <1>3, <1>4

(* The reset goes out, or the register refused its start.                   *)
LEMMA ResetGoesOut ==
  ASSUME ResetInv, NEW k \in Keys, NEW applets \in SUBSET Applets, RunReset(k, applets),
         UNCHANGED <<content, cleared, unsaid, swapped, port>>,
         agreed \subseteq agreed', agreed' \subseteq Keys \X Applets,
         \A a \in applets : Agreed(k, a)', panel.key \in {NoKey, k},
         Free, thread' = "off", shake' = NoShake, EyeOK', eye'.thread = "off",
         panel'.key = panel.key, panel'.outcomes = panel.outcomes, CardOK'
  PROVE ResetInv'
<1> USE DEF ResetInv, TypesOK
<1>1. refusals' = refusals \/ (refusals > 0 /\ refusals' = refusals - 1)
  BY DEF RunReset, Recorded, NotRecorded
<1>2. \/ work' = work /\ writing' = writing
      \/ /\ work'.key = k /\ work'.todo = Ordered(applets) /\ work'.outcomes = {}
         /\ work' = [key |-> work'.key, todo |-> work'.todo, detached |-> work'.detached,
                     outcomes |-> work'.outcomes]
         /\ writing' = "reset" /\ panel'.said # "nothing written"
  BY DEF RunReset, NoWork, CardOK
<1>3. WorkOK' /\ PortOK'
  BY <1>2, InOrder DEF WorkOK, PortOK, SomeKey, Threads
<1>4. BooksOK' /\ Meant' /\ Clear' /\ Known'
  <2>1. work' = work \/ work'.outcomes = {}
    BY <1>2
  <2>2. \/ work' = work /\ (writing' = "reset" <=> writing = "reset")
        \/ writing = "none" /\ writing' = "reset"
    BY <1>2 DEF Free
  <2> QED BY <1>1, <2>1, <2>2, BooksStand
<1>5. Turns' /\ ShakeOK' /\ Shaken'
  BY DEF Turns, ShakeOK, Shaken, NoShake, SomeKey
<1>6. Begun'
  BY <1>2 DEF Begun, Free
<1>7. InHand' /\ OnCard'
  BY <1>2, InOrder DEF InHand, OnCard, Agreed
<1> QED BY <1>3, <1>4, <1>5, <1>6, <1>7

LEMMA CardKeeps ==
  ASSUME ResetInv,
         (\E k \in Keys : OpenReset(k)) \/ CancelReset \/ HideCard \/ NotAllowed \/ TypeSerial
           \/ (\E a \in Applets : Tick(a))
  PROVE ResetInv'
<1> USE DEF ResetInv, TypesOK
<1>1. ASSUME NEW k \in Keys, OpenReset(k) PROVE ResetInv'
  <2>1. CardOK' /\ OnCard'
    BY <1>1 DEF OpenReset, NoPanel, CardOK, OnCard, SomeKey
  <2> QED BY <1>1, <2>1, HandshakeOver DEF OpenReset, watchVars, history
<1>2. CASE CancelReset
  <2>1. CardOK' /\ OnCard'
    BY <1>2 DEF CancelReset, CardOK, OnCard, SomeKey
  <2> QED BY <1>2, <2>1, HandshakeOver DEF CancelReset, watchVars, history
<1>3. ASSUME \/ TypeSerial \/ HideCard \/ (NotAllowed /\ UNCHANGED <<shake, eye>>)
             \/ \E a \in Applets : Tick(a)
      PROVE ResetInv'
  <2>1. /\ panel'.key \in {NoKey, panel.key} /\ panel'.outcomes = panel.outcomes
        /\ panel'.said \in {panel.said, "why not"} /\ CardOK'
    <3>1. CASE TypeSerial \/ \E a \in Applets : Tick(a)
      <4>1. /\ panel'.key = panel.key /\ panel'.outcomes = panel.outcomes
            /\ panel'.said = panel.said /\ CardOK'
        BY <3>1 DEF TypeSerial, Tick, CardOK
      <4> QED BY <4>1
    <3>2. CASE HideCard
      BY <3>2 DEF HideCard, CardOK, SomeKey
    <3>3. CASE NotAllowed
      BY <3>3 DEF NotAllowed, CardOK
    <3> QED BY <1>3, <3>1, <3>2, <3>3
  <2>2. UNCHANGED <<content, shake, eye, work, cleared, refusals, agreed, unsaid, swapped,
                    port, thread, writing>>
    BY <1>3 DEF TypeSerial, HideCard, NotAllowed, Tick, watchVars, history
  <2>3. BooksOK' /\ Meant' /\ Clear' /\ Known'
    <3>1. agreed' \subseteq Keys \X Applets
      BY <2>2 DEF BooksOK
    <3> QED BY <2>2, <3>1, BooksStand
  <2>4. PortOK' /\ ShakeOK' /\ EyeOK' /\ WorkOK' /\ Turns'
    BY <2>2 DEF PortOK, ShakeOK, EyeOK, WorkOK, Turns, NoShake
  <2>5. Shaken' /\ Begun' /\ InHand' /\ OnCard'
    BY <2>1, <2>2 DEF Shaken, Begun, InHand, OnCard, Agreed
  <2> QED BY <2>1, <2>3, <2>4, <2>5
<1>4. CASE NotAllowed /\ shake' = NoShake /\ eye' = NoEye
  <2>1. CardOK' /\ OnCard'
    BY <1>4 DEF NotAllowed, CardOK, OnCard, Agreed, history
  <2>2. Free
    BY <1>4 DEF NotAllowed, Card, Waiting
  <2> QED BY <1>4, <2>1, <2>2, HandshakeOver DEF NotAllowed, watchVars, history
<1> QED BY <1>1, <1>2, <1>3, <1>4 DEF NotAllowed

LEMMA ConfirmKeeps == ASSUME ResetInv, Confirm PROVE ResetInv'
<1> USE DEF ResetInv, TypesOK
<1>1. /\ panel.key \in Keys /\ panel.ticked \in SUBSET Applets /\ Free
      /\ shake = NoShake /\ shake.stage = "none" /\ eye.thread = "off"
  BY DEF Confirm, Card, CardOK, SomeKey, Turns, NoShake
<1>2. /\ agreed \subseteq agreed' /\ agreed' \subseteq Keys \X Applets
      /\ \A a \in panel.ticked : <<panel.key, a>> \in agreed'
  <2>1. agreed' = agreed \cup ({panel.key} \X panel.ticked)
    BY DEF Confirm
  <2> QED BY <1>1, <2>1 DEF BooksOK
<1>3. UNCHANGED <<content, cleared, unsaid, swapped, port>> /\ thread' = "off"
  BY DEF Confirm, StoppedWatch, StopWatch
<1>4. CASE "fido2" \in panel.ticked
  <2>1. BeginPowerCycle(panel.key, panel.ticked) /\ UNCHANGED <<work, writing>>
    BY <1>4 DEF Confirm
  <2>2. /\ panel'.key = panel.key /\ panel'.outcomes = panel.outcomes /\ CardOK'
        /\ refusals' = refusals \/ (refusals > 0 /\ refusals' = refusals - 1)
    BY <2>1 DEF BeginPowerCycle, CardOK, Recorded, NotRecorded
  <2>3. OnCard'
    BY <1>2, <2>2 DEF OnCard, Agreed
  <2>4. CASE UNCHANGED <<shake, eye>>
    <3>1. BooksOK' /\ Meant' /\ Clear' /\ Known'
      BY <1>2, <1>3, <2>1, <2>2, BooksStand
    <3>2. PortOK' /\ ShakeOK' /\ EyeOK' /\ WorkOK' /\ Turns'
      BY <1>1, <1>3, <2>1, <2>4 DEF PortOK, ShakeOK, EyeOK, WorkOK, Turns, NoShake, Threads
    <3>3. Shaken' /\ Begun' /\ InHand'
      BY <1>1, <1>2, <2>1, <2>4 DEF Shaken, Begun, InHand, Agreed, Free
    <3> QED BY <2>2, <2>3, <3>1, <3>2, <3>3
  <2>5. CASE /\ shake' = [stage |-> "removal", key |-> panel.key, applets |-> panel.ticked]
             /\ eye' = [thread |-> "asleep", saw |-> "unknown"]
    <3>1. /\ shake'.stage # "none" /\ eye'.thread # "off" /\ ShakeOK' /\ EyeOK'
          /\ shake'.key = panel.key /\ shake'.applets = panel.ticked
      BY <1>1, <2>5 DEF ShakeOK, EyeOK, SomeKey, Threads
    <3>2. Shaken'
      BY <1>1, <1>2, <2>2, <3>1 DEF Shaken, Agreed
    <3> QED BY <1>1, <1>2, <1>3, <2>1, <2>2, <2>3, <3>1, <3>2, HandshakeRuns
  <2> QED BY <2>1, <2>4, <2>5 DEF BeginPowerCycle
<1>5. CASE "fido2" \notin panel.ticked
  <2>1. RunReset(panel.key, panel.ticked) /\ UNCHANGED <<shake, eye>>
    BY <1>5 DEF Confirm
  <2>2. panel'.key = panel.key /\ panel'.outcomes = panel.outcomes /\ CardOK'
    BY <2>1 DEF RunReset, CardOK
  <2>3. \A a \in panel.ticked : Agreed(panel.key, a)'
    BY <1>2, <2>2 DEF Agreed
  <2>4. shake' = NoShake /\ EyeOK' /\ eye'.thread = "off"
    BY <1>1, <2>1 DEF EyeOK
  <2> QED BY <1>1, <1>2, <1>3, <2>1, <2>2, <2>3, <2>4, ResetGoesOut
<1> QED BY <1>4, <1>5

LEMMA RetryKeeps == ASSUME ResetInv, RetryFido2 PROVE ResetInv'
<1> USE DEF ResetInv, TypesOK
<1>1. /\ panel.key \in Keys /\ Free /\ shake.stage = "none"
      /\ <<panel.key, "fido2">> \in agreed
  <2>1. panel.key \in Keys /\ Free /\ shake.stage = "none"
    BY DEF RetryFido2, Card, CardOK, SomeKey, NoShake
  <2>2. [applet |-> "fido2", status |-> "failed"] \in panel.outcomes
    BY DEF RetryFido2
  <2>3. Agreed(panel.key, [applet |-> "fido2", status |-> "failed"].applet)
    BY <2>1, <2>2, Bounds DEF OnCard
  <2> QED BY <2>1, <2>3 DEF Agreed
<1>2. /\ UNCHANGED <<content, work, writing, cleared, agreed, unsaid, swapped, port>>
      /\ thread' = "off"
  BY DEF RetryFido2, history, StoppedWatch, StopWatch
<1>3. agreed \subseteq agreed' /\ agreed' \subseteq Keys \X Applets
  BY <1>2 DEF BooksOK
<1>4. /\ panel'.key = panel.key /\ panel'.outcomes = {} /\ CardOK'
      /\ refusals' = refusals \/ (refusals > 0 /\ refusals' = refusals - 1)
  BY DEF RetryFido2, CardOK, Recorded, NotRecorded, Applets
<1>5. OnCard'
  BY <1>4 DEF OnCard
<1>6. CASE UNCHANGED <<shake, eye>>
  <2>1. BooksOK' /\ Meant' /\ Clear' /\ Known'
    BY <1>2, <1>3, <1>4, BooksStand
  <2>2. PortOK' /\ ShakeOK' /\ EyeOK' /\ WorkOK' /\ Turns'
    BY <1>1, <1>2, <1>6 DEF PortOK, ShakeOK, EyeOK, WorkOK, Turns, NoShake, Threads
  <2>3. Shaken' /\ Begun' /\ InHand'
    BY <1>1, <1>2, <1>6 DEF Shaken, Begun, InHand, Agreed, Free
  <2> QED BY <1>4, <1>5, <2>1, <2>2, <2>3
<1>7. CASE /\ shake' = [stage |-> "removal", key |-> panel.key, applets |-> {"fido2"}]
           /\ eye' = [thread |-> "asleep", saw |-> "unknown"]
  <2>1. /\ shake'.stage # "none" /\ eye'.thread # "off" /\ ShakeOK' /\ EyeOK'
        /\ shake'.key = panel.key /\ shake'.applets = {"fido2"}
    BY <1>1, <1>7 DEF ShakeOK, EyeOK, SomeKey, Threads, Applets
  <2>2. Shaken'
    BY <1>1, <1>2, <1>4, <2>1 DEF Shaken, Agreed
  <2> QED BY <1>1, <1>2, <1>3, <1>4, <1>5, <2>1, <2>2, HandshakeRuns
<1> QED BY <1>6, <1>7 DEF RetryFido2

(* What the presence thread and the frames do with a handshake under way.   *)
LEMMA ShakeGoesOn ==
  ASSUME ResetInv,
         EyeBegins \/ EyeEnds \/ SeenGone \/ PatienceEnds \/ AskAgain \/ LeftScreen
  PROVE ResetInv'
<1> USE DEF ResetInv, TypesOK
<1>1. /\ UNCHANGED <<content, work, cleared, agreed, unsaid, swapped, port, thread, writing>>
      /\ refusals' = refusals \/ (refusals > 0 /\ refusals' = refusals - 1)
  BY DEF EyeBegins, EyeEnds, SeenGone, PatienceEnds, AskAgain, LeftScreen, history, watchVars,
         Recorded, NotRecorded
<1>2. agreed \subseteq agreed' /\ agreed' \subseteq Keys \X Applets
  BY <1>1 DEF BooksOK
<1>3. shake.stage # "none" /\ Free /\ thread = "off"
  BY DEF EyeBegins, EyeEnds, SeenGone, PatienceEnds, AskAgain, LeftScreen, Waiting,
         Turns, EyeOK, Free
<1>4. panel'.key = panel.key /\ panel'.outcomes = panel.outcomes /\ CardOK'
  BY DEF EyeBegins, EyeEnds, SeenGone, PatienceEnds, AskAgain, LeftScreen, CardOK
<1>5. OnCard'
  BY <1>1, <1>4 DEF OnCard, Agreed
<1>6. \/ shake' = NoShake /\ eye' = NoEye
      \/ /\ ShakeOK' /\ EyeOK' /\ shake'.stage # "none" /\ eye'.thread # "off"
         /\ shake'.key = shake.key /\ shake'.applets = shake.applets
  <2>1. ASSUME EyeBegins \/ EyeEnds
        PROVE /\ ShakeOK' /\ EyeOK' /\ shake'.stage # "none" /\ eye'.thread # "off"
              /\ shake'.key = shake.key /\ shake'.applets = shake.applets
    <3>1. shake' = shake
      BY <2>1 DEF EyeBegins, EyeEnds
    <3>2. \/ \E w \in {"there", "gone"} : eye' = [thread |-> "asleep", saw |-> w]
          \/ \E t \in Threads \ {"off"} : eye' = [eye EXCEPT !.thread = t]
      <4>1. CASE EyeBegins
        BY <4>1 DEF EyeBegins, Threads
      <4>2. CASE EyeEnds
        <5> DEFINE Saw == IF shake.key \in port THEN "there" ELSE "gone"
        <5>1. Saw \in {"there", "gone"}
          OBVIOUS
        <5>2. \/ eye' = [thread |-> "asleep", saw |-> Saw]
              \/ eye' = [eye EXCEPT !.thread = "asleep"]
              \/ eye' = [eye EXCEPT !.thread = "gave up"]
          BY <4>2, Zenon DEF EyeEnds
        <5>3. "asleep" \in Threads \ {"off"} /\ "gave up" \in Threads \ {"off"}
          BY DEF Threads
        <5> HIDE DEF Saw
        <5> QED BY <5>1, <5>2, <5>3, Zenon
      <4> QED BY <2>1, <4>1, <4>2
    <3>3. EyeOK' /\ eye'.thread # "off"
      <4>1. ASSUME NEW w \in {"there", "gone"}, eye' = [thread |-> "asleep", saw |-> w]
            PROVE EyeOK' /\ eye'.thread # "off"
        BY <4>1 DEF EyeOK, Threads
      <4>2. ASSUME NEW t \in Threads \ {"off"}, eye' = [eye EXCEPT !.thread = t]
            PROVE EyeOK' /\ eye'.thread # "off"
        BY <4>2 DEF EyeOK
      <4> QED BY <3>2, <4>1, <4>2
    <3> QED BY <1>3, <3>1, <3>3 DEF ShakeOK
  <2>2. CASE SeenGone \/ PatienceEnds
    BY <1>3, <2>2 DEF SeenGone, PatienceEnds, EyeOK, ShakeOK, Turns
  <2>3. CASE AskAgain \/ LeftScreen
    BY <1>3, <2>3 DEF AskAgain, LeftScreen, EyeOK, ShakeOK, Turns
  <2> QED BY <2>1, <2>2, <2>3
<1>7. CASE shake' = NoShake /\ eye' = NoEye
  BY <1>1, <1>3, <1>4, <1>5, <1>7, HandshakeOver
<1>8. CASE /\ ShakeOK' /\ EyeOK' /\ shake'.stage # "none" /\ eye'.thread # "off"
           /\ shake'.key = shake.key /\ shake'.applets = shake.applets
  <2>1. Shaken'
    BY <1>1, <1>3, <1>4, <1>8 DEF Shaken, Agreed
  <2> QED BY <1>1, <1>2, <1>3, <1>4, <1>5, <1>8, <2>1, HandshakeRuns
<1> QED BY <1>6, <1>7, <1>8

LEMMA FireKeeps == ASSUME ResetInv, SeenAgain \/ ArmNow PROVE ResetInv'
<1> USE DEF ResetInv, TypesOK
<1>1. /\ UNCHANGED <<content, cleared, agreed, unsaid, swapped, port>> /\ thread' = "off"
      /\ Free /\ shake.stage # "none" /\ shake' = NoShake /\ eye' = NoEye
      /\ RunReset(shake.key, shake.applets)
  BY DEF SeenAgain, ArmNow, Fire, Waiting, history, StoppedWatch, StopWatch
<1>2. PICK k \in Keys : k = shake.key
  BY <1>1 DEF Shaken
<1>3. PICK applets \in SUBSET Applets : applets = shake.applets
  BY DEF ShakeOK
<1>4. panel.key \in {NoKey, k} /\ \A a \in applets : Agreed(k, a)
  BY <1>1, <1>2, <1>3 DEF Shaken
<1>5. panel'.key = panel.key /\ panel'.outcomes = panel.outcomes /\ CardOK'
  BY <1>1 DEF RunReset, CardOK
<1>6. \A a \in applets : Agreed(k, a)'
  BY <1>1, <1>4 DEF Agreed
<1>7. agreed \subseteq agreed' /\ agreed' \subseteq Keys \X Applets
  BY <1>1 DEF BooksOK
<1>8. RunReset(k, applets) /\ EyeOK' /\ eye'.thread = "off"
  BY <1>1, <1>2, <1>3 DEF EyeOK, NoEye, Threads
<1> QED BY <1>1, <1>4, <1>5, <1>6, <1>7, <1>8, ResetGoesOut

(***************************************************************************)
(* The reset itself, one applet at a time.                                  *)
(***************************************************************************)

(* What becomes of the work when an applet's outcome is known.              *)
LEMMA OutcomeShape ==
  ASSUME ResetInv, NEW a \in Applets, NEW status \in Statuses \cup {"detached"},
         Outcome(a, status), work.todo # <<>>
  PROVE \/ /\ refusals' = refusals /\ UNCHANGED <<writing, panel>>
           /\ WorkOK' /\ work'.key = work.key /\ work'.todo = Tail(work.todo)
           /\ \A o \in work'.outcomes : \/ o \in work.outcomes
                                        \/ o.applet = a /\ o.status \in {status, "failed"}
        \/ /\ refusals > 0 /\ refusals' = refusals - 1
           /\ writing' = "none" /\ work' = NoWork /\ CardOK'
           /\ panel'.key = panel.key /\ panel'.outcomes = panel.outcomes
<1> USE DEF ResetInv, TypesOK
<1>1. CASE Recorded /\ UNCHANGED <<writing, panel>>
           /\ work' = [work EXCEPT !.todo = Tail(@),
                             !.detached = @ \/ status = "detached",
                             !.outcomes = @ \cup {[applet |-> a,
                                 status |-> IF status = "detached" THEN "failed" ELSE status]}]
  <2> DEFINE st == IF status = "detached" THEN "failed" ELSE status
             cut == work.detached \/ status = "detached"
             out == [applet |-> a, status |-> st]
  <2>1. st \in Statuses /\ st \in {status, "failed"}
    BY DEF Statuses
  <2>2. out \in Told /\ out.applet = a /\ out.status \in {status, "failed"}
    BY <2>1 DEF Told
  <2>3. work' = [work EXCEPT !.todo = Tail(@), !.detached = cut, !.outcomes = @ \cup {out}]
    BY <1>1
  <2>4. Tail(work.todo) \in Seq(Applets)
    BY DEF WorkOK
  <2> HIDE DEF st, cut, out
  <2>5. /\ work'.key = work.key /\ work'.todo = Tail(work.todo)
        /\ work'.outcomes = work.outcomes \cup {out}
        /\ work' = [key |-> work'.key, todo |-> work'.todo, detached |-> work'.detached,
                    outcomes |-> work'.outcomes]
    BY <2>3 DEF WorkOK
  <2>6. WorkOK'
    BY <2>2, <2>4, <2>5 DEF WorkOK
  <2> QED BY <1>1, <2>2, <2>5, <2>6 DEF Recorded
<1>2. CASE NotRecorded /\ GivesUp
  BY <1>2 DEF NotRecorded, GivesUp, CardOK
<1> QED BY <1>1, <1>2 DEF Outcome

(* One applet, whatever was done to it.                                     *)
LEMMA AppletKeeps ==
  ASSUME ResetInv, writing = "reset", work.todo # <<>>,
         NEW a, a = Head(work.todo), NEW k, k = Target(a),
         NEW status \in Statuses \cup {"detached"}, Outcome(a, status),
         NotDone \/ (k # NoKey /\ Done(k, a)),
         status \in {"done", "skipped"} /\ Strays' = {} => a \notin content'[work.key],
         UNCHANGED <<port, thread, shake, eye, cleared, agreed>>
  PROVE ResetInv'
<1> USE DEF ResetInv, TypesOK
<1>1. /\ a \in Applets /\ Agreed(work.key, a)
      /\ \A i \in 1..Len(Tail(work.todo)) : Agreed(work.key, Tail(work.todo)[i])
      /\ work.key \in Keys
  <2>1. /\ a \in Applets /\ a = work.todo[1] /\ 1 \in 1..Len(work.todo)
        /\ Len(Tail(work.todo)) = Len(work.todo) - 1
        /\ \A i \in 1..Len(Tail(work.todo)) :
             i + 1 \in 1..Len(work.todo) /\ Tail(work.todo)[i] = work.todo[i + 1]
    BY DEF WorkOK
  <2> QED BY <2>1 DEF InHand, Begun
<1>3. \/ /\ refusals' = refusals /\ UNCHANGED <<writing, panel>>
         /\ WorkOK' /\ work'.key = work.key /\ work'.todo = Tail(work.todo)
         /\ \A o \in work'.outcomes : \/ o \in work.outcomes
                                      \/ o.applet = a /\ o.status \in {status, "failed"}
      \/ /\ refusals > 0 /\ refusals' = refusals - 1
         /\ writing' = "none" /\ work' = NoWork /\ CardOK'
         /\ panel'.key = panel.key /\ panel'.outcomes = panel.outcomes
  BY <1>1, OutcomeShape
<1>4. /\ content' \in [Keys -> SUBSET Applets] /\ unsaid' \subseteq Keys \X Applets
      /\ \A n \in Keys : content'[n] \subseteq content[n]
      /\ Strays \subseteq Strays'
      /\ unsaid' \subseteq unsaid \cup {<<k, a>>}
      /\ \A n \in Keys : \A b \in Applets \ content'[n] :
           b \in Applets \ content[n] \/ (n = k /\ b = a)
      /\ unsaid' # unsaid \/ content' # content => k \in Keys /\ (Strays' = {} => k = work.key)
      /\ content' # content /\ k # work.key => a \in Strays'
  <2>1. CASE NotDone
    <3>1. UNCHANGED <<content, unsaid, swapped>> /\ Strays' = Strays
      BY <2>1, StraysStand DEF NotDone
    <3> QED BY <3>1 DEF BooksOK
  <2>2. CASE k # NoKey /\ Done(k, a)
    <3>1. k \in Keys /\ (k # work.key => a = "fido2")
      BY <2>2, Targets DEF SomeKey
    <3>2. /\ content' = [content EXCEPT ![k] = @ \ {a}] /\ unsaid' = unsaid \cup {<<k, a>>}
      BY <2>2 DEF Done
    <3>3. Strays \subseteq Strays' /\ (k # work.key => Strays' = {"fido2"})
      BY <2>2, StraysGrow
    <3>4. content \in [Keys -> SUBSET Applets] /\ unsaid \subseteq Keys \X Applets
      BY DEF BooksOK
    <3>5. /\ content' \in [Keys -> SUBSET Applets] /\ unsaid' \subseteq Keys \X Applets
          /\ \A n \in Keys : content'[n] \subseteq content[n]
          /\ \A n \in Keys : \A b \in Applets \ content'[n] :
               b \in Applets \ content[n] \/ (n = k /\ b = a)
      BY <1>1, <3>1, <3>2, <3>4
    <3> QED BY <3>1, <3>2, <3>3, <3>5
  <2> QED BY <2>1, <2>2
<1>5. BooksOK'
  BY <1>3, <1>4, Bounds DEF BooksOK
<1>6. Meant'
  BY <1>1, <1>4 DEF Meant, Agreed
<1>7. CardOK' /\ WorkOK' /\ PortOK' /\ ShakeOK' /\ EyeOK'
  <2>1. CardOK' /\ PortOK' /\ ShakeOK' /\ EyeOK'
    BY <1>3 DEF CardOK, PortOK, ShakeOK, EyeOK
  <2>2. WorkOK'
    BY <1>3, NothingInHand
  <2> QED BY <2>1, <2>2
<1>8. Turns' /\ Shaken' /\ OnCard'
  BY <1>3 DEF Turns, Shaken, OnCard, Agreed, NoShake
<1>9. Begun'
  BY <1>3 DEF Begun
<1>10. InHand'
  <2>1. CASE work' = NoWork
    BY <2>1, NothingInHand
  <2>2. CASE /\ work'.key = work.key /\ work'.todo = Tail(work.todo)
             /\ \A o \in work'.outcomes : o \in work.outcomes \/ o.applet = a
    BY <1>1, <2>2 DEF InHand, Agreed
  <2> QED BY <1>3, <2>1, <2>2
<1>11. Clear'
  <2> SUFFICES ASSUME Strays' = {} PROVE Clear'
    BY DEF Clear
  <2>1. Strays = {}
    BY <1>4
  <2>2. \A x \in cleared' : x[2] \notin content'[x[1]]
    BY <1>4, <2>1 DEF Clear, BooksOK
  <2>3. \A o \in work'.outcomes : o.status \in {"done", "skipped"}
                                    => o.applet \notin content'[work'.key]
    BY <1>1, <1>3, <1>4, <2>1 DEF Clear, NoWork
  <2> QED BY <2>2, <2>3 DEF Clear
<1>12. Known'
  <2> SUFFICES ASSUME Strays' = {}, refusals' = Refusals PROVE Known'
    BY DEF Known
  <2>1. Strays = {} /\ refusals = Refusals /\ writing' = "reset" /\ work'.key = work.key
    BY <1>3, <1>4, Bounds DEF BooksOK
  <2>2. unsaid' \subseteq {work.key} \X Applets
    BY <1>1, <1>4, <2>1 DEF Known
  <2> QED BY <2>1, <2>2 DEF Known
<1> QED BY <1>5, <1>6, <1>7, <1>8, <1>9, <1>10, <1>11, <1>12

LEMMA ResetKeeps == ASSUME ResetInv, Reset PROVE ResetInv'
<1> DEFINE a == Head(work.todo)
           k == Target(a)
<1>1. /\ writing = "reset" /\ work.todo # <<>>
      /\ UNCHANGED <<port, thread, shake, eye, cleared, agreed>>
  BY DEF Reset
<1>2. /\ "detached" \in Statuses \cup {"detached"} /\ "failed" \in Statuses \cup {"detached"}
      /\ "skipped" \in Statuses \cup {"detached"} /\ "done" \in Statuses \cup {"detached"}
      /\ "detached" \notin {"done", "skipped"} /\ "failed" \notin {"done", "skipped"}
  BY DEF Statuses
<1>3. \/ NotDone /\ Outcome(a, "detached")
      \/ NotDone /\ Outcome(a, "failed")
      \/ k # NoKey /\ a = "otp" /\ a \notin content[k] /\ NotDone /\ Outcome(a, "skipped")
      \/ k # NoKey /\ Done(k, a) /\ Outcome(a, "done")
      \/ k # NoKey /\ Done(k, a) /\ Outcome(a, "failed")
  BY DEF Reset
<1>4. PortOK /\ work.key \in Keys /\ content \in [Keys -> SUBSET Applets]
  BY <1>1 DEF ResetInv, TypesOK, Begun, BooksOK
<1> HIDE DEF k
<1> k = Target(a)
  BY DEF k
<1>5. CASE NotDone /\ Outcome(a, "detached")
  BY <1>1, <1>2, <1>5, AppletKeeps
<1>6. CASE (NotDone \/ (k # NoKey /\ Done(k, a))) /\ Outcome(a, "failed")
  BY <1>1, <1>2, <1>6, AppletKeeps
<1>7. CASE k # NoKey /\ a = "otp" /\ a \notin content[k] /\ NotDone /\ Outcome(a, "skipped")
  <2>1. k = work.key
    BY <1>4, <1>7, Targets
  <2>2. a \notin content'[work.key]
    BY <1>7, <2>1 DEF NotDone
  <2> QED BY <1>1, <1>2, <1>7, <2>2, AppletKeeps
<1>8. CASE k # NoKey /\ Done(k, a) /\ Outcome(a, "done")
  <2>1. Strays' = {} => a \notin content'[work.key]
    <3>1. content' = [content EXCEPT ![k] = @ \ {a}]
      BY <1>8 DEF Done
    <3>2. Strays' = {} => k = work.key
      BY <1>8, StraysGrow
    <3> QED BY <1>4, <3>1, <3>2
  <2> QED BY <1>1, <1>2, <1>8, <2>1, AppletKeeps
<1> QED BY <1>3, <1>5, <1>6, <1>7, <1>8

LEMMA FinishKeeps == ASSUME ResetInv, Finish PROVE ResetInv'
<1> USE DEF ResetInv, TypesOK
<1>1. /\ UNCHANGED <<port, thread, content, shake, eye, agreed, swapped>>
      /\ writing = "reset" /\ writing' = "none" /\ work' = NoWork
      /\ refusals' = refusals \/ (refusals > 0 /\ refusals' = refusals - 1)
      /\ unsaid' \subseteq unsaid
  BY DEF Finish, Recorded, NotRecorded, GivesUp
<1>2. /\ panel'.key = panel.key /\ panel'.outcomes \in {work.outcomes, panel.outcomes}
      /\ CardOK'
  BY DEF Finish, GivesUp, CardOK, WorkOK
<1>3. /\ work.key \in Keys /\ panel.key \in {NoKey, work.key}
      /\ panel.said # "nothing written"
  BY <1>1 DEF Begun
<1>4. Strays' = Strays
  BY <1>1, StraysStand
<1>5. /\ cleared' \subseteq Keys \X Applets
      /\ Strays = {} => \A x \in cleared' : x[2] \notin content[x[1]]
  <2>1. CASE cleared' = cleared
    BY <2>1 DEF BooksOK, Clear
  <2>2. CASE cleared' = cleared \cup ({work.key} \X ClearedBy)
    <3>1. \A a \in ClearedBy : \E o \in work.outcomes :
            o.applet = a /\ o.status \in {"done", "skipped"}
      BY DEF ClearedBy, Outcomes
    <3>2. ClearedBy \subseteq Applets
      BY <3>1 DEF WorkOK, Told
    <3>3. Strays = {} => \A a \in ClearedBy : a \notin content[work.key]
      BY <3>1 DEF Clear
    <3> QED BY <1>3, <2>2, <3>2, <3>3 DEF BooksOK, Clear
  <2> QED BY <2>1, <2>2 DEF Finish
<1>6. BooksOK'
  BY <1>1, <1>5, Bounds DEF BooksOK
<1>7. PortOK' /\ ShakeOK' /\ EyeOK' /\ Turns' /\ Shaken'
  BY <1>1, <1>2 DEF PortOK, ShakeOK, EyeOK, Turns, Shaken, Agreed, NoShake
<1>8. WorkOK' /\ InHand' /\ Begun' /\ work'.outcomes = {}
  BY <1>1, NothingInHand DEF Begun
<1>9. OnCard' /\ Meant'
  BY <1>1, <1>2, <1>3, <1>4 DEF OnCard, InHand, Meant, Agreed
<1>10. Clear'
  BY <1>1, <1>4, <1>5, <1>8 DEF Clear
<1>11. Known'
  <2> SUFFICES ASSUME Strays = {}, refusals' = Refusals PROVE unsaid' = {}
    BY <1>1, <1>4 DEF Known
  <2>1. refusals = Refusals /\ refusals' = refusals
    BY <1>1, Bounds DEF BooksOK
  <2>2. panel'.said # "nothing written"
    <3>1. NotRecorded \/ panel' = [panel EXCEPT !.outcomes = work.outcomes]
      BY Zenon DEF Finish
    <3>2. ~NotRecorded
      BY <2>1, Bounds DEF NotRecorded
    <3>3. panel' = [panel EXCEPT !.outcomes = work.outcomes] => panel'.said = panel.said
      BY DEF CardOK
    <3> QED BY <1>3, <3>1, <3>2, <3>3
  <2>3. unsaid' = unsaid \ ({work.key} \X Applets)
    <3>1. unsaid' = unsaid \ ({work.key} \X (IF panel'.said = "nothing written"
                                             THEN {} ELSE Applets))
      BY Zenon DEF Finish
    <3>2. (IF panel'.said = "nothing written" THEN {} ELSE Applets) = Applets
      BY <2>2
    <3> QED BY <3>1, <3>2, Zenon
  <2>4. unsaid \subseteq {work.key} \X Applets
    BY <1>1, <2>1 DEF Known
  <2> QED BY <2>3, <2>4
<1> QED BY <1>2, <1>6, <1>7, <1>8, <1>9, <1>10, <1>11

(***************************************************************************)
(* The theorem.                                                             *)
(***************************************************************************)

LEMMA ResetBegins == ASSUME PortOK, writing = "none", ResetInit PROVE ResetInv
<1> USE DEF ResetInit
<1>1. PortOK /\ ShakeOK /\ EyeOK
  BY DEF PortOK, ShakeOK, EyeOK, NoShake, NoEye, SomeKey, Threads
<1>2. CardOK /\ OnCard /\ panel.key = NoKey
  BY DEF CardOK, OnCard, NoPanel, SomeKey
<1>3. work.outcomes = {} /\ work.todo = <<>> /\ work.key = NoKey
  BY DEF NoWork
<1>4. WorkOK
  BY <1>3 DEF WorkOK, NoWork, SomeKey
<1>5. BooksOK
  BY Bounds DEF BooksOK
<1>6. Turns /\ Shaken /\ Begun /\ InHand
  BY <1>3 DEF Turns, Shaken, Begun, InHand, NoShake, NoEye
<1>7. Meant /\ Clear /\ Known
  BY <1>3 DEF Meant, Clear, Known
<1> QED BY <1>1, <1>2, <1>4, <1>5, <1>6, <1>7 DEF ResetInv, TypesOK

LEMMA ResetStep == ASSUME ResetInv, [ResetNext]_<<watchVars, resetVars>> PROVE ResetInv'
<1>1. CASE UNCHANGED <<watchVars, resetVars>>
  <2>1. UNCHANGED <<port, writing, thread, panel, shake, eye, work, content, cleared, agreed,
                    unsaid, refusals>> /\ Strays' = Strays
    BY <1>1, StraysStand DEF watchVars, resetVars
  <2>2. PortOK' /\ CardOK' /\ ShakeOK' /\ EyeOK' /\ WorkOK' /\ BooksOK'
    BY <2>1 DEF ResetInv, TypesOK, PortOK, CardOK, ShakeOK, EyeOK, WorkOK, BooksOK
  <2>3. Turns' /\ Shaken' /\ Begun' /\ InHand' /\ OnCard'
    BY <2>1 DEF ResetInv, Turns, Shaken, Begun, InHand, OnCard, Agreed, NoShake
  <2>4. Meant' /\ Clear' /\ Known'
    BY <2>1 DEF ResetInv, Meant, Clear, Known, Agreed
  <2> QED BY <2>2, <2>3, <2>4 DEF ResetInv, TypesOK
<1> QED BY <1>1, WatchKeeps, CardKeeps, ConfirmKeeps, RetryKeeps, ShakeGoesOn, FireKeeps,
           ResetKeeps, FinishKeeps DEF ResetNext

LEMMA ResetIsRight == ASSUME ResetInv PROVE ResetIsAsAgreed
<1> USE DEF ResetInv, TypesOK
<1>1. swapped \/ Strays = {}
  BY Zenon DEF Strays
<1>2. \A a \in Strays : a = "fido2" /\ swapped
  BY Zenon DEF Strays
<1>3. OnlyWhatWasAgreed
  <2>1. ASSUME NEW x \in Wiped PROVE x \in agreed \/ x[2] \in Strays
    <3>1. x = <<x[1], x[2]>> /\ x[1] \in Keys /\ x[2] \in Applets \ content[x[1]]
      BY <2>1 DEF Wiped
    <3> QED BY <3>1 DEF Meant, Agreed
  <2> QED BY <1>2, <2>1, Zenon DEF OnlyWhatWasAgreed
<1>4. AloneOnTheKey
  BY DEF AloneOnTheKey, WatchIsStopped, Turns
<1>5. RecordedIsClear
  <2>1. Strays = {} => cleared \subseteq Wiped
    BY DEF Clear, BooksOK, Wiped
  <2> QED BY <1>1, <2>1, Zenon DEF RecordedIsClear
<1>6. ClearedIsKnown
  <2>1. Strays = {} /\ Free /\ refusals = Refusals => unsaid = {}
    BY DEF Known, Free
  <2> QED BY <1>1, <2>1, Zenon DEF ClearedIsKnown
<1> QED BY <1>3, <1>4, <1>5, <1>6 DEF ResetIsAsAgreed

(* A reset touches the key and the applets that were agreed to, with nobody *)
(* else listing the port; what is on record as cleared is clear, and what   *)
(* was cleared is on record or was told (device/reset.rs,                   *)
(* device/reinsert.rs, app.rs).                                             *)
THEOREM ResetIsAsAgreedEver == ResetSpec => []ResetIsAsAgreed
<1>1. WatchInit /\ ResetInit => ResetInv
  BY ResetBegins DEF WatchInit, PortOK, Threads
<1>2. ResetInv /\ [ResetNext]_<<watchVars, resetVars>> => ResetInv'
  BY ResetStep
<1>3. ResetInv => ResetIsAsAgreed
  BY ResetIsRight
<1> QED BY <1>1, <1>2, <1>3, PTL DEF ResetSpec

(***************************************************************************)
(* What a step leaves of what the pre-flight read.                          *)
(***************************************************************************)

(* A PIN that was changed and a credential stay, and a slot is written by   *)
(* one kind of step only.                                                   *)
Follows(kind, old, k) ==
  /\ k \in S!KeyState
  /\ old.pin # "default" => k.pin # "default"
  /\ old.fido # "none" => k.fido # "none"
  /\ old.credential => k.credential
  /\ k.slot => old.slot \/ kind = "otpSlot"

LEMMA OutcomeIs ==
  ASSUME NEW k, NEW p, NEW r
  PROVE S!Outcome(k, p, r).key = k /\ S!Outcome(k, p, r).result = r
BY DEF S!Outcome

LEMMA WrittenIs ==
  ASSUME NEW k, NEW q, NEW m, NEW p, NEW o \in S!Write(k, q, m, p)
  PROVE o.key \in {k, m} /\ o.result \in S!Results
BY DEF S!Write, S!Unperformed, S!Outcome, S!Results

LEMMA NotPerformedIs ==
  ASSUME NEW k, NEW p, NEW o \in S!Unperformed(k, p)
  PROVE o.key = k /\ o.result \in {"retryable", "fatal"}
BY DEF S!Unperformed, S!Outcome

LEMMA PlainKeys ==
  ASSUME NEW old \in S!KeyState, NEW purse, NEW o
  PROVE /\ o \in S!Fido2Pin(old, purse) => o.key \in {old, [old EXCEPT !.fido = "set"]}
        /\ o \in S!Fido2MinPinLength(old, purse) => o.key \in {old, [old EXCEPT !.minLength = TRUE]}
        /\ o \in S!Fido2ForcePinChange(old, purse) => o.key \in {old, [old EXCEPT !.forced = TRUE]}
        /\ o \in S!Fido2Credential(old, purse) => o.key \in {old, [old EXCEPT !.credential = TRUE]}
        /\ o \in S!OtpAccessCode(old, purse) => o.key \in {old, [old EXCEPT !.code = TRUE]}
        /\ o \in S!OtpSlotConfig(old, purse) => o.key \in {old, [old EXCEPT !.slot = TRUE]}
        /\ o \in S!PivManagementKey(old, purse) =>
             o.key \in {old, [old EXCEPT !.mgm = "protected"], [old EXCEPT !.mgm = "unstored"]}
        /\ o \in S!Verify(old, purse) => o.key = old
BY WrittenIs, NotPerformedIs, OutcomeIs
   DEF S!Fido2Pin, S!Fido2MinPinLength, S!Fido2ForcePinChange, S!Fido2Credential,
       S!OtpAccessCode, S!OtpSlotConfig, S!PivManagementKey, S!Verify, S!WithFidoPin

LEMMA PinPukKeys ==
  ASSUME NEW old \in S!KeyState, NEW purse, NEW o \in S!PivPinPuk(old, purse)
  PROVE \/ o.key = old
        \/ o.key = [old EXCEPT !.tries = @ - 1] /\ old.tries # 0
        \/ o.key = [[old EXCEPT !.pin = "set", !.tries = S!MaxTries] EXCEPT !.puk = "set"]
BY WrittenIs, NotPerformedIs, OutcomeIs
   DEF S!PivPinPuk, S!ChangePinPuk

LEMMA BehindKeys ==
  ASSUME NEW old \in S!KeyState, NEW purse
  PROVE \A o :
     (\/ o \in S!PivKeygen(old, purse) \/ o \in S!PivCsr(old, purse)
      \/ \E pem : o \in S!PivCertImport(old, purse, pem))
     => \/ o.key = old
        \/ o.key = [old EXCEPT !.tries = @ - 1] /\ old.tries # 0
        \/ o.key = [old EXCEPT !.tries = S!MaxTries]
        \/ o.key = [[old EXCEPT !.tries = S!MaxTries] EXCEPT !.pair = S!NewPair(@)]
        \/ o.key = [[old EXCEPT !.tries = S!MaxTries] EXCEPT !.cert = TRUE]
BY WrittenIs, NotPerformedIs, OutcomeIs
   DEF S!PivKeygen, S!PivCsr, S!PivCertImport, S!Administering, S!WithPin
LEMMA Edits ==
  ASSUME NEW old \in S!KeyState, NEW kind
  PROVE  /\ Follows(kind, old, old)
         /\ Follows(kind, old, [old EXCEPT !.fido = "set"])
         /\ Follows(kind, old, [old EXCEPT !.minLength = TRUE])
         /\ Follows(kind, old, [old EXCEPT !.forced = TRUE])
         /\ Follows(kind, old, [old EXCEPT !.credential = TRUE])
         /\ kind = "otpSlot" => Follows(kind, old, [old EXCEPT !.slot = TRUE])
         /\ Follows(kind, old, [old EXCEPT !.code = TRUE])
         /\ Follows(kind, old, [old EXCEPT !.pin = "set"])
         /\ Follows(kind, old, [old EXCEPT !.puk = "set"])
         /\ Follows(kind, old, [old EXCEPT !.mgm = "protected"])
         /\ Follows(kind, old, [old EXCEPT !.mgm = "unstored"])
         /\ Follows(kind, old, [old EXCEPT !.pair = S!NewPair(@)])
         /\ Follows(kind, old, [old EXCEPT !.cert = TRUE])
         /\ Follows(kind, old, [old EXCEPT !.tries = S!MaxTries])
         /\ old.tries # 0 => Follows(kind, old, [old EXCEPT !.tries = @ - 1])
<1> DEFINE Same(k) == /\ k.pin = old.pin /\ k.fido = old.fido
                      /\ k.credential = old.credential /\ k.slot = old.slot
<1>1. /\ [old EXCEPT !.fido = "set"] \in S!KeyState /\ [old EXCEPT !.minLength = TRUE] \in S!KeyState
      /\ [old EXCEPT !.forced = TRUE] \in S!KeyState /\ [old EXCEPT !.credential = TRUE] \in S!KeyState
      /\ [old EXCEPT !.slot = TRUE] \in S!KeyState /\ [old EXCEPT !.code = TRUE] \in S!KeyState
      /\ [old EXCEPT !.cert = TRUE] \in S!KeyState /\ [old EXCEPT !.puk = "set"] \in S!KeyState
      /\ [old EXCEPT !.mgm = "protected"] \in S!KeyState /\ [old EXCEPT !.mgm = "unstored"] \in S!KeyState
      /\ [old EXCEPT !.pin = "set"] \in S!KeyState
  BY DEF S!KeyState
<1>2. [old EXCEPT !.tries = S!MaxTries] \in S!KeyState
  BY DEF S!KeyState, S!MaxTries
<1>3. old.tries # 0 => [old EXCEPT !.tries = @ - 1] \in S!KeyState
  BY DEF S!KeyState, S!MaxTries
<1>4. [old EXCEPT !.pair = S!NewPair(@)] \in S!KeyState
  BY DEF S!KeyState, S!NewPair
<1>5. /\ Same(old) /\ Same([old EXCEPT !.minLength = TRUE]) /\ Same([old EXCEPT !.forced = TRUE])
      /\ Same([old EXCEPT !.code = TRUE]) /\ Same([old EXCEPT !.puk = "set"])
      /\ Same([old EXCEPT !.mgm = "protected"]) /\ Same([old EXCEPT !.mgm = "unstored"])
      /\ Same([old EXCEPT !.pair = S!NewPair(@)]) /\ Same([old EXCEPT !.cert = TRUE])
      /\ Same([old EXCEPT !.tries = S!MaxTries]) /\ Same([old EXCEPT !.tries = @ - 1])
  BY DEF S!KeyState
<1>6. \A k \in S!KeyState : Same(k) => Follows(kind, old, k)
  BY DEF Follows
<1>7. /\ Follows(kind, old, [old EXCEPT !.fido = "set"]) /\ Follows(kind, old, [old EXCEPT !.pin = "set"])
      /\ Follows(kind, old, [old EXCEPT !.credential = TRUE])
      /\ kind = "otpSlot" => Follows(kind, old, [old EXCEPT !.slot = TRUE])
  BY <1>1 DEF Follows, S!KeyState
<1> HIDE DEF Same
<1> QED BY <1>1, <1>2, <1>3, <1>4, <1>5, <1>6, <1>7, Zenon

LEMMA FollowsOn ==
  ASSUME NEW kind, NEW a, NEW b, NEW c, Follows(kind, a, b), Follows(kind, b, c)
  PROVE  Follows(kind, a, c)
BY DEF Follows

LEMMA StepFollows ==
  ASSUME NEW kind \in S!Kinds, NEW old \in S!KeyState, NEW purse, NEW pem,
         NEW o \in S!Perform(kind, old, purse, pem)
  PROVE Follows(kind, old, o.key)
<1>1. \/ o \in S!Unperformed(old, purse)
      \/ kind = "fidoPin" /\ o \in S!Fido2Pin(old, purse)
      \/ kind = "minLength" /\ o \in S!Fido2MinPinLength(old, purse)
      \/ kind = "forceChange" /\ o \in S!Fido2ForcePinChange(old, purse)
      \/ kind = "credential" /\ o \in S!Fido2Credential(old, purse)
      \/ kind = "otpCode" /\ o \in S!OtpAccessCode(old, purse)
      \/ kind = "otpSlot" /\ o \in S!OtpSlotConfig(old, purse)
      \/ kind = "pinPuk" /\ o \in S!PivPinPuk(old, purse)
      \/ kind = "mgmKey" /\ o \in S!PivManagementKey(old, purse)
      \/ kind = "keygen" /\ o \in S!PivKeygen(old, purse)
      \/ kind = "csr" /\ o \in S!PivCsr(old, purse)
      \/ kind = "import" /\ o \in S!PivCertImport(old, purse, pem)
      \/ kind = "verify" /\ o \in S!Verify(old, purse)
  BY DEF S!Perform, S!Kinds
<1>2. PICK full : full = [old EXCEPT !.tries = S!MaxTries]
  OBVIOUS
<1>3. full \in S!KeyState /\ Follows(kind, old, full)
  BY <1>2, Edits DEF Follows
<1>4. CASE \/ o.key = [full EXCEPT !.pair = S!NewPair(@)]
           \/ o.key = [full EXCEPT !.cert = TRUE]
  <2>1. Follows(kind, full, o.key)
    BY <1>3, <1>4, Edits
  <2> QED BY <1>3, <2>1, FollowsOn
<1>5. CASE o.key = [[old EXCEPT !.pin = "set", !.tries = S!MaxTries] EXCEPT !.puk = "set"]
  <2>1. PICK pinned : pinned = [full EXCEPT !.pin = "set"]
    OBVIOUS
  <2>2. pinned \in S!KeyState /\ Follows(kind, old, pinned)
    <3>1. Follows(kind, full, pinned)
      BY <1>3, <2>1, Edits
    <3> QED BY <1>3, <3>1, FollowsOn DEF Follows
  <2>3. o.key = [pinned EXCEPT !.puk = "set"]
    BY <1>2, <1>5, <2>1 DEF S!KeyState
  <2>4. Follows(kind, pinned, [pinned EXCEPT !.puk = "set"])
    BY <2>2, Edits, Zenon
  <2>5. Follows(kind, pinned, o.key)
    BY <2>3, <2>4, Zenon
  <2> QED BY <2>2, <2>5, FollowsOn
<1>6. Follows(kind, old, old)
  BY Edits
<1>7. CASE o \in S!Unperformed(old, purse)
  BY <1>6, <1>7, NotPerformedIs
<1>8. CASE kind = "pinPuk" /\ o \in S!PivPinPuk(old, purse)
  <2>1. \/ o.key = old
        \/ o.key = [old EXCEPT !.tries = @ - 1] /\ old.tries # 0
        \/ o.key = [[old EXCEPT !.pin = "set", !.tries = S!MaxTries] EXCEPT !.puk = "set"]
    BY <1>8, PinPukKeys
  <2>2. CASE o.key = [old EXCEPT !.tries = @ - 1] /\ old.tries # 0
    BY <2>2, Edits
  <2> QED BY <1>5, <1>6, <2>1, <2>2
<1>9. CASE \/ kind = "keygen" /\ o \in S!PivKeygen(old, purse)
           \/ kind = "csr" /\ o \in S!PivCsr(old, purse)
           \/ kind = "import" /\ o \in S!PivCertImport(old, purse, pem)
  <2>1. \/ o.key = old
        \/ o.key = [old EXCEPT !.tries = @ - 1] /\ old.tries # 0
        \/ o.key = full
        \/ o.key = [full EXCEPT !.pair = S!NewPair(@)] \/ o.key = [full EXCEPT !.cert = TRUE]
    BY <1>2, <1>9, BehindKeys
  <2> QED BY <1>3, <1>4, <1>6, <2>1, Edits
<1>10. CASE \/ kind = "fidoPin" /\ o \in S!Fido2Pin(old, purse)
            \/ kind = "minLength" /\ o \in S!Fido2MinPinLength(old, purse)
            \/ kind = "forceChange" /\ o \in S!Fido2ForcePinChange(old, purse)
            \/ kind = "credential" /\ o \in S!Fido2Credential(old, purse)
  <2>1. o.key \in {old, [old EXCEPT !.fido = "set"], [old EXCEPT !.minLength = TRUE],
                   [old EXCEPT !.forced = TRUE], [old EXCEPT !.credential = TRUE]}
    BY <1>10, PlainKeys
  <2> QED BY <1>6, <2>1, Edits
<1>11. CASE \/ kind = "otpCode" /\ o \in S!OtpAccessCode(old, purse)
            \/ kind = "otpSlot" /\ o \in S!OtpSlotConfig(old, purse)
            \/ kind = "mgmKey" /\ o \in S!PivManagementKey(old, purse)
            \/ kind = "verify" /\ o \in S!Verify(old, purse)
  <2>1. CASE kind = "otpSlot" /\ o \in S!OtpSlotConfig(old, purse)
    <3>1. o.key \in {old, [old EXCEPT !.slot = TRUE]}
      BY <2>1, PlainKeys
    <3> QED BY <1>6, <2>1, <3>1, Edits, ZenonT(60)
  <2>2. CASE o \in S!OtpAccessCode(old, purse) \/ o \in S!Verify(old, purse)
    <3>1. o.key \in {old, [old EXCEPT !.code = TRUE]}
      BY <2>2, PlainKeys
    <3> QED BY <1>6, <3>1, Edits
  <2>3. CASE o \in S!PivManagementKey(old, purse)
    <3>1. o.key \in {old, [old EXCEPT !.mgm = "protected"], [old EXCEPT !.mgm = "unstored"]}
      BY <2>3, PlainKeys
    <3> QED BY <1>6, <3>1, Edits
  <2> QED BY <1>11, <2>1, <2>2, <2>3
<1> QED BY <1>1, <1>7, <1>8, <1>9, <1>10, <1>11

LEMMA ResultsAre ==
  ASSUME NEW kind \in S!Kinds, NEW old, NEW purse, NEW pem,
         NEW o \in S!Perform(kind, old, purse, pem)
  PROVE o.result \in S!Results
<1>1. \A k, p, x : x \in S!Unperformed(k, p) => x.result \in S!Results
  BY NotPerformedIs DEF S!Results
<1>2. \A k, p, r : r \in S!Results => S!Outcome(k, p, r).result \in S!Results
  BY OutcomeIs
<1>3. \A k, p, h, q, x : x \in S!Write(k, p, h, q) => x.result \in S!Results
  BY WrittenIs
<1>4. {"applied", "already", "skip", "refused", "retryable"} \subseteq S!Results
  BY DEF S!Results
<1>5. CASE kind \in {"fidoPin", "minLength", "forceChange", "credential", "verify"}
  BY <1>1, <1>2, <1>3, <1>4, <1>5
  DEF S!Perform, S!Fido2Pin, S!Fido2MinPinLength, S!Fido2ForcePinChange, S!Fido2Credential,
      S!Verify, S!WithFidoPin
<1>6. CASE kind \in {"otpCode", "otpSlot", "pinPuk", "mgmKey"}
  BY <1>1, <1>2, <1>3, <1>4, <1>6
  DEF S!Perform, S!OtpAccessCode, S!OtpSlotConfig, S!PivPinPuk, S!ChangePinPuk, S!PivManagementKey
<1>7. CASE kind \in {"keygen", "csr", "import"}
  BY <1>1, <1>2, <1>3, <1>4, <1>7
  DEF S!Perform, S!PivKeygen, S!PivCsr, S!PivCertImport, S!Administering, S!WithPin
<1> QED BY <1>5, <1>6, <1>7 DEF S!Kinds

(***************************************************************************)
(* The invariant of the examination.                                        *)
(***************************************************************************)

ProgrammedBy(n) == \E j \in 1..n : exam.plan[j] = "otpSlot"

ExamOK == exam.key \in S!KeyState /\ exam.plan \in Seq(S!Kinds)
CardIs ==
  /\ card.key \in S!KeyState
  /\ exam.key.pin # "default" => card.key.pin # "default"
  /\ exam.key.fido # "none" => card.key.fido # "none"
  /\ exam.key.credential => card.key.credential
  /\ card.key.slot => exam.key.slot \/ ProgrammedBy(Len(met))
MetOK == met \in Seq(S!Results) /\ Len(met) <= Len(exam.plan) /\ (met # <<>> => ~Blocks(exam))

ExamInv == ExamOK /\ CardIs /\ MetOK /\ SkipsOfStateComeTrue

(* The pre-flight's reading of an applet is what its step reads first.      *)
LEMMA SkipIsMet ==
  ASSUME ExamInv, NEW i, i = Len(met) + 1, i \in StepsOf(exam), AlreadyApplied(exam, i),
         ~Blocks(exam), ~(exam.plan[i] = "otpCode" /\ ProgrammedBy(i - 1)),
         NEW r \in Meets(exam, i)
  PROVE r.result \in {"already", "skip", "retryable", "fatal"}
<1> DEFINE kind == exam.plan[i]
           key == card.key
           purse == card.purse
<1>1. i - 1 = Len(met)
  BY DEF ExamInv, MetOK
<1>2. \/ kind = "fidoPin" /\ key.fido # "none" /\ Answered(exam, "FIDO2")
      \/ kind = "pinPuk" /\ key.pin # "default" /\ Answered(exam, "PIV")
      \/ kind = "otpCode" /\ ~key.slot /\ Answered(exam, "OTP")
  BY <1>1 DEF AlreadyApplied, S!SaysHeld, ExamInv, CardIs
<1>3. r \in S!Perform(kind, key, purse, "good")
  <2>1. AppletOf(kind) \in exam.on
    BY <1>2 DEF AppletOf, Answered
  <2>2. ~FirmwareSkips(exam, i) /\ ~CannotEnforce(exam, i)
    BY <1>2 DEF FirmwareSkips, CannotEnforce
  <2> QED BY <2>1, <2>2 DEF Meets
<1> HIDE DEF kind, key, purse
<1>4. \/ r \in S!Unperformed(key, purse)
      \/ r \in {S!Outcome(key, purse, "already"), S!Outcome(key, purse, "skip")}
  BY <1>2, <1>3 DEF S!Perform, S!Fido2Pin, S!PivPinPuk, S!OtpAccessCode,
                    S!PinChanged, S!PinIsDefault
<1> QED BY <1>4, NotPerformedIs, OutcomeIs

LEMMA ExamineKeeps == ASSUME ExamInv, UNCHANGED <<exam, card, met>> PROVE ExamInv'
BY DEF ExamInv, ExamOK, CardIs, MetOK, ProgrammedBy, SkipsOfStateComeTrue, Foretold, Passed

LEMMA MeetKeeps == ASSUME ExamInv, Meet PROVE ExamInv'
<1> DEFINE i == Len(met) + 1
           kind == exam.plan[i]
<1>1. PICK r \in Meets(exam, i) :
        /\ card' = [key |-> r.key, purse |-> r.purse] /\ met' = Append(met, r.result)
  BY DEF Meet
<1>2. /\ Len(met) \in Nat /\ i \in 1..Len(exam.plan) /\ i \in Nat /\ kind \in S!Kinds
      /\ card.key \in S!KeyState
  BY DEF Meet, ExamInv, ExamOK, CardIs, MetOK
<1>3. UNCHANGED exam /\ ~Blocks(exam)
  BY DEF Meet, Findings
<1>4. /\ Follows(kind, card.key, r.key) /\ r.result \in S!Results
      /\ r.result = "refused" \/ r \in S!Perform(kind, card.key, card.purse, "good")
  <2>1. CASE r = S!Outcome(card.key, card.purse, "refused")
    <3>1. r.key = card.key /\ r.result = "refused"
      BY <2>1, OutcomeIs
    <3> QED BY <1>2, <3>1, Edits DEF S!Results
  <2>2. CASE r \in S!Perform(kind, card.key, card.purse, "good")
    BY <1>2, <2>2, StepFollows, ResultsAre
  <2> QED BY <1>1, <2>1, <2>2 DEF Meets
<1>5. /\ met' \in Seq(S!Results) /\ Len(met') = i /\ met' # <<>> /\ met'[i] = r.result
      /\ \A j \in 1..Len(met) : met'[j] = met[j]
  BY <1>1, <1>2, <1>4 DEF ExamInv, MetOK
<1>6. CardIs'
  <2>1. card'.key = r.key
    BY <1>1
  <2>2. kind = "otpSlot" \/ ProgrammedBy(Len(met)) => \E j \in 1..i : exam.plan[j] = "otpSlot"
    BY <1>2 DEF ProgrammedBy
  <2> HIDE DEF kind
  <2>3. card'.key.slot => exam.key.slot \/ \E j \in 1..i : exam.plan[j] = "otpSlot"
    BY <1>4, <2>1, <2>2 DEF Follows, ExamInv, CardIs
  <2>4. card'.key.slot => exam'.key.slot \/ ProgrammedBy(Len(met))'
    BY <1>3, <1>5, <2>3 DEF ProgrammedBy
  <2> QED BY <1>3, <1>4, <2>1, <2>4 DEF Follows, ExamInv, CardIs
<1>7. MetOK' /\ ExamOK'
  BY <1>2, <1>3, <1>5 DEF MetOK, ExamInv, ExamOK
<1>8. SkipsOfStateComeTrue'
  <2> SUFFICES ASSUME NEW j \in DOMAIN met', Foretold(j)', ~ApplicationSkips(exam, j),
                      ~FirmwareSkips(exam, j),
                      ~(exam.plan[j] = "otpCode" /\ ProgrammedBy(j - 1))
               PROVE  Passed(j)'
    BY <1>3 DEF SkipsOfStateComeTrue, ProgrammedBy
  <2>1. Foretold(j)
    BY <1>3 DEF Foretold
  <2>2. j \in 1..Len(met) \/ j = i
    BY <1>2, <1>5
  <2>3. CASE j \in 1..Len(met)
    <3>1. Passed(j)
      BY <2>1, <2>3 DEF ExamInv, SkipsOfStateComeTrue, ProgrammedBy, MetOK
    <3> QED BY <1>5, <2>3, <3>1 DEF Passed
  <2>4. CASE j = i
    <3>1. Skips(exam, j)
      BY <2>1 DEF Foretold, Findings
    <3>2. AlreadyApplied(exam, i)
      BY <2>4, <3>1 DEF Skips
    <3>3. r.result \in {"already", "skip", "retryable", "fatal"}
      BY <1>2, <1>3, <2>4, <3>2, SkipIsMet DEF StepsOf
    <3> QED BY <1>5, <2>4, <3>3 DEF Passed
  <2> QED BY <2>2, <2>3, <2>4
<1> QED BY <1>6, <1>7, <1>8 DEF ExamInv

LEMMA ExamBegins == ASSUME PreflightInit PROVE ExamInv
<1>1. exam.key \in PfKeys /\ exam.plan \in PfPlans
  <2>1. \A e \in Exams : e.key \in PfKeys /\ e.plan \in PfPlans
    BY DEF Exams
  <2>2. ASSUME NEW x \in Exceptions PROVE x.key \in PfKeys /\ x.plan \in PfPlans
    <3>1. PICK e \in Exams : x \in {[e EXCEPT !.known = FALSE], [e EXCEPT !.elevated = FALSE],
                                    [e EXCEPT !.fidoTries = 0], [e EXCEPT !.fidoTries = 2]}
      BY DEF Exceptions, Usual, Guessed
    <3>2. x.key = e.key /\ x.plan = e.plan
      BY <3>1 DEF Exams
    <3> QED BY <2>1, <3>2
  <2> QED BY <2>1, <2>2 DEF PreflightInit
<1>2. ExamOK
  BY <1>1, PreflightAssumption DEF ExamOK
<1>3. met = <<>> /\ card.key = exam.key
  BY DEF PreflightInit
<1> QED BY <1>2, <1>3 DEF ExamInv, ExamOK, CardIs, MetOK, SkipsOfStateComeTrue, ProgrammedBy

LEMMA ExamStep == ASSUME ExamInv, [PreflightNext]_preflightVars PROVE ExamInv'
BY ExamineKeeps, MeetKeeps DEF PreflightNext, Examine, preflightVars

(* A key with every applet on and answering is evidence of itself.          *)
LEMMA ConfiguredIs == ASSUME ExamInv PROVE ConfiguredIsRefused
BY DEF ExamInv, MetOK, Blocks, Evidence, Answered, Applications, ConfiguredIsRefused,
       S!AlreadyConfigured

(* What the pre-flight says of the key's state is what the executor meets,  *)
(* and a key with every applet answering that was through a procedure is    *)
(* refused (bootstrap/preflight.rs).                                        *)
THEOREM PreflightTellsTrue == PreflightSpec => [](SkipsOfStateComeTrue /\ ConfiguredIsRefused)
<1>1. PreflightInit => ExamInv
  BY ExamBegins
<1>2. ExamInv /\ [PreflightNext]_preflightVars => ExamInv'
  BY ExamStep
<1>3. ExamInv => SkipsOfStateComeTrue /\ ConfiguredIsRefused
  BY ConfiguredIs DEF ExamInv
<1> QED BY <1>1, <1>2, <1>3, PTL DEF PreflightSpec

(***************************************************************************)
(* The invariant of the wizard.                                             *)
(***************************************************************************)

(* Runs are numbered one by one, in the order they were stored.             *)
LedgerOK ==
  /\ IsFiniteSet(ledger)
  /\ \A r \in ledger : r.n \in 1..Cardinality(ledger) /\ r.try \in Nat
  /\ \A r, s \in ledger : r.n = s.n => r = s
RecordOK(r) ==
  r = [n |-> r.n, key |-> r.key, holder |-> r.holder, version |-> r.version, kinds |-> r.kinds,
       left |-> r.left, aborted |-> r.aborted, try |-> r.try, wrote |-> r.wrote]
WizardOK ==
  wz = [serial |-> wz.serial, holder |-> wz.holder, template |-> wz.template,
        pinned |-> wz.pinned, ticks |-> wz.ticks, plan |-> wz.plan,
        findings |-> wz.findings, stage |-> wz.stage, run |-> wz.run, secrets |-> wz.secrets]

(* The run on the screen is one that was not closed; what is shown, or was, *)
(* an execution made that has taken place; what is shown was never said to  *)
(* be gone.                                                                 *)
OnScreenIsOpen == wz.run # 0 => \E r \in ledger : r.n = wz.run /\ ~r.aborted
TookPlace(s) == \E r \in ledger : r.n = s.run /\ s.try \in Nat /\ s.try <= r.try
PanelTookPlace == wz.secrets # NothingShown => TookPlace(wz.secrets)
SaidTookPlace == \A said \in shown : TookPlace(said[1])
PanelIsNotSaid == wz.secrets # NothingShown => \A said \in shown : said[1] # wz.secrets

WizardInv ==
  /\ LedgerOK /\ (\A r \in ledger : RecordOK(r)) /\ WizardOK
  /\ OnScreenIsOpen /\ PanelTookPlace /\ SaidTookPlace /\ PanelIsNotSaid
  /\ PlanIsUsable

(***************************************************************************)
(* Lemmas.                                                                  *)
(***************************************************************************)

LEMMA EmptyPlanIsUsable == KeepsPinUsable(NoPlan.kinds)
  BY DEF KeepsPinUsable, NoPlan

LEMMA RunIsStored ==
  ASSUME LedgerOK, \A r \in ledger : RecordOK(r),
         NEW new, RecordOK(new), new.n = Cardinality(ledger) + 1, new.try \in Nat,
         ledger' = ledger \cup {new}
  PROVE /\ LedgerOK' /\ (\A r \in ledger' : RecordOK(r))
        /\ \A s : TookPlace(s) => TookPlace(s)'
<1> DEFINE m == Cardinality(ledger)
<1>1. m \in Nat
  BY FS_CardinalityType DEF LedgerOK
<1>2. new \notin ledger
  BY <1>1 DEF LedgerOK
<1>3. IsFiniteSet(ledger') /\ Cardinality(ledger') = m + 1
  BY <1>2, FS_AddElement DEF LedgerOK
<1>4. LedgerOK'
  <2>1. \A r \in ledger' : r.n \in 1..(m + 1) /\ r.try \in Nat
    BY <1>1 DEF LedgerOK
  <2>2. \A r, s \in ledger' : r.n = s.n => r = s
    BY <1>1 DEF LedgerOK
  <2> QED BY <1>3, <2>1, <2>2 DEF LedgerOK
<1>5. \A s : TookPlace(s) => TookPlace(s)'
  BY DEF TookPlace
<1> QED BY <1>4, <1>5

LEMMA RunIsUpdated ==
  ASSUME LedgerOK, \A r \in ledger : RecordOK(r),
         NEW old \in ledger, NEW now, RecordOK(now), now.n = old.n,
         now.try \in Nat, old.try <= now.try, ledger' = (ledger \ {old}) \cup {now}
  PROVE /\ LedgerOK' /\ (\A r \in ledger' : RecordOK(r)) /\ Cardinality(ledger') = Cardinality(ledger)
        /\ \A s : TookPlace(s) => TookPlace(s)'
<1> DEFINE rest == ledger \ {old}
           m == Cardinality(ledger)
<1>1. /\ IsFiniteSet(rest) /\ Cardinality(rest) = m - 1 /\ m \in Nat
  BY FS_RemoveElement, FS_CardinalityType DEF LedgerOK
<1>2. now \notin rest
  BY DEF LedgerOK
<1>3. IsFiniteSet(ledger') /\ Cardinality(ledger') = m
  <2>1. ledger' = rest \cup {now}
    OBVIOUS
  <2> HIDE DEF rest, m
  <2>2. IsFiniteSet(rest \cup {now}) /\ Cardinality(rest \cup {now}) = Cardinality(rest) + 1
    BY <1>1, <1>2, FS_AddElement
  <2>3. IsFiniteSet(ledger') /\ Cardinality(ledger') = Cardinality(rest) + 1
    BY <2>1, <2>2, Zenon
  <2>4. m - 1 + 1 = m
    BY <1>1
  <2> QED BY <1>1, <2>3, <2>4
<1>4. LedgerOK'
  <2>1. \A r \in ledger' : r.n \in 1..m /\ r.try \in Nat
    BY DEF LedgerOK
  <2>2. \A r, s \in ledger' : r.n = s.n => r = s
    BY DEF LedgerOK
  <2> QED BY <1>3, <2>1, <2>2 DEF LedgerOK
<1>5. ASSUME NEW s, TookPlace(s) PROVE TookPlace(s)'
  <2>1. PICK r \in ledger : r.n = s.run /\ s.try \in Nat /\ s.try <= r.try
    BY <1>5 DEF TookPlace
  <2>2. CASE r = old
    BY <2>1, <2>2 DEF TookPlace, LedgerOK
  <2>3. CASE r # old
    BY <2>1, <2>3 DEF TookPlace
  <2> QED BY <2>2, <2>3
<1> QED BY <1>3, <1>4, <1>5

(* A step of the screen alone.                                              *)
LEMMA ScreenKeeps ==
  ASSUME WizardInv, UNCHANGED <<ledger, shown>>, WizardOK', PlanIsUsable',
         wz'.run = wz.run \/ \E r \in Unfinished : wz'.run = r.n,
         wz'.secrets \in {wz.secrets, NothingShown}
  PROVE WizardInv'
<1>1. LedgerOK' /\ (\A r \in ledger' : RecordOK(r))
  BY DEF WizardInv, LedgerOK
<1>2. OnScreenIsOpen'
  BY DEF WizardInv, OnScreenIsOpen, Unfinished
<1>3. PanelTookPlace' /\ SaidTookPlace' /\ PanelIsNotSaid'
  BY DEF WizardInv, PanelTookPlace, SaidTookPlace, PanelIsNotSaid, TookPlace
<1> QED BY <1>1, <1>2, <1>3 DEF WizardInv

LEMMA SelectionKeeps ==
  ASSUME WizardInv,
         \/ (\E k \in WzSerials : SetSerial(k)) \/ (\E i \in DOMAIN people : SetHolder(i))
         \/ (\E i \in DOMAIN Offering[offer] : SetTemplate(i))
         \/ (\E i \in DOMAIN WzSteps : TickStep(i))
         \/ WzPreflight \/ CancelConfirmation \/ WriteFails
  PROVE WizardInv' /\ UNCHANGED <<ledger, slips>>
<1>1. /\ UNCHANGED <<ledger, shown, slips>> /\ WizardOK' /\ wz'.run = wz.run
      /\ wz'.secrets \in {wz.secrets, NothingShown} /\ wz'.plan \in {wz.plan, NoPlan}
  BY DEF SetSerial, SetHolder, SetTemplate, TickStep, WzPreflight, CancelConfirmation, WriteFails,
         WzIs, Elsewhere, WizardInv, WizardOK
<1>2. PlanIsUsable'
  BY <1>1, EmptyPlanIsUsable DEF WizardInv, PlanIsUsable
<1> QED BY <1>1, <1>2, ScreenKeeps

LEMMA PlanningKeeps ==
  ASSUME WizardInv, BuildsPlan PROVE WizardInv' /\ UNCHANGED <<ledger, slips>>
<1>1. PICK plan : wz' = [wz EXCEPT !.ticks = Ticks,
                                   !.plan = IF Plannable(plan.kinds) THEN plan ELSE NoPlan]
  BY DEF BuildsPlan, WzIs
<1> DEFINE kept == IF Plannable(plan.kinds) THEN plan ELSE NoPlan
<1>2. KeepsPinUsable(kept.kinds)
  BY EmptyPlanIsUsable DEF Plannable
<1> HIDE DEF kept
<1>3. /\ WizardOK' /\ wz'.run = wz.run /\ wz'.secrets = wz.secrets /\ wz'.plan = kept
  BY <1>1 DEF WizardInv, WizardOK, kept
<1>4. UNCHANGED <<ledger, shown, slips>>
  BY DEF BuildsPlan, Elsewhere
<1>5. PlanIsUsable'
  BY <1>2, <1>3 DEF PlanIsUsable
<1> QED BY <1>3, <1>4, <1>5, ScreenKeeps

LEMMA AdoptionKeeps ==
  ASSUME WizardInv, NEW r \in Unfinished, Adopts(r) PROVE WizardInv' /\ UNCHANGED <<ledger, slips>>
<1> DEFINE plan == [PlanOf(r.version, StepSelection(r)) EXCEPT !.holder = people[PlaceOf(r.holder)]]
           kept == IF Plannable(plan.kinds) THEN plan ELSE NoPlan
           built == [wz EXCEPT !.serial = r.key, !.holder = PlaceOf(r.holder),
                               !.ticks = StepSelection(r), !.plan = kept]
<1>1. /\ wz' \in {[built EXCEPT !.pinned = r.version, !.stage = "running", !.run = r.n],
                  [built EXCEPT !.pinned = "none"]}
      /\ UNCHANGED <<ledger, shown, slips>>
  BY DEF Adopts, WzIs, Elsewhere
<1>2. KeepsPinUsable(kept.kinds)
  BY EmptyPlanIsUsable DEF Plannable
<1> HIDE DEF plan, kept
<1>3. /\ WizardOK' /\ wz'.run \in {wz.run, r.n} /\ wz'.secrets = wz.secrets /\ wz'.plan = kept
  BY <1>1 DEF WizardInv, WizardOK
<1> HIDE DEF built
<1>4. PlanIsUsable'
  BY <1>2, <1>3 DEF PlanIsUsable
<1> QED BY <1>1, <1>3, <1>4, ScreenKeeps

LEMMA ListsKeep ==
  ASSUME WizardInv, (\E h \in WzHolders : HoldersRead(h)) \/ OffersRead
  PROVE WizardInv' /\ UNCHANGED <<ledger, slips>>
<1>1. UNCHANGED <<wz, ledger, shown, slips>>
  BY DEF HoldersRead, OffersRead
<1>2. WizardOK' /\ PlanIsUsable'
  BY <1>1 DEF WizardInv, WizardOK, PlanIsUsable
<1> QED BY <1>1, <1>2, ScreenKeeps

(* A new run has a number of its own, an updated one an execution more: the *)
(* secrets it made are not those of any entry.                              *)
LEMMA PanelIsFresh ==
  ASSUME WizardInv, NEW n, NEW t, ~TookPlace([run |-> n, try |-> t])
  PROVE \A said \in shown : said[1] # [run |-> n, try |-> t]
BY DEF WizardInv, SaidTookPlace

LEMMA RunKeeps ==
  ASSUME WizardInv, NEW new, new \in ledger', new.try \in Nat, ~new.aborted,
         LedgerOK', \A r \in ledger' : RecordOK(r), \A s : TookPlace(s) => TookPlace(s)',
         ~TookPlace([run |-> new.n, try |-> new.try]),
         WizardOK', wz'.plan = wz.plan,
         wz'.run = new.n \/ (wz'.run = wz.run /\ ledger \subseteq ledger'),
         wz'.secrets \in {NothingShown, [run |-> new.n, try |-> new.try]}, UNCHANGED shown
  PROVE WizardInv'
<1> DEFINE secrets == [run |-> new.n, try |-> new.try]
<1>1. secrets.run = new.n /\ secrets.try = new.try
  OBVIOUS
<1>2. TookPlace(secrets)'
  BY <1>1 DEF TookPlace
<1>3. \A said \in shown : said[1] # secrets
  BY PanelIsFresh
<1> HIDE DEF secrets
<1>4. wz'.secrets \in {NothingShown, secrets}
  BY DEF secrets
<1>5. OnScreenIsOpen'
  BY DEF WizardInv, OnScreenIsOpen
<1>6. PanelTookPlace'
  BY <1>2, <1>4 DEF PanelTookPlace
<1>7. PanelIsNotSaid'
  BY <1>3, <1>4 DEF PanelIsNotSaid
<1>8. SaidTookPlace'
  BY DEF WizardInv, SaidTookPlace
<1>9. PlanIsUsable'
  BY DEF WizardInv, PlanIsUsable
<1> QED BY <1>5, <1>6, <1>7, <1>8, <1>9 DEF WizardInv

LEMMA NewRunIs ==
  ASSUME NEW left \in BOOLEAN, NEW wrote
  PROVE  \E new : /\ new = NewRun(left, wrote) /\ RecordOK(new) /\ new.n = Cardinality(ledger) + 1
                  /\ new.try = Cardinality(wrote) /\ ~new.aborted
<1> DEFINE new == NewRun(left, wrote)
<1>1. /\ RecordOK(new) /\ new.n = Cardinality(ledger) + 1
      /\ new.try = Cardinality(wrote) /\ ~new.aborted
  BY DEF NewRun, RecordOK
<1> HIDE DEF new
<1>2. new = NewRun(left, wrote)
  BY DEF new
<1> QED BY <1>1, <1>2

LEMMA WriteKeeps == ASSUME WizardInv, Write PROVE WizardInv' /\ ledger \subseteq ledger' /\ UNCHANGED slips
<1>1. PICK left \in BOOLEAN :
        LET r == NewRun(left, {<<wz.serial, wz.plan.holder>>})
        IN /\ RecordRun(r)
           /\ \E secrets \in Made(r), n \in {r.n} \cup (IF left THEN {wz.run} ELSE {}) :
                WzIs([wz EXCEPT !.stage = "running", !.run = n, !.secrets = secrets])
  BY DEF Write
<1>2. PICK new : /\ new = NewRun(left, {<<wz.serial, wz.plan.holder>>}) /\ RecordOK(new)
                 /\ new.n = Cardinality(ledger) + 1
                 /\ new.try = Cardinality({<<wz.serial, wz.plan.holder>>}) /\ ~new.aborted
  BY NewRunIs
<1>3. new.try = 1
  BY <1>2, FS_Singleton
<1>4. PICK secrets \in Made(new), n \in {new.n, wz.run} :
        wz' = [wz EXCEPT !.stage = "running", !.run = n, !.secrets = secrets]
  BY <1>1, <1>2 DEF WzIs
<1>5. /\ WizardOK' /\ wz'.plan = wz.plan /\ wz'.run \in {new.n, wz.run}
      /\ wz'.secrets \in {NothingShown, [run |-> new.n, try |-> new.try]}
  BY <1>4 DEF WizardInv, WizardOK, Made
<1>6. ledger' = ledger \cup {new}
  BY <1>1, <1>2 DEF RecordRun
<1>7. LedgerOK' /\ (\A r \in ledger' : RecordOK(r)) /\ \A s : TookPlace(s) => TookPlace(s)'
  <2>1. RecordOK(new) /\ new.n = Cardinality(ledger) + 1 /\ new.try \in Nat
    BY <1>2, <1>3
  <2>2. LedgerOK /\ \A r \in ledger : RecordOK(r)
    BY DEF WizardInv
  <2> QED BY <1>6, <2>1, <2>2, RunIsStored
<1>8. ~TookPlace([run |-> new.n, try |-> new.try])
  <2>1. Cardinality(ledger) \in Nat
    BY FS_CardinalityType DEF WizardInv, LedgerOK
  <2> QED BY <1>2, <2>1 DEF TookPlace, WizardInv, LedgerOK
<1>9. UNCHANGED <<shown, slips>>
  BY DEF Write
<1>10. new \in ledger' /\ new.try \in Nat
  BY <1>3, <1>6
<1>11. WizardInv'
  BY <1>2, <1>5, <1>6, <1>7, <1>8, <1>9, <1>10, RunKeeps
<1> QED BY <1>6, <1>9, <1>11

LEMMA DryRunKeeps ==
  ASSUME WizardInv, WzDryRun PROVE WizardInv' /\ ledger \subseteq ledger' /\ UNCHANGED slips
<1>1. PICK new : /\ new = NewRun(FALSE, {}) /\ RecordOK(new)
                 /\ new.n = Cardinality(ledger) + 1
                 /\ new.try = Cardinality({}) /\ ~new.aborted
  BY NewRunIs
<1>2. new.try = 0
  BY <1>1, FS_EmptySet
<1>3. ledger' = ledger \cup {new} /\ UNCHANGED <<wz, shown, slips>>
  <2>1. ledger' = ledger \cup {NewRun(FALSE, {})}
    BY Zenon DEF WzDryRun, RecordRun
  <2>2. ledger' = ledger \cup {new}
    BY <1>1, <2>1, Zenon
  <2> QED BY <2>2 DEF WzDryRun
<1>4. LedgerOK' /\ (\A r \in ledger' : RecordOK(r)) /\ \A s : TookPlace(s) => TookPlace(s)'
  <2>1. RecordOK(new) /\ new.n = Cardinality(ledger) + 1
    BY <1>1
  <2>2. ledger' = ledger \cup {new} /\ new.try \in Nat
    BY <1>2, <1>3
  <2>3. LedgerOK /\ \A r \in ledger : RecordOK(r)
    BY DEF WizardInv
  <2> QED BY <2>1, <2>2, <2>3, RunIsStored
<1>5. WizardOK' /\ PlanIsUsable' /\ OnScreenIsOpen'
  BY <1>3 DEF WizardInv, WizardOK, PlanIsUsable, OnScreenIsOpen
<1>6. PanelTookPlace' /\ SaidTookPlace' /\ PanelIsNotSaid'
  BY <1>3, <1>4 DEF WizardInv, PanelTookPlace, SaidTookPlace, PanelIsNotSaid
<1> QED BY <1>3, <1>4, <1>5, <1>6 DEF WizardInv

(* Of the run on the screen: it is still open.                              *)
LEMMA RunOnScreen ==
  ASSUME WizardInv, wz.run # 0
  PROVE  \E r \in ledger : r = RunOf(wz.run) /\ r.n = wz.run /\ ~r.aborted
<1>1. PICK r \in ledger : r.n = wz.run /\ ~r.aborted
  BY DEF WizardInv, OnScreenIsOpen
<1>2. RunOf(wz.run) \in ledger /\ RunOf(wz.run).n = wz.run
  BY <1>1, Zenon DEF RunOf
<1> QED BY <1>1, <1>2 DEF WizardInv, LedgerOK

LEMMA ResumesKeeps ==
  ASSUME WizardInv, Resumes PROVE WizardInv' /\ ClosedIsClosed /\ UNCHANGED slips
<1>1. PICK old \in ledger : old = RunOf(wz.run) /\ old.n = wz.run /\ ~old.aborted
  BY RunOnScreen DEF Resumes, MayGoOn
<1>2. PICK left \in BOOLEAN :
        LET now == [old EXCEPT !.left = left, !.try = @ + 1,
                               !.wrote = @ \cup {<<wz.serial, wz.plan.holder>>}]
        IN /\ ledger' = (ledger \ {old}) \cup {now}
           /\ \E secrets \in Made(now) : WzIs([wz EXCEPT !.secrets = secrets])
  BY <1>1 DEF Resumes
<1>3. PICK now : now = [old EXCEPT !.left = left, !.try = @ + 1,
                                   !.wrote = @ \cup {<<wz.serial, wz.plan.holder>>}]
  OBVIOUS
<1>4. RecordOK(old) /\ old.try \in Nat
  BY DEF WizardInv, LedgerOK
<1>5. RecordOK(now) /\ now.n = old.n /\ now.try = old.try + 1 /\ now.aborted = old.aborted
  BY <1>3, <1>4 DEF RecordOK
<1>6. PICK secrets \in Made(now) : wz' = [wz EXCEPT !.secrets = secrets]
  BY <1>2, <1>3 DEF WzIs
<1>7. /\ WizardOK' /\ wz'.plan = wz.plan /\ wz'.run = now.n
      /\ wz'.secrets \in {NothingShown, [run |-> now.n, try |-> now.try]}
  BY <1>1, <1>5, <1>6 DEF WizardInv, WizardOK, Made
<1>8. ledger' = (ledger \ {old}) \cup {now}
  BY <1>2, <1>3
<1>9. LedgerOK' /\ (\A r \in ledger' : RecordOK(r)) /\ \A s : TookPlace(s) => TookPlace(s)'
  BY <1>4, <1>5, <1>8, RunIsUpdated DEF WizardInv
<1>10. ~TookPlace([run |-> now.n, try |-> now.try])
  BY <1>4, <1>5 DEF TookPlace, WizardInv, LedgerOK
<1>11. UNCHANGED <<shown, slips>>
  BY DEF Resumes
<1>12. now \in ledger' /\ now.try \in Nat /\ ~now.aborted
  BY <1>1, <1>4, <1>5, <1>8
<1>13. WizardInv'
  BY <1>7, <1>9, <1>10, <1>11, <1>12, RunKeeps
<1>14. ClosedIsClosed
  BY <1>1, <1>8 DEF ClosedIsClosed
<1> QED BY <1>11, <1>13, <1>14

(* The panel is taken away and an entry says so, as the run leaves the      *)
(* screen or with the run still on it.                                      *)
LEMMA PanelIsTakenAway ==
  ASSUME WizardInv, LedgerOK', \A r \in ledger' : RecordOK(r), \A s : TookPlace(s) => TookPlace(s)',
         OnScreenIsOpen', WizardOK', wz'.secrets = NothingShown, PlanIsUsable', shown' = Says
  PROVE WizardInv'
<1>1. SaidTookPlace'
  <2>1. ASSUME NEW said \in shown' PROVE TookPlace(said[1])'
    <3>1. CASE said \in shown
      BY <3>1 DEF WizardInv, SaidTookPlace
    <3>2. CASE wz.secrets # NothingShown /\ said = <<wz.secrets, wz.serial>>
      BY <3>2 DEF WizardInv, PanelTookPlace
    <3> QED BY <3>1, <3>2 DEF Says
  <2> QED BY <2>1 DEF SaidTookPlace
<1> QED BY <1>1 DEF WizardInv, PanelTookPlace, PanelIsNotSaid

LEMMA CleanScreen ==
  ASSUME WizardInv, wz' = AfterReset(wz)
  PROVE /\ WizardOK' /\ wz'.secrets = NothingShown /\ wz'.run = 0 /\ PlanIsUsable'
<1>1. /\ WizardOK' /\ wz'.secrets = NothingShown /\ wz'.run = 0 /\ wz'.plan = NoPlan
  BY DEF WizardInv, WizardOK, AfterReset, Dismissed
<1> QED BY <1>1, EmptyPlanIsUsable DEF PlanIsUsable

LEMMA LeavingKeeps ==
  ASSUME WizardInv, Dismiss \/ StartsAnother PROVE WizardInv' /\ UNCHANGED <<ledger, slips>>
<1>1. UNCHANGED <<ledger, slips>> /\ shown' = Says
  BY DEF Dismiss, StartsAnother
<1>2. LedgerOK' /\ (\A r \in ledger' : RecordOK(r)) /\ \A s : TookPlace(s) => TookPlace(s)'
  BY <1>1 DEF WizardInv, LedgerOK, TookPlace
<1>3. CASE Dismiss
  <2>1. WizardOK' /\ wz'.secrets = NothingShown /\ wz'.run = wz.run /\ wz'.plan = wz.plan
    BY <1>3 DEF Dismiss, Dismissed, WzIs, WizardInv, WizardOK
  <2>2. OnScreenIsOpen' /\ PlanIsUsable'
    BY <1>1, <2>1 DEF WizardInv, OnScreenIsOpen, PlanIsUsable
  <2> QED BY <1>1, <1>2, <2>1, <2>2, PanelIsTakenAway
<1>4. CASE StartsAnother
  <2>1. WizardOK' /\ wz'.secrets = NothingShown /\ wz'.run = 0 /\ PlanIsUsable'
    BY <1>4, CleanScreen DEF StartsAnother, WzIs
  <2>2. OnScreenIsOpen'
    BY <2>1 DEF OnScreenIsOpen
  <2> QED BY <1>1, <1>2, <2>1, <2>2, PanelIsTakenAway
<1> QED BY <1>3, <1>4

LEMMA AbandonKeeps ==
  ASSUME WizardInv, NEW old \in Unfinished, Abandons(old)
  PROVE WizardInv' /\ ClosedIsClosed /\ UNCHANGED slips
<1>1. PICK now : now = [old EXCEPT !.aborted = TRUE]
  OBVIOUS
<1>2. old \in ledger /\ ~old.aborted /\ RecordOK(old) /\ old.try \in Nat
  BY DEF Unfinished, WizardInv, LedgerOK
<1>3. RecordOK(now) /\ now.n = old.n /\ now.try = old.try
  BY <1>1, <1>2 DEF RecordOK
<1>4. ledger' = (ledger \ {old}) \cup {now} /\ UNCHANGED slips
  BY <1>1 DEF Abandons
<1>5. LedgerOK' /\ (\A r \in ledger' : RecordOK(r)) /\ \A s : TookPlace(s) => TookPlace(s)'
  BY <1>2, <1>3, <1>4, RunIsUpdated DEF WizardInv
<1>6. ClosedIsClosed
  BY <1>2, <1>4 DEF ClosedIsClosed
<1>7. CASE wz.run = old.n
  <2>1. shown' = Says /\ wz' = AfterReset(wz)
    BY <1>7 DEF Abandons, Closed, WzIs
  <2>2. WizardOK' /\ wz'.secrets = NothingShown /\ wz'.run = 0 /\ PlanIsUsable'
    BY <2>1, CleanScreen
  <2>3. OnScreenIsOpen'
    BY <2>2 DEF OnScreenIsOpen
  <2>4. WizardInv'
    BY <1>5, <2>1, <2>2, <2>3, PanelIsTakenAway
  <2> QED BY <1>4, <1>6, <2>4
<1>8. CASE wz.run # old.n
  <2>1. UNCHANGED <<wz, shown>>
    BY <1>8 DEF Abandons, Closed, WzIs
  <2>2. WizardOK' /\ PlanIsUsable'
    BY <2>1 DEF WizardInv, WizardOK, PlanIsUsable
  <2>3. OnScreenIsOpen'
    BY <1>4, <1>8, <2>1 DEF WizardInv, OnScreenIsOpen
  <2>4. PanelTookPlace' /\ SaidTookPlace' /\ PanelIsNotSaid'
    BY <1>5, <2>1 DEF WizardInv, PanelTookPlace, SaidTookPlace, PanelIsNotSaid
  <2>5. WizardInv'
    BY <1>5, <2>2, <2>3, <2>4 DEF WizardInv
  <2> QED BY <1>4, <1>6, <2>5
<1> QED BY <1>7, <1>8

(* What is on a slip is what is shown, and what is shown was not said to be *)
(* gone.                                                                    *)
LEMMA SlipKeeps ==
  ASSUME WizardInv, SaveSlip PROVE WizardInv' /\ ShownIsGone /\ UNCHANGED ledger
<1>1. /\ slips' = slips \cup {[run |-> wz.run, carries |-> wz.secrets]}
      /\ UNCHANGED <<wz, ledger, shown>> /\ wz.secrets # NothingShown
  BY DEF SaveSlip, HasSecrets
<1>2. WizardOK' /\ PlanIsUsable'
  BY <1>1 DEF WizardInv, WizardOK, PlanIsUsable
<1>3. ShownIsGone
  BY <1>1 DEF ShownIsGone, WizardInv, PanelIsNotSaid
<1> QED BY <1>1, <1>2, <1>3, ScreenKeeps

(***************************************************************************)
(* The theorems.                                                            *)
(***************************************************************************)

KeepsItsWord == ShownIsGone /\ ClosedIsClosed

LEMMA WizardBegins == WzInit => WizardInv
<1> SUFFICES ASSUME WzInit PROVE WizardInv
  OBVIOUS
<1>1. ledger = {} /\ shown = {} /\ wz = NoWz
  BY DEF WzInit
<1>2. WizardOK /\ wz.run = 0 /\ wz.secrets = NothingShown /\ wz.plan = NoPlan
  BY <1>1 DEF NoWz, WizardOK
<1>3. LedgerOK
  BY <1>1, FS_EmptySet DEF LedgerOK
<1> QED BY <1>1, <1>2, <1>3, EmptyPlanIsUsable
  DEF WizardInv, OnScreenIsOpen, PanelTookPlace, SaidTookPlace, PanelIsNotSaid, PlanIsUsable

LEMMA QuietWord ==
  /\ UNCHANGED slips => ShownIsGone
  /\ ledger \subseteq ledger' => ClosedIsClosed
BY DEF ShownIsGone, ClosedIsClosed

LEMMA WizardStep == ASSUME WizardInv, [WzNext]_wzVars PROVE WizardInv' /\ KeepsItsWord
<1> USE QuietWord DEF KeepsItsWord
<1>1. CASE UNCHANGED wzVars
  <2>1. UNCHANGED <<wz, ledger, shown, slips>>
    BY <1>1 DEF wzVars
  <2>2. WizardOK' /\ PlanIsUsable'
    BY <2>1 DEF WizardInv, WizardOK, PlanIsUsable
  <2> QED BY <2>1, <2>2, ScreenKeeps
<1>2. CASE \/ (\E k \in WzSerials : SetSerial(k)) \/ (\E i \in DOMAIN people : SetHolder(i))
           \/ (\E i \in DOMAIN Offering[offer] : SetTemplate(i))
           \/ (\E i \in DOMAIN WzSteps : TickStep(i))
           \/ WzPreflight \/ CancelConfirmation \/ WriteFails
  BY <1>2, SelectionKeeps
<1>3. CASE (\E h \in WzHolders : HoldersRead(h)) \/ OffersRead
  BY <1>3, ListsKeep
<1>4. CASE BuildsPlan
  BY <1>4, PlanningKeeps
<1>5. CASE WzDryRun \/ Write
  BY <1>5, DryRunKeeps, WriteKeeps
<1>6. CASE \E r \in Unfinished : Adopts(r) \/ Abandons(r)
  BY <1>6, AdoptionKeeps, AbandonKeeps
<1>7. CASE Resumes
  BY <1>7, ResumesKeeps
<1>8. CASE Dismiss \/ StartsAnother
  BY <1>8, LeavingKeeps
<1>9. CASE SaveSlip
  BY <1>9, SlipKeeps
<1> QED BY <1>1, <1>2, <1>3, <1>4, <1>5, <1>6, <1>7, <1>8, <1>9 DEF WzNext

(* However the steps are ticked and whatever list they were ticked against, *)
(* no plan uses the FIDO2 PIN after the step that makes the key refuse it   *)
(* (validate, BootstrapTemplate).                                           *)
THEOREM PlansAreUsable == WzSpec => []PlanIsUsable
<1>1. WizardInv /\ [WzNext]_wzVars => WizardInv'
  BY WizardStep
<1>2. WizardInv => PlanIsUsable
  BY DEF WizardInv
<1> QED BY WizardBegins, <1>1, <1>2, PTL DEF WzSpec

(* What the trail says is gone is on no slip saved after it, and a run that *)
(* was closed is not written for again (dismiss_secrets, abandon_run).      *)
THEOREM WizardKeepsItsWordEver == WzSpec => WizardKeepsItsWord
<1>1. WizardInv /\ [WzNext]_wzVars => WizardInv'
  BY WizardStep
<1>2. WizardInv /\ [WzNext]_wzVars => KeepsItsWord
  BY WizardStep
<1>3. WzSpec => [][KeepsItsWord]_wzVars
  BY WizardBegins, <1>1, <1>2, PTL DEF WzSpec
<1> QED BY <1>3 DEF WizardKeepsItsWord, KeepsItsWord

(***************************************************************************)
(* Side by side.                                                            *)
(***************************************************************************)

BenchInv ==
  /\ ResetInv /\ WizardInv
  /\ scene = "watch" => shake = NoShake
  /\ IF scene = "preflight" THEN ExamInv ELSE met = <<>>

LEMMA BenchBegins == BenchInit => BenchInv
<1> SUFFICES ASSUME BenchInit PROVE BenchInv
  OBVIOUS
<1>1. PortOK /\ writing = "none"
  BY DEF BenchInit, InView, WatchInit, PortOK, Threads
<1>2. ResetInv /\ shake = NoShake
  BY <1>1, ResetBegins DEF BenchInit, ResetInit
<1>3. WizardInv
  BY WizardBegins DEF BenchInit
<1>4. IF scene = "preflight" THEN ExamInv ELSE met = <<>>
  BY ExamBegins DEF BenchInit, ExamInit
<1> QED BY <1>2, <1>3, <1>4 DEF BenchInv

(* A scene moves its own part, and the others stand.                        *)
LEMMA BenchStep ==
  ASSUME BenchInv, [BenchNext]_benchVars
  PROVE  BenchInv' /\ (KeepsItsWord \/ UNCHANGED wzVars)
<1>1. UNCHANGED scene
  BY DEF BenchNext, benchVars
<1>2. \/ scene = "watch" /\ WatchNext /\ UNCHANGED <<resetVars, preflightVars, wzVars>>
      \/ scene = "reset" /\ ResetNext /\ UNCHANGED <<preflightVars, wzVars>>
      \/ scene = "preflight" /\ PreflightNext /\ UNCHANGED <<portVars, wzVars>>
      \/ scene = "wizard" /\ WzNext /\ UNCHANGED <<portVars, preflightVars>>
      \/ UNCHANGED <<portVars, preflightVars, wzVars>>
  BY DEF BenchNext, benchVars, ResetMoves, WizardMoves
<1>3. ResetInv'
  <2>1. [ResetNext]_<<watchVars, resetVars>>
    BY <1>2 DEF BenchInv, portVars, ResetNext, WatchMoves
  <2> QED BY <2>1, ResetStep DEF BenchInv
<1>4. WizardInv' /\ (KeepsItsWord \/ UNCHANGED wzVars)
  <2>1. [WzNext]_wzVars
    BY <1>2
  <2> QED BY <2>1, WizardStep DEF BenchInv
<1>5. scene' = "watch" => shake' = NoShake
  BY <1>1, <1>2 DEF BenchInv, resetVars, portVars
<1>6. IF scene' = "preflight" THEN ExamInv' ELSE met' = <<>>
  <2>1. CASE scene = "preflight"
    <3>1. [PreflightNext]_preflightVars
      BY <1>2, <2>1
    <3> QED BY <1>1, <2>1, <3>1, ExamStep DEF BenchInv
  <2>2. CASE scene # "preflight"
    BY <1>1, <1>2, <2>2 DEF BenchInv, preflightVars
  <2> QED BY <2>1, <2>2
<1> QED BY <1>3, <1>4, <1>5, <1>6 DEF BenchInv

LEMMA BenchIsRight == ASSUME BenchInv PROVE ResetIsAsAgreed /\ PlanComesTrue
<1>1. ResetIsAsAgreed
  BY ResetIsRight DEF BenchInv
<1>2. SkipsOfStateComeTrue /\ ConfiguredIsRefused
  <2>1. CASE scene = "preflight"
    BY <2>1, ConfiguredIs DEF BenchInv, ExamInv
  <2>2. CASE scene # "preflight"
    BY <2>2 DEF BenchInv, SkipsOfStateComeTrue, ConfiguredIsRefused
  <2> QED BY <2>1, <2>2
<1> QED BY <1>1, <1>2 DEF PlanComesTrue, BenchInv, WizardInv

(* What the operator is shown and asked is what is done: a reset is as it   *)
(* was agreed, a plan comes true as it was shown, the wizard keeps its word *)
(* (app.rs, bootstrap/preflight.rs, template/plan.rs, device/reset.rs).     *)
THEOREM BenchStands == BenchSpec => [](ResetIsAsAgreed /\ PlanComesTrue) /\ WizardKeepsItsWord
<1>1. BenchInv /\ [BenchNext]_benchVars => BenchInv'
  BY BenchStep
<1>2. BenchInv => ResetIsAsAgreed /\ PlanComesTrue
  BY BenchIsRight
<1>3. BenchInv /\ [BenchNext]_benchVars => [KeepsItsWord]_wzVars
  BY BenchStep
<1>4. BenchSpec => [](ResetIsAsAgreed /\ PlanComesTrue)
  BY BenchBegins, <1>1, <1>2, PTL DEF BenchSpec
<1>5. BenchSpec => [][KeepsItsWord]_wzVars
  BY BenchBegins, <1>1, <1>3, PTL DEF BenchSpec
<1> QED BY <1>4, <1>5 DEF WizardKeepsItsWord, KeepsItsWord
=============================================================================
