----------------------------- MODULE FactoryReset -----------------------------
(* A factory reset (device/reset.rs, device/reinsert.rs, app.rs): typed     *)
(* back, confirmed, preceded by a power cycle that a thread of its own      *)
(* watches for, done one applet at a time and recorded as it goes.  The     *)
(* port and the watch are DeviceWatch's.                                    *)
EXTENDS DeviceWatch, Sequences

CONSTANTS Refusals,  \* bound: calls of the register that fail
          Cards      \* bound: boxes ticked, resets confirmed

ASSUME ResetAssumption == {Refusals, Cards} \subseteq Nat

VARIABLES content, \* the applets of each key that hold something
          panel,   \* the reset card: the key, what is ticked, what is typed back,
                   \* the outcomes it shows, what it last said
          shake,   \* the handshake: its stage, key and applets
          eye,     \* the presence thread, and what it last saw of the key
          work,    \* perform: the applets to go, whether the key is gone,
                   \* the outcomes so far
          cleared, \* on record as sanitised
          refusals,\* what the bounds still allow
          cards,   \* likewise
          agreed,  \* history: what was confirmed, key by key
          unsaid,  \* history: the part of it neither recorded nor told
          swapped  \* history: another key was in the port when the reset went out

resetVars == <<content, panel, shake, eye, work, cleared, refusals, cards, agreed,
               unsaid, swapped>>
panelVars == <<panel, shake, eye>>
history == <<agreed, unsaid, swapped>>

Applets == {"fido2", "piv", "otp"}
Ordered(s) == (IF "fido2" \in s THEN <<"fido2">> ELSE <<>>)
              \o (IF "piv" \in s THEN <<"piv">> ELSE <<>>)
              \o (IF "otp" \in s THEN <<"otp">> ELSE <<>>)
NoPanel == [key |-> NoKey, ticked |-> {}, typed |-> FALSE, outcomes |-> {}, said |-> "nothing"]
NoShake == [stage |-> "none", key |-> NoKey, applets |-> {}]
NoEye == [thread |-> "off", saw |-> "unknown"]
NoWork == [key |-> NoKey, todo |-> <<>>, detached |-> FALSE, outcomes |-> {}]
Free == writing = "none"
Wiped == {x \in Keys \X Applets : x[2] \notin content[x[1]]}
Outcomes(status) == {o.applet : o \in {p \in work.outcomes : p.status \in status}}

ResetInit ==
  /\ content = [k \in Keys |-> Applets]
  /\ panel = NoPanel /\ shake = NoShake /\ eye = NoEye
  /\ work = NoWork /\ cleared = {} /\ refusals = Refusals /\ cards = Cards
  /\ agreed = {} /\ unsaid = {} /\ swapped = FALSE

(* A call of the register that must succeed for the reset to go on.         *)
Recorded == UNCHANGED refusals
NotRecorded == refusals > 0 /\ refusals' = refusals - 1

(* Dropping the presence watch joins its thread.                            *)
EyeIsFree == eye.thread # "listing"

UsesCard == cards > 0 /\ cards' = cards - 1

(* request_key_reset and cancel_key_reset: a handshake under way is given   *)
(* up, another key's or this one's.                                         *)
OpenReset(k) ==
  /\ Free /\ tab = "inventory" /\ k \in Shown /\ EyeIsFree
  /\ panel' = [NoPanel EXCEPT !.key = k, !.ticked = Applets]
  /\ shake' = NoShake /\ eye' = NoEye
  /\ UNCHANGED <<watchVars, content, work, cleared, cards, refusals, history>>

CancelReset ==
  /\ Free /\ tab = "inventory" /\ panel.key # NoKey /\ EyeIsFree
  /\ panel' = [panel EXCEPT !.key = NoKey, !.typed = FALSE, !.said = "nothing"]
  /\ shake' = NoShake /\ eye' = NoEye
  /\ UNCHANGED <<watchVars, content, work, cleared, cards, refusals, history>>

(* A key's lifecycle is opened, or its removal asked for: the card is put   *)
(* away and a handshake under way goes on.                                  *)
HideCard ==
  /\ Free /\ tab = "inventory" /\ panel.key # NoKey
  /\ panel' = [panel EXCEPT !.key = NoKey]
  /\ UNCHANGED <<watchVars, content, shake, eye, work, cleared, cards, refusals, history>>

(* The card has its boxes and its field only while no handshake runs.       *)
Card == Free /\ tab = "inventory" /\ panel.key # NoKey /\ shake = NoShake

Tick(a) ==
  /\ Card
  /\ UsesCard
  /\ panel' = [panel EXCEPT !.ticked = IF a \in @ THEN @ \ {a} ELSE @ \cup {a}]
  /\ UNCHANGED <<watchVars, content, shake, eye, work, cleared, refusals, history>>

TypeSerial ==
  /\ Card /\ ~panel.typed
  /\ panel' = [panel EXCEPT !.typed = TRUE]
  /\ UNCHANGED <<watchVars, content, shake, eye, work, cleared, cards, refusals, history>>

(* begin_power_cycle: the watch stops and the register is told first.       *)
BeginPowerCycle(k, applets) ==
  \/ /\ NotRecorded
     /\ panel' = [panel EXCEPT !.said = "why not"]
     /\ UNCHANGED <<shake, eye>>
  \/ /\ Recorded
     /\ shake' = [stage |-> "removal", key |-> k, applets |-> applets]
     /\ eye' = [thread |-> "asleep", saw |-> "unknown"]
     /\ panel' = [panel EXCEPT !.said = "nothing"]

(* run_confirmed_reset: the watch is stopped, the start recorded, and       *)
(* perform has the applets one by one.                                      *)
RunReset(k, applets) ==
  \/ /\ Recorded
     /\ writing' = "reset"
     /\ work' = [NoWork EXCEPT !.key = k, !.todo = Ordered(applets)]
     /\ panel' = [panel EXCEPT !.said = "nothing"]
  \/ /\ NotRecorded
     /\ panel' = [panel EXCEPT !.said = "nothing written"]
     /\ UNCHANGED <<writing, work>>

StoppedWatch == StopWatch /\ UNCHANGED <<port, fresh, tab, view, seenGeneration, selected,
                                         moves>>

Confirm ==
  /\ Card /\ panel.typed /\ panel.ticked # {} /\ UsesCard
  /\ agreed' = agreed \cup ({panel.key} \X panel.ticked)
  /\ StoppedWatch
  /\ IF "fido2" \in panel.ticked
     THEN BeginPowerCycle(panel.key, panel.ticked) /\ UNCHANGED <<work, writing>>
     ELSE RunReset(panel.key, panel.ticked) /\ UNCHANGED <<shake, eye>>
  /\ UNCHANGED <<content, cleared, unsaid, swapped>>

(* Offered beside an outcome that says FIDO2 refused.                       *)
RetryFido2 ==
  /\ Card /\ [applet |-> "fido2", status |-> "failed"] \in panel.outcomes /\ UsesCard
  /\ StoppedWatch
  /\ \/ /\ NotRecorded
        /\ panel' = [panel EXCEPT !.ticked = {"fido2"}, !.outcomes = {}, !.said = "why not"]
        /\ UNCHANGED <<shake, eye>>
     \/ /\ Recorded
        /\ panel' = [panel EXCEPT !.ticked = {"fido2"}, !.outcomes = {}, !.said = "nothing"]
        /\ shake' = [stage |-> "removal", key |-> panel.key, applets |-> {"fido2"}]
        /\ eye' = [thread |-> "asleep", saw |-> "unknown"]
  /\ UNCHANGED <<content, work, writing, cleared, history>>

(* The presence thread: what it lists is about one serial.                  *)
EyeBegins ==
  /\ eye.thread = "asleep"
  /\ eye' = [eye EXCEPT !.thread = "listing"]
  /\ UNCHANGED <<watchVars, content, panel, shake, work, cleared, cards, refusals, history>>

EyeEnds ==
  /\ eye.thread = "listing"
  /\ \/ eye' = [thread |-> "asleep", saw |-> IF shake.key \in port THEN "there" ELSE "gone"]
     \/ eye' = [eye EXCEPT !.thread = "asleep"]
     \/ eye' = [eye EXCEPT !.thread = "gave up"]
  /\ UNCHANGED <<watchVars, content, panel, shake, work, cleared, cards, refusals, history>>

(* The handshake's key and applets, frozen when it was started; an entry    *)
(* that is refused here does not stop it.                                   *)
Fire == /\ shake' = NoShake /\ eye' = NoEye
        /\ StoppedWatch
        /\ RunReset(shake.key, shake.applets)

(* tick_power_cycle and observe, frame by frame.                            *)
Waiting == Free /\ tab = "inventory" /\ shake.stage \in {"removal", "insertion"}

SeenGone ==
  /\ Waiting /\ shake.stage = "removal" /\ eye.saw = "gone"
  /\ shake' = [shake EXCEPT !.stage = "insertion"]
  /\ UNCHANGED <<watchVars, content, panel, eye, work, cleared, cards, refusals, history>>

SeenAgain ==
  /\ Waiting /\ shake.stage = "insertion" /\ eye.saw = "there" /\ EyeIsFree
  /\ Fire
  /\ UNCHANGED <<content, cleared, cards, history>>

(* "Send the reset now", for a port that is listed too slowly.              *)
ArmNow ==
  /\ Waiting /\ EyeIsFree /\ panel.key # NoKey
  /\ Fire
  /\ UNCHANGED <<content, cleared, cards, history>>

(* may(ResetApplet) is asked last, when the reset would go out.             *)
NotAllowed ==
  /\ \/ /\ Card /\ panel.typed /\ panel.ticked # {} /\ "fido2" \notin panel.ticked
        /\ UNCHANGED <<shake, eye>>
     \/ /\ Waiting /\ EyeIsFree
        /\ panel.key # NoKey \/ (shake.stage = "insertion" /\ eye.saw = "there")
        /\ shake' = NoShake /\ eye' = NoEye
  /\ panel' = [panel EXCEPT !.said = "why not"]
  /\ UNCHANGED <<watchVars, content, work, cleared, cards, refusals, history>>

PatienceEnds ==
  /\ Waiting
  /\ shake' = [shake EXCEPT !.stage = "gave up"]
  /\ panel' = [panel EXCEPT !.said = "why not"]
  /\ UNCHANGED <<watchVars, content, eye, work, cleared, cards, refusals, history>>

AskAgain ==
  /\ Free /\ tab = "inventory" /\ panel.key # NoKey /\ shake.stage = "gave up"
  /\ \/ /\ Recorded
        /\ shake' = [shake EXCEPT !.stage = "removal"]
        /\ panel' = [panel EXCEPT !.said = "nothing"] /\ UNCHANGED eye
     \/ /\ NotRecorded /\ EyeIsFree
        /\ shake' = NoShake /\ eye' = NoEye
        /\ panel' = [panel EXCEPT !.said = "why not"]
  /\ UNCHANGED <<watchVars, content, work, cleared, cards, history>>

(* The screen was left: the next frame gives the handshake up.              *)
LeftScreen ==
  /\ Free /\ tab # "inventory" /\ shake # NoShake /\ EyeIsFree
  /\ shake' = NoShake /\ eye' = NoEye
  /\ UNCHANGED <<watchVars, content, panel, work, cleared, cards, refusals, history>>

-----------------------------------------------------------------------------
(* Mutant: every applet goes to the one key in a port.                      *)
Target_TheOnlyKey(a) == IF Cardinality(port) = 1 THEN CHOOSE k \in port : TRUE ELSE NoKey

(* One applet of perform.  FIDO2 goes to the one security key in a port,    *)
(* whatever its serial, and only just after it was powered; PIV and OTP go  *)
(* to the key of that serial.  An answer may be lost after the deed.        *)
Target(a) == IF a = "fido2" THEN IF Cardinality(port) = 1 THEN CHOOSE k \in port : TRUE ELSE NoKey
             ELSE IF work.key \in port THEN work.key ELSE NoKey
Detached(a) == IF a = "fido2" THEN port = {} ELSE work.key \notin port

Done(k, a) == /\ content' = [content EXCEPT ![k] = @ \ {a}]
              /\ unsaid' = unsaid \cup {<<k, a>>}
              /\ swapped' = (swapped \/ k # work.key)
NotDone == UNCHANGED <<content, unsaid, swapped>>

(* The outcome is recorded or the whole reset is given up as not            *)
(* recordable: what was found out is then lost.                             *)
GivesUp == /\ writing' = "none" /\ work' = NoWork
           /\ panel' = [panel EXCEPT !.said = "nothing written"]
Outcome(a, status) ==
  \/ /\ Recorded
     /\ work' = [work EXCEPT !.todo = Tail(@),
                             !.detached = @ \/ status = "detached",
                             !.outcomes = @ \cup {[applet |-> a,
                                 status |-> IF status = "detached" THEN "failed" ELSE status]}]
     /\ UNCHANGED <<writing, panel>>
  \/ NotRecorded /\ GivesUp

Reset ==
  /\ writing = "reset" /\ work.todo # <<>>
  /\ LET a == Head(work.todo)  k == Target(a) IN
       \/ (work.detached \/ Detached(a)) /\ NotDone /\ Outcome(a, "detached")
       \/ ~work.detached /\ k = NoKey /\ ~Detached(a) /\ NotDone /\ Outcome(a, "failed")
       \/ /\ ~work.detached /\ k # NoKey
          /\ \/ /\ a # "fido2" \/ k \in fresh
                /\ \/ a = "otp" /\ a \notin content[k] /\ NotDone /\ Outcome(a, "skipped")
                   \/ (a = "otp" => a \in content[k]) /\ Done(k, a) /\ Outcome(a, "done")
                   \/ Done(k, a) /\ Outcome(a, "failed")
             \/ NotDone /\ Outcome(a, "failed")
  /\ UNCHANGED <<port, fresh, tab, thread, view, attached, seenGeneration, selected,
                 moves, shake, eye, cleared, cards, agreed>>

(* Mutant: an applet that failed counts as cleared.                         *)
ClearedBy_Attempted == Outcomes({"done", "skipped", "failed"})

(* cleared_by: an applet found empty is as clear as one that was reset.     *)
ClearedBy == Outcomes({"done", "skipped"})

(* The end of perform, and the sanitisation recorded from its outcomes.     *)
Finish ==
  /\ writing = "reset" /\ work.todo = <<>>
  /\ \/ /\ Recorded
        /\ writing' = "none" /\ work' = NoWork
        /\ panel' = [panel EXCEPT !.outcomes = work.outcomes]
        /\ cleared' = cleared \cup ({work.key} \X ClearedBy)
     \/ /\ NotRecorded /\ ClearedBy # {}
        /\ writing' = "none" /\ work' = NoWork
        /\ panel' = [panel EXCEPT !.outcomes = work.outcomes,
                                  !.said = "why not"]
        /\ UNCHANGED cleared
     \/ NotRecorded /\ GivesUp /\ UNCHANGED cleared
  /\ unsaid' = unsaid \ ({work.key} \X (IF panel'.said = "nothing written" THEN {} ELSE Applets))
  /\ UNCHANGED <<port, fresh, tab, thread, view, attached, seenGeneration, selected,
                 moves, content, shake, eye, cards, agreed, swapped>>

(* Every frame looks at the handshake before it paints a screen, and no     *)
(* watch is started while one runs.                                         *)
WatchMoves ==
  /\ \/ Outside
     \/ shake = NoShake /\ WatchNext
     \/ shake # NoShake /\ tab = "inventory" /\ OnScreen
  /\ UNCHANGED resetVars

ResetNext ==
  \/ WatchMoves
  \/ \E k \in Keys : OpenReset(k)
  \/ \E a \in Applets : Tick(a)
  \/ CancelReset \/ HideCard \/ NotAllowed \/ TypeSerial \/ Confirm \/ RetryFido2
  \/ EyeBegins \/ EyeEnds \/ SeenGone \/ SeenAgain \/ ArmNow \/ PatienceEnds \/ AskAgain
  \/ LeftScreen
  \/ Reset \/ Finish

ResetSpec == WatchInit /\ ResetInit /\ [][ResetNext]_<<watchVars, resetVars>>
-----------------------------------------------------------------------------
(* Only what the operator typed the serial for, applet by applet, is ever   *)
(* cleared, whatever was ticked, opened, left or retried while the key was  *)
(* out of the port.  FIDO2 has no serial on the wire: the one security key  *)
(* in a port when the reset goes out is the one that is cleared.            *)
OnlyWhatWasAgreed == \A x \in Wiped : x \in agreed \/ (x[2] = "fido2" /\ swapped)

(* What is on record as sanitised by this program is clear on that key.     *)
RecordedIsClear == ~swapped => cleared \subseteq Wiped

(* What was cleared is recorded, or the operator told, as long as the       *)
(* register takes every entry.                                              *)
ClearedIsKnown == (Free /\ refusals = Refusals /\ ~swapped) => unsaid = {}

(* One thread in the port at a time, and none while the reset goes out.     *)
AloneOnTheKey == /\ WatchIsStopped
                 /\ eye.thread # "off" => thread = "off"
                 /\ writing # "none" => eye.thread = "off"

(* A reset touches the key and the applets that were agreed to, with nobody *)
(* else listing the port, and what is on record as cleared is clear and was *)
(* said to be (device/reset.rs, device/reinsert.rs, app.rs).                *)
ResetIsAsAgreed == OnlyWhatWasAgreed /\ AloneOnTheKey /\ RecordedIsClear /\ ClearedIsKnown

(* What the error says of a reset the register refused: nothing was         *)
(* written to the key.                                                      *)
RefusedWroteNothing == panel.said = "nothing written" => unsaid = {}

(* The panel is the only place a handshake "is visible or cancellable"      *)
(* (tick_power_cycle): no reset goes out with its card put away.            *)
GoesOutOnItsCard == writing = "reset" => panel.key = work.key

(* What reset's errors and the card's type-back promise: no other key.      *)
NoOtherKey == Wiped \subseteq agreed
=============================================================================
