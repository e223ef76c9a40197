----------------------------- MODULE DeviceWatch -----------------------------
(* What is plugged in, as the program sees it (device/watch.rs, app.rs): a  *)
(* thread that lists the port, a snapshot the frames read, the key the      *)
(* operator has chosen, and everything that must have the port to itself.   *)
EXTENDS FiniteSets, Integers

CONSTANTS Keys, NoKey,
          Moves,        \* bound: keys plugged in or pulled out
          Starts        \* bound: how often a thread is started

ASSUME WatchAssumption == NoKey \notin Keys /\ {Moves, Starts} \subseteq Nat

VARIABLES port,     \* the keys in a port
          fresh,    \* those that were powered up within the last seconds
          tab,      \* the screen the operator is on
          thread,   \* the watch: off, asleep, listing, given up, or left behind
          view,     \* what the thread has put into its snapshot
          attached, \* the copy of it the frames work on
          seenGeneration,
          selected, \* the key the operator has chosen
          writing,  \* what has a key in its hands: nothing, a reset or a run
          moves     \* what the bounds still allow

watchVars == <<port, fresh, tab, thread, view, attached, seenGeneration, selected,
               writing, moves>>

NothingSeen == [generation |-> 0, keys |-> {}, unreadable |-> {}]
OnlyKey(a) == IF a.unreadable = {} /\ Cardinality(a.keys) = 1
              THEN CHOOSE k \in a.keys : TRUE ELSE NoKey
Watches == {"inventory", "bootstrap"}

WatchInit ==
  /\ port \in SUBSET Keys /\ fresh = {} /\ tab = "inventory"
  /\ thread = "off" /\ view = NothingSeen /\ attached = NothingSeen
  /\ seenGeneration = 0 /\ selected = NoKey
  /\ writing = "none"
  /\ moves = [port |-> Moves, start |-> Starts]

(* The operator's hands.  The system may need a while to see a key.         *)
Plug(k) ==
  /\ k \notin port /\ moves.port > 0
  /\ port' = port \cup {k} /\ fresh' = fresh \cup {k}
  /\ moves' = [moves EXCEPT !.port = @ - 1]
  /\ UNCHANGED <<tab, thread, view, attached, seenGeneration, selected, writing>>

Unplug(k) ==
  /\ k \in port /\ moves.port > 0
  /\ port' = port \ {k} /\ fresh' = fresh \ {k}
  /\ moves' = [moves EXCEPT !.port = @ - 1]
  /\ UNCHANGED <<tab, thread, view, attached, seenGeneration, selected, writing>>

WindowCloses ==
  /\ fresh # {}
  /\ fresh' = {}
  /\ UNCHANGED <<port, tab, thread, view, attached, seenGeneration, selected,
                 writing, moves>>

(* poll_loop, in its own thread: list, read each key when the list has      *)
(* changed, publish.  A listing that fails leaves the snapshot as it is; a  *)
(* missing tool ends the thread.                                            *)
ListBegins ==
  /\ thread = "asleep"
  /\ thread' = "listing"
  /\ UNCHANGED <<port, fresh, tab, view, attached, seenGeneration, selected,
                 writing, moves>>

Published(unreadable) ==
  IF view.generation > 0 /\ port = view.keys \cup view.unreadable THEN view
  ELSE [generation |-> view.generation + 1, keys |-> port \ unreadable,
        unreadable |-> unreadable]

ListEnds ==
  /\ thread \in {"listing", "orphan listing"}
  /\ thread' = IF thread = "listing" THEN "asleep" ELSE "off"
  /\ \/ \E unreadable \in SUBSET port : view' = Published(unreadable)
     \/ UNCHANGED view
  /\ UNCHANGED <<port, fresh, tab, attached, seenGeneration, selected, writing, moves>>

ToolIsMissing ==
  /\ thread = "listing"
  /\ thread' = "gave up"
  /\ view' = [view EXCEPT !.keys = {}, !.unreadable = {}]
  /\ UNCHANGED <<port, fresh, tab, attached, seenGeneration, selected, writing, moves>>

(* Mutant: the handle is dropped and its thread goes on by itself.          *)
StopWatch_NoJoin ==
  /\ thread' = (IF thread = "listing" THEN "orphan listing" ELSE "off")
  /\ attached' = NothingSeen

(* stop_device_watch: dropping the watch joins its thread, so the frame     *)
(* waits for a listing under way; the list is forgotten with it.            *)
StopWatch ==
  /\ thread # "listing"
  /\ thread' = "off"
  /\ attached' = NothingSeen

(* sync_device_watch, in every frame.                                       *)
StartsWatch ==
  /\ tab \in Watches /\ thread = "off" /\ writing = "none" /\ moves.start > 0
  /\ thread' = "asleep" /\ view' = NothingSeen
  /\ moves' = [moves EXCEPT !.start = @ - 1]
  /\ UNCHANGED <<port, fresh, tab, attached, seenGeneration, selected, writing>>

LeavesScreen ==
  /\ tab \notin Watches /\ thread # "off" /\ writing = "none"
  /\ StopWatch
  /\ UNCHANGED <<port, fresh, tab, view, seenGeneration, selected, writing, moves>>

(* poll_device_watch, right after it: nothing is done about a snapshot of   *)
(* the generation seen last.                                                *)
PollWatch ==
  /\ thread # "off" /\ writing = "none"
  /\ attached # view \/ seenGeneration # view.generation
  /\ attached' = view /\ seenGeneration' = view.generation
  /\ LET kept == IF selected \in view.keys THEN selected ELSE NoKey
         only == OnlyKey(view)
     IN IF view.generation = seenGeneration THEN UNCHANGED selected
        ELSE selected' = (IF only # NoKey THEN only ELSE kept)
  /\ UNCHANGED <<port, fresh, tab, thread, view, writing, moves>>

(* The rows of the screen: what cannot be read is listed with its error.    *)
Shown == attached.keys \cup attached.unreadable

(* "Use this one", on what the frame shows.                                 *)
SelectKey(k) ==
  /\ k \in attached.keys /\ writing = "none"
  /\ selected' = k
  /\ UNCHANGED <<port, fresh, tab, thread, view, attached, seenGeneration, writing, moves>>

Turn(t) ==
  /\ writing = "none" /\ t # tab
  /\ tab' = t
  /\ UNCHANGED <<port, fresh, thread, view, attached, seenGeneration, selected,
                 writing, moves>>

(* drive_run stops the watch before the first write; a frame that shows the *)
(* screen again starts another.                                             *)
RunBegins ==
  /\ tab = "bootstrap" /\ writing = "none"
  /\ StopWatch
  /\ writing' = "run"
  /\ UNCHANGED <<port, fresh, tab, view, seenGeneration, selected, moves>>

RunEnds ==
  /\ writing = "run"
  /\ writing' = "none"
  /\ UNCHANGED <<port, fresh, tab, thread, view, attached, seenGeneration, selected,
                 moves>>

(* What goes on between the frames, and what a frame does.                  *)
Outside ==
  \/ \E k \in Keys : Plug(k) \/ Unplug(k)
  \/ WindowCloses
  \/ ListBegins \/ ListEnds \/ ToolIsMissing

OnScreen == \E t \in {"inventory", "bootstrap", "other"} : Turn(t)

WatchNext ==
  \/ Outside \/ OnScreen
  \/ StartsWatch \/ LeavesScreen \/ PollWatch
  \/ \E k \in Keys : SelectKey(k)
  \/ RunBegins \/ RunEnds
-----------------------------------------------------------------------------
(* Nothing lists the port while a run or a reset has a key in its hands: an *)
(* enumeration in flight is waited for (drive_run, run_confirmed_reset).    *)
WatchIsStopped == writing # "none" => thread \notin {"listing", "orphan listing"}

(* What poll_device_watch says of the choice, and a restarted thread whose  *)
(* first listing comes before the first frame does not keep: a selection    *)
(* only survives while the key it names is still there.                     *)
ChoiceIsAttached ==
  (selected # NoKey /\ thread # "off" /\ attached.generation > 0 /\ attached = view
     /\ seenGeneration = view.generation)
    => selected \in attached.keys
=============================================================================
