------------------------------ MODULE ShareDesk ------------------------------
(* One workstation and a register on a file server: the share it mounts or  *)
(* finds mounted (store/smb/mod.rs), the password it is given, has saved    *)
(* (vault.rs) or is slowed down for (password.rs), and the ways it loses    *)
(* the register and gets it back (app.rs).                                  *)
EXTENDS Naturals, TLC

CONSTANTS Free,      \* wrong passwords that cost no delay
          Wrongs     \* bound: wrong passwords in a row, after which nothing grows

ASSUME ShareAssumption == {Free, Wrongs} \subseteq Nat /\ Free < Wrongs

Accesses == {"signed-in", "guest", "named"}
Given == {"nothing", "right", "wrong"}   \* what is in the password field

VARIABLES link,      \* the server: up, serving no file yet, or down
          mount,     \* the mount point: none, ours, or somebody else's
          encrypted, \* the register has a password
          vault,     \* the saved password: none, right, stale, or no vault
          place,     \* the register is open on a share, by path, or not
          held,      \* the ShareConnection: none, ours or theirs
          known,     \* the password the open configuration keeps
          lostShare, \* share_lost: the identity the lost share was reached as
          trying,    \* a dropped share is being reconnected by itself
          throttle,  \* wrong passwords counted, and whether the delay runs
          reopened,  \* reopened a moment ago after its connection died
          stuck      \* history: a disconnection was tried and failed

shareVars == <<link, mount, encrypted, vault, place, held, known, lostShare, trying,
               throttle, reopened, stuck>>
world == <<link, encrypted>>

ShareInit ==
  /\ link = "up" /\ mount \in {"none", "theirs"}
  /\ encrypted \in BOOLEAN
  /\ vault \in {"none", "unavailable"}
  /\ place = "none" /\ held = "none" /\ known = "nothing"
  /\ lostShare = "none" /\ trying = FALSE
  /\ throttle = [count |-> 0, waits |-> FALSE]
  /\ reopened = FALSE /\ stuck = FALSE

(* Store::open_existing with a password, through a mount.                   *)
Reached(m) == m # "none" /\ link = "up"
Outcome(m, password) ==
  CASE ~Reached(m) -> "missing"
    [] Reached(m) /\ (~encrypted \/ password = "right") -> "opened"
    [] OTHER -> "refused"

(* note_unlock_failure and note_unlock_success.                             *)
Counted == LET n == IF throttle.count < Wrongs THEN throttle.count + 1 ELSE Wrongs
           IN [count |-> n, waits |-> n > Free]
Cleared == [count |-> 0, waits |-> FALSE]

(* release, by close or by Drop: only what this session mounted, and it may *)
(* not work.                                                                *)
Release(connection, m) ==
  \/ /\ mount' = IF connection = "ours" THEN "none" ELSE m
     /\ UNCHANGED stuck
  \/ connection = "ours" /\ mount' = m /\ stuck' = TRUE

(* release_current_database comes first in every opening.                   *)
Left == IF held = "ours" THEN {"none", "ours"} ELSE {mount}

(* Mutant: the connection of an opening that failed is kept by nobody and   *)
(* released by nobody.                                                      *)
Settle_Forgets(connection, m, password, save, access) ==
  LET r == Outcome(m, password) IN
  /\ IF r = "opened"
     THEN /\ place' = (IF connection = "none" THEN "path" ELSE "share")
          /\ held' = connection /\ known' = password
          /\ throttle' = Cleared /\ lostShare' = "none"
          /\ vault' = IF save /\ password # "nothing" /\ vault # "unavailable"
                      THEN "right" ELSE vault
          /\ mount' = m /\ stuck' = (stuck \/ (held = "ours" /\ m = "ours"))
     ELSE /\ place' = "none" /\ held' = "none" /\ known' = "nothing"
          /\ throttle' = (IF r = "refused" THEN Counted ELSE throttle)
          /\ lostShare' = access
          /\ mount' = m /\ UNCHANGED <<vault, stuck>>

(* An opening, with the connection it goes through: adopted and the password*)
(* remembered when that was asked, or the connection dropped.               *)
Settle(connection, m, password, save, access) ==
  LET r == Outcome(m, password) IN
  /\ IF r = "opened"
     THEN /\ place' = (IF connection = "none" THEN "path" ELSE "share")
          /\ held' = connection /\ known' = password
          /\ throttle' = Cleared /\ lostShare' = "none"
          /\ vault' = IF save /\ password # "nothing" /\ vault # "unavailable"
                      THEN "right" ELSE vault
          /\ mount' = m /\ stuck' = (stuck \/ (held = "ours" /\ m = "ours"))
     ELSE /\ place' = "none" /\ held' = "none" /\ known' = "nothing"
          /\ throttle' = (IF r = "refused" THEN Counted ELSE throttle)
          /\ lostShare' = access /\ UNCHANGED vault
          /\ IF connection = "none"
             THEN mount' = m /\ stuck' = (stuck \/ (held = "ours" /\ m = "ours"))
             ELSE Release(connection, m)

(* ShareConnection::open: what is mounted is used as it is; otherwise the   *)
(* share is mounted, unless the server is down or refuses the identity.     *)
Attach(m, connection, after) ==
  \/ m # "none" /\ connection = "theirs" /\ after = m
  \/ m = "none" /\ link # "down" /\ connection = "ours" /\ after = "ours"

(* handle_db_request lets an opening through when no delay runs.            *)
LetThrough == ~throttle.waits /\ ~trying

Connect(password, save) ==
  /\ LetThrough /\ place = "none"
  /\ \E connection \in {"ours", "theirs"}, m \in {"ours", "theirs"} :
       /\ Attach(mount, connection, m)
       /\ Settle(connection, m, password, save, "none")
  /\ trying' = FALSE /\ reopened' = FALSE
  /\ UNCHANGED world

ConnectFails ==
  /\ LetThrough /\ place = "none" /\ mount = "none"
  /\ known' = "nothing"
  /\ UNCHANGED <<link, mount, encrypted, vault, place, held, lostShare, trying, throttle,
                 reopened, stuck>>

(* open_existing_register: what is typed goes first; with nothing typed the *)
(* saved password is tried, and forgotten when the register refuses it      *)
(* without being counted.                                                   *)
OpenPath(password, save) ==
  /\ LetThrough
  /\ \E m \in Left :
       IF password = "nothing" /\ vault \in {"right", "stale"}
       THEN LET r == Outcome(m, vault) IN
            /\ place' = (IF r = "opened" THEN "path" ELSE "none")
            /\ held' = "none" /\ known' = (IF r = "opened" THEN vault ELSE "nothing")
            /\ throttle' = (IF r = "opened" THEN Cleared ELSE throttle)
            /\ lostShare' = (IF r = "opened" THEN "none" ELSE lostShare)
            /\ vault' = (IF r = "refused" THEN "none" ELSE vault)
            /\ mount' = m /\ stuck' = (stuck \/ (held = "ours" /\ m = "ours"))
       ELSE Settle("none", m, password, save, lostShare)
  /\ reopened' = FALSE
  /\ UNCHANGED <<link, encrypted, trying>>

CloseShare ==
  /\ place # "none"
  /\ place' = "none" /\ held' = "none" /\ known' = "nothing"
  /\ Release(held, mount)
  /\ UNCHANGED <<link, encrypted, vault, lostShare, trying, throttle, reopened>>

(* tick_share_health and handle_dropped_share: the file is gone, so the     *)
(* register is abandoned, and the connection with it.  An identity that     *)
(* needs no password is reconnected at once.                                *)
Dropped(access) ==
  /\ place' = "none" /\ held' = "none" /\ known' = "nothing"
  /\ Release(held, mount)
  /\ lostShare' = access /\ trying' = (access # "named")
  /\ UNCHANGED <<link, encrypted, vault, throttle, reopened>>

Tick(access) == place = "share" /\ ~Reached(mount) /\ Dropped(access)

(* handle_register_connection_lost: the mount answers and the connection    *)
(* does not.  Reopened with the password in memory, once in a while.        *)
ConnectionDies(access) ==
  /\ place # "none"
  /\ IF place = "share" THEN Dropped(access)
     ELSE /\ IF ~reopened /\ Outcome(mount, known) = "opened"
             THEN reopened' = TRUE /\ UNCHANGED <<place, known>>
             ELSE place' = "none" /\ known' = "nothing" /\ UNCHANGED reopened
          /\ UNCHANGED <<link, mount, encrypted, vault, held, lostShare, trying, throttle, stuck>>

(* reconnect_dropped_share, by itself with an empty password field or from  *)
(* the card: the share first, then the register with what was typed.        *)
Reconnect(password, save) ==
  /\ lostShare # "none" /\ place = "none"
  /\ trying => password = "nothing" /\ ~save
  /\ \E connection \in {"ours", "theirs"}, m \in {"ours", "theirs"} :
       /\ Attach(mount, connection, m)
       /\ Settle(connection, m, password, save, lostShare)
  /\ trying' = FALSE
  /\ UNCHANGED <<link, encrypted, reopened>>

(* Nothing is mounted, the server is down or the account is refused.        *)
ReconnectFails ==
  /\ lostShare # "none" /\ place = "none" /\ mount = "none"
  /\ link = "down" \/ lostShare = "named"
  /\ trying' = FALSE
  /\ UNCHANGED <<link, mount, encrypted, vault, place, held, known, lostShare, throttle,
                 reopened, stuck>>

WorkElsewhere ==
  /\ lostShare # "none" /\ ~trying
  /\ lostShare' = "none"
  /\ UNCHANGED <<link, mount, encrypted, vault, place, held, known, trying, throttle,
                 reopened, stuck>>

(* save_current_password and forget_saved_password.                         *)
SavePassword ==
  /\ place # "none" /\ known # "nothing" /\ vault # "unavailable"
  /\ vault' = IF known = "right" THEN "right" ELSE "stale"
  /\ UNCHANGED <<link, mount, encrypted, place, held, known, lostShare, trying, throttle,
                 reopened, stuck>>

ForgetPassword ==
  /\ place # "none" /\ vault \in {"right", "stale"}
  /\ vault' = "none"
  /\ UNCHANGED <<link, mount, encrypted, place, held, known, lostShare, trying, throttle,
                 reopened, stuck>>

DelayPasses ==
  /\ throttle.waits \/ reopened
  /\ throttle' = [throttle EXCEPT !.waits = FALSE]
  /\ reopened' = FALSE
  /\ UNCHANGED <<link, mount, encrypted, vault, place, held, known, lostShare, trying, stuck>>

(* What happens around the program: the server goes and comes back, serving *)
(* before or after it answers; the system drops the dead mount or keeps it; *)
(* somebody mounts the share; another workstation changes the password.     *)
Server ==
  /\ link' \in {"up", "answers", "down"} \ {link}
  /\ mount' \in IF link' = "down" THEN {mount, "none"} ELSE {mount}
  /\ UNCHANGED <<encrypted, vault, place, held, known, lostShare, trying, throttle,
                 reopened, stuck>>

SomebodyMounts ==
  /\ mount = "none" /\ link # "down" /\ held = "none"
  /\ mount' = "theirs"
  /\ UNCHANGED <<link, encrypted, vault, place, held, known, lostShare, trying, throttle,
                 reopened, stuck>>

PasswordChanges ==
  /\ encrypted /\ place = "none"
  /\ vault' = IF vault = "right" THEN "stale" ELSE vault
  /\ UNCHANGED <<link, mount, encrypted, place, held, known, lostShare, trying, throttle,
                 reopened, stuck>>

ShareNext ==
  \/ ConnectFails \/ CloseShare \/ ReconnectFails \/ WorkElsewhere
  \/ SavePassword \/ ForgetPassword \/ DelayPasses
  \/ Server \/ SomebodyMounts \/ PasswordChanges
  \/ \E access \in Accesses : Tick(access) \/ ConnectionDies(access)
  \/ \E password \in Given, save \in BOOLEAN :
       OpenPath(password, save) \/ Reconnect(password, save) \/ Connect(password, save)

ShareSpec == ShareInit /\ [][ShareNext]_shareVars

(***************************************************************************)
(* Properties.                                                              *)
(***************************************************************************)

(* A share this session mounted is mounted only while the session holds it, *)
(* whichever way an opening failed, unless unmounting it did                *)
(* (ShareConnection's release and Drop).                                    *)
MountsAreReturned == mount = "ours" => held = "ours" \/ stuck

(* Said by the documentation, and not so.  "Nothing needs typing": a share  *)
(* reached as the signed-in user that is back is open again.                *)
BackAtWork ==
  [][(trying /\ ~trying' /\ link = "up") => place' = "share"]_shareVars

(* "Every way of asking to open a register arrives through this function":  *)
(* no password is judged while the delay for the last ones runs.            *)
ThrottleHolds == [][throttle'.count > throttle.count => ~throttle.waits]_shareVars

(* "It releases nothing on the share": losing the register leaves the mount.*)
AbandonReleasesNothing ==
  [][(lostShare' # "none" /\ lostShare = "none" /\ place = "share") => mount' = mount]_shareVars
=============================================================================
