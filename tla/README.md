# yk-dist-manager in TLA+

yk-dist-manager is a desktop program with which a unit hands out YubiKeys: it
keeps a register of keys, holders, hand-overs and losses in one SQLite file, it
writes FIDO2, PIV and OTP secrets to the keys following a versioned procedure, and
it keeps a hash-chained audit trail of both. The file may be local, on a share, or
in a folder that a cloud client synchronises; several workstations may have it
open at once.

This directory specifies the program's own logic: the shared **register** worked
on by several workstations statement by statement, the **bootstrap executor** that
drives one run against one key and must be right about it after any interruption,
what a workstation **has open** (the lock of a synchronised folder, the register's
file, the mirror of its trail, a share, the elevated helper), **who may use it**,
what an operator does with **a key in hand** (the port, the reset card, the
pre-flight, the wizard), and what the work leaves **on paper** (procedures, terms,
boxes of keys, cases). Paths below are relative to `src/` of the repository;
`PROJECT.json` maps every definition to the lines it models.

## 1. Inventory

| Part | State it keeps | Operations | Talks to |
|---|---|---|---|
| Key lifecycle (`src/domain/key.rs`, `lifecycle.rs`) | none: the status of a key, its transition table, the *sanitised gate* | may this move be made; what is still on this key | store |
| Register (`src/store/mod.rs`, `src/app.rs`) | tables `keys`, `distributions`, `key_incidents`, `key_remediations`, `bootstrap_runs`, `audit`, holders, templates, terms, documents, RMA cases | intake, removal, status change, hand-over, return, loss, close, sanitise, and the rest | SQLite, screens, executor |
| Audit (`src/audit/mod.rs`, `store/mod.rs:3023`) | the chain of entries, a mirror file | append, verify, compare | every handler |
| Executor (`src/bootstrap/`) | the run it is driving and the secrets it generated, in memory; the run row through a *recorder* | run, resume, dry run, retry, settle | recorder (store), transports (key) |
| Steps and transports (`src/bootstrap/steps.rs`, `src/device/`) | what is on the card | one operation per step kind | card, over PC/SC, HID or `ykman` |
| Pre-flight (`src/bootstrap/preflight.rs`) | none | refuse a key that is configured already | transports |
| Factory reset (`src/device/reset.rs`, `reinsert.rs`) | the handshake's stage and clock | confirm, remove, insert, reset, record | transports, store |
| Device watch (`src/device/watch.rs`) | a polling thread and its snapshot, the key chosen | start, stop and join, publish, take up | app |
| Lease (`src/store/cloud.rs`) | a lock file beside the register, one copy of it per workstation | settle, acquire, take over, renew, release | sync client, other workstations |
| Open, migrate, re-key, back up (`src/store/`) | `user_version`, backups, the file and its names | open, create, migrate, change password, prune | file system |
| Share connections (`src/store/smb/`) | a mount, a saved password, the delay after wrong ones | connect, drop, reconnect, release | app |
| Operators (`src/operator/`, `store/operators.rs`) | accounts, failures; on each workstation a session, its three clocks and the authority its store enforces | enrol, sign in, lock, confirm, disable, remove | app, store |
| Templates (`src/template/`) | versions, drafts, signatures, trusted keys | save, sign, export, import, retire, delete, plan | store, executor |
| Terms and documents (`src/term/`, `receipt.rs`) | wordings, what is filed against a hand-over, alarms | edit, generate, attach, refer, chase | store |
| Wizard (`app.rs`, `ui/bootstrap.rs`) | the selection, plan, findings, run, shown secrets, slip | select, plan, confirm, run, adopt, dismiss, start over | executor, batch |
| Batches (`src/batch/`) | positions and their states, the wizard's run | present, skip, fold outcome, put down, resume, finish | wizard, executor |
| Key rows and cases (`app.rs`, `ui/inventory.rs`, `incident.rs`) | notes, holders, incidents, remediations, repair cases, each desk's copies | edit, link, report, remedy, open and answer a repair | store |
| Helper service (`src/device/helper/`) | one instance of a pipe, a loop told to stop | listen, serve, answer; connect, ask, read | transports |
| Import, presence, reports, scanning, renderer, settings, logging | local | | |

### What is hard here

* **No statement knows what the last one saw.** Outside `report_incident` and
  `insert_run`, each SQL statement commits on its own, so another workstation may
  act between any two: between reading a status and updating it, between counting
  a key's history and deleting it, between reading the last audit row and
  inserting the next.
* **Screens are old.** Buttons are drawn from what a workstation last read, and
  some operations (resuming a run, closing one) carry the old copy back.
* **Interruptions.** The program, the share or the key may go away between a write
  to the key and its record, between a record and its status, between a status and
  its audit entry.
* **The key answers wrongly or not at all.** A write may land and its answer be
  lost; a step of two commands may stop after the first; a wrong PIN costs a try.
* **The world moves between two drives of a run.** A certificate takes days; in
  the meantime the holder changes the PIN, someone resets an applet, a second run
  is started.

* **Outside parties move.** A sync client carries the lock late, by half or in two
  copies; a server drops; somebody plugs another key in; a service is stopped with
  an answer in its pipe; the clock passes a limit while a screen stays up.

### What makes each part correct

Register: a key moves only along its table and through the gate; a hand-over has
its key; a Lost key has its report; a closed record stays closed; what a run left
on a key is known; the trail says what happened and nothing else. Executor: a write
is never ahead of its record; Completed means everything required was done; nothing
the holder chose is replaced; one failure ends a run, a bounded number of retries
ends it too; a secret that is on a key reaches the operator. Lease: one writer, two
writers do not last, no lock nobody holds. File: after a death or refused calls
anywhere, the register or the copy set aside of it has everything in it, it goes
only when a second one takes its place, and the operator was told what is so. Mirror: a trail that verifies and agrees with its mirror is the one the
program wrote. Share: a mount the program made is given back. Operators: screen and
store agree on who may do what, a disabled account's authority ends, penalties are
kept, somebody administers. Reset: only the key and applets agreed on, nobody else
in the port, on record exactly what was cleared. Plan: what is shown is what is
met. Wizard: what was put away stays away. Procedures: a run's version exists, with
its text. Papers and boxes: what an entry says is so. Cases: what was written is
not unwritten by somebody who had not read it. Helper: an answer is of its own
request, nothing is carried out twice, who asks is answered. `PROJECT.json` lists
each hazard with its line and the properties about it.

## 2. Modules

| Module | Models | State and actions |
|---|---|---|
| `KeyLifecycle` | the transition table and the sanitised gate (`domain/key.rs`, `store/mod.rs:1509`) | operators only |
| `KeyLedger` | *abstract*: what a single desk promises of a key: its status moves along the table and through the gate, each operation one step | one action per lawful move |
| `Register` | the tables above and every workstation's handler, one action per statement or hardware access | `desk[s]` is where workstation `s` stands in its handler: `op` the handler, `at` the statement it runs next, `seen` what it read, `next` the status it will write |
| `MCRegister` | its TLC instances and symmetry | |
| `Register_proofs` | theorems for every instance | |
| `RegisterDesk_proofs` | theorems for one desk, the refinement of `KeyLedger` among them | |
| `StepEffects` | each step kind as the set of outcomes `[result, key, purse]` it can have on a card (`bootstrap/steps.rs`, `device/write.rs`) | operators only |
| `RunRecord` | *abstract*: what the register promises about a run's row | Begin, Plan, Progress, TakeUp, Finish, Close |
| `Executor` | the drive loop, the recorder, each workstation's copies of the rows, the key | `exec[d]` is the interface thread of desk `d`: `at` is the call it makes next; `row` the table; `listed`, `held` the copies; `request` ties a recorded request to the pair in the slot |
| `Executor_proofs` | theorems for every instance | |
| `MCExecutor` | procedures and instances for TLC | |
| `SyncLease` | the lock of a synchronised folder | `lock` and `changed` per copy, `at[p]` the call a program makes next; `Carry` is the client carrying a lock, or half of one, to another copy; `TakingRefused`, `KeepingRefused` and `GivingRefused` are the calls on the lock file that the folder refuses |
| `RegisterFile` | opening, migrating, copying, re-keying, beginning an empty register | `file` and `folder` keep a name and the file it stands for apart; `step` counts statements of the migration script; one action per statement or rename, `Fault` and death between any two. `OpenFile` is an opening that finds the file; `StartUp` is a launch, an unlocking or a creation that finds none and makes one (`Store::open` under `try_open`, `src/app.rs:4463`); `PutBackFails` is a swap whose second rename and whose repair are both refused (`src/store/mod.rs:1270`) |
| `AuditMirror` | chain and mirror | rows with a number, word and link; a hash is the prefix it is taken over |
| `ShareDesk` | one workstation and a register on a server | `link`, `mount`, `held`, `place`; one action per branch a connection can end in |
| `HelperService` | pipe, service and callers | `pipe` the one instance, `caller[a].at`, `service`; one action per blocking call |
| `Storage_proofs` | theorems about `RegisterFile` and `AuditMirror` | |
| `Remote_proofs` | theorems about `SyncLease`, `ShareDesk` and `HelperService` | |
| `MCDesk` | the five above side by side | |
| `OperatorAuth` | accounts, failure rows, sessions and store authority on several desks | `desk[d]` session and clocks, `call[d]` a call that has read and not yet written, `Pass` the clock |
| `OperatorAuth_proofs` | theorems for every instance | |
| `MCOperators` | its instances | |
| `DeviceWatch` | the port, the polling thread, its snapshot and the frames' copy | `thread` asleep, listing, given up, left behind |
| `FactoryReset` | the reset card (typed and ticked, put away by another panel, refused by the role), the power-cycle handshake, the applets in order, the record; EXTENDS `DeviceWatch` and shares its port | `panel`, `shake`, `eye` the presence thread, `work` |
| `Preflight` | what is read and found of a key and a plan, composed with `StepEffects` through INSTANCE: the findings, then the same steps met on the same key | `exam`, `looked`, `card`, `met` |
| `Wizard` | the wizard of one workstation | `wz` its fields, `ledger` the runs, `slips`, `shown` |
| `MCBench` | the four above side by side | |
| `Bench_proofs` | theorems about `FactoryReset`, `Preflight` and `Wizard`, and about all at once | |
| `Templates` | procedures, signatures, trust, plans and runs of several desks | `catalogue`, `job[d]` the statement left of a handler, `known[d]` its copy |
| `Paperwork` | terms, receipts, documents, the overdue check | `handover`, `papers`, `alarms`, copies in `listed` |
| `Batch` | a box of keys and the wizard's run in it | `box` the stored rows, `hand[d]`, `faults` writes that fail |
| `Casework` | notes, holders, incidents, remediations, repair cases and the lifecycle panel; EXTENDS `KeyLifecycle` | rows, and `clerk[d]` with its lists, drafts and panel |
| `MCOffice` | the four above side by side | |
| `Office_proofs` | theorems about each of the four, and about all at once | |

`Register` and `Executor` meet at three places. `RunWrite`/`RunRecord` in the
register are the executor's `Attempt`/`Record` seen from the tables. The register's
`outstanding` is what `sanitisation_for` computes from the steps an `Executor` run
records Done. And `Settle` of the register is what `drive_run` does after the
executor returned a Completed run. They are kept apart because the one needs many
desks and records and the other one key in detail.

Some fields are history only (nothing in the code): `torn` in `Register` marks
keys an operation was cut short on, `wrote`, `wiped` and `unknown` in `Executor`
remember what steps changed the key, which runs preceded a reset and which secrets
nobody has been shown, and `clean` and `guesses` are their per-desk kin.

### How the code became actions

`submit_distribution`, for instance, reads the status and asks the table
(`DistributeAsk`), asks the gate (`DistributeGate`), inserts the record
(`DistributeInsert`), then calls `set_key_status` which reads again (`SetRead`),
asks the gate again (`SetGate`) and updates (`SetUpdate`), and appends its entry,
again a read and an insert (`AuditRead`, `Audit`). A refusal after the insert does
not stop it: `SetRefused` sends a hand-over and a return on to their entry and
everything else home. `StoreFails` and `Crash` may take any of these statements.

`Executor::drive` persists Running (`Open`), marks a step Running and persists
(`Mark`), performs it and, as long as `TriesAgain`, performs it again (`Attempt`),
audits (`Judge`), persists the outcome (`Record`), settles, persists and signs off
(`Settle`, `Final`, `Sign`). `NotRecordable` may take any recorder call and leaves
the wizard with the copy it had; `Crash` may come between any two actions.

## 3. Runs

### Runs that pass

| Run | Question | Bounds |
|---|---|---|
| `register_records` | Which promises about records survive two desks racing statement by statement? | 2 desks, 1 key, 2 hand-overs, 1 incident: enough for a return and a second hand-over to race, and for a removal or a loss to race both |
| `register_one_desk` | Does one desk keep the abstract ledger, a complete trail and a true record of what is on a key, through every fault? | all operations, all faults, 2 applets (one may be reset while the other is not), 2 hand-overs |
| `executor_runs` | Are runs and their key consistent through crashes, resets, a holder's changes, a second run and any number of resumes? | the signing procedure, 2 runs, lost replies, half-done steps |
| `executor_retry` | Does a failure stop a run, and does a wrong PIN cost a step one try? | the PIV secrets with optional steps, budget of 2, half-done steps, resets, a holder's changes; dry runs and closing included |
| `executor_desks` | Is a run started on a pre-flight that another desk has made stale safe for the holder's PINs? | 2 desks, 2 runs of the PIN steps, resets, a holder's changes |
| `executor_tokens` | What if the register refuses a call in the middle of a run, or applets cannot be read? And does every drive end? | the FIDO2 and OTP steps, firmware that does not report its defaults, budget of 2 |
| `desk_access` | Is there one writer, one register, one true mirror, no mount left behind, and an answer from the helper, whatever dies or drops? | 3 programs on 2 copies of a folder, one takeover and one mishap (a crash, or a call on the lock file refused); 2 changes of password, 1 death, 2 refused calls (both renames of one swap), 1 empty register begun, schemas 1, 4 and 9; 3 entries, 2 lost mirror writes, 1 rewrite; 3 wrong passwords; 2 callers, 2 starts of the service |
| `operators` | Do screen and store agree on authority, and do penalties, revocation and the last administrator hold between two desks? | 2 desks, 2 names, the three clocks at 1, 1 and 2 ticks, penalties of 1, 2 and 3; a guesser may spend eight wrong tries, past the last change of penalty |
| `bench` | Is the key that is reset the one agreed on, does the plan tell the truth, does the wizard forget what it should? | 2 keys, 3 moves, 2 starts of the watch, 1 refused call, 2 confirmations; eight kinds of key against 16 plans, the retry counters of both applets at full, low and none; 3 procedures, 2 offers, 1 run of 2 tries |
| `office` | Does every run keep its procedure, are papers and boxes true, is what was written left standing? | 2 procedures, versions to 2, 1 run; 1 hand-over over 2 days; 2 keys in a box of 2 positions with one failed write; 2 desks, 2 keys, 1 incident, 1 repair, 3 edits |

**Scenes.** `MCDesk`, `MCBench` and `MCOffice` put modules side by side that have no
variable in common: `scene` says which one moves, and the others keep their initial
values. A behaviour of such a run is a behaviour of one module, so a property of
one scene says exactly what a run of that module alone would. Where a scene has a
filter, it is the next-state relation of the MC module that has it and the filter
is named there: OTP stays ticked on the reset card and the bootstrap screen is not
visited while it is up (`ResetMoves`); the wizard leaves at most one entry and one
slip (`WizardMoves`); the shipped procedure keeps one version and the other is not
retired (`ProcedureMoves`); the lifecycle panel is of one key and one edit is made
meanwhile (`CaseMoves`).

Every passing run has deadlock checking off: operators may stop, records and
serials are finite, and a register in which nothing more can be done is a legal
end. Every property has a mutant of the code in `PROJECT.json` that breaks it:
the foreign key off, the `returned_at IS NULL` dropped, the gate not asked, the
`Running` mark kept in memory, the lock written without reading it again, the old
register deleted before the new one has its name, the only key in the port taken
for the one that was confirmed, and so on.

What the bounds leave out: a third desk on the register (every race in these
handlers is between a read and a write of one desk and a write of another), a second
key (statements about a key read and write rows of that key only; the one exception,
the audit table, has two keys in `register_lost_entry.cfg`), a second entry of a
serial, and a budget above two. Recorder failures are explored with the FIDO2 and OTP
steps, where each secret is written by a step of its own, and crashes with the PIV
steps. The lease has three programs because a takeover needs one that holds, one that
takes and one that finds both. Schemas 1, 4 and 9 are the first, the one whose
upgrade builds rows out of blobs, and the current one. Templates, terms, boxes and
the wizard are at one desk in `office` and `bench`; what two desks break is in the
table below. `TypeOK` of `Executor` and `LeaseTypeOK` hold of the same runs when
added to their configurations.

**Fairness.** `FairSpec` of `Executor` makes a desk's own drive steps weakly fair
and nothing else. The program is single-threaded in its handlers: a handler,
once entered by a frame, runs to its return before the next frame; database calls
return within the busy timeout (`store/mod.rs:895`) and card calls are bounded by
their transports. What an operator starts, when a list is re-read, and whether a
fault occurs is not assumed. A handler of the register has no loop but the one over
a run's steps, so no liveness is claimed of it.
`LeaseFair` makes the steps of a program that is opening or closing weakly fair for
the same reason, and the client's carrying of a change too, since a client that
never synchronises is a folder that is not shared. Renewal is strongly fair: it is
asked for by the frame loop for as long as the program is open
(`store/cloud.rs:49`), and other programs' writes may disable it only in between.
`HelperFair` makes the service's loop and a caller's own calls weakly fair: the loop
blocks only in a listen that a connection ends, and a caller only in a read that an
answer or a broken pipe ends. That somebody starts the service, stops it or touches
a key is not assumed; an operation that waits for a touch ends by the key's own
limit.

**Refinement.** `KeepsTheLedger` shows that at one desk the four or more statements
of an operation add up to one lawful, gated step of `KeyLedger`, and
`KeepsTheRecord` that a run's row only does what `RunRecord` allows. Both are at a
single desk; the configurations below show that neither survives a second one.

### Runs that find a disagreement

Each checks one statement the repository makes and finds a behaviour of the code
against it; `findings` in `PROJECT.json` quotes the statement and its line.

| Run | Behaviour found |
|---|---|
| `register_interrupted_run` | a step cut short is not counted as having written, and the key is handed on |
| `batch_counts_the_last` | a key whose run the recorder refused is counted done with the run of the key before it |

The following are kept for the record and are not among the runs of `PROJECT.json`.
TLC stops each configuration with a counterexample (`tlc -config X.cfg` with
`MCRegister`, `MCExecutor`, `MCOperators` or `MCOffice`):

| Configuration | Statement | Behaviour found |
|---|---|---|
| `register_race_status` | `MovesAreLegal` (`src/store/mod.rs:1476`) | two desks pass the table on the same reading; the later update makes a move the table forbids |
| `register_settle_refused` | `CleanRunSettles` (`features/key-lifecycle-and-revocation.md:153`) | a sanitised, returned key is bootstrapped, and the gate counts that very run against it |
| `register_lost_entry` | `TrailIsComplete` (`src/app.rs:6169`) | two audit inserts collide; one entry is lost and its change stands |
| `register_two_holders` | `OneOpenHandOver` (`features/distribution-records.md:67`) | a Distributed key is distributed again without a return |
| `register_orphan_run` | `RunHasItsKey` (`src/store/mod.rs:1620`) | a key is deleted between the count of its runs and the delete, while a run starts |
| `executor_stale_resume` | `DoneStands` (`src/bootstrap/mod.rs:280`) | a resume from the copy kept after a recorder failure takes a Done step back |
| `executor_lost_reply` | `SkippedWroteNothing` (`src/bootstrap/mod.rs:434`) | a write whose answer was lost is recorded as skipped, "nothing was written" |
| `executor_stale_close` | `AbandonKeepsSteps` (`src/domain/bootstrap.rs:263`) | closing from an old list undoes steps recorded since |
| `executor_reset_between` | `CompletedIsOnTheKey` (`src/bootstrap/mod.rs:523`) | a resume completes a run whose earlier steps a reset has undone |
| `executor_second_pair` | `RequestStands` (`src/bootstrap/mod.rs:737`) | an optional key generation, its answer lost, is repeated over a pair already requested for |
| `batch_renumbers` | `PositionIsStable` (`docs/data-model.md:313`) | a stock position the database refused is a hole; resumed, the list is shorter than its last number (`src/batch/mod.rs:446`), and the next key is stored over another's position |
| `session_never_ends` | `IdleSessionEnds` (`docs/security-and-compliance.md:289`) | a session locked for being idle is skipped by the clock that would end it (`src/app.rs:6797`) |

These have no configuration of their own: put the statement in place of the
properties of the configuration named, with the change given.

| Configuration | Statement | Behaviour found |
|---|---|---|
| `desk_access` | `OneWriterAlways` (`src/store/cloud.rs:542`) | a program whose own lock was carried away by another's release opens without one, and a second opens beside it |
| `desk_access` | `UpgradeCanBeRepeated` (`docs/data-model.md:377`) | an upgrade that died after adding a column is refused when it is repeated |
| `desk_access` | `RegisterStands`, `RegisterIsWhole` ("an interruption leaves the register as it was", `docs/operations.md:531`) | a death between the two renames leaves no register under its name, and the next launch puts an empty one there (`src/app.rs:4463`); what was recorded is in the file set aside, until a second change of the password is moved over it |
| `desk_access` | `FailedIsUntouched` ("the register is untouched", `docs/operations.md:549`; "was not changed", `src/app.rs:2396`) | the rename into place and the one that puts the original back are both refused, the second unseen (`src/store/mod.rs:1270`): the operator is told to reopen a register that has no file under its name, and reopening it begins an empty one |
| `desk_access`, two stations | `NothingIsLost`, in both its halves, `ToldIsTrue` | what one program records, or a second change of the password, while another replaces the file is gone with the file moved aside |
| `desk_access` | `DivergedIsARewrite` (`src/audit/mod.rs:387`) | a mirror that missed an entry and got the next is called rewritten |
| `desk_access` | `BackAtWork` (`docs/operations.md:766`) | an encrypted register whose password was not saved is reopened with none, and that counts as a wrong one |
| `desk_access` | `ThrottleHolds` (`src/app.rs:1522`) | the retries of a reconnection are judged while the delay for the last ones runs |
| `desk_access` | `AbandonReleasesNothing` (`src/app.rs:2796`) | leaving a dropped register does unmount |
| `desk_access` | `FailedDidNothing`, `RefusedIsMissing`, `StopEnds` (`src/device/elevation.rs`, `src/device/helper/client.rs:43`) | a service that dies after the write is read as a failed operation; a helper that was stopping or busy at the one question asked is taken for missing; a stop waits for the next connection |
| `executor_stale_close`, one desk, without abandon, with a crash | `PickedUpCanFinish` (`src/ui/bootstrap.rs:315`) | a run stopped before its request is picked up and cannot be continued |
| `executor_stale_close` | `CompletedIsFinal` (`src/domain/bootstrap.rs:267`) | closing from an old list makes a Completed run Aborted |
| `executor_runs`, `Procedure` with an optional import | `KeepsTheRecord` | a run completed without its certificate is still offered for it (`src/ui/bootstrap.rs:759` looks at the steps, not the status), and the resume opens a Completed run again |
| `operators` | `EverybodySignsIn` | a desk that opened the register before the first enrolment works on without signing in; so does one whose count of the accounts failed as it opened (`unwrap_or(0)`, `src/app.rs:6242`) |
| `operators`, `Split = TRUE`, three rulings in `GuessOrManage` | `AdministratorRemains`, `ActorsRemain`, `GuessesAreSpaced` | two calls that both read first: both administrators go, an actor of the trail is removed, two failures are counted as one |
| `operators`, `Split = TRUE` | `RevocationBites` | an account disabled between the judging of its credential and the write of the sign-in |
| `register_race_status`, with runs for the second | `DistributedIsHeld`, `ReissueIsClean`, `KeepsTheLedger` | a return and a second hand-over, or a run and a gate passed before it, race statement by statement |
| `bench` | `GoesOutOnItsCard` ("the only place this is visible or cancellable", `src/app.rs:3486`) | a key's lifecycle is opened, or its removal asked for, while the handshake waits: the card is put away (`src/app.rs:3765`, `3247`), the handshake goes on, and the reset goes out unseen |
| `bench` | `RefusedWroteNothing`, `NoOtherKey`, `ChoiceIsAttached` | a reset the register refuses part-way is said to have written nothing; another key in the port by itself is the one whose FIDO2 is reset; a selection outlives the listing that no longer has its key, when the thread gave up or was started anew |
| `bench` | `SkipsComeTrue` (`src/bootstrap/preflight.rs:24`) | a step foretold as skipped is performed, an earlier step having changed what it looks at |
| `bench` | `RunStaysOnItsKey`, `ShownNamesItsKey` (`features/secrets-custody.md:151`) | the serial field is live after a run: its resume, or the entry of what it showed, is of the key entered since |
| `bench`, a step after the required one of `y` | `RequiredArePlanned` (`src/ui/bootstrap.rs:1091`) | ticks are kept by position when another version is chosen |
| `bench`, `WzRuns = 2` | `SlipIsOfItsRun`, `CheckedIsWritten` (`docs/operations.md:106`) | a run picked up keeps the secrets of the one before on the screen, and its slip carries them; a pre-flight stands for the key entered after it |
| `bench`, two holders | `PlannedForItsHolder` | a plan made for one holder is run for the one selected since |
| `office` | `RecordedIsRun` (`src/bootstrap/mod.rs:89`) | a plan built before another selection is recorded under the version selected |
| `office`, two desks of templates | `RunHasItsVersion`, `RunsKeepTheirText` | a version is deleted, and its number given again, while a workstation that has not read the list since runs it |
| `office` | `DoneIsItsKeys`, `FinishedIsSaid` (`docs/data-model.md:308`) | as `batch_counts_the_last`; a box put down after its last key is never marked finished |
| `office`, two versions | `BoxGetsOne` (`docs/data-model.md:306`) | the selector changes the version in the middle of a box |
| `office`, two desks of boxes | `BoxStands` | two desks resume one box and settle one position twice |
| `office` | `NoteIsTypedOver` (`src/app.rs:3202`), `AnsweredStands` (`docs/data-model.md:285`), `SavedIsRead` (`src/app.rs:4245`) | a note saved over one the operator never saw, the list having been read again; a repair closed by one desk answered by another; an incident note saved as PDF that is not the one shown |
| `office`, two edits on the panel | `QuietIsSettled` (`docs/operations.md:1083`) | an incident closed with nothing outstanding on a panel read before a run put something on the key |

One disagreement the repository knows of is not repeated here: as configured, the
OTP access-code step of the standard procedure cannot complete
(`features/step-otp-access-code.md`, "Open").

## 4. Proofs

`Register_proofs` proves, for any sets of desks, serials, records and applets, any
set of operations and any faults:

| Theorem | States |
|---|---|
| `TypeCorrect` | `Spec => []TypeOK` |
| `CustodyKept` | `Spec => []HandOverHasItsKey` |
| `LossExplained` | `Spec => []LostIsReported` |
| `ReturnsStand`, `ClosuresStand` | `Spec => ReturnIsFinal`, `Spec => ClosureIsFinal` |
| `RecordsStandFinal` | `Spec => RecordsAreFinal`, both of these, as `register_records` checks it |
| `ResidueRecorded` | `Spec => []ResidueIsOnRecord` |
| `TrailStandsTrue` | `Spec => []TrailIsTrue` |

The only assumption is `RegisterAssumption`: operation and fault names are known
ones and `None` is not an id.

*Type.* `TypeOK` alone is not inductive: that `SetUpdate` writes a status needs to
know that the desk at that stage carries one. `DesksOK` adds `Knows`, what a desk
at each stage knows of its operation; `TablesOK` types the tables.

*Records.* `CustodyKept` needs that a hand-over is inserted only for a row that is
there (the foreign key) and that a row goes only if no hand-over mentions it.
`LossExplained` needs that no stage but `ReportFile` carries `Lost`, which is part
of `Knows`, and that a report is never removed. Both, and the two action
properties, need `FreshIds`: two desks never hold the same record id, and the id a
desk is about to insert is not in its table; without it one desk's insert could
overwrite another's closed record. `RegisterInv` is the conjunction.

*Residue.* `ResidueIsOnRecord` is strengthened by `OnePort` (a key is in one
USB port, so a run and a reset of it never overlap), `ResetIsClean` (what a desk is
about to record as cleared is not on the key) and `ResidueTracked` (what a run has
written and not yet recorded is in the desk's own set). Without the first, a reset
recorded late would erase a run's write from the record.

*Trail.* An entry is written two accesses after the change it is about, and its
desk looks at nothing again in between. `TrailIsTrue` is strengthened by `DueIsSo`:
from the statement that makes it so (`Due`), what a desk is going to say is so.
`SoStays` is that no step of any desk makes it otherwise: a removed serial stays
removed, records keep their key and stay closed (from `FreshIds` again).

The proofs go action by action over a *shape* lemma: `StepShape` says a step
changes one desk and carries its operation, key and record id on, `BeginShape` that
an idle desk takes up an operation of its own. So each conjunct is argued only
against the actions that touch its variables.

`RegisterDesk_proofs` proves what holds of the same specification when one desk works
on the register (`OneDesk`: any two desks are the same one), for any keys, records and
operations, and through every crash, refused statement and cut-short run:

| Theorem | States |
|---|---|
| `DistributedIsHeldAtOneDesk` | `Spec => []DistributedIsHeld` |
| `TrailIsCompleteAtOneDesk` | `Spec => []TrailIsComplete` |
| `ReissueIsCleanAtOneDesk` | `Spec => []ReissueIsClean` |
| `LedgerIsKept` | `Spec => KeepsTheLedger`, the refinement of `KeyLedger` |

The hypothesis cannot go: between two desks TLC finds each of the four violated (the
configurations `register_race_status` and `register_lost_entry`, and the first of them
with the other three as its property). `SoloInv` adds to the invariants
above three ideas. *What the desk asked is still so* (`Kept`): the status it read is
the row's, the move it is making is in the table, the gate it passed would let it
through again, and the tail of the trail it read is the tail; each is what a second
desk's statement would make untrue. *Distributed is held, or its return is coming*
(`HeldOrComing`): where a row says Distributed and no hand-over is open, the desk
stands between closing the hand-over and writing the status. *What is so is said, or
due* (`SaidOrDue`), the converse of `DueIsSo`: a record without its entry is the one
this desk is about to name, or one whose operation was cut short.

`OperatorAuth_proofs` proves, for any desks, names, windows and penalties:

| Theorem | States | Also assumes |
|---|---|---|
| `DesksStand` | `AuthSpec => []AuthInv`, which contains the types | |
| `GatesAgreeEver` | `AuthSpec => []GatesAgree` | |
| `RevocationBitesEver` | `AuthSpec => []RevocationBites` | whole calls |
| `AccountsStandEver` | `AuthSpec => []AccountsStand` | whole calls |
| `GuessesAreSpacedEver` | `AuthSpec => GuessesAreSpaced` | whole calls |

from `AuthAssumption`: finitely many names, natural clocks, penalties that do not
shrink. `GatesAgree` rests on one equation (`SessionOK`): the screen's clock is the
store's, and both are at what is left of the window of the last credential or at
nothing. It holds however calls interleave, since only its own desk writes it. The
other three are false when another workstation writes between the halves of a call
(the second table of section 3), so they assume `~Split`, and then the invariant says that what a pending
call read is so when it writes (`ReadIsSo`): its failure row is the register's, the
account it judged is active, and a management call leaves another administrator.
Revocation then is an inequality between two clocks (`Spent`): a session has at most
what is left of the window since its account went. `CountsAgree` equates the failure
rows with the history `GuessesAreSpaced` is written in.

`Remote_proofs` also proves of `HelperService`, for any programs, any number of
requests, deaths and starts:

| Theorem | States |
|---|---|
| `HelperStaysTrue` | `HelperSpec => []HelperInv` |
| `HelperTells` | `HelperSpec => []HelperIsTrue` |

from `HelperAssumption` (the bounds are natural numbers and no program is the one that
is none). `HelperIsTrue` says nothing of a request on its way, so it is not
inductive. `HelperInv` adds where a request can still be carried out from: its
program has yet to send it, it lies in the pipe, or the service has it in hand
(`OncePending`: one of the three, and not carried out while it is). What was told, and
what the service is about to answer, is about a request that is in none of them any
more (`ToldIsSo`, `AnswerIsSo`), so nothing that happens later makes it false. That the
answer is read by the program that asked is `PipeIsTheAskers`; it fails if a
dropped instance keeps what the last caller left in it. `AskersHope` is that a
program with no access does not ask. `NoneAsked` and `NoneServed` carry this over
every step that only lets go of a request, and four actions are argued on their
own: `OpenPipe`, `ReadRequest`, `Perform` and `Receive`.

`Remote_proofs` proves of `SyncLease`, for any programs and any copies of the folder,
and of `ShareDesk`:

| Theorem | States |
|---|---|
| `OneWriterEver` | `LeaseSpec => []OneWriter` |
| `NoOrphanLockEver` | `LeaseSpec => []NoOrphanLock` |
| `MountsAreReturnedEver` | `ShareSpec => []MountsAreReturned` |

The first two are from `LeaseAssumption` (each program works on one copy, and neither
no file nor an unreadable one is a session). `OneWriter` becomes inductive
with `SoleHolder`: from the second reading of its own name until it removes the
file, a program's lock is the one in every copy, but where half of it is arriving,
and the only change on its way is its own. Reading again is where this begins, and
what it needs there is `AtRest`: once the client has nothing left to carry, all
copies show one file. That is the code's bet on the settling time, and it is a
hypothesis (`quick`) and no more. A refused call on the lock file disturbs none of
this but for the reading again, where it is taken for no lock: that program is one of
those `bare` marks, as is one that finds none there.

`NoOrphanLock` makes no such bet. It rests on two facts that no carrying disturbs
(`OrphanInv`): a change on its way was made by a program of that very copy
(`OwnChange`), so a lock never *returns* to the copy it was made on; and who sees its
own name there is still a program that will look at it again (`Looked`). At rest all
copies show the same, and nobody is left whose name that could be. A call that is
refused may leave a lock behind, as a crash does: then it says nothing.

`MountsAreReturned` needs that a connection is held only with a register opened
through it (`ShareInv`), and is argued over the one shape every opening ends in
(`Settle`) and the one every loss ends in (`Dropped`).

`Storage_proofs` proves, for any programs, passwords, entries, old runs, deaths and
failing calls, and for any words, lost lines and rewrites:

| Theorem | States | Also assumes |
|---|---|---|
| `FilesStand` | `FileSpec => []FileInv`, which contains the types | |
| `StepsBecomeRowsEver` | `FileSpec => []StepsBecomeRows` | |
| `RegisterHasAllEver` | `FileSpec => []RegisterHasAll` | one program |
| `LostOnlyToASecondEver` | `FileSpec => LostOnlyToASecond` | one program |
| `NothingIsLostEver` | `FileSpec => NothingIsLost`, both of these, as `desk_access` checks it | one program |
| `ToldIsTrueEver` | `FileSpec => ToldIsTrue` | one program |
| `MirrorTellsEver` | `MirrorSpec => []MirrorTells` | |

*Rows.* `StepsBecomeRows` is about a file, and migrations are of connections, any
number of which may be at different statements of the same file. `FilesKept` says of
every file that its rows are there if its blobs are gone or its version says so;
`Filled` says it of a connection that has come past the filling. `Room` is that a file
is left for every export, without which the name of a new one would be undefined.

*One program.* What a password change is entitled to forget depends on nobody else
having the file open: between two programs TLC finds both statements violated (the
second table of section 3). The code's means to that end is the lease of a
synchronised folder; elsewhere SQLite's own locks end with the file they are on.
`Held` says at each statement of the change which name has the register, under
which password, and that the copy is ready before the first rename. It holds while no
empty register was begun; where one was, `RegisterHasAll` promises only that there is a
file, and `LostOnlyToASecond` says how what was recorded can still go: no other step
touches the name `replaced` without it having been moved back or the new register
having the same in it. `ToldIsTrue` counts the refused calls of the very step that
told: a failure leaves the register without its name only if it took two.

*Mirror.* A rewrite can rebuild every hash, so the trail alone proves nothing. The
mirror's lines are whole (`LinesWhole`), and it lacks as many as were lost unless one
was torn (`CountsOK`); equal hashes are then equal rows (`HashTells`), since a hash is
what it is taken over. That last is the abstraction of SHA-256 the theorem rests on.

`Executor_proofs` proves, for any procedure, budget and number of runs, any set of
operations, lost replies and half-performed steps:

| Theorem | States | Also assumes |
|---|---|---|
| `LoopStands` | `Spec => []LoopInv`, which contains `TypeOK` | |
| `FailureStopsEver`, `OneGuessEver` | `FailureStops`, `OneWrongGuess` | |
| `RecordIsAuditedEver` | `RecordIsAudited` | |
| `CompletedIsAppliedEver` | `CompletedIsApplied` | |
| `HolderPinStandsEver` | `Spec => HolderPinStands` | |
| `SecretsAreShownEver` | `SecretsAreShown` | no crash |
| `WriteIsAheadEver` | `WriteIsAhead` | one desk, no refused recorder call |
| `RecordIsKept` | `Spec => KeepsTheRecord` | the same, and no optional import |
| `RequestStandsEver` | `Spec => RequestStands` | `PairOnce` |

*Steps.* `StepEffects` has a dozen kinds of step, each with the ways it can end. All
else about them is drawn from lemmas over `Perform`: an outcome is typed and takes no
applet further from delivered than it was (`Sound`), one that is Done has delivered
what its kind is for, one that presents a wrong PIN is final, and a PIN that is the
holder's stays. The proofs of the executor open no step again.

*Loop.* `LoopOK` says where an executor stands: the step of its run it is at, the
tries it has left, that the steps before it are settled (`Behind`: none that is
required has failed) and that the last answer before an attempt is not that the key is
gone, whether its step was required or not. `FailureStops` and `OneWrongGuess` are
read off it. That the
loop looks for the next step from a copy of any age is why `Behind` is established by
`Advance` and not carried from the row.

*Runs.* `RunInv` says of every copy of a run what must be so of it: of the row, of
each desk's list, of the run each wizard holds, of the one each executor drives.
A step Done has its entry and is delivered to the key (`DoneSo`), except for what a
reset wiped since. Of a run that ends by itself the row is written first
(`src/bootstrap/mod.rs:547`) and its `bootstrap.finished` entry after (550-564), so
`RecordIsAudited` is about steps, and about runs closed by hand, where the entry comes
first; a refusal in between leaves a Completed run whose every step has its entry and
whose end has none. None of this gets false when the trail and the wiped grow and the
key is written (`Onward`), so a stale copy may be written back and the invariant
stands; that a *newer* truth can be lost by it is what `RunInv` does not say, and
`DoneStands` is false (`executor_stale_resume`).

*One desk.* `WriteIsAhead` and the refinement need the row and the copy to agree.
`SoloInv` adds that the list and the held run are the table's (`KnowsTable`), and how
far the executor's own copy may be ahead of the row at each call (`Sits`). With a
second desk, or a refused recorder call, after which the wizard keeps its copy, a
resume writes an old one. A required import is a hypothesis of the refinement alone:
a Completed run whose optional import was skipped is offered for its certificate and
opened again, which `RunRecord` forbids.

*Pair.* What keeps a key pair that a certificate is awaited for is not one guard but
several facts of different age (`PairInv`). One executor drives at a time. A drive has
a good PIN only if it changed the factory one, and then the applet was as delivered
(`KeyBlank`), or if it was resumed; a run is resumed only with its request on record,
and no copy of a row, however old, has a request Done and the generation not
(`AskedPaired`). So a drive either has nothing left to generate (`Paired`), or no
request is out (`Before`). In between is a pair that is in the slot and not on record
yet, its answer lost: `Generating` says that the step is then required, so that its
failure ends the drive. Hence the hypothesis `PairOnce`: one generation in the
procedure, required if its answer can be lost. `Signing`, `Whole`, `Mixed` and the
standard procedure have it. `Managed` has not, and `executor_second_pair` is what then
happens; `validate` (`src/template/mod.rs`) asks for neither.

*Secrets.* After a crash the secret in memory is gone, and the code knows no better;
without one, a purse is shown at every way out of a drive.

`Bench_proofs` proves, for any keys, plans and versions, any moves of the keys in and out of
the port and any refusals of the register:

| Theorem | States |
|---|---|
| `ResetIsAsAgreedEver` | `ResetSpec => []ResetIsAsAgreed` |
| `PreflightTellsTrue` | `PreflightSpec => [](SkipsOfStateComeTrue /\ ConfiguredIsRefused)` |
| `PlansAreUsable` | `WzSpec => []PlanIsUsable` |
| `WizardKeepsItsWordEver` | `WzSpec => WizardKeepsItsWord` |
| `BenchStands` | `BenchSpec => [](ResetIsAsAgreed /\ PlanComesTrue) /\ WizardKeepsItsWord` |

from the assumptions of their modules (no key is `NoKey`, the bounds are natural numbers,
the keys and plans that are examined are keys and plans).

*Reset.* `ResetIsAsAgreed` looks at the port, the record and
what is wiped; what connects them is in hand between two steps, and `ResetInv` says
what is there. `Turns` is that the watch, the presence thread and a writer have the
port one at a time. `Shaken`, `Begun`, `InHand` and `OnCard` follow the key and the
applets from the card through the handshake to the reset at work: the same key all
along, and each applet agreed to. `Meant`, `Clear` and `Known` are the properties
themselves, widened to what is cleared and not on record yet. All three except
what `Strays` names: FIDO2 has no serial on the wire, and once the operator has put
another key in its place what it lost is not said of the right one.

*Pre-flight.* What is foretold is read once and met step by step. `CardIs` says what of
the reading is still so after any number of steps: a PIN that was changed stays
changed, a credential stays, and a slot that was empty is filled by `otpSlot` only.
That is drawn from lemmas over `Perform` (`Follows`); the rest is that a step asks the
applet the same question.

*Wizard.* Runs are numbered one by one (`LedgerOK`), so a new one has a number nothing
was said of; the run on the screen is open (`OnScreenIsOpen`), so what is written is not
for a closed one; and what is in the panel, or was said to be gone, is an execution
that took place (`PanelTookPlace`, `SaidTookPlace`), so that the next execution of a
run is none that was dismissed (`PanelIsNotSaid`).

`Office_proofs` proves, for any procedures, files, hand-overs, keys, lists, reports,
repairs and bounds:

| Theorem | States | Also assumes |
|---|---|---|
| `ShelfStands` | `TplSpec => [](SignaturesCover /\ ShippedStays)` | `Genuine` |
| `ProceduresAreOnRecordAtOneDesk` | `TplSpec => []ProceduresAreOnRecord` | `Genuine`, one desk |
| `RunsKeepTheirTextAtOneDesk` | `TplSpec => RunsKeepTheirText` | `Genuine`, one desk |
| `PapersAlwaysStand` | `PaperSpec => PapersStand` | |
| `PapersAreTrueAtOneDesk` | `PaperSpec => [](OverdueOnce /\ EntriesAreTrue)` | one desk |
| `BoxIsTrueAtOneDesk`, `BoxStandsAtOneDesk`, `PositionIsStableAtOneDesk` | `BatchSpec => []BoxIsTrue`, `BoxStands`, `PositionIsStable` | one desk, `SoundLists`, `StockIsWritten` |
| `CasesAlwaysStand` | `CaseSpec => CasesStand` | |
| `PapersAreTrueTogether` | `OfficeParts => []PapersAreTrue` | those of its parts |
| `RecordsStandTogether` | `OfficeParts => RecordsStand` | those of its parts |
| `OfficeStands` | `OfficeSpec => []ProceduresAreOnRecord /\ []PapersAreTrue /\ RecordsStand` | all of them |

`OfficeParts` is the four specifications at once, free of the scenes; what `MCOffice`
plays is a run of it (`ScenesAreOfTheirParts`).

*Hypotheses.* One desk is asked for where two break the statement: the second table
of section 3 has the counterexamples for versions deleted under a desk that has not
read the list and for two desks resuming one box; two programs that each find a
hand-over overdue enter it twice. `Genuine` is that a file another unit exports is
signed, if at all, over what it says; one that is not is stored as it came, which is
what the trust setting is for. `SoundLists` is what `batch/pairing.rs` refuses
otherwise: a serial twice. `StockIsWritten` excludes a write the database refuses in a
stock box: `batch_renumbers` shows what that does. In an assigned box any write may be
refused.

*Procedures.* Any number of desks keep `ShelfInv`: rows and statements still to be
executed are signed over their text, and none touches what the build ships. For
`ProceduresAreOnRecord` the desk must know the catalogue (`Knows`), and the statement it
is about to execute must be of a version there is none of, or that no run names
(`Fresh`). Retiring a version rewrites its row, so rows are compared by their `Text`.

*Papers.* `PapersStand` needs what a panel shows to be what was generated last; that is
per desk. That an alarm is raised once needs the desk's copies to tell signed and
returned hand-overs as the tables do (`CopiesOK`), and whatever it has still to name
not to have been named (`CallsOK`).

*Boxes.* What is stored is a list with its positions in order, `Stored(f, m)`; what is
in hand is that list or, where a write was refused, ahead of it (`Behind`): the stored
row is pending and has no other key. So writing a row later is never writing over a
settled one. `InOrderIs` shows that reading the rows in the order of their positions
gives the list back, which is all a resume relies on. The handlers are reduced to five
shapes first (idling, putting down, taking up, presenting, settling).

*Cases.* A desk's copy of a row is as old as its stamp (`AsRead`): of the same save it
has the same text. That is what the compare-and-swap of `set_key_notes` asks.

Checked by TLC only: the liveness properties (`RunsEnd`, `TwoWritersEnd`,
`AskersAreAnswered`), which are outside what the proof system does. Every other property
of a passing run is a theorem, under the hypotheses the tables name.

## 5. Modelling decisions

* A serial is entered and removed once. A removed serial that is entered again is
  a new row to every statement here.
* A reset an operator reports having made elsewhere is taken to have been made: the
  program has no means to check it, and says so to the operator.
* The order in which a reset and a write happened is taken as recorded. The code
  compares timestamps of possibly different workstations (`domain/lifecycle.rs:809`).
* An applet is written at most once by a run while it holds something; that a step
  finds its applet configured is `StepEffects`' business.
* A secret is not a value but where it comes from: factory default, set by a run,
  chosen by the holder. A PIN offered to the card is good or bad.
* The certificate a desk has at hand is right while the pair it was issued for is
  in the slot. A fresh run may find one in the wizard's field, since starting over
  does not clear it.
* `NotRecordable` before a later attempt stands for the retry entry failing.
* The cfg constants `LostReplies` and `HalfWrites` allow a write whose answer is
  lost and a step of two commands that stops after the first; `Reports` is whether
  the firmware reports that a PIN or key is the default.

* A lock, a file and a name are three things: what a program holds open is a file,
  whatever is renamed under it, and what the client carries is a lock and not a right.
* A read of the FIDO2 credentials without a PIN counts none, and never reports that
  there is no room (`src/device/native_fido.rs:184` answers with no number), so the
  answers "already there" and "no free slot" of `fido2Credential` are there and not
  taken (`SaysHeld`, `SaysFull`).
* The two readings of the clock at a sign-in (`src/app.rs:6735`), the session's and a
  later one for the store, are one instant.
* A run of `Wizard` is what it leaves: its row, what it showed, the copy on the screen.
  Where the register refuses half-way the row stays and the screen keeps the run
  before; the calls of the executor in between are `Executor`'s.
* Taking up a run is refused when its steps no longer line up with the plan
  (`src/app.rs:7285`). The runs the wizard itself makes always do, so that branch
  is in `Adopts` for the runs of other programs and none of the bounds has one.
* A clock is the steps left until it matters. `Pass` in `OperatorAuth`, `DayPasses`
  in `RegisterFile` and the deadline of the handshake in `FactoryReset` each move one.
* A signature is who made it and what it is over; it verifies when a trusted key
  material made it over this text. A hash of the trail is the prefix it is over.
* A card that answers slowly, a finger that does not come and a PIN pad are one
  nondeterministic outcome of the call they delay.
* What a list shows is a copy (`known`, `listed`, `clerk[d].rows`, `attached`), made
  by the refresh that the handler ends with and by nothing else.
* In `Templates`, `Batch` and `Casework` a handler of one statement is one action; of
  several, `job`, `pair` and the like hold what it has still to do, so that another
  desk may come between.

### Not modelled

| Part | Why |
|---|---|
| PIV, FIDO2 and OTP transports, certificate and request encodings (some 6,000 lines) | encoders and parsers; the only state is the card, which `StepEffects`, `Preflight` and `FactoryReset` have |
| Reports, bundles, exports, PDF, template differences | pure functions of what was read; nothing decides on them |
| Import of another register (`store/import.rs`) | a plan computed from two registers read whole, and one transaction that applies it |
| Presence (`store/presence.rs`) | a row of advice; nothing decides on it |
| Serial scanning, camera | image decoding; what comes of it is a serial an operator confirms |
| Renderer ladder, start-up, settings, logging, paths | one process, one file, no other part depends on them |
| Platform connectors of shares (`store/smb/{macos,windows,system,mounts}.rs`) | calls of the operating system, external to `ShareDesk`'s `Server` |
| Layout, wording, dialogs that choose a file | nothing the properties are about |
| Two desks' clocks in `sanitisation_for` (`domain/lifecycle.rs:809`) | needs readings that diverge on every action of the register; the order-only model is the assumption that they agree |

## 6. Plan

What would add most, in order.

1. Proofs of what the runs check and the hypotheses above leave out: two workstations
   that hold the lease in turn as one desk in `Register`, `Templates` and `Batch`.
2. `Batch` composed with `RunRecord`, and `Wizard` with `Executor`, where now each has
   a run as what it leaves behind.
3. An abstract mutex for `SyncLease` with a client that is quick and no takeover.
4. `Sanitisation` with a clock per desk, refined by the order-only register under the
   assumption that clocks agree.
5. `Import` and `RendererLadder`, small and sequential.
