----------------------------- MODULE AuditMirror -----------------------------
(* The audit trail and its segregated copy (audit/mod.rs, store/mod.rs): a  *)
(* chain in the register, the same entries as lines of a file elsewhere,    *)
(* and the two verdicts over them.  A hash is what it is taken over, the    *)
(* entry and all before it, so two hashes are equal when the prefixes are.  *)
EXTENDS Integers, Sequences, SequencesExt

CONSTANTS Words,      \* what an entry may say
          MaxTrail,   \* bound: entries appended
          MaxLost,    \* bound: mirror writes that fail
          MaxRewrites \* bound: rewrites from outside the program

ASSUME MirrorAssumption == {MaxTrail, MaxLost, MaxRewrites} \subseteq Nat

VARIABLES trail,   \* the rows of the audit table: their number, word and link
          mirror,  \* the lines of the mirror
          torn,    \* a line of the mirror was written by half
          lost,    \* entries the mirror never got
          rewrites \* rewrites of the trail, rebuilt with every hash or not

mirrorVars == <<trail, mirror, torn, lost, rewrites>>

Genesis == <<>>
(* The payload: number, word and the hash before.                           *)
Hash(seq, word, prev) == Append(prev, <<seq, word>>)
Entry(seq, word, prev) == [seq |-> seq, word |-> word, prev |-> prev,
                           hash |-> Hash(seq, word, prev)]
HashOf(entry) == Hash(entry.seq, entry.word, entry.prev)
LastHash(entries) == IF entries = <<>> THEN Genesis ELSE Last(entries).hash

MirrorInit == trail = <<>> /\ mirror = <<>> /\ torn = FALSE /\ lost = 0 /\ rewrites = 0

(* append_audit, and append_existing on the mirror: the entry word for      *)
(* word.  A failure of the second leaves the first.                         *)
NextEntry(word) == Entry(Len(trail) + 1, word, LastHash(trail))

AppendBoth(word) ==
  /\ Len(trail) < MaxTrail /\ ~torn
  /\ trail' = Append(trail, NextEntry(word))
  /\ mirror' = Append(mirror, NextEntry(word))
  /\ UNCHANGED <<torn, lost, rewrites>>

(* The mirror cannot be written, or a full disk takes half a line, on which *)
(* the next one is then written.                                            *)
AppendOne(word, half) ==
  /\ Len(trail) < MaxTrail /\ (torn \/ lost < MaxLost)
  /\ trail' = Append(trail, NextEntry(word))
  /\ torn' = (torn \/ half)
  /\ lost' = IF torn THEN lost ELSE lost + 1
  /\ UNCHANGED <<mirror, rewrites>>

(* From outside: one row's word changed, or a row's word changed and every  *)
(* hash after it computed again.                                            *)
Rebuilt(words) ==
  [i \in DOMAIN words |-> Entry(i, words[i], [j \in 1..(i - 1) |-> <<j, words[j]>>])]

Rewrite(k, word, rebuild) ==
  /\ k \in DOMAIN trail /\ word # trail[k].word /\ rewrites < MaxRewrites
  /\ rewrites' = rewrites + 1
  /\ LET edited == [trail EXCEPT ![k].word = word] IN
       trail' = IF rebuild THEN Rebuilt([i \in DOMAIN edited |-> edited[i].word])
                ELSE edited
  /\ UNCHANGED <<mirror, torn, lost>>

MirrorNext ==
  \/ \E word \in Words : AppendBoth(word) \/ \E half \in BOOLEAN : AppendOne(word, half)
  \/ \E k \in 1..MaxTrail, word \in Words, rebuild \in BOOLEAN : Rewrite(k, word, rebuild)

MirrorSpec == MirrorInit /\ [][MirrorNext]_mirrorVars
-----------------------------------------------------------------------------
(* audit::verify: numbers without a gap, every link and every hash.         *)
Verifies(entries) ==
  \A i \in DOMAIN entries :
    /\ entries[i].seq = i
    /\ entries[i].prev = IF i = 1 THEN Genesis ELSE entries[i - 1].hash
    /\ HashOf(entries[i]) = entries[i].hash

(* Mutant: the lengths only.                                                *)
Compare_Lengths(a, b) == IF Len(a) = Len(b) THEN "in sync" ELSE "behind"

(* compare_with_mirror: the first place where the two differ, and only then *)
(* the lengths.                                                             *)
Overlap(a, b) == 1..(IF Len(a) < Len(b) THEN Len(a) ELSE Len(b))
Compare(a, b) ==
  IF \E i \in Overlap(a, b) : a[i].hash # b[i].hash THEN "diverged"
  ELSE IF Len(a) = Len(b) THEN "in sync" ELSE "behind"

MirrorStatus == IF torn THEN "unreadable" ELSE Compare(trail, mirror)

(* Whatever was done to the trail, and whatever the mirror missed, whoever  *)
(* asks for both verdicts is told: a trail that is whole and in sync with   *)
(* its mirror has every entry the program wrote, as it wrote it.            *)
MirrorTells == (Verifies(trail) /\ MirrorStatus = "in sync") => trail = mirror /\ lost = 0

(* What compare_with_mirror says of its verdicts: a short mirror is a       *)
(* failed write and a differing one is a rewrite.                           *)
DivergedIsARewrite == MirrorStatus = "diverged" => rewrites > 0
=============================================================================
