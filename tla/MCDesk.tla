------------------------------- MODULE MCDesk -------------------------------
(* The ways a workstation holds what it has open: the lock in a synchronised *)
(* folder, the register's file and its copies, the mirror of its trail, the  *)
(* share it lies on, the helper that opens its security key.  They have no   *)
(* variable in common, so a run explores them side by side: a scene is       *)
(* chosen and the others stand.                                              *)
EXTENDS SyncLease, RegisterFile, AuditMirror, ShareDesk, HelperService

VARIABLE scene

TwoCopies == [p1 |-> "a", p2 |-> "a", p3 |-> "b"]

deskVars == <<leaseVars, fileVars, mirrorVars, shareVars, helperVars, scene>>

DeskInit ==
  /\ scene \in {"lease", "file", "mirror", "share", "helper"}
  /\ LeaseInit /\ FileInit /\ MirrorInit /\ ShareInit /\ HelperInit
  /\ scene # "lease" => quick
  /\ scene # "file" => MainFile.version = SchemaVersion
  /\ scene # "share" => mount = "none" /\ encrypted /\ vault = "none"

DeskNext ==
  /\ UNCHANGED scene
  /\ \/ /\ scene = "lease" /\ LeaseNext
        /\ UNCHANGED <<fileVars, mirrorVars, shareVars, helperVars>>
     \/ /\ scene = "file" /\ FileNext
        /\ UNCHANGED <<leaseVars, mirrorVars, shareVars, helperVars>>
     \/ /\ scene = "mirror" /\ MirrorNext
        /\ UNCHANGED <<leaseVars, fileVars, shareVars, helperVars>>
     \/ /\ scene = "share" /\ ShareNext
        /\ UNCHANGED <<leaseVars, fileVars, mirrorVars, helperVars>>
     \/ /\ scene = "helper" /\ HelperNext
        /\ UNCHANGED <<leaseVars, fileVars, mirrorVars, shareVars>>

DeskSpec == DeskInit /\ [][DeskNext]_deskVars /\ LeaseFair /\ HelperFair
=============================================================================
