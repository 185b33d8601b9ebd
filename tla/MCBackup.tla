------------------------------ MODULE MCBackup ------------------------------
(* An instance of Backup for TLC. *)
EXTENDS Backup, TLC

CONSTANTS d1, d2, p1, p2

TwoDisks == <<d1, d2>>

\* A logical volume or a file, beside a disk that is a volume of
\* another kind, a qcow2 file or missing
VolumeAndOther == d1 :> {"dm", "file"} @@ d2 :> {"none", "blk"}
QcowOther      == d1 :> {FALSE} @@ d2 :> {TRUE, FALSE}

ProcSymmetry == Permutations(Procs)
=============================================================================
