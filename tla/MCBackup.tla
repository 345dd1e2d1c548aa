------------------------------ MODULE MCBackup ------------------------------
(* One upload; runs that keep one archive or all. *)
EXTENDS Backup

CONSTANT f1

OneFile == {f1}
OneOrAll == {0, 1}
=============================================================================
