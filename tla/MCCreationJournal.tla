-------------------------- MODULE MCCreationJournal --------------------------
(* Two settings of CreationJournal in one run: a console with its operator, on  *)
(* a directory no other process uses, and two consoles on one directory that    *)
(* nobody resolves creations of.                                               *)
EXTENDS CreationJournal, TLC

CONSTANTS p1, p2, j1, j2, j3

VARIABLE setting

Consoles    == {p1, p2}
TheOperator == {p1}
Jobs        == {j1, j2, j3}
JobSymmetry == Permutations(Jobs)

Unattended == INSTANCE CreationJournal WITH Operator <- {}

TwoInit == JournalInit /\ setting \in {"alone", "two consoles"}

TwoNext ==
  /\ UNCHANGED setting
  /\ \/ setting = "alone" /\ JournalNext /\ pc'[p2] = pc[p2] /\ owned'[p2] = owned[p2]
     \/ setting = "two consoles" /\ Unattended!JournalNext

TwoSpec == TwoInit /\ [][TwoNext]_<<vars, setting>>
=============================================================================
