---------------------------- MODULE MCFileRelay ----------------------------
(* Finite instances of FileRelay. *)
EXTENDS FileRelay, TLC

Sym == Permutations(Conn) \cup Permutations(Transfer)
=============================================================================
