----------------------------- MODULE MCAccounts -----------------------------
(* Small instances of Accounts for TLC.                                    *)
EXTENDS Accounts, TLC

(* Names are interchangeable and so are processes, except for the name of  *)
(* the rows that are not there yet, which nothing reads.                   *)
Alike == Permutations(Names) \cup Permutations(Commands)
=============================================================================
