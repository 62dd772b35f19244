--------------------------- MODULE MCConsoleOps ---------------------------
(* Small instances of ConsoleOps for TLC. *)
EXTENDS ConsoleOps, TLC

\* No action tells two jobs, names, numbers or wallets apart.
ConsoleSymmetry == Permutations(Job) \cup Permutations(Name)
                     \cup Permutations(ChainId) \cup Permutations(Wallet)
===========================================================================
