----------------------------- MODULE RateLimit -----------------------------
(***************************************************************************)
(* The sliding-window limit of local-net/lib/guard.mjs: of each key, the   *)
(* times of the requests it let in.  The console and the faucet each keep  *)
(* several of them.                                                        *)
(***************************************************************************)
EXTENDS Integers, Sequences, FiniteSets

\* The times that still count.  They ascend, so what the filter leaves is the end of the list.
Forgotten(times, cutoff) == Cardinality({i \in DOMAIN times : times[i] <= cutoff})
Recent(times, now, window) == SubSeq(times, Forgotten(times, now - window) + 1, Len(times))

\* Mutant: one too many.
OverLimit_One(times, now, window, max) == Len(Recent(times, now, window)) > max

OverLimit(times, now, window, max) == Len(Recent(times, now, window)) >= max

\* What a request that is let in leaves, and one that is refused.
LetIn(times, now, window) == Append(Recent(times, now, window), now)
=============================================================================
