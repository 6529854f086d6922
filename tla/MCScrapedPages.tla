--------------------------- MODULE MCScrapedPages ---------------------------
(* ScrapedPages on small instances.                                        *)
EXTENDS ScrapedPages, TLC

Symmetry == Permutations(Requests) \cup Permutations(Slots) \cup Permutations(Versions)

\* Bound of the search: two jobs or calls of the bridge at one time are not followed
\* further while a cleanup runs, nor where QuietPageIsEmbedded no longer speaks.
CalmBound ==
  disturbed \/ cleanup # NoCleanup => \E s \in Slots : \A t \in Slots \ {s} : bridge[t] = Free
=============================================================================
