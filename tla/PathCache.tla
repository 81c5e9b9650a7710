----------------------------- MODULE PathCache -----------------------------
(***************************************************************************)
(* What the translator may rely on when it uses the path cache: a map from *)
(* ASes to paths that changes in one step, for one AS at a time, only for  *)
(* an AS that was requested, and never back to "not cached".               *)
(*                                                                         *)
(* cache[k] is the set of paths a lookup of k may return: empty while k is *)
(* not cached, and otherwise a single path.                                *)
(***************************************************************************)
EXTENDS Naturals, FiniteSets

CONSTANTS Keys, Paths
VARIABLES
  pending,  \* ASes with a request that is not finished
  cache

Init ==
  /\ pending = {}
  /\ cache = [k \in Keys |-> {}]

\* A packet for k misses the cache.
Request(k) ==
  /\ pending' = pending \union {k}
  /\ UNCHANGED cache

\* The request ends; another one for the same AS may remain.
Finish(k) ==
  /\ k \in pending
  /\ pending' \in {pending, pending \ {k}}

\* The path service finds path p for the requested AS k.
Fill(k, p) ==
  /\ Finish(k)
  /\ cache' = [cache EXCEPT ![k] = {p}]

\* It finds none, or has no room for it.
GiveUp(k) ==
  /\ Finish(k)
  /\ UNCHANGED cache

Next ==
  \E k \in Keys : \/ Request(k)
                  \/ \E p \in Paths : Fill(k, p)
                  \/ GiveUp(k)

Spec == Init /\ [][Next]_<<pending, cache>>
=============================================================================
