----------------------------- MODULE MCFeedBoard -----------------------------
(***************************************************************************)
(* FeedBoard on small instances.  first, amp and moved are one story: amp  *)
(* is another page of it on the same site, moved has the link of first     *)
(* under a new key and a new title; other is listed by two feeds; broken   *)
(* cannot be mapped.                                                       *)
(***************************************************************************)
EXTENDS FeedBoard, TLC

first == [key |-> "k1", link |-> "l1", story |-> "s1", malformed |-> FALSE]
amp == [key |-> "k2", link |-> "l2", story |-> "s1", malformed |-> FALSE]
moved == [key |-> "k3", link |-> "l1", story |-> "s2", malformed |-> FALSE]
renamed == [key |-> "k1", link |-> "l3", story |-> "s2", malformed |-> FALSE]
other == [key |-> "k4", link |-> "l4", story |-> "s3", malformed |-> FALSE]
broken == [key |-> "k5", link |-> "", story |-> "s4", malformed |-> TRUE]

IngestArticles == {first, amp, moved, renamed, other, broken}

\* What Google may serve: a growing feed, a feed in another order, the same
\* story again, an empty feed, a feed that cannot be mapped before a good one.
IngestSnapshots ==
  { << <<first, amp>>, <<other>> >>,
    << <<amp, first, other>>, <<other, moved>> >>,
    << <<>>, <<moved, renamed, first>> >>,
    << <<other>>, <<broken, first>>, <<amp>> >> }

TriageArticles == {first, other}

TriageSnapshots == { << <<first, other>> >> }

Symmetry == Permutations(Requests) \cup Permutations(Refreshes) \cup Permutations(Users)
=============================================================================
