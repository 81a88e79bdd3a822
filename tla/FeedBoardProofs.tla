--------------------------- MODULE FeedBoardProofs ---------------------------
(***************************************************************************)
(* Proofs about FeedBoard for any articles, feeds, users and numbers of    *)
(* transitions and refreshes.                                              *)
(***************************************************************************)
EXTENDS FeedBoard, WellFoundedInduction, TLAPS

\* Whoever holds an item has taken it.
OwnersTookIt ==
  \A a \in DOMAIN items : items[a].owner # NoUser =>
    \E s \in Requests : Took(s, a, items[a].owner)

\* A request has a transition once it has arrived, and has changed nothing until it
\* reaches its statement.
RequestInv ==
  \A r \in Requests :
    /\ pc[r] # "idle" => asked[r] \in Transitions
    /\ pc[r] \in {"idle", "update"} => ~matched[r]

\* The feeds a refresh has passed are on the board.
RefreshInv ==
  \A p \in Refreshes :
    /\ status[p] = "204" => next[p] > Len(feeds[p])
    /\ \A n \in DOMAIN feeds[p] : n < next[p] => OnTheBoard(feeds[p][n])

FeedInv ==
  /\ TypeOK /\ RequestInv /\ RefreshInv /\ OneRowPerArticle
  /\ OwnersTookIt /\ CompletedByWhoTookIt /\ DoneMeansDecided

-----------------------------------------------------------------------------
\* A transition's statement, whether or not its reply arrives.

LEMMA TriagedRow ==
  ASSUME NEW op \in Operations, NEW row \in Rows, NEW u \in Users
  PROVE  /\ Triaged(op, row, u) \in Rows
         /\ Triaged(op, row, u).owner \in {row.owner, NoUser, u}
         /\ Triaged(op, row, u).owner = u /\ row.owner # u => op \in {"assign", "mark"}
         /\ Triaged(op, row, u).isDone => row.isDone \/ op \in {"complete", "mark"}
<1>1. CASE op = "assign"
  BY <1>1 DEF Rows, Triaged
<1>2. CASE op = "unassign"
  BY <1>2, BoardAssumption DEF Rows, Triaged
<1>3. CASE op = "complete"
  BY <1>3 DEF Rows, Triaged
<1>4. CASE op = "uncomplete"
  BY <1>4 DEF Rows, Triaged
<1>5. CASE op = "mark"
  BY <1>5 DEF Rows, Triaged
<1>6. CASE op = "unmark"
  BY <1>6, BoardAssumption DEF Rows, Triaged, NewRow
<1>7. QED
  BY <1>1, <1>2, <1>3, <1>4, <1>5, <1>6 DEF Operations

LEMMA UpdateKeeps ==
  ASSUME FeedInv, NEW r \in Requests, pc[r] = "update", ApplyUpdate(r),
         UNCHANGED asked, NEW s \in {"updated", "answered"}, pc' = [pc EXCEPT ![r] = s],
         status' \in [Requests \cup Refreshes -> {"none", "204", "422", "500"}],
         \A p \in Refreshes : status'[p] = status[p],
         UNCHANGED <<feeds, next>>
  PROVE  FeedInv'
<1> DEFINE a == asked[r].article
           u == asked[r].user
           op == asked[r].op
<1>1. /\ DOMAIN items' = DOMAIN items
      /\ \A b \in DOMAIN items : b # a => items'[b] = items[b]
      /\ ~Matches(r) => items' = items
      /\ Matches(r) => a \in DOMAIN items /\ items'[a] = Triaged(op, items[a], u)
      /\ items' = [b \in DOMAIN items |-> items'[b]]
  BY DEF FeedInv, TypeOK, ApplyUpdate, Matches
<1>2. /\ \A t \in Requests \ {r} : matched'[t] = matched[t] /\ pc'[t] = pc[t]
      /\ ~matched[r] /\ (matched'[r] <=> Matches(r)) /\ pc'[r] = s
  BY DEF FeedInv, RequestInv, TypeOK, ApplyUpdate, Matches
<1>3. asked[r] \in Transitions /\ op \in Operations /\ u \in Users
  BY DEF FeedInv, RequestInv, Transitions
<1>4. Matches(r) => items[a] \in Rows /\ Allowed(op, items[a], u)
  BY DEF FeedInv, TypeOK, Matches
<1> HIDE DEF a, u, op
<1>5. Matches(r) =>
        /\ items'[a] \in Rows /\ items'[a].owner \in {items[a].owner, NoUser, u}
        /\ items'[a].owner = u /\ items[a].owner # u => op \in {"assign", "mark"}
        /\ items'[a].isDone => items[a].isDone \/ op \in {"complete", "mark"}
  BY <1>1, <1>3, <1>4, TriagedRow
<1>6. \A t \in Requests : \A b, v : Took(t, b, v) => Took(t, b, v)'
  BY <1>2 DEF Took
<1>7. Matches(r) /\ op \in {"assign", "mark"} => Took(r, a, u)'
  BY <1>2 DEF Took, a, u, op
<1>8. TypeOK'
  <2>1. \A b \in DOMAIN items : items'[b] \in Rows
    BY <1>1, <1>5 DEF FeedInv, TypeOK
  <2>2. items' \in [DOMAIN items' -> Rows]
    BY <1>1, <2>1
  <2>3. pc' \in [Requests -> {"idle", "update", "updated", "answered"}]
    BY DEF FeedInv, TypeOK
  <2>4. matched' \in [Requests -> BOOLEAN]
    BY DEF FeedInv, TypeOK, ApplyUpdate, Matches
  <2>5. QED
    BY <1>1, <2>2, <2>3, <2>4 DEF FeedInv, TypeOK
<1>9. RequestInv'
  BY <1>2, <1>3 DEF FeedInv, RequestInv
<1>10. OneRowPerArticle'
  BY <1>1 DEF FeedInv, OneRowPerArticle
<1>11. OwnersTookIt'
  <2> SUFFICES ASSUME NEW b \in DOMAIN items', items'[b].owner # NoUser
               PROVE  \E t \in Requests : Took(t, b, items[b].owner)'
    BY DEF OwnersTookIt
  <2>1. CASE items'[b].owner = items[b].owner
    <3>1. PICK t \in Requests : Took(t, b, items[b].owner)
      BY <1>1, <2>1 DEF FeedInv, OwnersTookIt
    <3>2. Took(t, b, items[b].owner)'
      BY <1>6, <2>1, <3>1
    <3>3. QED
      BY <3>2
  <2>2. CASE items'[b].owner # items[b].owner
    <3>1. Matches(r) /\ b = a /\ items'[b].owner = u
      BY <1>1, <1>5, <2>2
    <3>2. Took(r, a, u)'
      BY <1>5, <1>7, <2>2, <3>1
    <3>3. QED
      BY <3>1, <3>2 DEF Took, a, u
  <2>3. QED
    BY <2>1, <2>2
<1>12. Matches(r) /\ op \in {"complete", "uncomplete"} =>
         \E t \in Requests : Took(t, a, u)
  <2> SUFFICES ASSUME Matches(r), op \in {"complete", "uncomplete"}
               PROVE  \E t \in Requests : Took(t, a, u)
    OBVIOUS
  <2>1. items[a].owner = u /\ a \in DOMAIN items
    BY <1>1, <1>4 DEF Allowed
  <2>2. items[a].owner # NoUser
    BY <1>3, <2>1, BoardAssumption
  <2>3. QED
    BY <2>1, <2>2 DEF FeedInv, OwnersTookIt
<1>13. CompletedByWhoTookIt'
  BY <1>2, <1>6, <1>12 DEF FeedInv, CompletedByWhoTookIt, a, u, op
<1>14. DoneMeansDecided'
  <2> SUFFICES ASSUME NEW b \in DOMAIN items', items'[b].isDone
               PROVE  \E t, s1 \in Requests :
                        /\ matched'[t] /\ asked'[t].op \in {"complete", "mark"}
                        /\ asked'[t].article = b /\ Took(s1, b, asked[t].user)'
    BY DEF DoneMeansDecided
  <2>1. CASE items[b].isDone
    <3>1. PICK t \in Requests, s1 \in Requests :
            /\ matched[t] /\ asked[t].op \in {"complete", "mark"}
            /\ asked[t].article = b /\ Took(s1, b, asked[t].user)
      BY <1>1, <2>1 DEF FeedInv, DoneMeansDecided
    <3>2. matched'[t] /\ Took(s1, b, asked[t].user)'
      BY <1>2, <1>6, <3>1
    <3>3. QED
      BY <3>1, <3>2
  <2>2. CASE ~items[b].isDone
    <3>1. Matches(r) /\ b = a /\ op \in {"complete", "mark"}
      BY <1>1, <1>5, <2>2
    <3>2. PICK t \in Requests : Took(t, a, u)'
      <4>1. CASE op = "mark"
        BY <1>7, <3>1, <4>1
      <4>2. CASE op = "complete"
        BY <1>2, <1>12, <3>1, <4>2 DEF Took, a, u
      <4>3. QED
        BY <3>1, <4>1, <4>2
    <3>3. matched'[r] /\ asked' = asked
      BY <1>2, <3>1
    <3>4. asked'[r].article = b /\ asked'[r].op \in {"complete", "mark"}
      BY <3>1, <3>3 DEF a, op
    <3>5. Took(t, b, asked[r].user)'
      <4>1. asked'[r].user = u /\ a = b
        BY <3>1, <3>3 DEF u
      <4>2. Took(t, a, asked[r].user)'
        BY <3>2 DEF u
      <4>3. QED
        BY <3>3, <4>1, <4>2 DEF Took, a
    <3>6. QED
      BY <3>3, <3>4, <3>5
  <2>3. QED
    BY <2>1, <2>2
<1>15. RefreshInv'
  BY <1>1 DEF FeedInv, RefreshInv, OnTheBoard
<1>16. QED
  BY <1>8, <1>9, <1>10, <1>11, <1>13, <1>14, <1>15 DEF FeedInv

-----------------------------------------------------------------------------
\* A feed's statement, whether or not its reply arrives.

LEMMA LeastNatural ==
  ASSUME NEW T, T \subseteq Nat, T # {}
  PROVE  \E x \in T : \A y \in T : x <= y
<1> DEFINE R == OpToRel(<, Nat)
<1>1. IsWellFoundedOn(R, Nat)
  BY NatLessThanWellFounded
<1>2. \A x, y \in Nat : x < y => <<x, y>> \in R
  BY DEF OpToRel
<1> HIDE DEF R
<1>3. PICK x \in T : \A y \in T : ~ (<<y, x>> \in R)
  BY <1>1, WFMin
<1>4. ASSUME NEW y \in T
      PROVE  x <= y
  <2>1. x \in Nat /\ y \in Nat /\ ~(y < x)
    BY <1>2, <1>3
  <2>2. QED
    BY <2>1
<1>5. QED
  BY <1>4

\* dedupeFeedItems keeps one article of every story, the first.
LEMMA EveryStoryIsKept ==
  ASSUME NEW feed \in Seq(Articles), NEW i \in DOMAIN feed
  PROVE  \E j \in Deduped(feed) : j <= i /\ feed[j].story = feed[i].story
<1> DEFINE T == {j \in DOMAIN feed : feed[j].story = feed[i].story}
<1>1. T \subseteq Nat /\ i \in T
  OBVIOUS
<1>2. PICK j \in T : \A k \in T : j <= k
  BY <1>1, LeastNatural
<1>3. j \in DOMAIN feed /\ feed[j].story = feed[i].story /\ j \in Nat
  OBVIOUS
<1>4. ASSUME NEW k \in DOMAIN feed, k < j
      PROVE  feed[k].story # feed[j].story
  <2>1. k \notin T
    BY <1>1, <1>2, <1>4
  <2>2. QED
    BY <1>3, <2>1
<1>5. j \in Deduped(feed)
  BY <1>3, <1>4 DEF Deduped
<1>6. QED
  BY <1>1, <1>2, <1>3, <1>5

LEMMA InsertedOnTheBoard ==
  ASSUME NEW feed \in Seq(Articles), NEW kept, Inserted(feed, kept),
         DOMAIN items' = DOMAIN items \cup {feed[i] : i \in kept}
  PROVE  OnTheBoard(feed)'
<1> SUFFICES ASSUME NEW i \in DOMAIN feed
             PROVE  \E j \in DOMAIN feed :
                      /\ j <= i /\ feed[j].story = feed[i].story
                      /\ \E a \in DOMAIN items' : a.key = feed[j].key \/ a.link = feed[j].link
  BY DEF OnTheBoard
<1>1. PICK j \in Deduped(feed) : j <= i /\ feed[j].story = feed[i].story
  BY EveryStoryIsKept
<1>2. CASE j \in kept
  BY <1>1, <1>2 DEF Deduped
<1>3. CASE \E a \in DOMAIN items : Conflict(feed[j], a)
  BY <1>1, <1>3 DEF Deduped, Conflict
<1>4. CASE \E k \in kept : k < j /\ Conflict(feed[j], feed[k])
  BY <1>1, <1>4 DEF Deduped, Conflict
<1>5. QED
  BY <1>1, <1>2, <1>3, <1>4 DEF Inserted

LEMMA SeqDomain ==
  ASSUME NEW S, NEW s \in Seq(S)
  PROVE  DOMAIN s = 1..Len(s) /\ \A i \in DOMAIN s : s[i] \in S
OBVIOUS

LEMMA FetchedFeeds ==
  ASSUME FeedInv, NEW p \in Refreshes
  PROVE  /\ DOMAIN feeds[p] = 1..Len(feeds[p]) /\ Len(feeds[p]) \in Nat
         /\ \A n \in DOMAIN feeds[p] : feeds[p][n] \in Seq(Articles)
<1>1. feeds[p] \in Snapshots \cup {<<>>}
  BY DEF FeedInv, TypeOK
<1>2. PICK f \in Seq(Seq(Articles)) : f = feeds[p]
  <2>1. <<>> \in Seq(Seq(Articles))
    OBVIOUS
  <2>2. QED
    BY <1>1, <2>1, BoardAssumption
<1>3. QED
  BY <1>2, SeqDomain

LEMMA InsertKeeps ==
  ASSUME FeedInv, NEW p \in Refreshes, Inserting(p), ApplyInsert(p),
         UNCHANGED <<asked, pc, matched, feeds>>,
         \/ next' = [next EXCEPT ![p] = @ + 1] /\ UNCHANGED status
         \/ UNCHANGED next /\ Respond(p, "500")
  PROVE  FeedInv'
<1>1. next[p] \in DOMAIN feeds[p] /\ next[p] \in 1..Len(feeds[p])
  BY FetchedFeeds DEF Inserting
<1>2. PICK feed \in Seq(Articles) : feed = feeds[p][next[p]]
  BY <1>1, FetchedFeeds
<1>3. PICK kept :
        /\ Inserted(feed, kept) /\ ~Malformed(feed)
        /\ DOMAIN items' = DOMAIN items \cup {feed[i] : i \in kept}
        /\ items' = [a \in DOMAIN items' |-> IF a \in DOMAIN items THEN items[a] ELSE NewRow]
  BY <1>2 DEF ApplyInsert, CurrentFeed
<1>4. kept \subseteq DOMAIN feed
  BY <1>3 DEF Inserted, Deduped
<1>5. /\ \A a \in DOMAIN items : a \in DOMAIN items' /\ items'[a] = items[a]
      /\ \A a \in DOMAIN items' \ DOMAIN items :
           items'[a] = NewRow /\ \E i \in kept : a = feed[i]
  BY <1>3
<1>6. TypeOK'
  <2>1. \A i \in kept : feed[i] \in Articles /\ ~feed[i].malformed
    BY <1>2, <1>3, <1>4 DEF Malformed
  <2>2. DOMAIN items' \subseteq {a \in Articles : ~a.malformed}
    BY <1>3, <2>1 DEF FeedInv, TypeOK
  <2>3. \A a \in DOMAIN items' : items'[a] \in Rows
    <3>1. NewRow \in Rows /\ \A a \in DOMAIN items : items[a] \in Rows
      BY DEF FeedInv, TypeOK, Rows, NewRow
    <3>2. QED
      BY <1>5, <3>1
  <2>4. items' \in [DOMAIN items' -> Rows]
    BY <1>3, <2>3
  <2>5. status' \in [Requests \cup Refreshes -> {"none", "204", "422", "500"}]
    BY DEF FeedInv, TypeOK, Respond
  <2>6. /\ next' \in [Refreshes -> Nat]
        /\ \A q \in Refreshes : next'[q] \in 0..(Len(feeds[q]) + 1)
    <3>1. \A q \in Refreshes : Len(feeds[q]) \in Nat
      BY FetchedFeeds
    <3>2. CASE UNCHANGED next
      BY <3>2 DEF FeedInv, TypeOK
    <3>3. CASE next' = [next EXCEPT ![p] = @ + 1]
      BY <1>1, <3>1, <3>3 DEF FeedInv, TypeOK
    <3>4. QED
      BY <3>2, <3>3
  <2>7. QED
    BY <2>2, <2>4, <2>5, <2>6 DEF FeedInv, TypeOK
<1>7. RequestInv'
  BY DEF FeedInv, RequestInv
<1>8. OneRowPerArticle'
  <2> SUFFICES ASSUME NEW a \in DOMAIN items', NEW b \in DOMAIN items', a # b
               PROVE  ~Conflict(a, b)
    BY DEF OneRowPerArticle, Conflict
  <2>1. CASE a \in DOMAIN items /\ b \in DOMAIN items
    BY <2>1 DEF FeedInv, OneRowPerArticle, Conflict
  <2>2. ASSUME NEW i \in kept, a = feed[i], b \in DOMAIN items
        PROVE  ~Conflict(a, b)
    BY <1>3, <2>2 DEF Inserted
  <2>3. ASSUME NEW i \in kept, b = feed[i], a \in DOMAIN items
        PROVE  ~Conflict(a, b)
    BY <1>3, <2>3 DEF Inserted, Conflict
  <2>4. ASSUME NEW i \in kept, NEW j \in kept, a = feed[i], b = feed[j]
        PROVE  ~Conflict(a, b)
    <3>1. i \in Nat /\ j \in Nat /\ i # j
      BY <1>2, <1>4, <2>4
    <3>2. CASE j < i
      BY <1>3, <2>4, <3>2 DEF Inserted
    <3>3. CASE i < j
      BY <1>3, <2>4, <3>3 DEF Inserted, Conflict
    <3>4. QED
      BY <3>1, <3>2, <3>3
  <2>5. QED
    BY <1>5, <2>1, <2>2, <2>3, <2>4
<1>9. \A t \in Requests : \A b, v : Took(t, b, v)' <=> Took(t, b, v)
  BY DEF Took
<1>10. OwnersTookIt'
  BY <1>5, <1>9 DEF FeedInv, OwnersTookIt, NewRow
<1>11. CompletedByWhoTookIt'
  BY <1>9 DEF FeedInv, CompletedByWhoTookIt
<1>12. DoneMeansDecided'
  BY <1>5, <1>9 DEF FeedInv, DoneMeansDecided, NewRow
<1>13. RefreshInv'
  <2>1. \A f : OnTheBoard(f) => OnTheBoard(f)'
    BY <1>5 DEF OnTheBoard
  <2>2. OnTheBoard(feed)'
    BY <1>2, <1>3, InsertedOnTheBoard
  <2>3. ASSUME NEW q \in Refreshes
        PROVE  /\ status'[q] = "204" => next'[q] > Len(feeds[q])
               /\ \A n \in DOMAIN feeds[q] : n < next'[q] => n < next[q] \/ (q = p /\ n = next[p])
    <3>1. next[q] \in Nat /\ Len(feeds[q]) \in Nat
      BY FetchedFeeds DEF FeedInv, TypeOK
    <3>2. DOMAIN feeds[q] = 1..Len(feeds[q])
      BY FetchedFeeds
    <3>3. CASE q # p \/ UNCHANGED next
      BY <3>1, <3>2, <3>3 DEF FeedInv, RefreshInv, TypeOK, Respond
    <3>4. CASE q = p /\ next' = [next EXCEPT ![p] = @ + 1] /\ UNCHANGED status
      BY <3>1, <3>2, <3>4 DEF FeedInv, RefreshInv, TypeOK, Inserting
    <3>5. QED
      BY <3>3, <3>4
  <2>4. ASSUME NEW q \in Refreshes, NEW n \in DOMAIN feeds[q], n < next'[q]
        PROVE  OnTheBoard(feeds[q][n])'
    <3>1. PICK f : f = feeds[q][n]
      OBVIOUS
    <3>2. OnTheBoard(f)'
      <4>1. CASE n < next[q]
        BY <2>1, <3>1, <4>1 DEF FeedInv, RefreshInv
      <4>2. CASE q = p /\ n = next[p]
        BY <1>2, <2>2, <3>1, <4>2
      <4>3. QED
        BY <2>3, <2>4, <4>1, <4>2
    <3>3. QED
      BY <3>1, <3>2 DEF OnTheBoard
  <2>5. QED
    BY <2>3, <2>4 DEF RefreshInv
<1>14. QED
  BY <1>6, <1>7, <1>8, <1>10, <1>11, <1>12, <1>13 DEF FeedInv

-----------------------------------------------------------------------------
\* The steps that leave the table alone.

LEMMA TableKept ==
  ASSUME FeedInv, UNCHANGED <<items, matched>>, TypeOK', RequestInv', RefreshInv',
         \A r \in Requests : matched[r] => asked'[r] = asked[r]
  PROVE  FeedInv'
<1>1. \A r \in Requests : \A a, u : Took(r, a, u) => Took(r, a, u)'
  BY DEF Took
<1>2. OneRowPerArticle' /\ OwnersTookIt'
  BY <1>1 DEF FeedInv, OneRowPerArticle, OwnersTookIt
<1>3. CompletedByWhoTookIt'
  <2> SUFFICES ASSUME NEW r \in Requests, matched[r],
                      asked[r].op \in {"complete", "uncomplete"}
               PROVE  \E t \in Requests : Took(t, asked[r].article, asked[r].user)'
    BY DEF CompletedByWhoTookIt
  <2>1. PICK t \in Requests : Took(t, asked[r].article, asked[r].user)
    BY DEF FeedInv, CompletedByWhoTookIt
  <2>2. QED
    BY <1>1, <2>1 DEF Took
<1>4. DoneMeansDecided'
  BY <1>1 DEF FeedInv, DoneMeansDecided, Took
<1>5. QED
  BY <1>2, <1>3, <1>4 DEF FeedInv

LEMMA AskStep ==
  ASSUME FeedInv, NEW r \in Requests, NEW q \in Transitions, Ask(r, q)
  PROVE  FeedInv'
<1>1. TypeOK'
  BY DEF Ask, FeedInv, TypeOK
<1>2. RequestInv'
  BY DEF Ask, FeedInv, TypeOK, RequestInv
<1>3. RefreshInv'
  BY DEF Ask, FeedInv, RefreshInv, OnTheBoard
<1>4. \A t \in Requests : matched[t] => asked'[t] = asked[t]
  BY DEF Ask, FeedInv, TypeOK, RequestInv
<1>5. QED
  BY <1>1, <1>2, <1>3, <1>4, TableKept DEF Ask

LEMMA RespondSteps ==
  ASSUME FeedInv, NEW r \in Requests, Answer(r) \/ UpdateFails(r)
  PROVE  FeedInv'
<1>1. TypeOK'
  BY DEF Answer, UpdateFails, Respond, FeedInv, TypeOK
<1>2. RequestInv'
  BY DEF Answer, UpdateFails, FeedInv, TypeOK, RequestInv
<1>3. RefreshInv'
  <2>1. /\ \A p \in Refreshes : status'[p] = status[p]
        /\ UNCHANGED <<items, feeds, next>>
    BY BoardAssumption DEF Answer, UpdateFails, Respond, FeedInv, TypeOK
  <2>2. QED
    BY <2>1 DEF FeedInv, RefreshInv, OnTheBoard
<1>4. QED
  BY <1>1, <1>2, <1>3, TableKept DEF Answer, UpdateFails

LEMMA FetchStep ==
  ASSUME FeedInv, NEW p \in Refreshes, NEW snapshot \in Snapshots, Fetch(p, snapshot)
  PROVE  FeedInv'
<1>1. Len(snapshot) \in Nat /\ DOMAIN snapshot = 1..Len(snapshot)
  BY BoardAssumption, SeqDomain
<1>2. TypeOK'
  BY <1>1 DEF Fetch, FeedInv, TypeOK
<1>3. RequestInv'
  BY DEF Fetch, FeedInv, RequestInv
<1>4. RefreshInv'
  BY <1>1 DEF Fetch, FeedInv, TypeOK, RefreshInv, OnTheBoard
<1>5. QED
  BY <1>2, <1>3, <1>4, TableKept DEF Fetch

LEMMA RefreshEndSteps ==
  ASSUME FeedInv, NEW p \in Refreshes, FetchFails(p) \/ InsertFails(p) \/ Refreshed(p)
  PROVE  FeedInv'
<1>1. TypeOK'
  BY DEF FetchFails, InsertFails, Refreshed, Respond, FeedInv, TypeOK
<1>2. RequestInv'
  BY DEF FetchFails, InsertFails, Refreshed, FeedInv, RequestInv
<1>3. RefreshInv'
  <2>1. \A q \in Refreshes :
          status'[q] = status[q] \/ status'[q] = "500" \/ next[q] > Len(feeds[q])
    BY DEF FetchFails, InsertFails, Refreshed, Respond, FeedInv, TypeOK
  <2>2. UNCHANGED <<items, feeds, next>>
    BY DEF FetchFails, InsertFails, Refreshed
  <2>3. QED
    BY <2>1, <2>2 DEF FeedInv, RefreshInv, OnTheBoard
<1>4. QED
  BY <1>1, <1>2, <1>3, TableKept DEF FetchFails, InsertFails, Refreshed

LEMMA UpdateSteps ==
  ASSUME FeedInv, NEW r \in Requests, Update(r) \/ UpdateUnconfirmed(r)
  PROVE  FeedInv'
<1>1. /\ status' \in [Requests \cup Refreshes -> {"none", "204", "422", "500"}]
      /\ \A p \in Refreshes : status'[p] = status[p]
  BY BoardAssumption DEF Update, UpdateUnconfirmed, Respond, FeedInv, TypeOK
<1>2. QED
  BY <1>1, UpdateKeeps DEF Update, UpdateUnconfirmed

LEMMA InsertSteps ==
  ASSUME FeedInv, NEW p \in Refreshes, InsertFeed(p) \/ InsertUnconfirmed(p)
  PROVE  FeedInv'
BY InsertKeeps DEF InsertFeed, InsertUnconfirmed

-----------------------------------------------------------------------------
LEMMA FeedInit == Init => FeedInv
BY DEF Init, FeedInv, TypeOK, RequestInv, RefreshInv, OneRowPerArticle, OwnersTookIt,
       CompletedByWhoTookIt, DoneMeansDecided

LEMMA FeedNext == FeedInv /\ [Next]_vars => FeedInv'
<1> SUFFICES ASSUME FeedInv, [Next]_vars PROVE FeedInv'
  OBVIOUS
<1>1. CASE UNCHANGED vars
  <2>1. TypeOK' /\ RequestInv' /\ RefreshInv'
    BY <1>1 DEF vars, FeedInv, TypeOK, RequestInv, RefreshInv, OnTheBoard
  <2>2. QED
    BY <1>1, <2>1, TableKept DEF vars
<1>2. CASE \E r \in Requests :
             \/ \E q \in Transitions : Ask(r, q)
             \/ Update(r) \/ Answer(r) \/ UpdateFails(r) \/ UpdateUnconfirmed(r)
  BY <1>2, AskStep, RespondSteps, UpdateSteps
<1>3. CASE \E p \in Refreshes :
             \/ \E snapshot \in Snapshots : Fetch(p, snapshot)
             \/ FetchFails(p)
             \/ InsertFeed(p) \/ InsertFails(p) \/ InsertUnconfirmed(p)
             \/ Refreshed(p)
  BY <1>3, FetchStep, RefreshEndSteps, InsertSteps
<1>4. QED
  BY <1>1, <1>2, <1>3 DEF Next

LEMMA FeedInvariance == Spec => []FeedInv
BY FeedInit, FeedNext, PTL DEF Spec

(***************************************************************************)
(* No interleaving of refreshes, whatever the feeds list, stores one       *)
(* article twice (src/data/feedItem.js, insertNewFeedItems).               *)
(***************************************************************************)
THEOREM ArticlesAreUnique == Spec => []OneRowPerArticle
<1>1. FeedInv => OneRowPerArticle
  BY DEF FeedInv
<1>2. QED
  BY <1>1, FeedInvariance, PTL

(***************************************************************************)
(* A refresh answered 204 has every story of every feed it fetched on the  *)
(* board (src/routers/feed.js, POST /v1/feed/refresh).                     *)
(***************************************************************************)
THEOREM RefreshLosesNoStory == Spec => []RefreshedArticlesAreOnTheBoard
<1>1. FeedInv => RefreshedArticlesAreOnTheBoard
  <2> SUFFICES ASSUME FeedInv, NEW p \in Refreshes, status[p] = "204",
                      NEW n \in DOMAIN feeds[p]
               PROVE  OnTheBoard(feeds[p][n])
    BY DEF RefreshedArticlesAreOnTheBoard
  <2>1. n \in 1..Len(feeds[p]) /\ Len(feeds[p]) \in Nat /\ next[p] \in Nat
    BY FetchedFeeds DEF FeedInv, TypeOK
  <2>2. n < next[p]
    BY <2>1 DEF FeedInv, RefreshInv
  <2>3. QED
    BY <2>2 DEF FeedInv, RefreshInv
<1>2. QED
  BY <1>1, FeedInvariance, PTL

(***************************************************************************)
(* Rows are well formed and come from articles that could be mapped, and   *)
(* each refresh reads its feed from the first story to the last.           *)
(***************************************************************************)
THEOREM FeedTypes == Spec => []TypeOK
<1>1. FeedInv => TypeOK
  BY DEF FeedInv
<1>2. QED
  BY <1>1, FeedInvariance, PTL

(***************************************************************************)
(* "a user cannot complete another user's item": whoever completes or      *)
(* reopens an item has taken it before (src/data/feedItem.js,              *)
(* completeFeedItem and uncompleteFeedItem).                               *)
(***************************************************************************)
THEOREM OnlyTakersComplete == Spec => []CompletedByWhoTookIt
<1>1. FeedInv => CompletedByWhoTookIt
  BY DEF FeedInv
<1>2. QED
  BY <1>1, FeedInvariance, PTL

(***************************************************************************)
(* Every done item was completed, or marked irrelevant, by a user who had  *)
(* taken it.                                                               *)
(***************************************************************************)
THEOREM DoneItemsWereDecided == Spec => []DoneMeansDecided
<1>1. FeedInv => DoneMeansDecided
  BY DEF FeedInv
<1>2. QED
  BY <1>1, FeedInvariance, PTL

(***************************************************************************)
(* A refresh never touches the triage of an article it lists again, and a  *)
(* row changes at its own transitions only (src/data/feedItem.js,          *)
(* onConflict().ignore() and the id in every WHERE).                       *)
(***************************************************************************)
THEOREM TriageIsTheUsers == Spec => OnlyTransitionsTriage
<1>1. ASSUME FeedInv, NEW r \in Requests, pc[r] = "update", ApplyUpdate(r)
      PROVE  TriagedOnlyByTransition
  <2>1. /\ DOMAIN items' = DOMAIN items
        /\ \A a \in DOMAIN items :
             items'[a] # items[a] => Matches(r) /\ a = asked[r].article
    BY <1>1 DEF ApplyUpdate, FeedInv, TypeOK, Matches
  <2>2. Matches(r) => matched'[r]
    BY <1>1 DEF ApplyUpdate, FeedInv, TypeOK
  <2>3. QED
    BY <1>1, <2>1, <2>2 DEF TriagedOnlyByTransition
<1>2. ASSUME NEW p, ApplyInsert(p)
      PROVE  TriagedOnlyByTransition
  BY <1>2 DEF ApplyInsert, TriagedOnlyByTransition
<1>3. ASSUME UNCHANGED items
      PROVE  TriagedOnlyByTransition
  BY <1>3 DEF TriagedOnlyByTransition
<1>4. FeedInv /\ [Next]_vars => [TriagedOnlyByTransition]_vars
  <2> SUFFICES ASSUME FeedInv, Next PROVE TriagedOnlyByTransition
    OBVIOUS
  <2>1. \/ \E r \in Requests : pc[r] = "update" /\ ApplyUpdate(r)
        \/ \E p \in Refreshes : ApplyInsert(p)
        \/ UNCHANGED items
    BY DEF Next, Ask, Update, Answer, UpdateFails, UpdateUnconfirmed, Fetch, FetchFails,
           InsertFeed, InsertFails, InsertUnconfirmed, Refreshed
  <2>2. QED
    BY <1>1, <1>2, <1>3, <2>1
<1>5. QED
  BY <1>4, FeedInvariance, PTL DEF Spec, OnlyTransitionsTriage
=============================================================================
