------------------------------ MODULE FeedBoard ------------------------------
(***************************************************************************)
(* The board of news articles the observatory triages: POST                *)
(* /v1/feed/refresh copies the articles of the Google Alerts feeds into    *)
(* feedItems, and users assign, complete and discard them concurrently     *)
(* (src/routers/feed.js, src/data/feedItem.js).  Every statement is its    *)
(* own transaction, so each handler is split at its awaits only.           *)
(*                                                                         *)
(* A row is named by the article it was made from, and keeps the columns   *)
(* the transitions write; updatedAt, which only orders the lists, is left  *)
(* out.                                                                    *)
(***************************************************************************)
EXTENDS Naturals, Sequences, FiniteSets

CONSTANTS
  Articles,   \* what a feed may list: [key, link, story, malformed]
  Snapshots,  \* what fetching all the feeds may return: a sequence of feeds
  Users,
  NoUser,     \* SQL NULL in assignedUserId
  Requests,   \* the users' transition requests
  NoRequest,  \* a request that has not arrived
  Refreshes   \* the scheduler's calls of POST /v1/feed/refresh

ASSUME BoardAssumption ==
  /\ NoUser \notin Users
  /\ Snapshots \subseteq Seq(Seq(Articles))
  /\ Requests \cap Refreshes = {}

Operations == {"assign", "unassign", "complete", "uncomplete", "mark", "unmark"}

Transitions == [op : Operations, article : Articles, user : Users]

ASSUME NoRequestAssumption == NoRequest \notin Transitions

VARIABLES
  items,      \* the committed table: article -> row
  asked,      \* request -> its transition
  pc,         \* request -> its next step
  matched,    \* request -> whether its UPDATE has changed a row
  status,     \* request or refresh -> the status it was answered with
  feeds,      \* refresh -> the feeds it fetched
  next        \* refresh -> the position of the feed it inserts next, 0 before fetching

vars == <<items, asked, pc, matched, status, feeds, next>>

NewRow == [owner |-> NoUser, isDone |-> FALSE, isIrrelevant |-> FALSE]

Init ==
  /\ items = [a \in {} |-> NewRow]
  /\ asked = [r \in Requests |-> NoRequest]
  /\ pc = [r \in Requests |-> "idle"]
  /\ matched = [r \in Requests |-> FALSE]
  /\ status = [r \in Requests \cup Refreshes |-> "none"]
  /\ feeds = [p \in Refreshes |-> <<>>]
  /\ next = [p \in Refreshes |-> 0]

Respond(r, s) == status' = [status EXCEPT ![r] = s]

-----------------------------------------------------------------------------
\* Transitions: one UPDATE ... WHERE ... RETURNING "id" each.

\* Mutant: completing does not look at the assignee.
AllowedToAnyone(op, row, user) == op \in Operations

\* The WHERE clause, beside the id.
Allowed(op, row, user) == op \in {"complete", "uncomplete"} => row.owner = user

Triaged(op, row, user) ==
  CASE op = "assign" -> [row EXCEPT !.owner = user]
    [] op = "unassign" -> [row EXCEPT !.owner = NoUser]
    [] op = "complete" -> [row EXCEPT !.isDone = TRUE]
    [] op = "uncomplete" -> [row EXCEPT !.isDone = FALSE]
    [] op = "mark" -> [owner |-> user, isDone |-> TRUE, isIrrelevant |-> TRUE]
    [] op = "unmark" -> NewRow

Ask(r, q) ==
  /\ pc[r] = "idle"
  /\ asked' = [asked EXCEPT ![r] = q]
  /\ pc' = [pc EXCEPT ![r] = "update"]
  /\ UNCHANGED <<items, matched, status, feeds, next>>

Matches(r) ==
  /\ asked[r].article \in DOMAIN items
  /\ Allowed(asked[r].op, items[asked[r].article], asked[r].user)

ApplyUpdate(r) ==
  /\ matched' = [matched EXCEPT ![r] = Matches(r)]
  /\ items' = IF Matches(r)
              THEN [items EXCEPT ![asked[r].article] =
                      Triaged(asked[r].op, @, asked[r].user)]
              ELSE items

Update(r) ==
  /\ pc[r] = "update"
  /\ ApplyUpdate(r)
  /\ pc' = [pc EXCEPT ![r] = "updated"]
  /\ UNCHANGED <<asked, status, feeds, next>>

Answer(r) ==
  /\ pc[r] = "updated"
  /\ Respond(r, IF matched[r] THEN "204" ELSE "422")
  /\ pc' = [pc EXCEPT ![r] = "answered"]
  /\ UNCHANGED <<items, asked, matched, feeds, next>>

\* No connection in time, or it breaks before the statement is executed.
UpdateFails(r) ==
  /\ pc[r] = "update"
  /\ Respond(r, "500")
  /\ pc' = [pc EXCEPT ![r] = "answered"]
  /\ UNCHANGED <<items, asked, matched, feeds, next>>

\* The connection breaks before the reply to the statement arrives.
UpdateUnconfirmed(r) ==
  /\ pc[r] = "update"
  /\ ApplyUpdate(r)
  /\ Respond(r, "500")
  /\ pc' = [pc EXCEPT ![r] = "answered"]
  /\ UNCHANGED <<asked, feeds, next>>

-----------------------------------------------------------------------------
\* POST /v1/feed/refresh: fetch every feed, then one INSERT for each.

\* Promise.all: one feed that cannot be fetched or parsed fails them all.
Fetch(p, snapshot) ==
  /\ status[p] = "none" /\ next[p] = 0
  /\ feeds' = [feeds EXCEPT ![p] = snapshot]
  /\ next' = [next EXCEPT ![p] = 1]
  /\ UNCHANGED <<items, asked, pc, matched, status>>

FetchFails(p) ==
  /\ status[p] = "none" /\ next[p] = 0
  /\ Respond(p, "500")
  /\ UNCHANGED <<items, asked, pc, matched, feeds, next>>

Inserting(p) == status[p] = "none" /\ next[p] \in 1..Len(feeds[p])

CurrentFeed(p) == feeds[p][next[p]]

\* Mutant: an article that cannot be mapped goes through.
MalformedNever(feed) == FALSE

\* feedItemFromRss throws on an article without a title or with no valid URL.
Malformed(feed) == \E i \in DOMAIN feed : feed[i].malformed

\* dedupeFeedItems: the positions of the first article of each story.
Deduped(feed) ==
  { i \in DOMAIN feed : \A j \in DOMAIN feed : j < i => feed[j].story # feed[i].story }

\* Mutant: only the key is unique.
ConflictOnKey(a, b) == a.key = b.key

\* The unique indexes on feedItemKey and on link.
Conflict(a, b) == a.key = b.key \/ a.link = b.link

\* Mutant: a feed with a conflict is ignored as a whole.

InsertedNoneOnConflict(feed, kept) ==
  /\ kept \subseteq Deduped(feed)
  /\ kept = IF \E i \in Deduped(feed) : \E a \in DOMAIN items : Conflict(feed[i], a)
            THEN {}
            ELSE { i \in Deduped(feed) :
                     \A j \in Deduped(feed) : j < i => ~Conflict(feed[i], feed[j]) }

\* INSERT ... ON CONFLICT DO NOTHING goes through the rows in order: it keeps
\* those that conflict with no row of the table and with none it has kept.
Inserted(feed, kept) ==
  /\ kept \subseteq Deduped(feed)
  /\ \A i \in Deduped(feed) :
       i \in kept <=> /\ \A a \in DOMAIN items : ~Conflict(feed[i], a)
                     /\ \A j \in kept : j < i => ~Conflict(feed[i], feed[j])

\* Mutant: a conflicting row is overwritten.
ApplyInsertMerging(p) ==
  /\ ~Malformed(CurrentFeed(p))
  /\ LET new == {CurrentFeed(p)[i] : i \in Deduped(CurrentFeed(p))}
     IN  items' = [a \in DOMAIN items \cup new |-> IF a \in new THEN NewRow ELSE items[a]]

ApplyInsert(p) ==
  /\ ~Malformed(CurrentFeed(p))
  /\ \E kept \in SUBSET DOMAIN CurrentFeed(p) :
       /\ Inserted(CurrentFeed(p), kept)
       /\ LET new == {CurrentFeed(p)[i] : i \in kept}
          IN  items' = [a \in DOMAIN items \cup new |->
                          IF a \in DOMAIN items THEN items[a] ELSE NewRow]

InsertFeed(p) ==
  /\ Inserting(p)
  /\ ApplyInsert(p)
  /\ next' = [next EXCEPT ![p] = @ + 1]
  /\ UNCHANGED <<asked, pc, matched, status, feeds>>

\* The feed cannot be mapped, or its statement fails: the feeds before it stay
\* inserted, the ones after it are not reached.
InsertFails(p) ==
  /\ Inserting(p)
  /\ Respond(p, "500")
  /\ UNCHANGED <<items, asked, pc, matched, feeds, next>>

InsertUnconfirmed(p) ==
  /\ Inserting(p)
  /\ ApplyInsert(p)
  /\ Respond(p, "500")
  /\ UNCHANGED <<asked, pc, matched, feeds, next>>

Refreshed(p) ==
  /\ status[p] = "none"
  /\ next[p] > Len(feeds[p])
  /\ Respond(p, "204")
  /\ UNCHANGED <<items, asked, pc, matched, feeds, next>>

-----------------------------------------------------------------------------
Next ==
  \/ \E r \in Requests :
       \/ \E q \in Transitions : Ask(r, q)
       \/ Update(r) \/ Answer(r) \/ UpdateFails(r) \/ UpdateUnconfirmed(r)
  \/ \E p \in Refreshes :
       \/ \E snapshot \in Snapshots : Fetch(p, snapshot)
       \/ FetchFails(p)
       \/ InsertFeed(p) \/ InsertFails(p) \/ InsertUnconfirmed(p)
       \/ Refreshed(p)

Spec == Init /\ [][Next]_vars

-----------------------------------------------------------------------------
Rows == [owner : Users \cup {NoUser}, isDone : BOOLEAN, isIrrelevant : BOOLEAN]

\* Rows are well formed and come from articles that could be mapped.
TypeOK ==
  /\ DOMAIN items \subseteq {a \in Articles : ~a.malformed}
  /\ items \in [DOMAIN items -> Rows]
  /\ asked \in [Requests -> Transitions \cup {NoRequest}]
  /\ pc \in [Requests -> {"idle", "update", "updated", "answered"}]
  /\ matched \in [Requests -> BOOLEAN]
  /\ status \in [Requests \cup Refreshes -> {"none", "204", "422", "500"}]
  /\ feeds \in [Refreshes -> Snapshots \cup {<<>>}]
  /\ next \in [Refreshes -> Nat]
  /\ \A p \in Refreshes : next[p] \in 0..(Len(feeds[p]) + 1)

\* However refreshes overlap, repeat or break off, one article is one row: no two
\* rows share a key or a link.
OneRowPerArticle ==
  \A a, b \in DOMAIN items : a # b => a.key # b.key /\ a.link # b.link

\* Each article of the feed is represented, itself or by the earlier article of
\* its story in the feed, by a row with the key or the link of that article.
OnTheBoard(feed) ==
  \A i \in DOMAIN feed : \E j \in DOMAIN feed :
    /\ j <= i /\ feed[j].story = feed[i].story
    /\ \E a \in DOMAIN items : a.key = feed[j].key \/ a.link = feed[j].link

\* A refresh that was answered 204 has lost no story of the feeds it fetched,
\* although it drops articles twice, by story within a feed and by key or link
\* against the table, and other refreshes insert in between.
RefreshedArticlesAreOnTheBoard ==
  \A p \in Refreshes : status[p] = "204" =>
    \A n \in DOMAIN feeds[p] : OnTheBoard(feeds[p][n])

\* Only users triage.  A row changes at the UPDATE of a transition of its article
\* and at no refresh that lists the article again; it never goes away; and it
\* starts in the backlog.
TriagedOnlyByTransition ==
  /\ \A a \in DOMAIN items :
       /\ a \in DOMAIN items'
       /\ items'[a] # items[a] =>
            \E r \in Requests : pc[r] = "update" /\ matched'[r] /\ asked[r].article = a
  /\ \A a \in DOMAIN items' \ DOMAIN items : items'[a] = NewRow

OnlyTransitionsTriage == [][TriagedOnlyByTransition]_vars

\* r's UPDATE has given its article to its user.
Took(r, a, u) ==
  /\ matched[r] /\ asked[r].op \in {"assign", "mark"}
  /\ asked[r].article = a /\ asked[r].user = u

\* "a user cannot complete another user's item"
\* (test/integration/feed-transitions.test.js:105), with every interleaving of
\* the two users: whoever completes or reopens an item has taken it before, by a
\* request of its own.
CompletedByWhoTookIt ==
  \A r \in Requests : matched[r] /\ asked[r].op \in {"complete", "uncomplete"} =>
    \E s \in Requests : Took(s, asked[r].article, asked[r].user)

\* No article is filed as done by itself or by a refresh: somebody completed it
\* or marked it irrelevant, and that somebody had taken it.
DoneMeansDecided ==
  \A a \in DOMAIN items : items[a].isDone =>
    \E r, s \in Requests :
      /\ matched[r] /\ asked[r].op \in {"complete", "mark"} /\ asked[r].article = a
      /\ Took(s, a, asked[r].user)
=============================================================================
