------------------------------- MODULE AuthFlow -------------------------------
(***************************************************************************)
(* Signing in (src/routers/auth.js, src/lib/oauth.js, src/lib/crypto.js,   *)
(* src/services/google/openid.js, src/data/user.js): browsers that start   *)
(* any number of sign-ins, Google that authenticates whoever sits there,   *)
(* the token endpoint, and the table of users.  Everything a sign-in needs *)
(* between two requests travels with the browser, in a cookie and in the   *)
(* redirects; the service keeps nothing but the users.  Clients are        *)
(* honest: they send what they were given, late, twice or not at all.      *)
(*                                                                         *)
(* A sign-in f stands for its xsrf token and for its PKCE pair, which are  *)
(* random and never meet those of another.                                 *)
(***************************************************************************)
EXTENDS Naturals

CONSTANTS
  SignIns,      \* the authorizations browsers start
  Browsers,
  Accounts,     \* Google accounts
  OrgAccounts,  \* those with a verified address in the observatory's domain
  NoAccount,    \* nobody has consented, or the user has declined
  NoSignIn,     \* a post that has not been sent
  Posts,        \* the calls of POST /auth/token
  XsrfLife,     \* life of the xsrf cookie, 5 minutes
  CodeLife,     \* life of the code the callback signs, 5 minutes
  TokenLife,    \* life of an access token, 24 hours
  MaxNow,       \* the clock stops there
  MaxUserId     \* end of the sequence of users.id, 2^31 - 1 in PostgreSQL

ASSUME AuthAssumption ==
  /\ OrgAccounts \subseteq Accounts
  /\ NoAccount \notin Accounts
  /\ NoSignIn \notin SignIns
  /\ XsrfLife \in Nat /\ CodeLife \in Nat /\ TokenLife \in Nat
  /\ MaxNow \in Nat /\ MaxUserId \in Nat

VARIABLES
  now,        \* the clock
  stage,      \* sign-in -> how far its tab has come
  browser,    \* sign-in -> the browser it runs in
  started,    \* sign-in -> when GET /auth/authorize set its cookie
  account,    \* sign-in -> who consented at Google
  cookie,     \* browser -> the sign-ins, at most one, its xsrf-token is of
  codes,      \* the codes the callback has handed out: [signIn, expires]
  spent,      \* the sign-ins whose Google code has been exchanged
  step,       \* post -> its next step, or the status it was answered with
  grant,      \* post -> the sign-in of the code it presents
  verifier,   \* post -> the sign-in of the PKCE verifier it presents
  subject,    \* post -> the account Google's token names
  token,      \* post -> what its access token carries: [id, expires]
  users,      \* the table: id -> account
  lastUser    \* the last value of its sequence

tabVars == <<stage, browser, started, account, cookie>>
postVars == <<step, grant, verifier, subject, token>>
tableVars == <<users, lastUser>>
vars == <<now, tabVars, codes, spent, postVars, tableVars>>

NoToken == [id |-> 0, expires |-> 0]

Init ==
  /\ now = 0
  /\ stage = [f \in SignIns |-> "new"]
  /\ browser \in [SignIns -> Browsers]
  /\ started = [f \in SignIns |-> 0]
  /\ account = [f \in SignIns |-> NoAccount]
  /\ cookie = [b \in Browsers |-> {}]
  /\ codes = {} /\ spent = {}
  /\ step = [p \in Posts |-> "idle"]
  /\ grant = [p \in Posts |-> NoSignIn]
  /\ verifier = [p \in Posts |-> NoSignIn]
  /\ subject = [p \in Posts |-> NoAccount]
  /\ token = [p \in Posts |-> NoToken]
  /\ users = [i \in {} |-> NoAccount] /\ lastUser = 0

Tick ==
  /\ now < MaxNow
  /\ now' = now + 1
  /\ UNCHANGED <<tabVars, codes, spent, postVars, tableVars>>

-----------------------------------------------------------------------------
\* GET /auth/authorize

Goto(f, s) == stage' = [stage EXCEPT ![f] = s]

\* The answer, whatever its status, carries the headers set so far: logRequest
\* catches the error of a handler and only changes the status.
Store(f) == cookie' = [cookie EXCEPT ![browser[f]] = {f}]

\* Mutant: the token is picked and the cookie set before the parameters are checked.
AuthorizeRefusedWithCookie(f) ==
  /\ stage[f] = "new"
  /\ Goto(f, "refused")
  /\ Store(f)
  /\ UNCHANGED <<now, browser, started, account, codes, spent, postVars, tableVars>>

\* A client_id, response_type or code_challenge that is missing or not accepted:
\* 422, or a redirect with the error.  No cookie is set.
AuthorizeRefused(f) ==
  /\ stage[f] = "new"
  /\ Goto(f, "refused")
  /\ UNCHANGED <<now, browser, started, account, cookie, codes, spent, postVars, tableVars>>

\* The handler picks the token and stamps the cookie's expiry, then waits for
\* Google's configuration.
Authorize(f) ==
  /\ stage[f] = "new"
  /\ Goto(f, "authorizing")
  /\ started' = [started EXCEPT ![f] = now]
  /\ UNCHANGED <<now, browser, account, cookie, codes, spent, postVars, tableVars>>

\* Google's configuration cannot be fetched: 500, and the cookie all the same.
AuthorizeFails(f) ==
  /\ stage[f] = "authorizing"
  /\ Goto(f, "failed")
  /\ Store(f)
  /\ UNCHANGED <<now, browser, started, account, codes, spent, postVars, tableVars>>

\* The browser receives the answer: it replaces the cookie and goes to Google.
\* The answers of two sign-ins arrive in any order.
Redirect(f) ==
  /\ stage[f] = "authorizing"
  /\ Goto(f, "atGoogle")
  /\ Store(f)
  /\ UNCHANGED <<now, browser, started, account, codes, spent, postVars, tableVars>>

\* Google sends the browser back with a code for whoever consented; a user who
\* declines comes back without one.
Consent(f, a) ==
  /\ stage[f] = "atGoogle"
  /\ Goto(f, "back")
  /\ account' = [account EXCEPT ![f] = a]
  /\ UNCHANGED <<now, browser, started, cookie, codes, spent, postVars, tableVars>>

-----------------------------------------------------------------------------
\* GET /auth/cb/google

\* Mutant: a cookie of the session, without maxAge.
CookieSentForEver(f) == cookie[browser[f]]

\* The cookie the browser sends: none once it has expired.
CookieSent(f) == { g \in cookie[browser[f]] : now < started[g] + XsrfLife }

CodeFor(f) == [signIn |-> f, expires |-> now + CodeLife]

\* The state that comes back names the sign-in; the cookie must name it too.
\* Nothing marks the callback as used: it can be reloaded.
Callback(f) ==
  /\ stage[f] \in {"back", "coded"}
  /\ f \in CookieSent(f)
  /\ codes' = codes \cup {CodeFor(f)}
  /\ Goto(f, "coded")
  /\ UNCHANGED <<now, browser, started, account, cookie, spent, postVars, tableVars>>

CallbackRefused(f) ==
  /\ stage[f] \in {"back", "coded"}
  /\ f \notin CookieSent(f)
  /\ Goto(f, "turnedAway")
  /\ UNCHANGED <<now, browser, started, account, cookie, codes, spent, postVars, tableVars>>

-----------------------------------------------------------------------------
\* POST /auth/token

Answer(p, s) == step' = [step EXCEPT ![p] = s]

\* Mutant: any verifier goes with any challenge.
VerifierMatchesAny(c, v) == v \in SignIns

VerifierMatches(c, v) == v = c.signIn

\* A tab presents a code its browser was handed with the verifier of one of the
\* sign-ins of that browser: its own, or that of another tab if they share it.
\* A parameter that is missing or wrong is refused like a bad code.
Verify(p, c, v) ==
  /\ step[p] = "idle"
  /\ browser[v] = browser[c.signIn]
  /\ grant' = [grant EXCEPT ![p] = c.signIn]
  /\ verifier' = [verifier EXCEPT ![p] = v]
  /\ \/ /\ now < c.expires /\ VerifierMatches(c, v)
        /\ Answer(p, "exchange")
     \/ Answer(p, "422")
  /\ UNCHANGED <<now, tabVars, codes, spent, subject, token, tableVars>>

\* Google knows the code and gives it out for the first time.
Exchangeable(p) == account[grant[p]] # NoAccount /\ grant[p] \notin spent

\* Mutant: whoever Google knows may come in.
GoogleTokenAcceptedAll(a) == a \in Accounts

\* verifyGoogleTokenValues: the "hd" asked for when redirecting is only a hint.
GoogleTokenAccepted(a) == a \in OrgAccounts

\* exchangeAuthorizationCode, and the check of what it returns.
Exchange(p) ==
  /\ step[p] = "exchange"
  /\ Exchangeable(p)
  /\ spent' = spent \cup {grant[p]}
  /\ subject' = [subject EXCEPT ![p] = account[grant[p]]]
  /\ Answer(p, IF GoogleTokenAccepted(account[grant[p]]) THEN "upsert" ELSE "422")
  /\ UNCHANGED <<now, tabVars, codes, grant, verifier, token, tableVars>>

\* Google cannot be reached, or refuses the code (used, expired, or never given):
\* axios throws and Koa answers 500.
ExchangeFails(p) ==
  /\ step[p] = "exchange"
  /\ Answer(p, "500")
  /\ UNCHANGED <<now, tabVars, codes, spent, grant, verifier, subject, token, tableVars>>

\* The answer is lost after Google has used the code up.
ExchangeUnconfirmed(p) ==
  /\ step[p] = "exchange"
  /\ Exchangeable(p)
  /\ spent' = spent \cup {grant[p]}
  /\ Answer(p, "500")
  /\ UNCHANGED <<now, tabVars, codes, grant, verifier, subject, token, tableVars>>

IdOf(table, a) == CHOOSE i \in DOMAIN table : table[i] = a

Known(a) == \E i \in DOMAIN users : users[i] = a

WithUser(i, a) == [j \in DOMAIN users \cup {i} |-> IF j = i THEN a ELSE users[j]]

\* Mutants: an insert without ON CONFLICT; one that replaces the row.
MergedAlwaysNew(a) == WithUser(lastUser + 1, a)
MergedReplacing(a) ==
  [j \in {i \in DOMAIN users : users[i] # a} \cup {lastUser + 1} |->
     IF j = lastUser + 1 THEN a ELSE users[j]]

\* INSERT ... ON CONFLICT ("provider", "providerId") DO UPDATE.  The row that is
\* there keeps its id; the id drawn for the insert is lost.
Merged(a) == IF Known(a) THEN users ELSE WithUser(lastUser + 1, a)

\* upsertUser: the sequence is read first, so at its end nobody signs in.
ApplyUpsert(p) ==
  /\ lastUser < MaxUserId
  /\ lastUser' = lastUser + 1
  /\ users' = Merged(subject[p])

Upsert(p) ==
  /\ step[p] = "upsert"
  /\ ApplyUpsert(p)
  /\ token' = [token EXCEPT ![p] = [id |-> IdOf(users', subject[p]), expires |-> now + TokenLife]]
  /\ Answer(p, "200")
  /\ UNCHANGED <<now, tabVars, codes, spent, grant, verifier, subject>>

UpsertFails(p) ==
  /\ step[p] = "upsert"
  /\ Answer(p, "500")
  /\ UNCHANGED <<now, tabVars, codes, spent, grant, verifier, subject, token, tableVars>>

UpsertUnconfirmed(p) ==
  /\ step[p] = "upsert"
  /\ ApplyUpsert(p)
  /\ Answer(p, "500")
  /\ UNCHANGED <<now, tabVars, codes, spent, grant, verifier, subject, token>>

-----------------------------------------------------------------------------
Next ==
  \/ Tick
  \/ \E f \in SignIns :
       \/ AuthorizeRefused(f) \/ Authorize(f) \/ AuthorizeFails(f) \/ Redirect(f)
       \/ \E a \in Accounts \cup {NoAccount} : Consent(f, a)
       \/ Callback(f) \/ CallbackRefused(f)
  \/ \E p \in Posts :
       \/ \E c \in codes, v \in SignIns : Verify(p, c, v)
       \/ Exchange(p) \/ ExchangeFails(p) \/ ExchangeUnconfirmed(p)
       \/ Upsert(p) \/ UpsertFails(p) \/ UpsertUnconfirmed(p)

Spec == Init /\ [][Next]_vars

-----------------------------------------------------------------------------
(***************************************************************************)
(* Requests to the API.  Every operation lists who may call it, and        *)
(* requireAuth tries the checkers in order (src/middleware/auth.js,        *)
(* src/openapi/securitySchemes.js); none keeps state, so what they answer  *)
(* is a function of the header and the moment.                             *)
(***************************************************************************)
AccessTokens == {token[p] : p \in {q \in Posts : step[q] = "200"}}

\* Codes and access tokens are signed with one key, and nothing in them says which
\* is which.
SignedJwts == AccessTokens \cup codes

Headers ==
  [kind : {"none", "key"}, jwt : {NoToken}] \cup [kind : {"bearer"}, jwt : SignedJwts]

\* verifyAccessToken asks for a signature and for a moment before the expiry.
CheckUserAuth(h) == h.kind = "bearer" /\ now < h.jwt.expires

CheckServerAuth(h) == h.kind = "key"

\* Mutant: the transitions of the feed accept the scheduler's key too.
SchemesOfAnyone(op) == {"oauth", "internal"}

\* The security of each operation (src/routers/cases.js:223, 279, 402, 473, 622;
\* src/routers/feed.js:28, 56, 199; src/routers/profiles.js:15).
SchemesOf(op) ==
  CASE op \in {"createCase", "listFeedItems"} -> {"oauth", "internal"}
    [] op = "refreshFeeds" -> {"internal"}
    [] op \in {"readCases", "updateCase", "getCurrentUserProfile", "triageItem"} -> {"oauth"}

RequireAuth(op, h) ==
  \/ "oauth" \in SchemesOf(op) /\ CheckUserAuth(h)
  \/ "internal" \in SchemesOf(op) /\ CheckServerAuth(h)

\* The operations whose handlers read ctx.state.auth.
UserOperations == {"getCurrentUserProfile", "triageItem"}

-----------------------------------------------------------------------------
Stages == {"new", "refused", "authorizing", "failed", "atGoogle", "back", "coded", "turnedAway"}
Steps == {"idle", "exchange", "upsert", "200", "422", "500"}

\* Ids come from the sequence, and codes and answers belong to sign-ins that
\* were started.
TypeOK ==
  /\ now \in 0..MaxNow
  /\ stage \in [SignIns -> Stages]
  /\ browser \in [SignIns -> Browsers]
  /\ started \in [SignIns -> 0..MaxNow]
  /\ account \in [SignIns -> Accounts \cup {NoAccount}]
  /\ cookie \in [Browsers -> SUBSET SignIns]
  /\ codes \subseteq [signIn : SignIns, expires : Nat]
  /\ spent \subseteq SignIns
  /\ step \in [Posts -> Steps]
  /\ grant \in [Posts -> SignIns \cup {NoSignIn}]
  /\ verifier \in [Posts -> SignIns \cup {NoSignIn}]
  /\ subject \in [Posts -> Accounts \cup {NoAccount}]
  /\ token \in [Posts -> [id : 0..MaxUserId, expires : Nat]]
  /\ lastUser \in 0..MaxUserId
  /\ DOMAIN users \subseteq 1..lastUser
  /\ users \in [DOMAIN users -> OrgAccounts]

\* However sign-ins of one browser and of several mix, an access token names
\* the account that consented in the sign-in whose verifier was presented, by
\* the id its row has now, and that account is one of the observatory's.
TokenNamesWhoConsented ==
  \A p \in Posts : step[p] = "200" =>
    /\ token[p].id \in DOMAIN users
    /\ users[token[p].id] = account[verifier[p]]
    /\ account[verifier[p]] \in OrgAccounts

\* Two first logins of one account, at once or after failures, are one user.
OneUserPerAccount ==
  \A i, j \in DOMAIN users : users[i] = users[j] => i = j

\* A user keeps its id, which feedItems.assignedUserId and the tokens in
\* circulation refer to, through every later login.
UsersKeepTheirIds ==
  [][\A i \in DOMAIN users : i \in DOMAIN users' /\ users'[i] = users[i]]_vars

\* Reloading the callback gives out code after code, each with a life of its
\* own; none the less a sign-in that was left half way dies: no code outlives
\* the start of its sign-in by more than the two lives together.
CodesEndWithTheirSignIn ==
  \A c \in codes : c.expires < started[c.signIn] + XsrfLife + CodeLife

\* The sign-ins whose authorization was answered with a cookie.
Answered == {"failed", "atGoogle", "back", "coded", "turnedAway"}

\* A browser that comes back from Google in time is turned away only because a
\* later answer to another sign-in, a failed one included, took its cookie: those
\* that were refused, those still waiting for Google's configuration and those of
\* other browsers do it no harm.
TurnedAwayOnlyIfOvertaken ==
  \A f \in SignIns : stage[f] = "turnedAway" /\ now < started[f] + XsrfLife =>
    \E g \in cookie[browser[f]] : g # f /\ stage[g] \in Answered

\* What runs an operation that reads the user of the request is left by a sign-in,
\* never the scheduler's key: an access token, whose id is that of a row of the
\* table, or a code.  A code names no user, and stands in for a token no longer
\* than its sign-in could have lasted.
UserOperationsComeFromSignIns ==
  \A op \in UserOperations, h \in Headers : RequireAuth(op, h) =>
    \/ h.jwt \in AccessTokens /\ h.jwt.id \in DOMAIN users
    \/ h.jwt \in codes /\ now < started[h.jwt.signIn] + XsrfLife + CodeLife
=============================================================================
