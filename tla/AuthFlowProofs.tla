---------------------------- MODULE AuthFlowProofs ----------------------------
(***************************************************************************)
(* Theorems about AuthFlow, for any sign-ins, browsers, accounts, lives    *)
(* and clocks.                                                             *)
(***************************************************************************)
EXTENDS AuthFlow, TLAPS

\* A code is of a sign-in whose account and start are settled.
CodesInv ==
  \A c \in codes :
    /\ stage[c.signIn] \in {"coded", "turnedAway"}
    /\ c.expires < started[c.signIn] + XsrfLife + CodeLife

\* A cookie is of a sign-in of that browser whose answer has arrived; once one
\* has arrived there is always a cookie.
CookieInv ==
  /\ \A b \in Browsers : \A f \in cookie[b] : browser[f] = b /\ stage[f] \in Answered
  /\ \A f \in SignIns : stage[f] \in Answered => cookie[browser[f]] # {}
  /\ \A f \in SignIns : stage[f] = "turnedAway" /\ now < started[f] + XsrfLife
                          => f \notin cookie[browser[f]]

\* What a post holds at each step.
PostInv(p) ==
  /\ step[p] \in {"exchange", "upsert", "200"} =>
       /\ grant[p] \in SignIns
       /\ verifier[p] = grant[p]
       /\ stage[grant[p]] \in {"coded", "turnedAway"}
  /\ step[p] \in {"upsert", "200"} =>
       subject[p] = account[grant[p]] /\ subject[p] \in OrgAccounts
  /\ step[p] = "200" => token[p].id \in DOMAIN users /\ users[token[p].id] = subject[p]

AuthInv ==
  /\ TypeOK
  /\ CodesInv
  /\ CookieInv
  /\ OneUserPerAccount
  /\ \A p \in Posts : PostInv(p)

-----------------------------------------------------------------------------
LEMMA Initially == Init => AuthInv
<1> SUFFICES ASSUME Init PROVE AuthInv
  OBVIOUS
<1> USE AuthAssumption DEF Init
<1>1. TypeOK
  BY DEF TypeOK, Stages, Steps, NoToken
<1>2. CodesInv /\ CookieInv
  BY DEF CodesInv, CookieInv, Answered
<1>3. OneUserPerAccount /\ \A p \in Posts : PostInv(p)
  BY DEF OneUserPerAccount, PostInv
<1> QED
  BY <1>1, <1>2, <1>3 DEF AuthInv

\* A tab that moves to a later stage, before it has a code, disturbs no code and
\* no post.
LEMMA TabMoves ==
  ASSUME AuthInv, NEW f \in SignIns,
         stage[f] \notin {"coded", "turnedAway"},
         NEW s \in Stages, stage' = [stage EXCEPT ![f] = s],
         \A g \in SignIns \ {f} : account'[g] = account[g] /\ started'[g] = started[g],
         UNCHANGED <<codes, postVars, tableVars>>
  PROVE  CodesInv' /\ OneUserPerAccount' /\ \A p \in Posts : PostInv(p)'
<1>1. \A g \in SignIns : stage[g] \in {"coded", "turnedAway"} =>
        g # f /\ stage'[g] = stage[g] /\ account'[g] = account[g] /\ started'[g] = started[g]
  BY DEF AuthInv, TypeOK
<1>2. CodesInv'
  BY <1>1 DEF AuthInv, TypeOK, CodesInv
<1>3. OneUserPerAccount'
  BY DEF AuthInv, OneUserPerAccount, tableVars
<1>4. ASSUME NEW p \in Posts PROVE PostInv(p)'
  BY <1>1 DEF AuthInv, PostInv, postVars, tableVars
<1> QED
  BY <1>2, <1>3, <1>4

\* A step of a post that leaves tabs and codes alone.
LEMMA TabsRest ==
  ASSUME AuthInv, UNCHANGED <<now, tabVars, codes>>
  PROVE  CodesInv' /\ CookieInv'
BY DEF AuthInv, CodesInv, CookieInv, tabVars

LEMMA OthersRest ==
  ASSUME AuthInv, NEW p \in Posts, NEW q \in Posts, q # p,
         UNCHANGED <<tabVars, tableVars>>,
         step'[q] = step[q], grant'[q] = grant[q], verifier'[q] = verifier[q],
         subject'[q] = subject[q], token'[q] = token[q]
  PROVE  PostInv(q)'
BY DEF AuthInv, PostInv, tabVars, tableVars

LEMMA TickKeeps == AuthInv /\ Tick => AuthInv'
<1> SUFFICES ASSUME AuthInv, Tick PROVE AuthInv'
  OBVIOUS
<1> USE AuthAssumption DEF Tick, tabVars, postVars, tableVars
<1>1. TypeOK'
  BY DEF AuthInv, TypeOK
<1>2. CodesInv' /\ OneUserPerAccount' /\ \A p \in Posts : PostInv(p)'
  BY DEF AuthInv, CodesInv, OneUserPerAccount, PostInv
<1>3. CookieInv'
  <2>1. \A f \in SignIns : now' < started'[f] + XsrfLife => now < started[f] + XsrfLife
    BY DEF AuthInv, TypeOK
  <2> QED
    BY <2>1 DEF AuthInv, CookieInv
<1> QED
  BY <1>1, <1>2, <1>3 DEF AuthInv

LEMMA AuthorizeKeeps ==
  ASSUME NEW f \in SignIns
  PROVE  AuthInv /\ (AuthorizeRefused(f) \/ Authorize(f)) => AuthInv'
<1> SUFFICES ASSUME AuthInv, AuthorizeRefused(f) \/ Authorize(f) PROVE AuthInv'
  OBVIOUS
<1> USE AuthAssumption
<1>1. /\ stage[f] = "new"
      /\ \E s \in {"refused", "authorizing"} : stage' = [stage EXCEPT ![f] = s]
      /\ cookie' = cookie
      /\ UNCHANGED <<now, browser, account, codes, spent, postVars, tableVars>>
      /\ started' \in [SignIns -> 0..MaxNow]
      /\ \A g \in SignIns \ {f} : started'[g] = started[g]
  <2> USE DEF AuthInv, TypeOK, Goto
  <2>1. CASE AuthorizeRefused(f)
    BY <2>1 DEF AuthorizeRefused
  <2>2. CASE Authorize(f)
    BY <2>2 DEF Authorize
  <2> QED
    BY <2>1, <2>2
<1>2. TypeOK'
  <2>1. stage' \in [SignIns -> Stages]
    BY <1>1 DEF AuthInv, TypeOK, Stages
  <2> QED
    BY <1>1, <2>1 DEF AuthInv, TypeOK, postVars, tableVars
<1>3. CodesInv' /\ OneUserPerAccount' /\ \A p \in Posts : PostInv(p)'
  BY <1>1, TabMoves DEF Stages
<1>4. CookieInv'
  <2>1. \A g \in SignIns : g # f => stage'[g] = stage[g] /\ started'[g] = started[g]
    BY <1>1 DEF AuthInv, TypeOK
  <2>2. stage[f] \notin Answered /\ stage'[f] \notin Answered
    BY <1>1 DEF AuthInv, TypeOK, Answered
  <2>3. \A b \in Browsers : cookie[b] \subseteq SignIns
    BY DEF AuthInv, TypeOK
  <2> QED
    BY <1>1, <2>1, <2>2, <2>3 DEF AuthInv, CookieInv, Answered
<1> QED
  BY <1>2, <1>3, <1>4 DEF AuthInv

\* An answer that brings a cookie: the redirect, or the 500 of a failure.
LEMMA AnswerKeeps ==
  ASSUME NEW f \in SignIns
  PROVE  AuthInv /\ (Redirect(f) \/ AuthorizeFails(f)) => AuthInv'
<1> SUFFICES ASSUME AuthInv, Redirect(f) \/ AuthorizeFails(f) PROVE AuthInv'
  OBVIOUS
<1>0. /\ stage[f] = "authorizing"
      /\ \E s \in {"atGoogle", "failed"} : stage' = [stage EXCEPT ![f] = s]
      /\ cookie' = [cookie EXCEPT ![browser[f]] = {f}]
      /\ UNCHANGED <<now, browser, started, account, codes, spent, postVars, tableVars>>
  BY DEF Redirect, AuthorizeFails, Goto, Store
<1>1. TypeOK'
  BY <1>0 DEF AuthInv, TypeOK, Stages, postVars, tableVars
<1>2. CodesInv' /\ OneUserPerAccount' /\ \A p \in Posts : PostInv(p)'
  BY <1>0, TabMoves DEF Stages
<1>3. CookieInv'
  <2>1. /\ browser[f] \in Browsers
        /\ stage'[f] \in {"atGoogle", "failed"} /\ cookie'[browser[f]] = {f}
    BY <1>0 DEF AuthInv, TypeOK
  <2>2. \A g \in SignIns : g # f => stage'[g] = stage[g]
    BY <1>0 DEF AuthInv, TypeOK
  <2>3. \A b \in Browsers : /\ cookie[b] \subseteq SignIns
                            /\ b # browser[f] => cookie'[b] = cookie[b]
    BY <1>0 DEF AuthInv, TypeOK
  <2>4. \A g \in SignIns : browser[g] \in Browsers
    BY <1>0 DEF AuthInv, TypeOK
  <2>5. \A b \in Browsers : \A g \in cookie'[b] : browser'[g] = b /\ stage'[g] \in Answered
    BY <1>0, <2>1, <2>2, <2>3 DEF AuthInv, CookieInv, Answered
  <2>6. \A g \in SignIns : stage'[g] \in Answered => cookie'[browser'[g]] # {}
    BY <1>0, <2>1, <2>2, <2>3, <2>4 DEF AuthInv, CookieInv
  <2>7. \A g \in SignIns : stage'[g] = "turnedAway" /\ now' < started'[g] + XsrfLife
                             => g \notin cookie'[browser'[g]]
    BY <1>0, <2>1, <2>2, <2>3, <2>4 DEF AuthInv, CookieInv
  <2> QED
    BY <2>5, <2>6, <2>7 DEF CookieInv
<1> QED
  BY <1>1, <1>2, <1>3 DEF AuthInv

LEMMA ConsentKeeps ==
  ASSUME NEW f \in SignIns, NEW a \in Accounts \cup {NoAccount}
  PROVE  AuthInv /\ Consent(f, a) => AuthInv'
<1> SUFFICES ASSUME AuthInv, Consent(f, a) PROVE AuthInv'
  OBVIOUS
<1> USE DEF Consent, Goto
<1>1. TypeOK'
  BY DEF AuthInv, TypeOK, Stages, postVars, tableVars
<1>2. \A g \in SignIns \ {f} : account'[g] = account[g] /\ started'[g] = started[g]
  BY DEF AuthInv, TypeOK
<1>3. CodesInv' /\ OneUserPerAccount' /\ \A p \in Posts : PostInv(p)'
  BY <1>2, TabMoves DEF Stages
<1>4. CookieInv'
  <2>1. /\ \A g \in SignIns : g # f => stage'[g] = stage[g]
        /\ stage[f] \in Answered /\ stage'[f] = "back"
    BY DEF AuthInv, TypeOK, Answered
  <2>2. \A b \in Browsers : cookie[b] \subseteq SignIns
    BY DEF AuthInv, TypeOK
  <2> QED
    BY <2>1, <2>2 DEF AuthInv, CookieInv, Answered
<1> QED
  BY <1>1, <1>3, <1>4 DEF AuthInv

LEMMA CallbackKeeps ==
  ASSUME NEW f \in SignIns
  PROVE  AuthInv /\ (Callback(f) \/ CallbackRefused(f)) => AuthInv'
<1> SUFFICES ASSUME AuthInv, Callback(f) \/ CallbackRefused(f) PROVE AuthInv'
  OBVIOUS
<1> USE AuthAssumption
<1>1. /\ stage[f] \in {"back", "coded"}
      /\ stage' = [stage EXCEPT ![f] = IF Callback(f) THEN "coded" ELSE "turnedAway"]
      /\ codes' = IF Callback(f) THEN codes \cup {CodeFor(f)} ELSE codes
      /\ Callback(f) => f \in CookieSent(f)
      /\ ~Callback(f) => f \notin CookieSent(f)
      /\ UNCHANGED <<now, browser, started, account, cookie, spent, postVars, tableVars>>
  BY DEF Callback, CallbackRefused, Goto
<1>2. /\ \A g \in SignIns : g # f => stage'[g] = stage[g]
      /\ stage'[f] = IF Callback(f) THEN "coded" ELSE "turnedAway"
  BY <1>1 DEF AuthInv, TypeOK
<1>3. /\ CodeFor(f) \in [signIn : SignIns, expires : Nat]
      /\ CodeFor(f).signIn = f /\ CodeFor(f).expires = now + CodeLife
  BY DEF AuthInv, TypeOK, CodeFor
<1>4. TypeOK'
  BY <1>1, <1>3 DEF AuthInv, TypeOK, Stages, postVars, tableVars
<1>5. CodesInv'
  <2>1. ASSUME NEW c \in codes
        PROVE  /\ stage'[c.signIn] \in {"coded", "turnedAway"}
               /\ c.expires < started'[c.signIn] + XsrfLife + CodeLife
    <3>1. c.signIn \in SignIns
      BY DEF AuthInv, TypeOK
    <3> QED
      BY <1>1, <1>2, <3>1 DEF AuthInv, CodesInv
  <2>2. CASE Callback(f)
    <3>1. now < started[f] + XsrfLife /\ started[f] \in Nat /\ now \in Nat
      BY <1>1, <2>2 DEF CookieSent, AuthInv, TypeOK
    <3>2. now + CodeLife < started[f] + XsrfLife + CodeLife
      BY <3>1
    <3>3. \A c \in codes' : c \in codes \/ c = CodeFor(f)
      BY <1>1
    <3> QED
      BY <1>1, <1>2, <1>3, <2>1, <2>2, <3>2, <3>3 DEF CodesInv
  <2>3. CASE ~Callback(f)
    BY <1>1, <2>1, <2>3 DEF CodesInv
  <2> QED
    BY <2>2, <2>3
<1>6. CookieInv'
  <2>1. stage[f] \in Answered /\ stage'[f] \in Answered
    BY <1>1, <1>2 DEF Answered
  <2>2. \A b \in Browsers : cookie[b] \subseteq SignIns
    BY DEF AuthInv, TypeOK
  <2>3. stage'[f] = "turnedAway" /\ now < started[f] + XsrfLife => f \notin cookie[browser[f]]
    BY <1>1, <1>2 DEF CookieSent
  <2> QED
    BY <1>1, <1>2, <2>1, <2>2, <2>3 DEF AuthInv, CookieInv
<1>7. OneUserPerAccount'
  BY <1>1 DEF AuthInv, OneUserPerAccount, tableVars
<1>8. ASSUME NEW p \in Posts PROVE PostInv(p)'
  BY <1>1, <1>2 DEF AuthInv, PostInv, postVars, tableVars
<1> QED
  BY <1>4, <1>5, <1>6, <1>7, <1>8 DEF AuthInv

-----------------------------------------------------------------------------
\* Posts.  Each step changes what one post holds and leaves the tabs alone.

LEMMA VerifyKeeps ==
  ASSUME NEW p \in Posts, NEW c \in codes, NEW v \in SignIns
  PROVE  AuthInv /\ Verify(p, c, v) => AuthInv'
<1> SUFFICES ASSUME AuthInv, Verify(p, c, v) PROVE AuthInv'
  OBVIOUS
<1>1. c.signIn \in SignIns /\ stage[c.signIn] \in {"coded", "turnedAway"}
  BY DEF AuthInv, TypeOK, CodesInv
<1>2. /\ grant' = [grant EXCEPT ![p] = c.signIn]
      /\ verifier' = [verifier EXCEPT ![p] = v]
      /\ \/ v = c.signIn /\ step' = [step EXCEPT ![p] = "exchange"]
         \/ step' = [step EXCEPT ![p] = "422"]
      /\ UNCHANGED <<now, tabVars, codes, spent, subject, token, tableVars>>
  BY DEF Verify, VerifierMatches, Answer
<1>3. TypeOK'
  BY <1>1, <1>2 DEF AuthInv, TypeOK, Steps, tabVars, tableVars
<1>4. CodesInv' /\ CookieInv'
  BY <1>2, TabsRest
<1>5. OneUserPerAccount'
  BY <1>2 DEF AuthInv, OneUserPerAccount, tableVars
<1>6. ASSUME NEW q \in Posts PROVE PostInv(q)'
  <2>1. CASE q # p
    BY <1>2, <2>1, OthersRest DEF AuthInv, TypeOK
  <2>2. CASE q = p
    BY <1>1, <1>2, <2>2 DEF AuthInv, TypeOK, PostInv, tabVars
  <2> QED
    BY <2>1, <2>2
<1> QED
  BY <1>3, <1>4, <1>5, <1>6 DEF AuthInv

\* A post that ends without a token.
LEMMA PostEnds ==
  ASSUME AuthInv, NEW p \in Posts, NEW s \in {"422", "500"},
         step' = [step EXCEPT ![p] = s],
         subject' \in [Posts -> Accounts \cup {NoAccount}],
         \A q \in Posts \ {p} : subject'[q] = subject[q],
         spent' \subseteq SignIns,
         UNCHANGED <<now, tabVars, codes, grant, verifier, token, tableVars>>
  PROVE  AuthInv'
<1>1. TypeOK'
  BY DEF AuthInv, TypeOK, Steps, tabVars, tableVars
<1>2. CodesInv' /\ CookieInv'
  BY TabsRest
<1>3. OneUserPerAccount'
  BY DEF AuthInv, OneUserPerAccount, tableVars
<1>4. ASSUME NEW q \in Posts PROVE PostInv(q)'
  <2>1. CASE q # p
    BY <2>1, OthersRest DEF AuthInv, TypeOK
  <2>2. CASE q = p
    BY <2>2 DEF AuthInv, TypeOK, PostInv
  <2> QED
    BY <2>1, <2>2
<1> QED
  BY <1>1, <1>2, <1>3, <1>4 DEF AuthInv

LEMMA ExchangeKeeps ==
  ASSUME NEW p \in Posts
  PROVE  AuthInv /\ Exchange(p) => AuthInv'
<1> SUFFICES ASSUME AuthInv, Exchange(p) PROVE AuthInv'
  OBVIOUS
<1> USE AuthAssumption
<1>1. PostInv(p) /\ step[p] = "exchange"
  BY DEF AuthInv, Exchange
<1>2. grant[p] \in SignIns /\ account[grant[p]] \in Accounts \cup {NoAccount}
  BY <1>1 DEF AuthInv, TypeOK, PostInv
<1>3. /\ spent' \subseteq SignIns
      /\ subject' = [subject EXCEPT ![p] = account[grant[p]]]
      /\ subject' \in [Posts -> Accounts \cup {NoAccount}]
      /\ UNCHANGED <<now, tabVars, codes, grant, verifier, token, tableVars>>
  BY <1>2 DEF Exchange, AuthInv, TypeOK
<1>4. CASE account[grant[p]] \notin OrgAccounts
  <2>1. step' = [step EXCEPT ![p] = "422"]
    BY <1>4 DEF Exchange, Answer, GoogleTokenAccepted
  <2> QED
    BY <1>3, <2>1, PostEnds DEF AuthInv, TypeOK
<1>5. CASE account[grant[p]] \in OrgAccounts
  <2>1. step' = [step EXCEPT ![p] = "upsert"]
    BY <1>5 DEF Exchange, Answer, GoogleTokenAccepted
  <2>2. TypeOK'
    BY <1>3, <2>1 DEF AuthInv, TypeOK, Steps, tabVars, tableVars
  <2>3. CodesInv' /\ CookieInv'
    BY <1>3, TabsRest
  <2>4. OneUserPerAccount'
    BY <1>3 DEF AuthInv, OneUserPerAccount, tableVars
  <2>5. ASSUME NEW q \in Posts PROVE PostInv(q)'
    <3>1. CASE q # p
      BY <1>3, <2>1, <3>1, OthersRest DEF AuthInv, TypeOK
    <3>2. CASE q = p
      BY <1>1, <1>3, <1>5, <2>1, <3>2 DEF AuthInv, TypeOK, PostInv, tabVars
    <3> QED
      BY <3>1, <3>2
  <2> QED
    BY <2>2, <2>3, <2>4, <2>5 DEF AuthInv
<1> QED
  BY <1>4, <1>5

LEMMA FailuresKeep ==
  ASSUME NEW p \in Posts
  PROVE  AuthInv /\ (ExchangeFails(p) \/ ExchangeUnconfirmed(p) \/ UpsertFails(p)) => AuthInv'
<1> SUFFICES ASSUME AuthInv, ExchangeFails(p) \/ ExchangeUnconfirmed(p) \/ UpsertFails(p)
             PROVE  AuthInv'
  OBVIOUS
<1>1. PostInv(p)
  BY DEF AuthInv
<1>2. /\ step' = [step EXCEPT ![p] = "500"]
      /\ spent' \subseteq SignIns
      /\ UNCHANGED <<now, tabVars, codes, grant, verifier, subject, token, tableVars>>
  BY <1>1 DEF ExchangeFails, ExchangeUnconfirmed, UpsertFails, Answer, PostInv, AuthInv, TypeOK
<1> QED
  BY <1>2, PostEnds DEF AuthInv, TypeOK

\* What INSERT ... ON CONFLICT ... DO UPDATE does to the table.
LEMMA UpsertMerges ==
  ASSUME AuthInv, NEW p \in Posts, step[p] = "upsert", ApplyUpsert(p)
  PROVE  /\ lastUser' = lastUser + 1 /\ lastUser' \in 1..MaxUserId
         /\ DOMAIN users' \subseteq 1..lastUser'
         /\ users' \in [DOMAIN users' -> OrgAccounts]
         /\ OneUserPerAccount'
         /\ \A i \in DOMAIN users : i \in DOMAIN users' /\ users'[i] = users[i]
         /\ IdOf(users', subject[p]) \in DOMAIN users'
         /\ users'[IdOf(users', subject[p])] = subject[p]
<1> USE AuthAssumption
<1>1. /\ subject[p] \in OrgAccounts
      /\ lastUser \in Nat /\ lastUser < MaxUserId
      /\ DOMAIN users \subseteq 1..lastUser
      /\ users \in [DOMAIN users -> OrgAccounts]
      /\ OneUserPerAccount
  BY DEF AuthInv, TypeOK, PostInv, ApplyUpsert
<1>2. lastUser' = lastUser + 1 /\ lastUser' \in 1..MaxUserId
  BY <1>1 DEF ApplyUpsert
<1>3. /\ DOMAIN users' \subseteq 1..lastUser'
      /\ users' \in [DOMAIN users' -> OrgAccounts]
      /\ OneUserPerAccount'
      /\ \A i \in DOMAIN users : i \in DOMAIN users' /\ users'[i] = users[i]
      /\ \E i \in DOMAIN users' : users'[i] = subject[p]
  <2>1. CASE Known(subject[p])
    <3>1. users' = users
      BY <2>1 DEF ApplyUpsert, Merged
    <3>2. 1..lastUser \subseteq 1..lastUser'
      BY <1>1, <1>2
    <3>3. \E i \in DOMAIN users : users[i] = subject[p]
      BY <2>1 DEF Known
    <3> QED
      BY <1>1, <3>1, <3>2, <3>3 DEF OneUserPerAccount
  <2>2. CASE ~Known(subject[p])
    <3>1. users' = [j \in DOMAIN users \cup {lastUser + 1} |->
                      IF j = lastUser + 1 THEN subject[p] ELSE users[j]]
      BY <2>2 DEF ApplyUpsert, Merged, WithUser
    <3>2. lastUser + 1 \notin DOMAIN users
      BY <1>1
    <3>3. /\ DOMAIN users' = DOMAIN users \cup {lastUser + 1}
          /\ users'[lastUser + 1] = subject[p]
          /\ \A i \in DOMAIN users : users'[i] = users[i]
      BY <3>1, <3>2
    <3>4. DOMAIN users' \subseteq 1..lastUser'
      BY <1>1, <1>2, <3>3
    <3>5. \A i \in DOMAIN users : users[i] # subject[p]
      BY <2>2 DEF Known
    <3>6. OneUserPerAccount'
      BY <1>1, <3>3, <3>5 DEF OneUserPerAccount
    <3>7. users' \in [DOMAIN users' -> OrgAccounts]
      BY <1>1, <3>1, <3>2
    <3> QED
      BY <3>3, <3>4, <3>6, <3>7
  <2> QED
    BY <2>1, <2>2
<1>4. /\ IdOf(users', subject[p]) \in DOMAIN users'
      /\ users'[IdOf(users', subject[p])] = subject[p]
  BY <1>3 DEF IdOf
<1> QED
  BY <1>2, <1>3, <1>4

LEMMA UpsertKeeps ==
  ASSUME NEW p \in Posts
  PROVE  AuthInv /\ (Upsert(p) \/ UpsertUnconfirmed(p)) => AuthInv'
<1> SUFFICES ASSUME AuthInv, Upsert(p) \/ UpsertUnconfirmed(p) PROVE AuthInv'
  OBVIOUS
<1> USE AuthAssumption
<1>1. /\ step[p] = "upsert" /\ ApplyUpsert(p)
      /\ UNCHANGED <<now, tabVars, codes, spent, grant, verifier, subject>>
  BY DEF Upsert, UpsertUnconfirmed
<1>2. /\ lastUser' \in 1..MaxUserId
      /\ DOMAIN users' \subseteq 1..lastUser'
      /\ users' \in [DOMAIN users' -> OrgAccounts]
      /\ OneUserPerAccount'
      /\ \A i \in DOMAIN users : i \in DOMAIN users' /\ users'[i] = users[i]
      /\ IdOf(users', subject[p]) \in DOMAIN users'
      /\ users'[IdOf(users', subject[p])] = subject[p]
  BY <1>1, UpsertMerges
<1>3. CodesInv' /\ CookieInv'
  BY <1>1, TabsRest
<1>4. \/ /\ step' = [step EXCEPT ![p] = "500"]
         /\ token' = token
      \/ /\ step' = [step EXCEPT ![p] = "200"]
         /\ token' = [token EXCEPT ![p] = [id |-> IdOf(users', subject[p]),
                                           expires |-> now + TokenLife]]
  BY DEF Upsert, UpsertUnconfirmed, Answer
<1>5. [id |-> IdOf(users', subject[p]), expires |-> now + TokenLife]
        \in [id : 0..MaxUserId, expires : Nat]
  <2>1. IdOf(users', subject[p]) \in 0..MaxUserId
    BY <1>2
  <2>2. now + TokenLife \in Nat
    BY DEF AuthInv, TypeOK
  <2> QED
    BY <2>1, <2>2
<1>6. step' \in [Posts -> Steps] /\ token' \in [Posts -> [id : 0..MaxUserId, expires : Nat]]
  BY <1>4, <1>5 DEF AuthInv, TypeOK, Steps
<1>7. TypeOK'
  BY <1>1, <1>2, <1>6 DEF AuthInv, TypeOK, tabVars
<1>8. ASSUME NEW q \in Posts PROVE PostInv(q)'
  <2>1. /\ q # p => step'[q] = step[q] /\ token'[q] = token[q]
        /\ q = p => \/ step'[q] = "500"
                    \/ /\ step'[q] = "200"
                       /\ token'[q].id = IdOf(users', subject[p])
    BY <1>4 DEF AuthInv, TypeOK
  <2>2. PostInv(q)
    BY DEF AuthInv
  <2>3. CASE q # p
    BY <1>1, <1>2, <2>1, <2>2, <2>3 DEF PostInv, tabVars
  <2>4. CASE q = p
    BY <1>1, <1>2, <2>1, <2>2, <2>4 DEF PostInv, tabVars
  <2> QED
    BY <2>3, <2>4
<1> QED
  BY <1>2, <1>3, <1>7, <1>8 DEF AuthInv

-----------------------------------------------------------------------------
LEMMA StutterKeeps == AuthInv /\ UNCHANGED vars => AuthInv'
BY DEF AuthInv, TypeOK, CodesInv, CookieInv, OneUserPerAccount, PostInv,
       vars, tabVars, postVars, tableVars

LEMMA NextKeeps == AuthInv /\ [Next]_vars => AuthInv'
<1> SUFFICES ASSUME AuthInv, [Next]_vars PROVE AuthInv'
  OBVIOUS
<1>1. CASE UNCHANGED vars
  BY <1>1, StutterKeeps
<1>2. CASE Tick
  BY <1>2, TickKeeps
<1>3. ASSUME NEW f \in SignIns,
             \/ AuthorizeRefused(f) \/ Authorize(f) \/ AuthorizeFails(f) \/ Redirect(f)
             \/ \E a \in Accounts \cup {NoAccount} : Consent(f, a)
             \/ Callback(f) \/ CallbackRefused(f)
      PROVE  AuthInv'
  BY <1>3, AuthorizeKeeps, AnswerKeeps, ConsentKeeps, CallbackKeeps
<1>4. ASSUME NEW p \in Posts,
             \/ \E c \in codes, v \in SignIns : Verify(p, c, v)
             \/ Exchange(p) \/ ExchangeFails(p) \/ ExchangeUnconfirmed(p)
             \/ Upsert(p) \/ UpsertFails(p) \/ UpsertUnconfirmed(p)
      PROVE  AuthInv'
  BY <1>4, VerifyKeeps, ExchangeKeeps, FailuresKeep, UpsertKeeps
<1> QED
  BY <1>1, <1>2, <1>3, <1>4 DEF Next

LEMMA AuthInvHolds == Spec => []AuthInv
<1>1. Init => AuthInv
  BY Initially
<1>2. AuthInv /\ [Next]_vars => AuthInv'
  BY NextKeeps
<1> QED
  BY <1>1, <1>2, PTL DEF Spec

\* Ids are of the sequence, and codes and answers of sign-ins that were started.
THEOREM SignInTypes == Spec => []TypeOK
<1>1. AuthInv => TypeOK
  BY DEF AuthInv
<1> QED
  BY <1>1, AuthInvHolds, PTL

\* A token names the account that consented in the sign-in whose verifier was
\* presented, however the tabs of a browser mix their codes and verifiers.
THEOREM TokensNameConsenters == Spec => []TokenNamesWhoConsented
<1>1. AuthInv => TokenNamesWhoConsented
  BY DEF AuthInv, PostInv, TokenNamesWhoConsented
<1> QED
  BY <1>1, AuthInvHolds, PTL

\* An account is one row of users, however many first logins overlap.
THEOREM AccountsAreUsers == Spec => []OneUserPerAccount
<1>1. AuthInv => OneUserPerAccount
  BY DEF AuthInv
<1> QED
  BY <1>1, AuthInvHolds, PTL

\* No code outlives the start of its sign-in by more than the cookie's life and
\* the code's, however often the callback is reloaded.
THEOREM CodesEnd == Spec => []CodesEndWithTheirSignIn
<1>1. AuthInv => CodesEndWithTheirSignIn
  BY DEF AuthInv, CodesInv, CodesEndWithTheirSignIn
<1> QED
  BY <1>1, AuthInvHolds, PTL

\* A callback that comes in time is refused only if the browser has since
\* received the answer to another sign-in.
THEOREM OnlyOvertakenAreTurnedAway == Spec => []TurnedAwayOnlyIfOvertaken
<1>1. ASSUME AuthInv, NEW f \in SignIns, stage[f] = "turnedAway",
             now < started[f] + XsrfLife
      PROVE  \E g \in cookie[browser[f]] :
               g # f /\ stage[g] \in Answered
  <2>1. browser[f] \in Browsers /\ cookie[browser[f]] # {} /\ f \notin cookie[browser[f]]
    BY <1>1 DEF AuthInv, TypeOK, CookieInv, Answered
  <2> QED
    BY <1>1, <2>1 DEF AuthInv, CookieInv, Answered
<1>2. AuthInv => TurnedAwayOnlyIfOvertaken
  BY <1>1 DEF TurnedAwayOnlyIfOvertaken
<1> QED
  BY <1>2, AuthInvHolds, PTL

\* Operations that read the user of the request run for an access token, whose user
\* is in the table, or for the code of a sign-in that was started a short time ago.
THEOREM UserOperationsAreSafe == Spec => []UserOperationsComeFromSignIns
<1>1. ASSUME AuthInv, NEW op \in UserOperations, NEW h \in Headers, RequireAuth(op, h)
      PROVE  \/ h.jwt \in AccessTokens /\ h.jwt.id \in DOMAIN users
             \/ h.jwt \in codes /\ now < started[h.jwt.signIn] + XsrfLife + CodeLife
  <2>1. SchemesOf(op) = {"oauth"}
    BY DEF UserOperations, SchemesOf
  <2>2. "internal" \notin SchemesOf(op)
    BY <2>1
  <2>3. CheckUserAuth(h)
    BY <1>1, <2>2 DEF RequireAuth
  <2>4. h.jwt \in AccessTokens \cup codes /\ now < h.jwt.expires
    BY <2>3 DEF CheckUserAuth, Headers, SignedJwts
  <2>5. CASE h.jwt \in AccessTokens
    BY <1>1, <2>5 DEF AuthInv, PostInv, AccessTokens
  <2>6. CASE h.jwt \in codes
    <3>1. /\ h.jwt.signIn \in SignIns /\ h.jwt.expires \in Nat
          /\ h.jwt.expires < started[h.jwt.signIn] + XsrfLife + CodeLife
      BY <1>1, <2>6 DEF AuthInv, TypeOK, CodesInv
    <3>2. now \in Nat /\ started[h.jwt.signIn] \in Nat
      BY <1>1, <3>1, AuthAssumption DEF AuthInv, TypeOK
    <3> QED
      BY <2>4, <2>6, <3>1, <3>2, AuthAssumption
  <2> QED
    BY <2>4, <2>5, <2>6
<1>2. AuthInv => UserOperationsComeFromSignIns
  BY <1>1 DEF UserOperationsComeFromSignIns
<1> QED
  BY <1>2, AuthInvHolds, PTL

\* No login changes or removes the id of a user.
THEOREM IdsAreKept == Spec => UsersKeepTheirIds
<1>1. ASSUME AuthInv, [Next]_vars
      PROVE  \A i \in DOMAIN users : i \in DOMAIN users' /\ users'[i] = users[i]
  <2>1. CASE UNCHANGED users
    BY <2>1
  <2>2. ASSUME NEW p \in Posts, Upsert(p) \/ UpsertUnconfirmed(p)
        PROVE  \A i \in DOMAIN users : i \in DOMAIN users' /\ users'[i] = users[i]
    BY <1>1, <2>2, UpsertMerges DEF Upsert, UpsertUnconfirmed
  <2>3. \/ UNCHANGED users
        \/ \E p \in Posts : Upsert(p) \/ UpsertUnconfirmed(p)
    BY <1>1 DEF Next, Tick, AuthorizeRefused, Authorize, AuthorizeFails, Redirect, Consent,
                Callback, CallbackRefused, Verify, Exchange, ExchangeFails,
                ExchangeUnconfirmed, UpsertFails, vars, tableVars
  <2> QED
    BY <2>1, <2>2, <2>3
<1>2. AuthInv /\ [Next]_vars =>
        [\A i \in DOMAIN users : i \in DOMAIN users' /\ users'[i] = users[i]]_vars
  BY <1>1
<1> QED
  BY <1>2, AuthInvHolds, PTL DEF Spec, UsersKeepTheirIds
=============================================================================
