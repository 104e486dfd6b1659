--------------------------- MODULE SessionsProofs ---------------------------
(***************************************************************************)
(* What Sessions guarantees for any tabs, users, accounts and supply of    *)
(* tokens: a form is accepted only in the session its page showed.  The    *)
(* argument is that a CSRF token names an identity: of all the sessions    *)
(* that the browser, its pages and its requests hold, no two with the same *)
(* token differ in the operator or the active account.                     *)
(***************************************************************************)
EXTENDS Sessions, TLAPS

Held == {cookie} \cup {page[t] : t \in Tab} \cup {req[t].session : t \in Tab}

TokenNamesIdentity ==
  \A x, y \in Held : x.csrf # None /\ x.csrf = y.csrf => x.op = y.op

OperatorsHaveTokens == \A x \in Held : x.op # Nobody => x.csrf # None

SessionsOK ==
  /\ cookie \in Session /\ page \in [Tab -> Session] /\ req \in [Tab -> Requests]
  /\ TokenNamesIdentity /\ OperatorsHaveTokens

UsersOK ==
  /\ status \in [User -> {"enabled", "disabled", None}]
  /\ members \in [User -> SUBSET Account]
  /\ \A u \in User : status[u] = None => members[u] = {}

-----------------------------------------------------------------------------
\* A new token is one that nobody holds.
LEMMA FreshIsFree ==
  ASSUME Token \ InUse # {}
  PROVE  Fresh \in Token /\ Fresh \notin InUse /\ Fresh # None
<1>1. \E k \in Token : k \notin InUse
  OBVIOUS
<1>2. Fresh \in Token /\ Fresh \notin InUse
  BY <1>1 DEF Fresh
<1> QED
  BY <1>2, NoneIsNothing

LEMMA NoSessionIsSession == NoSession \in Session /\ NoSession.csrf = None /\ NoSession.op = Nobody
  BY DEF NoSession, Session, Operators

\* A step that only passes sessions on keeps what tokens name.
LEMMA PassingOn ==
  ASSUME SessionsOK, Held' \subseteq Held \cup {NoSession},
         cookie' \in Session, page' \in [Tab -> Session], req' \in [Tab -> Requests]
  PROVE  SessionsOK'
<1>1. TokenNamesIdentity'
  BY NoSessionIsSession DEF SessionsOK, TokenNamesIdentity
<1>2. OperatorsHaveTokens'
  BY NoSessionIsSession DEF SessionsOK, OperatorsHaveTokens, Nobody
<1> QED
  BY <1>1, <1>2 DEF SessionsOK

\* A response passes the session of the request on, ends it, or sets one with a token
\* of its own.
LEMMA AnswerKeeps ==
  ASSUME SessionsOK, NEW t \in Tab, NEW s \in Session, NEW answer \in Answers,
         Answer(t, s, answer),
         s \in {req[t].session, NoSession} \/ s.csrf = Fresh
  PROVE  SessionsOK'
<1> USE DEF SessionsOK
<1>1. req' = [req EXCEPT ![t].session = s, ![t].answer = answer]
  BY DEF Answer
<1>2. /\ req' \in [Tab -> Requests] /\ req'[t].session = s
      /\ \A q \in Tab \ {t} : req'[q] = req[q]
  BY <1>1 DEF Requests, Answers
<1>3. Held' \subseteq Held \cup {s}
  BY <1>2 DEF Held, Answer
<1>4. CASE s \in {req[t].session, NoSession}
  <2>1. Held' \subseteq Held \cup {NoSession}
    BY <1>3, <1>4 DEF Held
  <2> QED
    BY <1>2, <2>1, PassingOn DEF Answer
<1>5. CASE s.csrf = Fresh
  <2>1. s.csrf # None /\ s.csrf \notin InUse
    BY <1>5, FreshIsFree DEF Answer
  <2>2. \A x \in Held : x.csrf # s.csrf
    BY <2>1 DEF Held, InUse
  <2>3. TokenNamesIdentity'
    BY <1>3, <2>2 DEF TokenNamesIdentity
  <2>4. OperatorsHaveTokens'
    BY <1>3, <2>1 DEF OperatorsHaveTokens, Nobody
  <2> QED
    BY <1>2, <2>3, <2>4 DEF Answer
<1> QED
  BY <1>4, <1>5

LEMMA RenderKeeps ==
  ASSUME SessionsOK, NEW t \in Tab, Render(t)
  PROVE  SessionsOK'
<1> DEFINE s == [req[t].session EXCEPT !.csrf = IF @ = None THEN Fresh ELSE @]
<1>1. req[t].session \in Session /\ Fresh \in Token
  BY FreshIsFree DEF SessionsOK, Requests, Render, Answer
<1>2. s \in Session /\ (s = req[t].session \/ s.csrf = Fresh)
  BY <1>1 DEF Session
<1>3. Answer(t, s, "page")
  BY DEF Render
<1> HIDE DEF s
<1> QED
  BY <1>2, <1>3, AnswerKeeps DEF Answers

LEMMA NewIdentityKeeps ==
  ASSUME SessionsOK, NEW t \in Tab, NEW op \in Operators, NEW old, NEW answer \in Answers,
         Answer(t, SessionFor(op, old), answer)
  PROVE  SessionsOK'
<1>1. Fresh \in Token
  BY FreshIsFree DEF Answer
<1>2. SessionFor(op, old) \in Session /\ SessionFor(op, old).csrf = Fresh
  BY <1>1 DEF SessionFor, Session
<1> QED
  BY <1>2, AnswerKeeps

-----------------------------------------------------------------------------
\* Users, memberships, sessions and requests stay well typed, nobody who is no user is
\* a member of an account, and the browser never holds an operator without a token.
\* With it: a token names one identity.
LEMMA SessionsInvariant == Spec => [](UsersOK /\ SessionsOK)
<1> USE NoneIsNothing, SpecialUsers
<1>1. Init => UsersOK /\ SessionsOK
  BY NoSessionIsSession
  DEF Init, UsersOK, SessionsOK, Held, TokenNamesIdentity, OperatorsHaveTokens, NoRequest, Requests
<1>2. UsersOK /\ SessionsOK /\ [Next]_vars => UsersOK' /\ SessionsOK'
  <2> SUFFICES ASSUME UsersOK, SessionsOK, [Next]_vars PROVE UsersOK' /\ SessionsOK'
    OBVIOUS
  <2>a. \A t \in Tab : req[t] \in Requests /\ req[t].session \in Session
                       /\ req[t].session.op \in Operators
    BY DEF SessionsOK, Requests, Session
  <2>b. UNCHANGED users => UsersOK'
    BY DEF UsersOK, users
  <2>c. ASSUME NEW u \in User, Changes(u) PROVE UsersOK'
    BY <2>c DEF Changes, SetMembers, SetStatus, UsersOK
  <2>1. ASSUME NEW t \in Tab, Send(t) PROVE UsersOK' /\ SessionsOK'
    <3>1. /\ req' \in [Tab -> Requests] /\ req'[t].session = cookie
          /\ \A q \in Tab \ {t} : req'[q] = req[q]
      BY <2>1 DEF Send, SessionsOK, Requests
    <3>2. Held' \subseteq Held \cup {NoSession}
      BY <2>1, <3>1 DEF Held, Send
    <3> QED
      BY <2>1, <2>b, <3>1, <3>2, PassingOn DEF Send, SessionsOK
  <2>2. ASSUME NEW t \in Tab, Deliver(t) PROVE UsersOK' /\ SessionsOK'
    <3>1. cookie' = req[t].session /\ cookie' \in Session
      BY <2>2, <2>a DEF Deliver
    <3>2. /\ \A q \in Tab : page'[q] \in {page[q], req[t].session, NoSession}
          /\ page' \in [Tab -> Session]
      BY <2>2, <2>a, NoSessionIsSession DEF Deliver, SessionsOK
    <3>3. \A q \in Tab : req'[q] \in Requests /\ req'[q].session \in {req[q].session, NoSession}
      BY <2>2, <2>a, NoSessionIsSession DEF Deliver, NoRequest, Requests
    <3>4. req' \in [Tab -> Requests]
      BY <2>2, <3>3 DEF Deliver
    <3>5. Held' \subseteq Held \cup {NoSession}
      BY <3>1, <3>2, <3>3 DEF Held
    <3> QED
      BY <2>2, <2>b, <3>1, <3>2, <3>4, <3>5, PassingOn DEF Deliver
  <2>3. ASSUME NEW t \in Tab, Abandon(t) PROVE UsersOK' /\ SessionsOK'
    <3>1. /\ req' \in [Tab -> Requests] /\ page' \in [Tab -> Session]
          /\ \A q \in Tab : /\ req'[q].session \in {req[q].session, NoSession}
                            /\ page'[q] \in {page[q], NoSession}
      BY <2>3, <2>a, NoSessionIsSession DEF Abandon, SessionsOK, NoRequest, Requests
    <3>2. Held' \subseteq Held \cup {NoSession}
      BY <2>3, <3>1 DEF Held, Abandon
    <3> QED
      BY <2>3, <2>b, <3>1, <3>2, PassingOn DEF Abandon, SessionsOK
  <2>4. ASSUME NEW t \in Tab, Page(t) PROVE UsersOK' /\ SessionsOK'
    BY <2>4, <2>b, RenderKeeps DEF Page
  <2>5. ASSUME NEW t \in Tab, NEW u \in User, NEW right \in BOOLEAN, NEW reached \in BOOLEAN,
               Login(t, u, right, reached)
        PROVE  UsersOK' /\ SessionsOK'
    <3>1. LoginOp(u, right, reached) \in Operators
      BY DEF LoginOp, Operators, Nobody
    <3> QED
      BY <2>5, <2>b, <3>1, RenderKeeps, NewIdentityKeeps DEF Login, Answers
  <2>6. ASSUME NEW t \in Tab, Logout(t) PROVE UsersOK' /\ SessionsOK'
    BY <2>6, <2>b, NoSessionIsSession, AnswerKeeps DEF Logout, Answers
  <2>7. ASSUME NEW t \in Tab, Refuse(t) PROVE UsersOK' /\ SessionsOK'
    BY <2>7, <2>a, <2>b, AnswerKeeps DEF Refuse, Answers
  <2>8. ASSUME NEW t \in Tab, NEW a \in Account, LoggedIn(t), Stamp(t, a) PROVE SessionsOK'
    <3>1. [req[t].session.op EXCEPT !.active = a] \in Operators
      BY <2>8, <2>a DEF LoggedIn, Operators
    <3> QED
      BY <2>8, <3>1, NewIdentityKeeps DEF Stamp, Answers
  <2>9. ASSUME NEW t \in Tab, NEW a \in Account, CreateAccount(t, a)
        PROVE  UsersOK' /\ SessionsOK'
    <3>1. req[t].session.op.who \in User
      BY <2>9, <2>a DEF CreateAccount, LoggedIn, Operators, Nobody
    <3> QED
      BY <2>8, <2>9, <3>1 DEF CreateAccount, UsersOK
  <2>10. ASSUME NEW t \in Tab, NEW u \in User, Change(t, u) PROVE UsersOK' /\ SessionsOK'
    BY <2>10, <2>a, <2>c, AnswerKeeps DEF Change, Answers
  <2>11. ASSUME NEW t \in Tab, NEW u \in User, Callback(t, u) PROVE UsersOK' /\ SessionsOK'
    <3>1. CallbackOp(u) \in Operators
      BY DEF CallbackOp, Operators
    <3>2. SessionsOK'
      BY <2>11, <3>1, NewIdentityKeeps DEF Callback, Answers
    <3>3. CASE status[u] = None
      <4>1. PICK accounts \in SUBSET Account : members' = [members EXCEPT ![u] = accounts]
        BY <2>11, <3>3 DEF Callback
      <4>2. status' = [status EXCEPT ![u] = "enabled"]
        BY <2>11, <3>3 DEF Callback
      <4> QED
        BY <3>2, <4>1, <4>2 DEF UsersOK
    <3>4. CASE status[u] # None
      BY <2>11, <2>b, <3>2, <3>4 DEF Callback
    <3> QED
      BY <3>3, <3>4
  <2>12. ASSUME UNCHANGED <<cookie, page, req>> PROVE SessionsOK'
    BY <2>12 DEF SessionsOK, TokenNamesIdentity, OperatorsHaveTokens, Held
  <2> QED
    BY <2>b, <2>c, <2>1, <2>2, <2>3, <2>4, <2>5, <2>6, <2>7, <2>8, <2>9, <2>10, <2>11, <2>12
    DEF Next, Switch, Elsewhere, vars, users
<1> QED
  BY <1>1, <1>2, PTL DEF Spec

THEOREM TypeCorrect == Spec => []TypeOK
<1>1. UsersOK /\ SessionsOK => TypeOK
  BY DEF UsersOK, SessionsOK, OperatorsHaveTokens, Held, TypeOK
<1> QED
  BY <1>1, SessionsInvariant, PTL

\* Whatever the other tabs, other browsers and the identity provider do meanwhile, a form
\* that is accepted acts as the operator, and in the account, that its page showed.
THEOREM FormsAlwaysActAsShown == Spec => []FormsActAsShown
<1>1. SessionsOK => FormsActAsShown
  BY DEF SessionsOK, TokenNamesIdentity, Held, FormsActAsShown, CsrfOk
<1> QED
  BY <1>1, SessionsInvariant, PTL

-----------------------------------------------------------------------------
(* What responses may change.                                              *)

\* A request that no login or logout has overtaken still carries the identity of the
\* cookie, unless its own response is one of these.
Abreast ==
  \A t \in Tab :
    (req[t].answer \notin {None, "login", "logout"} /\ ~req[t].overtaken) =>
      req[t].session.op.who = cookie.op.who

\* An answer to a request, other than to a login or a logout, leaves the identity alone.
LEMMA AnswerKeepsAbreast ==
  ASSUME SessionsOK, Abreast, NEW t \in Tab, NEW s \in Session, NEW answer \in Answers,
         Answer(t, s, answer),
         answer \in {"login", "logout"} \/ s.op.who = req[t].session.op.who
  PROVE  Abreast'
<1>1. /\ req'[t].session = s /\ req'[t].answer = answer
      /\ req'[t].overtaken = req[t].overtaken
      /\ \A q \in Tab \ {t} : req'[q] = req[q]
  BY DEF Answer, SessionsOK, Requests
<1>2. cookie' = cookie /\ req[t].answer = "pending" /\ "pending" # None
  BY NoneIsNothing DEF Answer, Waiting
<1> SUFFICES ASSUME NEW q \in Tab, req'[q].answer \notin {None, "login", "logout"},
                    ~req'[q].overtaken
             PROVE  req'[q].session.op.who = cookie'.op.who
  BY DEF Abreast
<1>3. CASE q = t
  <2>1. s.op.who = req[t].session.op.who
    BY <1>1, <1>3
  <2>2. req[t].session.op.who = cookie.op.who
    BY <1>1, <1>2, <1>3 DEF Abreast
  <2> QED
    BY <1>1, <1>2, <1>3, <2>1, <2>2
<1>4. CASE q # t
  BY <1>1, <1>2, <1>4 DEF Abreast
<1> QED
  BY <1>3, <1>4

LEMMA RequestsStayAbreast == Spec => []Abreast
<1>1. Init => Abreast
  BY NoneIsNothing DEF Init, Abreast, NoRequest, NoSession
<1>2. SessionsOK /\ Abreast /\ [Next]_vars => Abreast'
  <2> SUFFICES ASSUME SessionsOK, Abreast, [Next]_vars PROVE Abreast'
    OBVIOUS
  <2>a. \A t \in Tab : req[t] \in Requests /\ req[t].session \in Session
                       /\ req[t].session.op \in Operators
    BY DEF SessionsOK, Requests, Session
  <2>1. ASSUME NEW t \in Tab, Send(t) PROVE Abreast'
    BY <2>1, <2>a DEF Send, Abreast, SessionsOK, Requests
  <2>2. ASSUME NEW t \in Tab, Deliver(t) PROVE Abreast'
    <3> SUFFICES ASSUME NEW q \in Tab, req'[q].answer \notin {None, "login", "logout"},
                        ~req'[q].overtaken
                 PROVE  req'[q].session.op.who = cookie'.op.who
      BY DEF Abreast
    <3>1. req'[q] = IF q = t \/ req[q] = NoRequest THEN NoRequest
                    ELSE [req[q] EXCEPT !.overtaken = @ \/ cookie'.op.who # cookie.op.who]
      BY <2>2 DEF Deliver
    <3>2. req'[q] = [req[q] EXCEPT !.overtaken = @ \/ cookie'.op.who # cookie.op.who]
      BY <3>1 DEF NoRequest
    <3>3. /\ req'[q].session = req[q].session /\ req'[q].answer = req[q].answer
          /\ ~req[q].overtaken /\ cookie'.op.who = cookie.op.who
      BY <2>a, <3>2 DEF Requests
    <3> QED
      BY <3>3 DEF Abreast
  <2>3. ASSUME NEW t \in Tab, Abandon(t) PROVE Abreast'
    BY <2>3 DEF Abandon, Abreast, SessionsOK, NoRequest
  <2>4. ASSUME NEW t \in Tab, Render(t) PROVE Abreast'
    <3> DEFINE s == [req[t].session EXCEPT !.csrf = IF @ = None THEN Fresh ELSE @]
    <3>1. req[t].session \in Session /\ Fresh \in Token
      BY <2>4, <2>a, FreshIsFree DEF Render, Answer
    <3>2. s \in Session /\ s.op = req[t].session.op /\ Answer(t, s, "page")
      BY <2>4, <3>1 DEF Session, Render
    <3> HIDE DEF s
    <3> QED
      BY <3>2, AnswerKeepsAbreast DEF Answers
  <2>5. ASSUME NEW t \in Tab, NEW op \in Operators, NEW old, NEW answer \in Answers,
               Answer(t, SessionFor(op, old), answer),
               answer = "login" \/ op.who = req[t].session.op.who
        PROVE  Abreast'
    <3>1. SessionFor(op, old) \in Session /\ SessionFor(op, old).op = op
      BY <2>5, FreshIsFree DEF SessionFor, Session, Answer
    <3> QED
      BY <2>5, <3>1, AnswerKeepsAbreast
  <2>6. ASSUME NEW t \in Tab, NEW u \in User, NEW right \in BOOLEAN, NEW reached \in BOOLEAN,
               Login(t, u, right, reached)
        PROVE  Abreast'
    <3>1. LoginOp(u, right, reached) \in Operators
      BY DEF LoginOp, Operators, Nobody
    <3> QED
      BY <2>4, <2>5, <2>6, <3>1 DEF Login, Answers
  <2>7. ASSUME NEW t \in Tab, Logout(t) PROVE Abreast'
    BY <2>7, NoSessionIsSession, AnswerKeepsAbreast DEF Logout, Answers
  <2>8. ASSUME NEW t \in Tab, NEW answer \in Answers, Answer(t, req[t].session, answer)
        PROVE  Abreast'
    BY <2>8, <2>a, AnswerKeepsAbreast
  <2>9. ASSUME NEW t \in Tab, NEW a \in Account, LoggedIn(t), Stamp(t, a) PROVE Abreast'
    <3>1. /\ [req[t].session.op EXCEPT !.active = a] \in Operators
          /\ [req[t].session.op EXCEPT !.active = a].who = req[t].session.op.who
      BY <2>9, <2>a DEF LoggedIn, Operators, Nobody
    <3> QED
      BY <2>5, <2>9, <3>1 DEF Stamp, Answers
  <2>10. ASSUME NEW t \in Tab, NEW u \in User, Callback(t, u) PROVE Abreast'
    <3>1. CallbackOp(u) \in Operators
      BY DEF CallbackOp, Operators
    <3> QED
      BY <2>5, <2>10, <3>1 DEF Callback, Answers
  <2>11. CASE UNCHANGED <<cookie, req>>
    BY <2>11 DEF Abreast
  <2> QED
    BY <2>1, <2>2, <2>3, <2>4, <2>6, <2>7, <2>8, <2>9, <2>10, <2>11
    DEF Next, Page, Refuse, Switch, CreateAccount, Change, Elsewhere, vars, Answers
<1> QED
  BY <1>1, <1>2, SessionsInvariant, PTL DEF Spec

\* The operator in the browser changes only by the response to a login or a logout, or by
\* one that such a response has overtaken: no other handler can log anybody in or out.
THEOREM IdentityIsKept == Spec => IdentityChangesByLogin
<1> DEFINE Kept == \A t \in Tab :
      (Deliver(t) /\ cookie'.op.who # cookie.op.who) =>
        req[t].answer \in {"login", "logout"} \/ req[t].overtaken
<1>1. SessionsOK /\ Abreast => Kept
  <2> SUFFICES ASSUME SessionsOK, Abreast, NEW t \in Tab, Deliver(t),
                      cookie'.op.who # cookie.op.who
               PROVE  req[t].answer \in {"login", "logout"} \/ req[t].overtaken
    OBVIOUS
  <2> QED
    BY DEF Deliver, Abreast, SessionsOK, Requests
<1>2. SessionsOK /\ Abreast /\ [Next]_vars => [Kept]_vars
  BY <1>1
<1> QED
  BY <1>2, SessionsInvariant, RequestsStayAbreast, PTL DEF Spec, IdentityChangesByLogin

-----------------------------------------------------------------------------
(* What a session says of its operator.                                    *)

\* One tab's part of SessionsWereTrue.
WasTrue(t) ==
  LET old == req[t].session.op
      new == req'[t].session.op
  IN (Waiting(t) /\ new # old /\ new.id) =>
       /\ new.who # old.who => new.who \in Superadmin \/ status'[new.who] = "enabled"
       /\ (new.active # None /\ new.who \notin Superadmin) =>
            new.active \in members'[new.who]

\* A response touches the session of its own tab; what it claims was so when the
\* handler looked, or just made it so.
LEMMA AnswerWasTrue ==
  ASSUME SessionsOK, NEW t \in Tab, NEW s, NEW answer, Answer(t, s, answer),
         \/ s.op = req[t].session.op
         \/ s.op.id = FALSE
         \/ /\ s.op.who \in Superadmin \/ status'[s.op.who] = "enabled"
            /\ s.op.active = None
         \/ /\ s.op.who = req[t].session.op.who
            /\ s.op.who \in Superadmin \/ s.op.active \in members'[s.op.who]
  PROVE  \A q \in Tab : WasTrue(q)
<1>1. req'[t].session = s /\ \A q \in Tab \ {t} : req'[q] = req[q]
  BY DEF Answer, SessionsOK, Requests
<1> QED
  BY <1>1 DEF WasTrue

\* A session that knows its user's id got it when that user was enabled or signed up,
\* and its active account when the user was a member of it: no handler takes either
\* from the form, or from what an earlier session of the browser said.
THEOREM SessionsAreTrue == Spec => SessionsWereTrue
<1> USE NoneIsNothing
<1>1. ASSUME UsersOK, SessionsOK, Next PROVE \A t \in Tab : WasTrue(t)
  <2>a. \A t \in Tab : req[t] \in Requests /\ req[t].session \in Session
                       /\ req[t].session.op \in Operators
    BY <1>1 DEF SessionsOK, Requests, Session
  <2>1. ASSUME NEW t \in Tab, Send(t) \/ Deliver(t) \/ Abandon(t)
        PROVE  \A q \in Tab : WasTrue(q)
    <3> SUFFICES ASSUME NEW q \in Tab, Waiting(q) PROVE req'[q].session.op \in
                        {req[q].session.op, Nobody}
      BY DEF WasTrue, Nobody
    <3>1. req[q] # NoRequest
      BY DEF Waiting, NoRequest
    <3>2. CASE Send(t)
      BY <1>1, <3>1, <3>2 DEF Send, SessionsOK
    <3>3. CASE Deliver(t)
      <4>1. req'[q] = IF q = t \/ req[q] = NoRequest THEN NoRequest
                      ELSE [req[q] EXCEPT !.overtaken = @ \/ cookie'.op.who # cookie.op.who]
        BY <3>3 DEF Deliver
      <4>2. q # t
        BY <3>3 DEF Deliver, Waiting
      <4>3. req'[q].session = req[q].session
        BY <2>a, <3>1, <4>1, <4>2 DEF Requests
      <4> QED
        BY <4>3
    <3>4. CASE Abandon(t)
      BY <1>1, <3>4 DEF Abandon, SessionsOK, NoRequest, NoSession
    <3> QED
      BY <2>1, <3>2, <3>3, <3>4
  <2>2. ASSUME NEW t \in Tab, Render(t) PROVE \A q \in Tab : WasTrue(q)
    <3> DEFINE s == [req[t].session EXCEPT !.csrf = IF @ = None THEN Fresh ELSE @]
    <3>1. s.op = req[t].session.op /\ Answer(t, s, "page")
      BY <2>2, <2>a DEF Session, Render
    <3> HIDE DEF s
    <3> QED
      BY <1>1, <3>1, AnswerWasTrue
  <2>3. ASSUME NEW t \in Tab, NEW u \in User, NEW right \in BOOLEAN, NEW reached \in BOOLEAN,
               Login(t, u, right, reached)
        PROVE  \A q \in Tab : WasTrue(q)
    <3> DEFINE op == LoginOp(u, right, reached)
               s == SessionFor(op, req[t].session.csrf)
    <3>1. op.id = FALSE \/ (Enabled(u) /\ op.who = u /\ op.active = None)
      BY DEF LoginOp, Nobody
    <3>2. s.op = op
      BY DEF SessionFor
    <3>3. status' = status
      BY <2>3 DEF Login, users
    <3>4. Render(t) \/ Answer(t, s, "login")
      BY <2>3 DEF Login
    <3> HIDE DEF op, s
    <3> QED
      BY <1>1, <2>2, <3>1, <3>2, <3>3, <3>4, AnswerWasTrue DEF Enabled
  <2>4. ASSUME NEW t \in Tab, Logout(t) PROVE \A q \in Tab : WasTrue(q)
    <3>1. NoSession.op.id = FALSE
      BY DEF NoSession, Nobody
    <3> QED
      BY <1>1, <2>4, <3>1, AnswerWasTrue DEF Logout
  <2>5. ASSUME NEW t \in Tab, NEW answer, Answer(t, req[t].session, answer)
        PROVE  \A q \in Tab : WasTrue(q)
    BY <1>1, <2>5, AnswerWasTrue
  <2>6. ASSUME NEW t \in Tab, NEW a \in Account, LoggedIn(t), Stamp(t, a),
               \/ req[t].session.op.who \in Superadmin
               \/ a \in members'[req[t].session.op.who]
        PROVE  \A q \in Tab : WasTrue(q)
    <3> DEFINE op == [req[t].session.op EXCEPT !.active = a]
               s == SessionFor(op, req[t].session.csrf)
    <3>1. op.who = req[t].session.op.who /\ op.active = a
      BY <2>6, <2>a DEF LoggedIn, Operators, Nobody
    <3>2. s.op = op /\ Answer(t, s, "redirect")
      BY <2>6 DEF SessionFor, Stamp
    <3> HIDE DEF op, s
    <3> QED
      BY <1>1, <2>6, <3>1, <3>2, AnswerWasTrue
  <2>7. ASSUME NEW t \in Tab, NEW a \in Account, Switch(t, a)
        PROVE  \A q \in Tab : WasTrue(q)
    BY <2>6, <2>7 DEF Switch, MaySwitch, IsSuperadmin, users
  <2>8. ASSUME NEW t \in Tab, NEW a \in Account, CreateAccount(t, a)
        PROVE  \A q \in Tab : WasTrue(q)
    <3>1. req[t].session.op.who \in User
      BY <2>8, <2>a DEF CreateAccount, LoggedIn, Operators, Nobody
    <3>2. a \in members'[req[t].session.op.who]
      BY <1>1, <2>8, <3>1 DEF CreateAccount, UsersOK
    <3> QED
      BY <2>6, <2>8, <3>2 DEF CreateAccount
  <2>9. ASSUME NEW t \in Tab, NEW u \in User, Callback(t, u)
        PROVE  \A q \in Tab : WasTrue(q)
    <3> DEFINE op == CallbackOp(u)  s == SessionFor(op, req[t].session.csrf)
    <3>1. op.who = u /\ op.id = (status[u] = None) /\ op.active = None
      BY DEF CallbackOp
    <3>2. s.op = op /\ Answer(t, s, "login")
      BY <2>9 DEF SessionFor, Callback
    <3>3. status[u] = None => status'[u] = "enabled"
      BY <1>1, <2>9 DEF Callback, UsersOK
    <3> HIDE DEF op, s
    <3> QED
      BY <1>1, <3>1, <3>2, <3>3, AnswerWasTrue
  <2>10. CASE UNCHANGED req
    BY <2>10 DEF WasTrue
  <2> QED
    BY <1>1, <2>1, <2>2, <2>3, <2>4, <2>5, <2>7, <2>8, <2>9, <2>10
    DEF Next, Page, Refuse, Change, Elsewhere
<1>2. UsersOK /\ SessionsOK /\ [Next]_vars => [\A t \in Tab : WasTrue(t)]_vars
  BY <1>1
<1> QED
  BY <1>2, SessionsInvariant, PTL DEF Spec, SessionsWereTrue, WasTrue

=============================================================================
