------------------------------ MODULE Sessions ------------------------------
(***************************************************************************)
(* Operators and their sessions in the Web UI (webui/main.py, auth.py,     *)
(* middleware.py, oidc.py), over the users and memberships of the server   *)
(* (mcp_server/routers/users.py).  The Web UI keeps nothing: a session is  *)
(* a signed cookie of the browser.  A request works on the copy it was     *)
(* sent with, and every response sets the cookie to its own copy, so that  *)
(* of overlapping requests the response that arrives last wins.            *)
(*                                                                         *)
(* Here is one browser, with a request at a time in each of its tabs.      *)
(* overtaken is history: whether the identity in the cookie has changed    *)
(* since the request was sent.                                             *)
(***************************************************************************)
CONSTANTS
  Tab,
  User,        \* emails
  Superadmin,  \* those of them that are the superadmin's
  EnvOperator, \* those listed in MCP_WEBUI_OPERATORS
  Account,
  Token,       \* random strings, as CSRF tokens
  None

\* Kinds of response: a page, a redirect, a fragment that leaves the page as it is, and
\* the redirects after a login and a logout.
Answers == {"page", "redirect", "fragment", "login", "logout"}

ASSUME SpecialUsers  == Superadmin \cup EnvOperator \subseteq User
ASSUME NoneIsNothing == None \notin User \cup Account \cup Token \cup Answers
                                      \cup {"pending", "enabled", "disabled"}

VARIABLES
  status,      \* status[u]: "enabled" or "disabled"; None when there is no such user
  members,     \* members[u]: the accounts u is a member of
  cookie,      \* the session in the browser
  page,        \* page[t]: the session that the page in tab t was made for
  req          \* req[t]: the request tab t waits for

vars  == <<status, members, cookie, page, req>>
users == <<status, members>>

\* who, the operator's email; id, whether its user id is known; active, the account
\* chosen; csrf, its token.
Nobody     == [who |-> None, id |-> FALSE, active |-> None]
NoSession  == [op |-> Nobody, csrf |-> None]
Operators  == [who : User, id : BOOLEAN, active : Account \cup {None}] \cup {Nobody}
Session    == [op : Operators, csrf : Token \cup {None}]

\* session, what the request was sent with, and once it is answered what the response
\* sets; answer, what kind of response that is.
NoRequest == [session |-> NoSession, answer |-> None, overtaken |-> FALSE]
Requests  == [session : Session, overtaken : BOOLEAN,
              answer : Answers \cup {"pending", None}]

TypeOK ==
  /\ status \in [User -> {"enabled", "disabled", None}]
  /\ members \in [User -> SUBSET Account]
  /\ \A u \in User : status[u] = None => members[u] = {}
  /\ cookie \in Session
  /\ page \in [Tab -> Session]
  /\ req \in [Tab -> Requests]
  /\ cookie.op # Nobody => cookie.csrf # None

Init ==
  /\ status = [u \in User |-> None] /\ members = [u \in User |-> {}]
  /\ cookie = NoSession
  /\ page = [t \in Tab |-> NoSession] /\ req = [t \in Tab |-> NoRequest]

-----------------------------------------------------------------------------
(* Tokens and identities.                                                  *)

\* A token nobody holds any more is as good as a new one.
InUse == {cookie.csrf} \cup {page[t].csrf : t \in Tab}
           \cup {req[t].session.csrf : t \in Tab}
Fresh == CHOOSE k \in Token : k \notin InUse

Enabled(u) == u \in Superadmin \/ status[u] = "enabled"

\* set_session_operator: a new identity gets a new token.  The variant keeps the old.
SessionKeepingToken(op, old) == [op |-> op, csrf |-> IF old = None THEN Fresh ELSE old]
SessionFor(op, old) == [op |-> op, csrf |-> Fresh]

\* csrf_required, and the check of login_submit, for the form on the page of the tab.
CsrfOk(t) == page[t].csrf # None /\ page[t].csrf = req[t].session.csrf

-----------------------------------------------------------------------------
(* Requests and responses.                                                 *)

Waiting(t) == req[t].answer = "pending"

\* A page is asked for, or a form sent with the token of its page.
Send(t) ==
  /\ req[t] = NoRequest
  /\ req' = [req EXCEPT ![t].session = cookie, ![t].answer = "pending"]
  /\ UNCHANGED <<users, cookie, page>>

\* A request is answered while there is a token left that nobody holds.
Answer(t, session, answer) ==
  /\ Waiting(t) /\ Token \ InUse # {}
  /\ req' = [req EXCEPT ![t].session = session, ![t].answer = answer]
  /\ UNCHANGED <<cookie, page>>

\* get_csrf_token makes a token if there is none.
Render(t) ==
  Answer(t, [req[t].session EXCEPT !.csrf = IF @ = None THEN Fresh ELSE @], "page")

\* The session of a response replaces the cookie, whatever that has become.
Deliver(t) ==
  /\ req[t].answer \notin {None, "pending"}
  /\ cookie' = req[t].session
  /\ page' = [page EXCEPT ![t] =
       CASE req[t].answer = "page"     -> req[t].session
         [] req[t].answer = "fragment" -> @
         [] OTHER                      -> NoSession]
  /\ req' = [q \in Tab |->
       IF q = t \/ req[q] = NoRequest THEN NoRequest
       ELSE [req[q] EXCEPT !.overtaken = @ \/ cookie'.op.who # cookie.op.who]]
  /\ UNCHANGED users

\* The user goes elsewhere, or the response is lost.
Abandon(t) ==
  /\ req[t] # NoRequest
  /\ req' = [req EXCEPT ![t] = NoRequest] /\ page' = [page EXCEPT ![t] = NoSession]
  /\ UNCHANGED <<users, cookie>>

-----------------------------------------------------------------------------
(* Handlers.                                                               *)

\* Any page.  Without an operator it is the landing page or, by AuthMiddleware,
\* a redirect to the login page.
Page(t) == Render(t) /\ UNCHANGED users

\* login_submit with the right password, or a wrong one.  The server is asked first,
\* and no answer counts as a refusal.
LoginOp(u, rightPassword, reachable) ==
  CASE rightPassword /\ reachable /\ Enabled(u) -> [who |-> u, id |-> TRUE, active |-> None]
    [] rightPassword /\ ~(reachable /\ Enabled(u)) /\ u \in EnvOperator ->
         [who |-> u, id |-> FALSE, active |-> None]
    [] OTHER -> Nobody

Login(t, u, rightPassword, reachable) ==
  LET op == LoginOp(u, rightPassword, reachable)
  IN /\ IF CsrfOk(t) /\ op # Nobody
        THEN Answer(t, SessionFor(op, req[t].session.csrf), "login")
        ELSE Render(t)
     /\ UNCHANGED users

LoggedIn(t) == req[t].session.op # Nobody

\* Open to everybody: AuthMiddleware lets it pass.
Logout(t) ==
  /\ CsrfOk(t)
  /\ Answer(t, NoSession, "logout")
  /\ UNCHANGED users

\* switch_account: the memberships are read anew.  The variant trusts the form.
IsSuperadmin(op) == op.id /\ op.who \in Superadmin
MaySwitchAnywhere(op, a) == TRUE
MaySwitch(op, a) == IsSuperadmin(op) \/ (op.id /\ a \in members[op.who])

Stamp(t, a) ==
  Answer(t, SessionFor([req[t].session.op EXCEPT !.active = a], req[t].session.csrf), "redirect")

Switch(t, a) ==
  /\ LoggedIn(t) /\ CsrfOk(t) /\ MaySwitch(req[t].session.op, a)
  /\ Stamp(t, a)
  /\ UNCHANGED users

\* create_account: the server makes the operator the admin of the account.
CreateAccount(t, a) ==
  LET op == req[t].session.op
  IN /\ LoggedIn(t) /\ CsrfOk(t) /\ op.id /\ ~IsSuperadmin(op)
     /\ status[op.who] # None /\ \A u \in User : a \notin members[u]
     /\ members' = [members EXCEPT ![op.who] = @ \cup {a}]
     /\ Stamp(t, a)
     /\ UNCHANGED status

SetMembers(u, accounts) ==
  /\ status[u] # None
  /\ members' = [members EXCEPT ![u] = accounts] /\ UNCHANGED status

\* A user who is deleted takes his memberships along.  The variant leaves them.
SetStatusOnly(u, value) ==
  /\ status' = [status EXCEPT ![u] = value]
  /\ UNCHANGED members
SetStatus(u, value) ==
  /\ status' = [status EXCEPT ![u] = value]
  /\ members' = IF value = None THEN [members EXCEPT ![u] = {}] ELSE members

Changes(u) == (\E accounts \in SUBSET Account : SetMembers(u, accounts))
                \/ (\E value \in {"enabled", "disabled", None} : SetStatus(u, value))

\* The forms that change users and memberships ask for a session and its token, and
\* for no membership of the account in question.
Change(t, u) ==
  /\ LoggedIn(t) /\ CsrfOk(t)
  /\ Changes(u)
  /\ Answer(t, req[t].session, "fragment")

\* A form that is refused, a redirect that leaves the session alone, or a fragment for
\* the page that is open: a refusal to HTMX, or a quick view, which has no form.  The
\* variant ends the session of a refused form.
RefuseEnding(t) == Answer(t, NoSession, "redirect") /\ UNCHANGED users
Refuse(t) ==
  /\ \E answer \in {"redirect", "fragment"} : Answer(t, req[t].session, answer)
  /\ UNCHANGED users

\* Other browsers, and clients of the server, do the same.
Elsewhere(u) == Changes(u) /\ UNCHANGED <<cookie, page, req>>

-----------------------------------------------------------------------------
(* oidc_callback.  Whether the state is the one oidc_login stashed in the  *)
(* session, and the provider vouches for the email, is an input here: a    *)
(* callback that fails leaves the operator as he is.                       *)

\* The user the callback signs up is known by its id; one that exists is not looked
\* up.  The variant looks it up.
CallbackOpLookedUp(u) == [who |-> u, id |-> TRUE, active |-> None]
CallbackOp(u) == [who |-> u, id |-> status[u] = None, active |-> None]

\* The reserved email of the superadmin cannot sign up.  Invitations that wait for the
\* email become memberships.
Callback(t, u) ==
  /\ u \notin Superadmin
  /\ Answer(t, SessionFor(CallbackOp(u), req[t].session.csrf), "login")
  /\ IF status[u] = None
     THEN /\ status' = [status EXCEPT ![u] = "enabled"]
          /\ \E accounts \in SUBSET Account : members' = [members EXCEPT ![u] = accounts]
     ELSE UNCHANGED users

-----------------------------------------------------------------------------
Next ==
  \/ \E t \in Tab :
       \/ Send(t) \/ Deliver(t) \/ Abandon(t)
       \/ Page(t) \/ Logout(t) \/ Refuse(t)
       \/ \E u \in User, right, reached \in BOOLEAN : Login(t, u, right, reached)
       \/ \E a \in Account : Switch(t, a) \/ CreateAccount(t, a)
       \/ \E u \in User \ Superadmin : Change(t, u) \/ Callback(t, u)
  \/ \E u \in User \ Superadmin : Elsewhere(u)

Spec == Init /\ [][Next]_vars

-----------------------------------------------------------------------------
(* Properties.                                                             *)

\* Whatever other tabs did meanwhile, a form is accepted only as the operator, and
\* with the active account, that the page it was sent from showed.
FormsActAsShown ==
  \A t \in Tab : Waiting(t) /\ CsrfOk(t) => req[t].session.op = page[t].op

\* The browser changes hands only by a response to a login or a logout, or by one to a
\* request that another such response has overtaken.
IdentityChangesByLogin ==
  [][\A t \in Tab :
       (Deliver(t) /\ cookie'.op.who # cookie.op.who) =>
         req[t].answer \in {"login", "logout"} \/ req[t].overtaken]_vars

\* A session that knows its user's id got it when that user was enabled, and its active
\* account when the user was a member of it.
SessionsWereTrue ==
  [][\A t \in Tab :
       LET old == req[t].session.op
           new == req'[t].session.op
       IN (Waiting(t) /\ new # old /\ new.id) =>
            /\ new.who # old.who => new.who \in Superadmin \/ status'[new.who] = "enabled"
            /\ (new.active # None /\ new.who \notin Superadmin) =>
                 new.active \in members'[new.who]]_vars
=============================================================================
