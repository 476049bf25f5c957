--------------------------- MODULE Authentication ---------------------------
(***************************************************************************)
(* The OIDC web login, server-side sessions, logout and the authentication  *)
(* middleware: internal/platform/auth.  Every HTTP request is executed by a *)
(* handler of its own; handlers interleave between SQL statements, and a    *)
(* response may be delivered late or never.  The identity provider, the     *)
(* browsers and whoever sets principals.status are the environment.         *)
(*                                                                          *)
(* The random values a handler generates (state with its nonce and PKCE     *)
(* verifier, session token) are unique and are represented by the handler;  *)
(* the hash under which a token is stored is represented by the token.      *)
(***************************************************************************)
EXTENDS Naturals, FiniteSets

CONSTANTS
  Handlers,     \* executions of Begin, Callback, Logout and Middleware
  Browsers,     \* cookie jars
  Subjects,     \* OIDC subjects
  FlowTTL,      \* ten minutes
  SessionTTL,   \* cfg.Auth.SessionTTL
  MaxTime,      \* bound on the clock
  Null          \* no cookie, no value

ASSUME TTLAssumption ==
  FlowTTL \in Nat \ {0} /\ SessionTTL \in Nat \ {0} /\ MaxTime \in Nat

ASSUME NullAssumption == Null \notin Handlers \cup Browsers \cup Subjects

\* What marks a cookie as cleared or kept is no random value.
ASSUME CookieAssumption == {"clear", "keep"} \cap Handlers = {}

Time == 0..MaxTime
Expiry == 0..(MaxTime + FlowTTL + SessionTTL)

Flow == [state : Handlers, nonce : Handlers, expires_at : Expiry]
Session == [token : Handlers, subject : Subjects, expires_at : Expiry, revoked : BOOLEAN]

\* An authorization code of the provider: the nonce of the login it belongs to
\* and the user who authenticated.
Code == [nonce : Handlers, subject : Subjects]

\* The cookies a response sets: a value, "clear" or "keep".
Cookie == Handlers \cup {"clear", "keep"}
Response == [status : {200, 204, 302, 303, 401, 500}, state : Cookie, session : Cookie]
ASSUME ResponseAssumption == \A answer \in Response : answer # Null
Respond(status, state, session) ==
  [status |-> status, state |-> state, session |-> session]

VARIABLES
  now,              \* clock.Now()
  auth_flows,       \* rows of the tables
  web_sessions,
  principals,       \* principals[u]: the status of u's row, "absent" without one
  redirects,        \* states a browser has been redirected to the provider with
  codes,            \* codes the provider has issued
  jar,              \* jar[b]: the cookies of b
  pc,               \* pc[h]: the next statement of h
  local,            \* local[h]: the request and the local variables of h
  response          \* response[h]: what h answers

tables == <<auth_flows, web_sessions, principals>>
environment == <<now, redirects, codes>>
vars == <<now, auth_flows, web_sessions, principals, redirects, codes, jar, pc,
          local, response>>

PC == {"idle", "consume", "exchange", "resolve", "create", "revoke", "select",
       "respond", "done"}

\* kind: the endpoint; browser: where the request comes from; state: the flow
\* begun or called back; code: the code parameter; token: the session cookie
\* sent; subject: who the handler has found out it serves.  usable records, for
\* the properties only, whether the session was good when the request was sent.
Local == [kind : {"login", "callback", "logout", "api", "bearer"}, browser : Browsers,
          state : Handlers \cup {Null}, code : Code \cup {Null},
          token : Handlers \cup {Null}, subject : Subjects \cup {Null},
          usable : BOOLEAN]
NewLocal(kind, b) ==
  [kind |-> kind, browser |-> b, state |-> Null, code |-> Null, token |-> Null,
   subject |-> Null, usable |-> FALSE]

Init ==
  /\ now = 0
  /\ auth_flows = {} /\ web_sessions = {}
  /\ principals = [u \in Subjects |-> "absent"]
  /\ redirects = {} /\ codes = {}
  /\ jar = [b \in Browsers |-> [state |-> Null, session |-> Null]]
  /\ pc = [h \in Handlers |-> "idle"]
  /\ local = [h \in Handlers |-> Null]
  /\ response = [h \in Handlers |-> Null]

Start(h, request) == pc[h] = "idle" /\ local' = [local EXCEPT ![h] = request]
GoTo(h, label) == pc' = [pc EXCEPT ![h] = label] /\ UNCHANGED response
Answer(h, answer) ==
  /\ pc' = [pc EXCEPT ![h] = "respond"]
  /\ response' = [response EXCEPT ![h] = answer]

\* The handler and its response are gone.
Finish(h) ==
  /\ pc' = [pc EXCEPT ![h] = "done"]
  /\ response' = [response EXCEPT ![h] = Null]

\* The row PrincipalForSession looks for.
Admissible(s, token) ==
  /\ s.token = token
  /\ ~s.revoked
  /\ s.expires_at > now
  /\ principals[s.subject] = "ACTIVE"

-----------------------------------------------------------------------------
(* GET /auth/login *)

\* Mutant: the lifetime is taken in the wrong unit.
NewFlowUnits(h) == [state |-> h, nonce |-> h, expires_at |-> now + 60 * FlowTTL]

NewFlow(h) == [state |-> h, nonce |-> h, expires_at |-> now + FlowTTL]

\* Begin: SaveFlow, then the state cookie and the redirect.
Begin(h) ==
  \E b \in Browsers :
    /\ Start(h, [NewLocal("login", b) EXCEPT !.state = h])
    /\ auth_flows' = auth_flows \cup {NewFlow(h)}
    /\ Answer(h, Respond(302, h, "keep"))
    /\ UNCHANGED <<environment, web_sessions, principals, jar>>

-----------------------------------------------------------------------------
(* GET /auth/callback *)

\* Mutant: the state parameter is not compared with the cookie.
CallbackUnchecked(h) ==
  \E b \in Browsers, state \in redirects, code \in codes :
    /\ Start(h, [NewLocal("callback", b) EXCEPT !.state = state, !.code = code])
    /\ GoTo(h, "consume")
    /\ UNCHANGED <<environment, tables, jar>>

\* The browser is sent back with a state and a code; the code is Null when the
\* provider reports an error.  The state must be the one in its cookie.
Callback(h) ==
  \E b \in Browsers, state \in redirects, code \in codes \cup {Null} :
    /\ Start(h, [NewLocal("callback", b) EXCEPT !.state = state, !.code = code])
    /\ IF code = Null \/ jar[b].state # state
         THEN Answer(h, Respond(401, "keep", "keep"))
         ELSE GoTo(h, "consume")
    /\ UNCHANGED <<environment, tables, jar>>

\* Mutant: the flow is read, not deleted.
ConsumeFlowRead(h) ==
  /\ pc[h] = "consume"
  /\ IF \E flow \in auth_flows : flow.state = local[h].state /\ now < flow.expires_at
       THEN GoTo(h, "exchange")
       ELSE Answer(h, Respond(401, "clear", "keep"))
  /\ UNCHANGED <<environment, tables, jar, local>>

\* ConsumeFlow: DELETE ... RETURNING; an expired flow is deleted and refused.
\* From here on every answer clears the state cookie.
ConsumeFlow(h) ==
  /\ pc[h] = "consume"
  /\ auth_flows' = {flow \in auth_flows : flow.state # local[h].state}
  /\ IF \E flow \in auth_flows : flow.state = local[h].state /\ now < flow.expires_at
       THEN GoTo(h, "exchange")
       ELSE Answer(h, Respond(401, "clear", "keep"))
  /\ UNCHANGED <<environment, web_sessions, principals, jar, local>>

\* Mutant: the nonce claim is not compared with the flow's.
ExchangeAnyNonce(h) ==
  /\ pc[h] = "exchange"
  /\ local' = [local EXCEPT ![h].subject = local[h].code.subject]
  /\ GoTo(h, "resolve")
  /\ UNCHANGED <<environment, tables, jar>>

\* The code is exchanged and the ID token verified; its nonce must be the
\* flow's.  Nothing is assumed of the provider: it may redeem a code again, or
\* one that belongs to another flow.
Exchange(h) ==
  /\ pc[h] = "exchange"
  /\ IF local[h].code.nonce = local[h].state
       THEN /\ local' = [local EXCEPT ![h].subject = local[h].code.subject]
            /\ GoTo(h, "resolve")
       ELSE /\ Answer(h, Respond(401, "clear", "keep"))
            /\ UNCHANGED local
  /\ UNCHANGED <<environment, tables, jar>>

\* The upsert of ResolvePrincipal: the row is inserted as ACTIVE, or refreshed
\* with its status as it is.
UpsertPrincipal(u) ==
  principals' = [principals EXCEPT ![u] = IF @ = "absent" THEN "ACTIVE" ELSE @]

\* ResolvePrincipal, shared by Callback, the session path and the bearer path;
\* the last two then hand the principal to the endpoint.
ResolvePrincipal(h) ==
  /\ pc[h] = "resolve"
  /\ UpsertPrincipal(local[h].subject)
  /\ IF local[h].kind = "callback" THEN GoTo(h, "create")
                                   ELSE Answer(h, Respond(200, "keep", "keep"))
  /\ UNCHANGED <<environment, auth_flows, web_sessions, jar, local>>

\* The row CreateSession inserts: the token is new.
NewSession(h) == [token |-> h, subject |-> local[h].subject,
                  expires_at |-> now + SessionTTL, revoked |-> FALSE]

CreateSession(h) ==
  /\ pc[h] = "create"
  /\ web_sessions' = web_sessions \cup {NewSession(h)}
  /\ Answer(h, Respond(303, "clear", h))
  /\ UNCHANGED <<environment, auth_flows, principals, jar, local>>

-----------------------------------------------------------------------------
(* POST /auth/logout *)

Logout(h) ==
  \E b \in Browsers :
    /\ Start(h, [NewLocal("logout", b) EXCEPT !.token = jar[b].session])
    /\ IF jar[b].session = Null THEN Answer(h, Respond(204, "keep", "clear"))
                                ELSE GoTo(h, "revoke")
    /\ UNCHANGED <<environment, tables, jar>>

\* RevokeSession: UPDATE ... WHERE token_hash = $1 AND revoked_at IS NULL.
RevokeSession(h) ==
  /\ pc[h] = "revoke"
  /\ web_sessions' = {IF s.token = local[h].token THEN [s EXCEPT !.revoked = TRUE] ELSE s :
                        s \in web_sessions}
  /\ Answer(h, Respond(204, "keep", "clear"))
  /\ UNCHANGED <<environment, auth_flows, principals, jar, local>>

-----------------------------------------------------------------------------
(* Middleware *)

\* A request to the API with the session cookie.
ApiRequest(h) ==
  \E b \in Browsers :
    /\ jar[b].session # Null
    /\ Start(h, [NewLocal("api", b) EXCEPT
                   !.token = jar[b].session,
                   !.usable = \E s \in web_sessions : Admissible(s, jar[b].session)])
    /\ GoTo(h, "select")
    /\ UNCHANGED <<environment, tables, jar>>

\* Mutant: revoked_at is not looked at.
PrincipalForSessionRevoked(h) ==
  /\ pc[h] = "select"
  /\ \E s \in web_sessions :
       /\ s.token = local[h].token /\ s.expires_at > now /\ principals[s.subject] = "ACTIVE"
       /\ local' = [local EXCEPT ![h].subject = s.subject]
       /\ GoTo(h, "resolve")
  /\ UNCHANGED <<environment, tables, jar>>

\* PrincipalForSession: the session joined with its principal.
PrincipalForSession(h) ==
  /\ pc[h] = "select"
  /\ \/ \E s \in web_sessions :
          /\ Admissible(s, local[h].token)
          /\ local' = [local EXCEPT ![h].subject = s.subject]
          /\ GoTo(h, "resolve")
     \/ /\ \A s \in web_sessions : ~Admissible(s, local[h].token)
        /\ Answer(h, Respond(401, "keep", "keep"))
        /\ UNCHANGED local
  /\ UNCHANGED <<environment, tables, jar>>

\* A request without cookie and with a bearer token the provider vouches for,
\* or with none (Null).
BearerRequest(h) ==
  \E b \in Browsers, u \in Subjects \cup {Null} :
    /\ jar[b].session = Null
    /\ Start(h, [NewLocal("bearer", b) EXCEPT !.subject = u])
    /\ IF u = Null THEN Answer(h, Respond(401, "keep", "keep"))
                   ELSE GoTo(h, "resolve")
    /\ UNCHANGED <<environment, tables, jar>>

-----------------------------------------------------------------------------
(* Failures *)

\* What a handler answers when its statement returns an error.  Logout ignores
\* the error and answers as if the session were revoked.
OnError(h) ==
  CASE pc[h] \in {"consume", "exchange"} -> Respond(401, "clear", "keep")
    [] pc[h] = "create" -> Respond(500, "clear", "keep")
    [] pc[h] = "resolve" /\ local[h].kind = "callback" -> Respond(500, "clear", "keep")
    [] pc[h] = "revoke" -> Respond(204, "keep", "clear")
    [] OTHER -> Respond(401, "keep", "keep")

\* A statement or the exchange fails and changes nothing.
StatementFails(h) ==
  /\ pc[h] \notin {"idle", "respond", "done"}
  /\ Answer(h, OnError(h))
  /\ UNCHANGED <<environment, tables, jar, local>>

\* A statement takes effect but the handler gets an error: the acknowledgement
\* is lost, or the memberships cannot be read after the upsert.
StatementUnacknowledged(h) ==
  /\ \/ /\ pc[h] = "consume"
        /\ auth_flows' = {flow \in auth_flows : flow.state # local[h].state}
        /\ UNCHANGED <<web_sessions, principals>>
     \/ /\ pc[h] = "resolve"
        /\ UpsertPrincipal(local[h].subject)
        /\ UNCHANGED <<auth_flows, web_sessions>>
     \/ /\ pc[h] = "create"
        /\ web_sessions' = web_sessions \cup {NewSession(h)}
        /\ UNCHANGED <<auth_flows, principals>>
  /\ Answer(h, OnError(h))
  /\ UNCHANGED <<environment, jar, local>>

\* Begin fails: no random token, or SaveFlow returns an error, which does not
\* mean that the row is not there.
BeginFails(h) ==
  \E b \in Browsers :
    /\ Start(h, [NewLocal("login", b) EXCEPT !.state = h])
    /\ auth_flows' \in {auth_flows, auth_flows \cup {NewFlow(h)}}
    /\ Answer(h, Respond(500, "keep", "keep"))
    /\ UNCHANGED <<environment, web_sessions, principals, jar>>

-----------------------------------------------------------------------------
(* The environment *)

SetCookie(old, cookie) ==
  CASE cookie = "keep" -> old [] cookie = "clear" -> Null [] OTHER -> cookie

\* The browser receives the response: its cookies change, and it follows the
\* redirect to the provider.
Deliver(h) ==
  /\ pc[h] = "respond"
  /\ LET b == local[h].browser IN
     jar' = [jar EXCEPT ![b] = [state |-> SetCookie(@.state, response[h].state),
                                session |-> SetCookie(@.session, response[h].session)]]
  /\ redirects' = redirects \cup IF response[h].status = 302 THEN {h} ELSE {}
  /\ Finish(h)
  /\ UNCHANGED <<now, codes, tables, local>>

\* The process dies before it answers, or the response is lost.
Lose(h) ==
  /\ pc[h] \notin {"idle", "done"}
  /\ Finish(h)
  /\ UNCHANGED <<environment, tables, jar, local>>

\* A user authenticates at the provider for a login.
Authenticate ==
  /\ \E state \in redirects, u \in Subjects :
       /\ \A code \in codes : code.nonce # state
       /\ codes' = codes \cup {[nonce |-> state, subject |-> u]}
  /\ UNCHANGED <<now, redirects, tables, jar, pc, local, response>>

\* An operator takes a principal out of service.
Deactivate ==
  /\ \E u \in Subjects :
       /\ principals[u] = "ACTIVE"
       /\ principals' = [principals EXCEPT ![u] = "INACTIVE"]
  /\ UNCHANGED <<environment, auth_flows, web_sessions, jar, pc, local, response>>

Tick ==
  /\ now < MaxTime
  /\ now' = now + 1
  /\ UNCHANGED <<redirects, codes, tables, jar, pc, local, response>>

\* Nothing is left to do: the server waits for requests.
Quiet == (\A h \in Handlers : pc[h] = "done") /\ UNCHANGED vars

-----------------------------------------------------------------------------
Arrive(h) == Begin(h) \/ BeginFails(h) \/ Callback(h) \/ Logout(h) \/ ApiRequest(h)
             \/ BearerRequest(h)
Proceed(h) == ConsumeFlow(h) \/ Exchange(h) \/ ResolvePrincipal(h) \/ CreateSession(h)
              \/ RevokeSession(h) \/ PrincipalForSession(h) \/ Deliver(h)
Fault(h) == StatementFails(h) \/ StatementUnacknowledged(h) \/ Lose(h)

Next ==
  \/ \E h \in Handlers : Arrive(h) \/ Proceed(h) \/ Fault(h)
  \/ Authenticate \/ Deactivate \/ Tick \/ Quiet

Spec == Init /\ [][Next]_vars

-----------------------------------------------------------------------------
(* Properties *)

\* Every variable holds a value of its kind.
TypeOK ==
  /\ now \in Time
  /\ auth_flows \in SUBSET Flow /\ web_sessions \in SUBSET Session
  /\ principals \in [Subjects -> {"absent", "ACTIVE", "INACTIVE"}]
  /\ redirects \in SUBSET Handlers /\ codes \in SUBSET Code
  /\ jar \in [Browsers -> [state : Handlers \cup {Null}, session : Handlers \cup {Null}]]
  /\ pc \in [Handlers -> PC]
  /\ local \in [Handlers -> Local \cup {Null}]
  /\ response \in [Handlers -> Response \cup {Null}]

\* A login gives at most one session, however often its callback is repeated
\* and however the repetitions interleave.
FlowSingleUse ==
  \A s, t \in web_sessions :
    local[s.token].state = local[t.token].state => s = t

\* A browser only ever holds sessions of logins that it began itself.
SessionOfOwnLogin ==
  \A b \in Browsers : jar[b].session # Null =>
    /\ local[jar[b].session].browser = b
    /\ local[local[jar[b].session].state].browser = b

\* A session belongs to the user who authenticated at the provider for exactly
\* the login that the session completes.
SessionOfAuthenticatedUser ==
  \A s \in web_sessions :
    [nonce |-> local[s.token].state, subject |-> s.subject] \in codes

\* A session that is revoked, expired or of an inactive principal when a
\* request is sent does not admit the request, and a request that is admitted
\* acts for the session's own principal.
StaleSessionRefused ==
  \A h \in Handlers :
    response[h] = Respond(200, "keep", "keep") /\ local[h].kind = "api" =>
        /\ local[h].usable
        /\ \E s \in web_sessions : s.token = local[h].token /\ s.subject = local[h].subject

\* openapi.yaml of POST /auth/logout, 204: "Session revoked and cookie
\* cleared."  When a logout that carried a session has answered 204, that
\* session is revoked.
LogoutRevokes ==
  \A h \in Handlers :
    response[h] # Null /\ response[h].status = 204 =>
      \A s \in web_sessions : s.token = local[h].token => s.revoked
=============================================================================
