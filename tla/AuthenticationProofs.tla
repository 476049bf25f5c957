------------------------ MODULE AuthenticationProofs ------------------------
(***************************************************************************)
(* Logins, sessions and what they admit, for any number of requests,        *)
(* browsers and users and any lifetimes.                                    *)
(***************************************************************************)
EXTENDS Authentication, TLAPS

Started(h) == pc[h] # "idle"

\* The execution h began a login.
Login(h) == Started(h) /\ local[h].kind = "login" /\ local[h].state = h

\* The callback h completes a login that its own browser began.
OwnLogin(h) ==
  /\ Started(h) /\ local[h].kind = "callback" /\ local[h].state \in Handlers
  /\ Login(local[h].state) /\ local[local[h].state].browser = local[h].browser

\* The callback h has been accepted and has not answered.
InCallback(h) ==
  \/ pc[h] \in {"consume", "exchange", "create"}
  \/ pc[h] = "resolve" /\ local[h].kind = "callback"

\* The code a callback must have seen for what it writes.
OwnCode(h, u) == [nonce |-> local[h].state, subject |-> u]

HasSession(h) == \E s \in web_sessions : s.token = h

\* The callback h has used up its flow.
Consumed(h) == (InCallback(h) /\ pc[h] # "consume") \/ HasSession(h)

\* The request h was sent with a good session and acts for its principal.
Admitted(h) ==
  /\ local[h].usable
  /\ \E s \in web_sessions : s.token = local[h].token /\ s.subject = local[h].subject

-----------------------------------------------------------------------------
(* The inductive invariant *)

\* Which endpoint a handler serves, by its next statement.
KindInv(h) ==
  /\ Started(h) => local[h] \in Local
  /\ pc[h] \in {"consume", "exchange", "create"} => local[h].kind = "callback"
  /\ pc[h] \in {"consume", "exchange"} => local[h].code \in Code
  /\ pc[h] = "select" => local[h].kind = "api"
  /\ pc[h] = "resolve" => local[h].kind \in {"callback", "api", "bearer"}
  /\ pc[h] \in {"resolve", "create"} => local[h].subject \in Subjects

\* An answer sets only cookies of its own handler's making.
ResponseInv(h) ==
  /\ pc[h] # "respond" => response[h] = Null
  /\ pc[h] = "respond" =>
       /\ response[h] \in Response
       /\ response[h].session \in Handlers =>
            response[h].session = h /\ OwnLogin(h) /\ HasSession(h)
       /\ response[h].state \in Handlers => response[h].state = h /\ Login(h)
       /\ response[h].status = 302 => Login(h)
       /\ response[h] = Respond(200, "keep", "keep") /\ local[h].kind = "api" => Admitted(h)

\* What a callback under way has established.
CallbackInv(h) ==
  /\ InCallback(h) => OwnLogin(h)
  /\ pc[h] \in {"consume", "exchange"} => local[h].code \in codes
  /\ InCallback(h) /\ pc[h] \in {"resolve", "create"} => OwnCode(h, local[h].subject) \in codes
  /\ pc[h] = "create" => principals[local[h].subject] # "absent"

\* What a request with a session has established.
AdmissionInv(h) ==
  /\ pc[h] = "select" =>
       /\ HasSession(local[h].token)
       /\ \A s \in web_sessions : Admissible(s, local[h].token) => local[h].usable
  /\ pc[h] = "resolve" /\ local[h].kind = "api" => Admitted(h)

HandlerInv(h) == KindInv(h) /\ ResponseInv(h) /\ CallbackInv(h) /\ AdmissionInv(h)

\* A session is a completed callback's, one per callback, for the user who
\* authenticated for its login.
SessionInv ==
  /\ \A s \in web_sessions :
       /\ OwnLogin(s.token) /\ pc[s.token] \in {"respond", "done"}
       /\ OwnCode(s.token, s.subject) \in codes
       /\ principals[s.subject] # "absent"
  /\ \A s, t \in web_sessions : s.token = t.token => s = t

\* A flow that has been used is gone, and was used once.
FlowInv ==
  /\ \A flow \in auth_flows : Login(flow.state)
  /\ \A h \in Handlers : Consumed(h) => \A flow \in auth_flows : flow.state # local[h].state
  /\ \A g, h \in Handlers : Consumed(g) /\ Consumed(h) /\ local[g].state = local[h].state => g = h

\* Cookies are those of logins and callbacks of the same browser.
JarInv ==
  /\ \A h \in redirects : Login(h)
  /\ \A b \in Browsers :
       /\ jar[b].state # Null => Login(jar[b].state) /\ local[jar[b].state].browser = b
       /\ jar[b].session # Null =>
            /\ OwnLogin(jar[b].session) /\ local[jar[b].session].browser = b
            /\ HasSession(jar[b].session)

AuthInv ==
  /\ TypeOK /\ (\A h \in Handlers : HandlerInv(h)) /\ SessionInv /\ FlowInv /\ JarInv

-----------------------------------------------------------------------------
(* What only grows *)

\* No step takes back a code, a login or a session, reactivates a principal or
\* makes a session admissible again.
PrincipalsGrow ==
  \A u \in Subjects : principals[u] # "absent" =>
    principals'[u] # "absent" /\ (principals'[u] = "ACTIVE" => principals[u] = "ACTIVE")

RequestsGrow ==
  \A h \in Handlers :
    /\ Started(h) => /\ pc'[h] # "idle"
                     /\ local'[h].kind = local[h].kind
                     /\ local'[h].browser = local[h].browser
                     /\ local'[h].state = local[h].state
    /\ pc[h] \in {"respond", "done"} => pc'[h] \in {"respond", "done"}

SessionsGrow ==
  /\ \A s \in web_sessions : \E t \in web_sessions' : t.token = s.token /\ t.subject = s.subject
  /\ \A t \in web_sessions' :
       \/ \E s \in web_sessions :
            /\ t.token = s.token /\ t.subject = s.subject /\ t.expires_at = s.expires_at
            /\ s.revoked => t.revoked
       \/ \A s \in web_sessions : t.token # s.token

Grows ==
  /\ now \in Nat /\ now' \in Nat /\ now <= now' /\ codes \subseteq codes'
  /\ PrincipalsGrow /\ RequestsGrow /\ SessionsGrow

\* The step leaves the request g alone.
Idles(g) == pc'[g] = pc[g] /\ local'[g] = local[g] /\ response'[g] = response[g]

\* A login remains one, and so does its completion.
LEMMA LoginsGrow ==
  ASSUME RequestsGrow, NEW h \in Handlers
  PROVE  /\ Login(h) => Login(h)' /\ local'[h].browser = local[h].browser
         /\ OwnLogin(h) => OwnLogin(h)'
<1>1. \A g \in Handlers : Login(g) => Login(g)' /\ local'[g].browser = local[g].browser
  BY DEF RequestsGrow, Login, Started
<1>2. OwnLogin(h) => OwnLogin(h)'
  <2> SUFFICES ASSUME OwnLogin(h) PROVE OwnLogin(h)'
    OBVIOUS
  <2>1. /\ Started(h)' /\ local'[h].kind = "callback" /\ local'[h].state = local[h].state
        /\ local'[h].browser = local[h].browser /\ local[h].state \in Handlers
    BY DEF OwnLogin, RequestsGrow, Started
  <2>2. /\ Login(local[h].state)'
        /\ local'[local[h].state].browser = local[local[h].state].browser
    BY <1>1, <2>1 DEF OwnLogin
  <2> QED
    BY <2>1, <2>2 DEF OwnLogin, Login, Started
<1> QED
  BY <1>1, <1>2

\* What one request has established outlasts the steps of the others.
LEMMA OthersKeep ==
  ASSUME AuthInv, TypeOK', Grows, NEW g \in Handlers, Idles(g)
  PROVE  HandlerInv(g)'
<1>1. /\ TypeOK /\ KindInv(g) /\ ResponseInv(g) /\ CallbackInv(g) /\ AdmissionInv(g)
      /\ RequestsGrow /\ SessionsGrow /\ PrincipalsGrow /\ codes \subseteq codes'
  BY DEF AuthInv, HandlerInv, Grows
<1>2. (Login(g) => Login(g)') /\ (OwnLogin(g) => OwnLogin(g)')
  BY <1>1, LoginsGrow
<1>3. \A h : HasSession(h) => HasSession(h)'
  BY <1>1 DEF HasSession, SessionsGrow
<1>4. Admitted(g) => Admitted(g)'
  BY <1>1 DEF Admitted, Idles, SessionsGrow
<1>5. KindInv(g)'
  BY <1>1 DEF KindInv, Idles, Started
<1>6. ResponseInv(g)'
  BY <1>1, <1>2, <1>3, <1>4 DEF ResponseInv, Idles
<1>7. CallbackInv(g)'
  <2>1. InCallback(g)' <=> InCallback(g)
    BY DEF InCallback, Idles
  <2>2. pc[g] = "create" => principals'[local[g].subject] # "absent"
    BY <1>1 DEF CallbackInv, KindInv, PrincipalsGrow
  <2> QED
    BY <1>1, <1>2, <2>1, <2>2 DEF CallbackInv, OwnCode, Idles
<1>8. AdmissionInv(g)'
  <2>1. ASSUME pc[g] = "select", NEW t \in web_sessions', Admissible(t, local[g].token)'
        PROVE  local[g].usable
    <3>1. t.token = local[g].token /\ ~t.revoked /\ t.expires_at > now'
          /\ principals'[t.subject] = "ACTIVE"
      BY <2>1 DEF Admissible, Idles
    <3>2. PICK s \in web_sessions : s.token = local[g].token
      BY <1>1, <2>1 DEF AdmissionInv, HasSession
    <3>3. PICK r \in web_sessions :
            /\ t.token = r.token /\ t.subject = r.subject /\ t.expires_at = r.expires_at
            /\ r.revoked => t.revoked
      BY <1>1, <2>1, <3>1, <3>2 DEF SessionsGrow
    <3>4. r.subject \in Subjects /\ principals[r.subject] # "absent" /\ r.expires_at \in Nat
      BY DEF AuthInv, SessionInv, TypeOK, Session, Expiry
    <3>5. principals[r.subject] = "ACTIVE"
      BY <1>1, <3>1, <3>3, <3>4 DEF PrincipalsGrow
    <3>6. r.expires_at > now
      BY <3>1, <3>3, <3>4 DEF Grows
    <3>7. Admissible(r, local[g].token)
      BY <3>1, <3>3, <3>5, <3>6 DEF Admissible
    <3> QED
      BY <1>1, <2>1, <3>7 DEF AdmissionInv
  <2> QED
    BY <1>1, <1>3, <1>4, <2>1 DEF AdmissionInv, Idles
<1> QED
  BY <1>5, <1>6, <1>7, <1>8 DEF HandlerInv

\* Steps that insert and change no session.
LEMMA SessionsKept ==
  ASSUME AuthInv, Grows, web_sessions' = web_sessions
  PROVE  SessionInv'
<1>1. TypeOK /\ SessionInv
  BY DEF AuthInv
<1>2. ASSUME NEW s \in web_sessions
      PROVE  /\ OwnLogin(s.token)' /\ pc'[s.token] \in {"respond", "done"}
             /\ OwnCode(s.token, s.subject)' \in codes'
             /\ principals'[s.subject] # "absent"
  <2>1. /\ s.token \in Handlers /\ s.subject \in Subjects
        /\ OwnLogin(s.token) /\ pc[s.token] \in {"respond", "done"}
        /\ OwnCode(s.token, s.subject) \in codes /\ principals[s.subject] # "absent"
    BY <1>1 DEF TypeOK, Session, SessionInv
  <2>2. OwnLogin(s.token)'
    BY <2>1, LoginsGrow DEF Grows
  <2>3. local'[s.token].state = local[s.token].state
    BY <2>1 DEF Grows, RequestsGrow, OwnLogin
  <2> QED
    BY <2>1, <2>2, <2>3 DEF Grows, RequestsGrow, PrincipalsGrow, OwnCode
<1> QED
  BY <1>1, <1>2 DEF SessionInv

\* A request that has used up a flow completes a login of its own.
LEMMA ConsumedIsOwn ==
  ASSUME AuthInv, NEW h \in Handlers, Consumed(h)
  PROVE  OwnLogin(h) /\ Started(h)
BY DEF AuthInv, HandlerInv, CallbackInv, SessionInv, Consumed, HasSession, OwnLogin

\* Steps that save no flow and use up none.
LEMMA FlowsKept ==
  ASSUME AuthInv, Grows, auth_flows' \subseteq auth_flows,
         \A h \in Handlers : Consumed(h)' => Consumed(h)
  PROVE  FlowInv'
<1>1. TypeOK /\ FlowInv /\ RequestsGrow
  BY DEF AuthInv, Grows
<1>2. \A flow \in auth_flows' : Login(flow.state)'
  <2> SUFFICES ASSUME NEW flow \in auth_flows' PROVE Login(flow.state)'
    OBVIOUS
  <2>1. flow.state \in Handlers /\ Login(flow.state)
    BY <1>1 DEF TypeOK, Flow, FlowInv
  <2> QED
    BY <1>1, <2>1, LoginsGrow
<1>3. \A h \in Handlers : Consumed(h)' => local'[h].state = local[h].state
  BY <1>1, ConsumedIsOwn DEF RequestsGrow
<1> QED
  BY <1>1, <1>2, <1>3 DEF FlowInv

\* The flows of h's making are used up by nobody: saving one is no harm.
LEMMA FlowSaved ==
  ASSUME AuthInv, Grows, NEW h \in Handlers, ~Started(h), Login(h)',
         auth_flows' \subseteq auth_flows \cup {NewFlow(h)},
         \A g \in Handlers : Consumed(g)' => Consumed(g)
  PROVE  FlowInv'
<1>1. TypeOK /\ FlowInv /\ RequestsGrow
  BY DEF AuthInv, Grows
<1>2. \A flow \in auth_flows' : Login(flow.state)'
  <2> SUFFICES ASSUME NEW flow \in auth_flows' PROVE Login(flow.state)'
    OBVIOUS
  <2>1. CASE flow \in auth_flows
    <3>1. flow.state \in Handlers /\ Login(flow.state)
      BY <1>1, <2>1 DEF TypeOK, Flow, FlowInv
    <3> QED
      BY <1>1, <3>1, LoginsGrow
  <2>2. CASE flow = NewFlow(h)
    BY <2>2 DEF NewFlow, Login, Started
  <2> QED
    BY <2>1, <2>2
<1>3. \A g \in Handlers : Consumed(g)' =>
        /\ local'[g].state = local[g].state /\ local[g].state # h
  BY <1>1, ConsumedIsOwn DEF RequestsGrow, OwnLogin, Login
<1> QED
  BY <1>1, <1>2, <1>3 DEF FlowInv, NewFlow

\* Steps that reach no browser.
LEMMA JarsKept ==
  ASSUME AuthInv, Grows, UNCHANGED <<jar, redirects>>
  PROVE  JarInv'
<1>1. TypeOK /\ JarInv /\ RequestsGrow /\ SessionsGrow
  BY DEF AuthInv, Grows
<1>2. \A h \in redirects' : Login(h)'
  BY <1>1, LoginsGrow DEF TypeOK, JarInv
<1>3. ASSUME NEW b \in Browsers, jar[b].state # Null
      PROVE  Login(jar[b].state)' /\ local'[jar[b].state].browser = b
  <2>1. jar[b].state \in Handlers /\ Login(jar[b].state) /\ local[jar[b].state].browser = b
    BY <1>1, <1>3 DEF TypeOK, JarInv
  <2> QED
    BY <1>1, <2>1, LoginsGrow DEF Login, Started
<1>4. ASSUME NEW b \in Browsers, jar[b].session # Null
      PROVE  /\ OwnLogin(jar[b].session)' /\ local'[jar[b].session].browser = b
             /\ HasSession(jar[b].session)'
  <2> DEFINE c == jar[b].session
  <2>1. c \in Handlers /\ OwnLogin(c) /\ local[c].browser = b /\ HasSession(c)
    BY <1>1, <1>4 DEF TypeOK, JarInv
  <2>2. OwnLogin(c)'
    <3> HIDE DEF c
    <3> DEFINE d == c
    <3>1. \A e \in Handlers : OwnLogin(e) => OwnLogin(e)'
      BY <1>1, LoginsGrow
    <3> QED
      BY <2>1, <3>1 DEF c, OwnLogin, Login, Started
  <2>3. local'[c].browser = b
    BY <1>1, <2>1 DEF OwnLogin, RequestsGrow
  <2>4. HasSession(c)'
    BY <1>1, <2>1 DEF HasSession, SessionsGrow
  <2> QED
    BY <2>2, <2>3, <2>4
<1> QED
  BY <1>1, <1>2, <1>3, <1>4 DEF JarInv

-----------------------------------------------------------------------------
(* The shape of a step *)

\* Only the request h moves; what it is about it has settled on arrival.
Moves(h) ==
  /\ \A g \in Handlers \ {h} : Idles(g)
  /\ pc'[h] # "idle"
  /\ pc[h] \in {"respond", "done"} => pc'[h] \in {"respond", "done"}
  /\ Started(h) => /\ local'[h].kind = local[h].kind
                   /\ local'[h].browser = local[h].browser
                   /\ local'[h].state = local[h].state

\* A step of h that leaves the clock, the provider, the principals and the
\* sessions as they are.
LEMMA MovesGrow ==
  ASSUME AuthInv, NEW h \in Handlers, Moves(h)
  PROVE  /\ RequestsGrow
         /\ UNCHANGED <<now, codes, principals, web_sessions>> => Grows
<1>1. RequestsGrow
  BY DEF Moves, Idles, RequestsGrow, Started
<1>2. now \in Nat
  BY TTLAssumption DEF AuthInv, TypeOK, Time
<1> QED
  BY <1>1, <1>2 DEF Grows, PrincipalsGrow, SessionsGrow

\* What remains to be shown of a step of h.
LEMMA OneMoves ==
  ASSUME AuthInv, NEW h \in Handlers, Moves(h), TypeOK', Grows, HandlerInv(h)',
         SessionInv', FlowInv', JarInv'
  PROVE  AuthInv'
BY OthersKeep DEF Moves, AuthInv

\* Who has used up a flow, when h alone moves.
LEMMA ConsumedKept ==
  ASSUME NEW h \in Handlers, Moves(h), web_sessions' = web_sessions, Consumed(h)' => Consumed(h)
  PROVE  \A g \in Handlers : Consumed(g)' => Consumed(g)
BY DEF Moves, Idles, Consumed, InCallback, HasSession

\* A request that has not been answered has left no session.
LEMMA NoSession ==
  ASSUME AuthInv, NEW h, pc[h] \notin {"respond", "done"}
  PROVE  ~HasSession(h)
BY DEF AuthInv, SessionInv, HasSession

\* Types of a step of h.
LEMMA TypesKept ==
  ASSUME TypeOK, NEW h \in Handlers, NEW label \in PC, NEW request \in Local \cup {Null},
         NEW answer \in Response \cup {Null},
         pc' = [pc EXCEPT ![h] = label], local' = [local EXCEPT ![h] = request],
         response' = [response EXCEPT ![h] = answer]
  PROVE  /\ pc' \in [Handlers -> PC] /\ local' \in [Handlers -> Local \cup {Null}]
         /\ response' \in [Handlers -> Response \cup {Null}]
         /\ pc'[h] = label /\ local'[h] = request /\ response'[h] = answer
         /\ \A g \in Handlers \ {h} : Idles(g)
BY DEF TypeOK, Idles

\* An answer that sets no cookie, redirects nowhere and serves nothing.
Plain(answer) ==
  /\ answer \in Response /\ answer.state \notin Handlers /\ answer.session \notin Handlers
  /\ answer.status \notin {200, 302}

\* Such are the answers of refusals, failures and logout.
LEMMA PlainAnswers ==
  ASSUME NEW status \in {204, 401, 500}, NEW state \in {"clear", "keep"},
         NEW session \in {"clear", "keep"}
  PROVE  Plain(Respond(status, state, session))
BY CookieAssumption DEF Plain, Respond, Response, Cookie

\* A handler that gives such an answer has nothing left to keep.
LEMMA PlainAnswered ==
  ASSUME NEW h, pc'[h] = "respond", local'[h] \in Local, Plain(response'[h])
  PROVE  HandlerInv(h)'
<1>1. KindInv(h)'
  BY DEF KindInv
<1>2. ResponseInv(h)'
  BY DEF ResponseInv, Plain, Respond
<1>3. CallbackInv(h)' /\ AdmissionInv(h)'
  BY DEF CallbackInv, InCallback, AdmissionInv
<1> QED
  BY <1>1, <1>2, <1>3 DEF HandlerInv

\* A step that does not answer leaves the answer out.
LEMMA GoesTo ==
  ASSUME AuthInv, NEW h \in Handlers, NEW label \in PC, GoTo(h, label), pc[h] # "respond"
  PROVE  /\ pc' = [pc EXCEPT ![h] = label]
         /\ response' = [response EXCEPT ![h] = Null]
<1>1. response[h] = Null /\ TypeOK
  BY DEF AuthInv, HandlerInv, ResponseInv
<1> QED
  BY <1>1 DEF GoTo, TypeOK

-----------------------------------------------------------------------------
(* Requests arrive *)

\* A request arrives: it moves alone, and sessions and cookies are as they were.
LEMMA Arrived ==
  ASSUME AuthInv, NEW h \in Handlers, NEW request \in Local, Start(h, request),
         NEW label \in PC \ {"idle"}, pc' = [pc EXCEPT ![h] = label],
         NEW answer \in Response \cup {Null}, response' = [response EXCEPT ![h] = answer],
         UNCHANGED <<now, web_sessions, principals, redirects, codes, jar>>
  PROVE  /\ pc'[h] = label /\ local'[h] = request /\ response'[h] = answer
         /\ ~Started(h) /\ Moves(h) /\ Grows /\ SessionInv' /\ JarInv'
         /\ auth_flows' \in SUBSET Flow => TypeOK'
<1>1. TypeOK /\ pc[h] = "idle" /\ local' = [local EXCEPT ![h] = request]
  BY DEF AuthInv, Start
<1>2. /\ pc' \in [Handlers -> PC] /\ local' \in [Handlers -> Local \cup {Null}]
      /\ response' \in [Handlers -> Response \cup {Null}]
      /\ pc'[h] = label /\ local'[h] = request /\ response'[h] = answer
      /\ \A g \in Handlers \ {h} : Idles(g)
  BY <1>1, TypesKept
<1>3. Moves(h) /\ ~Started(h)
  BY <1>1, <1>2 DEF Moves, Started
<1>4. Grows
  BY <1>3, MovesGrow
<1>5. SessionInv' /\ JarInv'
  BY <1>4, SessionsKept, JarsKept
<1>6. auth_flows' \in SUBSET Flow => TypeOK'
  BY <1>1, <1>2 DEF TypeOK
<1> QED
  BY <1>2, <1>3, <1>4, <1>5, <1>6

\* The flow of a login is saved, or may be, and the login is answered.
LEMMA BeginStep ==
  ASSUME AuthInv, NEW h \in Handlers, Begin(h) \/ BeginFails(h)
  PROVE  AuthInv'
<1>1. PICK b \in Browsers, answer \in {Respond(302, h, "keep"), Respond(500, "keep", "keep")} :
        /\ Start(h, [NewLocal("login", b) EXCEPT !.state = h])
        /\ auth_flows' \in {auth_flows, auth_flows \cup {NewFlow(h)}}
        /\ Answer(h, answer)
        /\ UNCHANGED <<now, web_sessions, principals, redirects, codes, jar>>
  BY DEF Begin, BeginFails, environment
<1> DEFINE request == [NewLocal("login", b) EXCEPT !.state = h]
<1>2. /\ request \in Local /\ request.kind = "login" /\ request.state = h
  BY DEF NewLocal, Local
<1>3. /\ answer \in Response /\ answer.session \notin Handlers /\ answer.status # 200
      /\ answer.state \in Handlers => answer.state = h
  BY CookieAssumption DEF Response, Cookie, Respond
<1> HIDE DEF request
<1>4. NewFlow(h) \in Flow
  BY TTLAssumption DEF NewFlow, Flow, Expiry, AuthInv, TypeOK, Time
<1>5. /\ pc'[h] = "respond" /\ local'[h] = request /\ response'[h] = answer
      /\ ~Started(h) /\ Moves(h) /\ Grows /\ SessionInv' /\ JarInv'
      /\ auth_flows' \in SUBSET Flow => TypeOK'
  BY <1>1, <1>2, <1>3, Arrived DEF Answer, PC, request
<1>6. TypeOK'
  BY <1>1, <1>4, <1>5 DEF AuthInv, TypeOK
<1>7. Login(h)'
  BY <1>2, <1>5 DEF Login, Started
<1>8. HandlerInv(h)'
  <2>1. KindInv(h)'
    BY <1>2, <1>5 DEF KindInv
  <2>2. ResponseInv(h)'
    BY <1>3, <1>5, <1>7 DEF ResponseInv, Respond
  <2>3. CallbackInv(h)' /\ AdmissionInv(h)'
    BY <1>5 DEF CallbackInv, InCallback, AdmissionInv
  <2> QED
    BY <2>1, <2>2, <2>3 DEF HandlerInv
<1>9. \A g \in Handlers : Consumed(g)' => Consumed(g)
  <2>1. Consumed(h)' => Consumed(h)
    BY <1>1, <1>5 DEF Consumed, InCallback, HasSession
  <2> QED
    BY <1>1, <1>5, <2>1, ConsumedKept
<1>10. FlowInv'
  BY <1>1, <1>5, <1>7, <1>9, FlowSaved
<1> QED
  BY <1>5, <1>6, <1>8, <1>10, OneMoves

\* The other requests find the tables as they are.
LEMMA ArrivalStep ==
  ASSUME AuthInv, NEW h \in Handlers, NEW request \in Local, Start(h, request),
         NEW label \in PC \ {"idle"}, pc' = [pc EXCEPT ![h] = label],
         NEW answer \in Response \cup {Null}, response' = [response EXCEPT ![h] = answer],
         UNCHANGED <<environment, tables, jar>>,
         label \in {"respond", "consume", "select", "revoke", "resolve"},
         label = "resolve" => request.kind # "callback", HandlerInv(h)'
  PROVE  AuthInv'
<1>1. UNCHANGED <<now, auth_flows, web_sessions, principals, redirects, codes, jar>>
  BY DEF environment, tables
<1>2. /\ pc'[h] = label /\ local'[h] = request /\ response'[h] = answer
      /\ ~Started(h) /\ Moves(h) /\ Grows /\ SessionInv' /\ JarInv'
      /\ auth_flows' \in SUBSET Flow => TypeOK'
  BY <1>1, Arrived
<1>3. TypeOK'
  BY <1>1, <1>2 DEF AuthInv, TypeOK
<1>4. Consumed(h)' => Consumed(h)
  BY <1>1, <1>2 DEF Consumed, InCallback, HasSession
<1>5. FlowInv'
  BY <1>1, <1>2, <1>4, ConsumedKept, FlowsKept
<1> QED
  BY <1>2, <1>3, <1>5, OneMoves

\* A request that is answered at once, plainly.
LEMMA AnsweredAtOnce ==
  ASSUME AuthInv, NEW h \in Handlers, NEW request \in Local, Start(h, request),
         NEW answer, Plain(answer), Answer(h, answer), UNCHANGED <<environment, tables, jar>>
  PROVE  AuthInv'
<1>1. answer \in Response
  BY DEF Plain
<1>2. pc'[h] = "respond" /\ local'[h] = request /\ response'[h] = answer
  BY DEF AuthInv, TypeOK, Start, Answer
<1>3. HandlerInv(h)'
  BY <1>2, PlainAnswered
<1>4. pc' = [pc EXCEPT ![h] = "respond"] /\ response' = [response EXCEPT ![h] = answer]
  BY DEF Answer
<1>5. "respond" \in PC \ {"idle"}
  BY DEF PC
<1> QED
  BY <1>1, <1>3, <1>4, <1>5, ArrivalStep

\* The cookie ties an accepted callback to a login of the same browser.
LEMMA CallbackStep ==
  ASSUME AuthInv, NEW h \in Handlers, Callback(h)
  PROVE  AuthInv'
<1>1. PICK b \in Browsers, state \in redirects, code \in codes \cup {Null} :
        /\ Start(h, [NewLocal("callback", b) EXCEPT !.state = state, !.code = code])
        /\ IF code = Null \/ jar[b].state # state
             THEN Answer(h, Respond(401, "keep", "keep"))
             ELSE GoTo(h, "consume")
        /\ UNCHANGED <<environment, tables, jar>>
  BY DEF Callback
<1> DEFINE request == [NewLocal("callback", b) EXCEPT !.state = state, !.code = code]
<1>2. TypeOK /\ state \in Handlers /\ code \in Code \cup {Null} /\ state # Null
  BY NullAssumption DEF AuthInv, TypeOK
<1>3. /\ request \in Local /\ request.kind = "callback" /\ request.browser = b
      /\ request.state = state /\ request.code = code
  BY <1>2 DEF NewLocal, Local
<1> HIDE DEF request
<1>4. CASE code = Null \/ jar[b].state # state
  BY <1>1, <1>3, <1>4, AnsweredAtOnce, PlainAnswers DEF request
<1>5. CASE code # Null /\ jar[b].state = state
  <2>1. /\ pc' = [pc EXCEPT ![h] = "consume"] /\ response' = [response EXCEPT ![h] = Null]
        /\ pc[h] = "idle"
    BY <1>1, <1>5, GoesTo DEF Start, PC
  <2>2. UNCHANGED <<now, auth_flows, web_sessions, principals, redirects, codes, jar>>
    BY <1>1 DEF environment, tables
  <2>3. /\ pc'[h] = "consume" /\ local'[h] = request /\ response'[h] = Null /\ Grows
    <3>1. Start(h, request) /\ "consume" \in PC \ {"idle"} /\ Null \in Response \cup {Null}
      BY <1>1 DEF PC, request
    <3> QED
      BY <1>3, <2>1, <2>2, <3>1, Arrived
  <2>4. Login(state) /\ local[state].browser = b
    BY <1>2, <1>5 DEF AuthInv, JarInv
  <2>5. Login(state)' /\ local'[state].browser = b
    BY <1>2, <2>3, <2>4, LoginsGrow DEF Grows
  <2>6. OwnLogin(h)'
    BY <1>2, <1>3, <2>3, <2>5 DEF OwnLogin, Started, Login
  <2>7. HandlerInv(h)'
    <3>1. KindInv(h)' /\ ResponseInv(h)'
      BY <1>2, <1>3, <1>5, <2>3 DEF KindInv, ResponseInv
    <3>2. CallbackInv(h)' /\ AdmissionInv(h)'
      BY <1>1, <1>3, <1>5, <2>2, <2>3, <2>6 DEF CallbackInv, AdmissionInv, InCallback
    <3> QED
      BY <3>1, <3>2 DEF HandlerInv
  <2> QED
    BY <1>1, <1>3, <2>1, <2>7, ArrivalStep DEF PC, request
<1> QED
  BY <1>4, <1>5

\* A logout carries the session of its browser, if there is one.
LEMMA LogoutStep ==
  ASSUME AuthInv, NEW h \in Handlers, Logout(h)
  PROVE  AuthInv'
<1>1. PICK b \in Browsers :
        /\ Start(h, [NewLocal("logout", b) EXCEPT !.token = jar[b].session])
        /\ IF jar[b].session = Null THEN Answer(h, Respond(204, "keep", "clear"))
                                    ELSE GoTo(h, "revoke")
        /\ UNCHANGED <<environment, tables, jar>>
  BY DEF Logout
<1> DEFINE request == [NewLocal("logout", b) EXCEPT !.token = jar[b].session]
<1>2. request \in Local
  BY DEF NewLocal, Local, AuthInv, TypeOK
<1> HIDE DEF request
<1>3. CASE jar[b].session = Null
  BY <1>1, <1>2, <1>3, AnsweredAtOnce, PlainAnswers DEF request
<1>4. CASE jar[b].session # Null
  <2>1. /\ pc' = [pc EXCEPT ![h] = "revoke"] /\ response' = [response EXCEPT ![h] = Null]
        /\ pc[h] = "idle"
    BY <1>1, <1>4, GoesTo DEF Start, PC
  <2>2. pc'[h] = "revoke" /\ local'[h] = request /\ response'[h] = Null
    BY <1>1, <2>1 DEF AuthInv, TypeOK, Start, request
  <2>3. HandlerInv(h)'
    BY <1>2, <2>2
       DEF HandlerInv, KindInv, ResponseInv, CallbackInv, AdmissionInv, InCallback
  <2> QED
    BY <1>1, <1>2, <2>1, <2>3, ArrivalStep DEF PC, request
<1> QED
  BY <1>3, <1>4

\* A request with a session: the session exists, and whether it is good is
\* known.
LEMMA ApiRequestStep ==
  ASSUME AuthInv, NEW h \in Handlers, ApiRequest(h)
  PROVE  AuthInv'
<1>1. PICK b \in Browsers :
        /\ jar[b].session # Null
        /\ Start(h, [NewLocal("api", b) EXCEPT
                       !.token = jar[b].session,
                       !.usable = \E s \in web_sessions : Admissible(s, jar[b].session)])
        /\ GoTo(h, "select")
        /\ UNCHANGED <<environment, tables, jar>>
  BY DEF ApiRequest
<1> DEFINE good == \E s \in web_sessions : Admissible(s, jar[b].session)
<1>2. PICK token \in Handlers \cup {Null}, usable \in BOOLEAN :
        token = jar[b].session /\ usable = good
  BY DEF AuthInv, TypeOK
<1> DEFINE request == [NewLocal("api", b) EXCEPT !.token = token, !.usable = usable]
<1>3. /\ request \in Local /\ request.kind = "api" /\ request.token = token
      /\ request.usable = usable
  BY DEF NewLocal, Local
<1>4. Start(h, request)
  BY <1>1, <1>2
<1> HIDE DEF request
<1>5. /\ pc' = [pc EXCEPT ![h] = "select"] /\ response' = [response EXCEPT ![h] = Null]
      /\ pc[h] = "idle"
  BY <1>1, GoesTo DEF Start, PC
<1>6. pc'[h] = "select" /\ local'[h] = request /\ response'[h] = Null
  BY <1>4, <1>5 DEF AuthInv, TypeOK, Start
<1>7. HandlerInv(h)'
  <2>1. KindInv(h)' /\ ResponseInv(h)' /\ CallbackInv(h)'
    BY <1>3, <1>6 DEF KindInv, ResponseInv, CallbackInv, InCallback
  <2>2. HasSession(token)
    BY <1>1, <1>2 DEF AuthInv, JarInv
  <2>3. UNCHANGED <<now, web_sessions, principals>>
    BY <1>1 DEF environment, tables
  <2>4. HasSession(token)'
    BY <2>2, <2>3 DEF HasSession
  <2>5. \A s \in web_sessions' : Admissible(s, token)' => usable
    BY <1>2, <2>3 DEF Admissible
  <2>6. AdmissionInv(h)'
    BY <1>3, <1>6, <2>4, <2>5 DEF AdmissionInv, HasSession, Admissible
  <2> QED
    BY <2>1, <2>6 DEF HandlerInv
<1> QED
  BY <1>1, <1>3, <1>4, <1>5, <1>7, ArrivalStep DEF PC

\* A request with a bearer token, or with nothing.
LEMMA BearerRequestStep ==
  ASSUME AuthInv, NEW h \in Handlers, BearerRequest(h)
  PROVE  AuthInv'
<1>1. PICK b \in Browsers, u \in Subjects \cup {Null} :
        /\ Start(h, [NewLocal("bearer", b) EXCEPT !.subject = u])
        /\ IF u = Null THEN Answer(h, Respond(401, "keep", "keep"))
                       ELSE GoTo(h, "resolve")
        /\ UNCHANGED <<environment, tables, jar>>
  BY DEF BearerRequest
<1> DEFINE request == [NewLocal("bearer", b) EXCEPT !.subject = u]
<1>2. request \in Local /\ request.kind = "bearer" /\ request.subject = u
  BY DEF NewLocal, Local
<1> HIDE DEF request
<1>3. CASE u = Null
  BY <1>1, <1>2, <1>3, AnsweredAtOnce, PlainAnswers DEF request
<1>4. CASE u # Null
  <2>1. /\ pc' = [pc EXCEPT ![h] = "resolve"] /\ response' = [response EXCEPT ![h] = Null]
        /\ pc[h] = "idle"
    BY <1>1, <1>4, GoesTo DEF Start, PC
  <2>2. pc'[h] = "resolve" /\ local'[h] = request /\ response'[h] = Null
    BY <1>1, <2>1 DEF AuthInv, TypeOK, Start, request
  <2>3. HandlerInv(h)'
    BY <1>2, <1>4, <2>2
       DEF HandlerInv, KindInv, ResponseInv, CallbackInv, AdmissionInv, InCallback
  <2> QED
    BY <1>1, <1>2, <2>1, <2>3, ArrivalStep DEF PC, request
<1> QED
  BY <1>3, <1>4

-----------------------------------------------------------------------------
(* Requests proceed *)

\* The request h is being served.
Serving(h) == pc[h] \notin {"idle", "respond", "done"}

\* A request that is served moves alone and remains about the same.
LEMMA Proceeds ==
  ASSUME AuthInv, NEW h \in Handlers, Serving(h),
         NEW request \in Local, local' = [local EXCEPT ![h] = request],
         request.kind = local[h].kind, request.browser = local[h].browser,
         request.state = local[h].state,
         NEW label \in PC \ {"idle"}, pc' = [pc EXCEPT ![h] = label],
         NEW answer \in Response \cup {Null}, response' = [response EXCEPT ![h] = answer]
  PROVE  /\ pc' \in [Handlers -> PC] /\ local' \in [Handlers -> Local \cup {Null}]
         /\ response' \in [Handlers -> Response \cup {Null}]
         /\ pc'[h] = label /\ local'[h] = request /\ response'[h] = answer
         /\ Moves(h) /\ RequestsGrow
<1>1. TypeOK
  BY DEF AuthInv
<1>2. /\ pc' \in [Handlers -> PC] /\ local' \in [Handlers -> Local \cup {Null}]
      /\ response' \in [Handlers -> Response \cup {Null}]
      /\ pc'[h] = label /\ local'[h] = request /\ response'[h] = answer
      /\ \A g \in Handlers \ {h} : Idles(g)
  BY <1>1, TypesKept
<1>3. Moves(h)
  BY <1>2 DEF Moves, Serving
<1> QED
  BY <1>2, <1>3, MovesGrow

\* A request that is being served knows what it is about.
LEMMA ServingIs ==
  ASSUME AuthInv, NEW h \in Handlers, Serving(h)
  PROVE  /\ TypeOK /\ local[h] \in Local /\ Started(h) /\ ~HasSession(h)
         /\ KindInv(h) /\ ResponseInv(h) /\ CallbackInv(h) /\ AdmissionInv(h)
         /\ local' = local => local' = [local EXCEPT ![h] = local[h]]
<1>1. TypeOK /\ KindInv(h) /\ ResponseInv(h) /\ CallbackInv(h) /\ AdmissionInv(h)
  BY DEF AuthInv, HandlerInv
<1>2. Started(h) /\ local[h] \in Local
  BY <1>1 DEF Started, Serving, KindInv
<1>3. ~HasSession(h)
  BY NoSession DEF Serving
<1>4. local' = local => local' = [local EXCEPT ![h] = local[h]]
  BY <1>1 DEF TypeOK
<1> QED
  BY <1>1, <1>2, <1>3, <1>4

\* An answer that sets no cookie, whatever became of flows and principals.
LEMMA AnsweredPlainly ==
  ASSUME AuthInv, NEW h \in Handlers, Serving(h), NEW answer, Plain(answer), Answer(h, answer),
         UNCHANGED <<environment, web_sessions, jar, local>>,
         auth_flows' \subseteq auth_flows, PrincipalsGrow,
         principals' \in [Subjects -> {"absent", "ACTIVE", "INACTIVE"}]
  PROVE  AuthInv'
<1>1. /\ TypeOK /\ local[h] \in Local /\ ~HasSession(h)
      /\ local' = [local EXCEPT ![h] = local[h]]
  BY ServingIs
<1>2. /\ answer \in Response /\ "respond" \in PC \ {"idle"}
      /\ pc' = [pc EXCEPT ![h] = "respond"] /\ response' = [response EXCEPT ![h] = answer]
  BY DEF Plain, PC, Answer
<1>3. /\ pc' \in [Handlers -> PC] /\ local' \in [Handlers -> Local \cup {Null}]
      /\ response' \in [Handlers -> Response \cup {Null}]
      /\ pc'[h] = "respond" /\ local'[h] = local[h] /\ response'[h] = answer
      /\ Moves(h) /\ RequestsGrow
  BY <1>1, <1>2, Proceeds
<1>4. UNCHANGED <<now, redirects, codes, jar, web_sessions>>
  BY DEF environment
<1>5. TypeOK'
  BY <1>1, <1>3, <1>4 DEF TypeOK
<1>6. Grows
  BY <1>1, <1>3, <1>4, TTLAssumption DEF Grows, SessionsGrow, TypeOK, Time
<1>7. HandlerInv(h)'
  BY <1>1, <1>3, PlainAnswered
<1>8. Consumed(h)' => Consumed(h)
  BY <1>1, <1>3, <1>4 DEF Consumed, InCallback, HasSession
<1>9. SessionInv' /\ FlowInv' /\ JarInv'
  BY <1>3, <1>4, <1>6, <1>8, ConsumedKept, SessionsKept, FlowsKept, JarsKept
<1> QED
  BY <1>3, <1>5, <1>6, <1>7, <1>9, OneMoves

\* The flow is deleted whether or not it was still good, and serves one
\* callback at most.
LEMMA ConsumeFlowStep ==
  ASSUME AuthInv, NEW h \in Handlers, ConsumeFlow(h)
  PROVE  AuthInv'
<1>1. /\ pc[h] = "consume" /\ UNCHANGED <<environment, web_sessions, principals, jar, local>>
      /\ auth_flows' = {flow \in auth_flows : flow.state # local[h].state}
  BY DEF ConsumeFlow
<1>2. Serving(h) /\ auth_flows' \subseteq auth_flows
  BY <1>1 DEF Serving
<1>3. /\ TypeOK /\ local[h] \in Local /\ ~HasSession(h) /\ Started(h)
      /\ KindInv(h) /\ CallbackInv(h) /\ local' = [local EXCEPT ![h] = local[h]]
  BY <1>1, <1>2, ServingIs
<1>4. CASE ~\E flow \in auth_flows : flow.state = local[h].state /\ now < flow.expires_at
  <2>1. Answer(h, Respond(401, "clear", "keep"))
    BY <1>4 DEF ConsumeFlow
  <2>2. PrincipalsGrow /\ principals' \in [Subjects -> {"absent", "ACTIVE", "INACTIVE"}]
    BY <1>1, <1>3 DEF PrincipalsGrow, TypeOK
  <2> QED
    BY <1>1, <1>2, <2>1, <2>2, AnsweredPlainly, PlainAnswers
<1>5. ASSUME NEW flow \in auth_flows, flow.state = local[h].state, now < flow.expires_at
      PROVE  AuthInv'
  <2>1. GoTo(h, "exchange") /\ "exchange" \in PC \ {"idle"} /\ Null \in Response \cup {Null}
    BY <1>5 DEF ConsumeFlow, PC
  <2>2. /\ pc' = [pc EXCEPT ![h] = "exchange"] /\ response' = [response EXCEPT ![h] = Null]
    BY <1>1, <2>1, GoesTo
  <2>3. /\ pc' \in [Handlers -> PC] /\ local' \in [Handlers -> Local \cup {Null}]
        /\ response' \in [Handlers -> Response \cup {Null}]
        /\ pc'[h] = "exchange" /\ local'[h] = local[h] /\ response'[h] = Null
        /\ Moves(h) /\ RequestsGrow
    BY <1>2, <1>3, <2>1, <2>2, Proceeds
  <2>4. UNCHANGED <<now, redirects, codes, web_sessions, principals, jar>>
    BY <1>1 DEF environment
  <2>5. Grows
    BY <2>3, <2>4, MovesGrow
  <2>6. TypeOK'
    BY <1>1, <1>3, <2>3, <2>4 DEF TypeOK
  <2>7. SessionInv' /\ JarInv'
    BY <2>4, <2>5, SessionsKept, JarsKept
  <2>8. OwnLogin(h) /\ OwnLogin(h)'
    BY <1>1, <1>3, <2>3, LoginsGrow DEF CallbackInv, InCallback
  <2>9. HandlerInv(h)'
    <3>1. KindInv(h)' /\ ResponseInv(h)'
      BY <1>1, <1>3, <2>3 DEF KindInv, ResponseInv
    <3>2. CallbackInv(h)' /\ AdmissionInv(h)'
      BY <1>1, <1>3, <2>3, <2>4, <2>8 DEF CallbackInv, InCallback, AdmissionInv
    <3> QED
      BY <3>1, <3>2 DEF HandlerInv
  <2>10. FlowInv'
    <3>1. FlowInv
      BY DEF AuthInv
    <3>2. \A g \in Handlers \ {h} : Consumed(g)' => Consumed(g)
      BY <2>3, <2>4 DEF Moves, Idles, Consumed, InCallback, HasSession
    <3>3. \A g \in Handlers : local'[g].state = local[g].state \/ ~Started(g)
      BY <2>3 DEF RequestsGrow
    <3>4. \A g \in Handlers \ {h} : Consumed(g)' =>
            /\ local'[g].state = local[g].state /\ local[g].state # local[h].state
            /\ \A other \in auth_flows' : other.state # local[g].state
      BY <1>2, <1>5, <3>1, <3>2, <3>3, ConsumedIsOwn DEF FlowInv
    <3>5. \A other \in auth_flows' : Login(other.state)'
      <4> SUFFICES ASSUME NEW other \in auth_flows PROVE Login(other.state)'
        BY <1>2
      <4>1. other.state \in Handlers /\ Login(other.state)
        BY <1>3, <3>1 DEF TypeOK, Flow, FlowInv
      <4> QED
        BY <2>3, <4>1, LoginsGrow
    <3> QED
      BY <1>1, <2>3, <3>1, <3>2, <3>4, <3>5 DEF FlowInv
  <2> QED
    BY <2>3, <2>5, <2>6, <2>7, <2>9, <2>10, OneMoves
<1> QED
  BY <1>4, <1>5

\* A step that leaves the tables alone and uses up nothing.
LEMMA ProceedStep ==
  ASSUME AuthInv, NEW h \in Handlers, Moves(h), UNCHANGED <<environment, tables, jar>>,
         pc' \in [Handlers -> PC], local' \in [Handlers -> Local \cup {Null}],
         response' \in [Handlers -> Response \cup {Null}],
         Consumed(h)' => Consumed(h), HandlerInv(h)'
  PROVE  AuthInv'
<1>1. UNCHANGED <<now, redirects, codes, auth_flows, web_sessions, principals, jar>>
  BY DEF environment, tables
<1>2. TypeOK'
  BY <1>1 DEF AuthInv, TypeOK
<1>3. Grows
  BY <1>1, MovesGrow
<1>4. SessionInv' /\ FlowInv' /\ JarInv'
  BY <1>1, <1>3, ConsumedKept, SessionsKept, FlowsKept, JarsKept
<1> QED
  BY <1>2, <1>3, <1>4, OneMoves

\* The nonce ties the code, and with it the user, to the login.
LEMMA ExchangeStep ==
  ASSUME AuthInv, NEW h \in Handlers, Exchange(h)
  PROVE  AuthInv'
<1>1. pc[h] = "exchange" /\ UNCHANGED <<environment, tables, jar>>
  BY DEF Exchange
<1>2. UNCHANGED <<now, redirects, codes, auth_flows, web_sessions, principals>>
  BY <1>1 DEF environment, tables
<1>3. Serving(h)
  BY <1>1 DEF Serving
<1>4. /\ TypeOK /\ local[h] \in Local /\ ~HasSession(h) /\ KindInv(h) /\ CallbackInv(h)
  BY <1>3, ServingIs
<1>5. CASE local[h].code.nonce # local[h].state
  <2>1. Answer(h, Respond(401, "clear", "keep")) /\ UNCHANGED local
    BY <1>5 DEF Exchange
  <2>2. PrincipalsGrow /\ principals' \in [Subjects -> {"absent", "ACTIVE", "INACTIVE"}]
    BY <1>2, <1>4 DEF PrincipalsGrow, TypeOK
  <2> QED
    BY <1>1, <1>2, <1>3, <2>1, <2>2, AnsweredPlainly, PlainAnswers
<1>6. CASE local[h].code.nonce = local[h].state
  <2> DEFINE request == [local[h] EXCEPT !.subject = local[h].code.subject]
  <2>1. /\ local' = [local EXCEPT ![h] = request] /\ GoTo(h, "resolve")
        /\ "resolve" \in PC \ {"idle"} /\ Null \in Response \cup {Null}
    BY <1>4, <1>6 DEF Exchange, PC, TypeOK
  <2>2. local[h].kind = "callback" /\ local[h].code \in Code /\ local[h].code \in codes
    BY <1>1, <1>4 DEF KindInv, CallbackInv
  <2>3. local[h].code = [nonce |-> local[h].state, subject |-> local[h].code.subject]
    BY <1>6, <2>2 DEF Code
  <2>4. /\ request \in Local /\ request.kind = local[h].kind /\ request.state = local[h].state
        /\ request.browser = local[h].browser /\ request.subject = local[h].code.subject
        /\ request.subject \in Subjects
    BY <1>4, <2>2 DEF Local, Code
  <2> HIDE DEF request
  <2>5. pc' = [pc EXCEPT ![h] = "resolve"] /\ response' = [response EXCEPT ![h] = Null]
    BY <1>1, <2>1, GoesTo
  <2>6. /\ pc' \in [Handlers -> PC] /\ local' \in [Handlers -> Local \cup {Null}]
        /\ response' \in [Handlers -> Response \cup {Null}]
        /\ pc'[h] = "resolve" /\ local'[h] = request /\ response'[h] = Null
        /\ Moves(h) /\ RequestsGrow
    BY <1>3, <2>1, <2>4, <2>5, Proceeds
  <2>7. OwnLogin(h)'
    BY <1>1, <1>4, <2>6, LoginsGrow DEF CallbackInv, InCallback
  <2>8. HandlerInv(h)'
    <3>1. KindInv(h)' /\ ResponseInv(h)'
      BY <2>2, <2>4, <2>6 DEF KindInv, ResponseInv
    <3>2. CallbackInv(h)' /\ AdmissionInv(h)'
      BY <1>2, <2>2, <2>3, <2>4, <2>6, <2>7 DEF CallbackInv, OwnCode, AdmissionInv
    <3> QED
      BY <3>1, <3>2 DEF HandlerInv
  <2>9. Consumed(h)
    BY <1>1 DEF Consumed, InCallback
  <2> QED
    BY <1>1, <2>6, <2>8, <2>9, ProceedStep
<1> QED
  BY <1>5, <1>6

\* A principal is inserted or left as it is.
LEMMA Upserted ==
  ASSUME TypeOK, NEW u \in Subjects, UpsertPrincipal(u)
  PROVE  /\ PrincipalsGrow /\ principals'[u] # "absent"
         /\ principals' \in [Subjects -> {"absent", "ACTIVE", "INACTIVE"}]
BY DEF TypeOK, UpsertPrincipal, PrincipalsGrow

\* The principal is there before the session is written or the request served.
LEMMA ResolvePrincipalStep ==
  ASSUME AuthInv, NEW h \in Handlers, ResolvePrincipal(h)
  PROVE  AuthInv'
<1>1. /\ pc[h] = "resolve" /\ UpsertPrincipal(local[h].subject)
      /\ UNCHANGED <<environment, auth_flows, web_sessions, jar, local>>
  BY DEF ResolvePrincipal
<1>2. UNCHANGED <<now, redirects, codes, auth_flows, web_sessions, jar>>
  BY <1>1 DEF environment
<1>3. Serving(h)
  BY <1>1 DEF Serving
<1>4. /\ TypeOK /\ local[h] \in Local /\ ~HasSession(h)
      /\ KindInv(h) /\ CallbackInv(h) /\ AdmissionInv(h)
      /\ local' = [local EXCEPT ![h] = local[h]]
  BY <1>1, <1>3, ServingIs
<1>5. local[h].subject \in Subjects
  BY <1>1, <1>4 DEF KindInv
<1>6. /\ PrincipalsGrow /\ principals'[local[h].subject] # "absent"
      /\ principals' \in [Subjects -> {"absent", "ACTIVE", "INACTIVE"}]
  BY <1>1, <1>4, <1>5, Upserted
<1>7. PICK label \in {"create", "respond"}, answer \in {Null, Respond(200, "keep", "keep")} :
        /\ label = "create" => local[h].kind = "callback" /\ answer = Null
        /\ label = "respond" =>
             local[h].kind # "callback" /\ answer = Respond(200, "keep", "keep")
        /\ pc' = [pc EXCEPT ![h] = label] /\ response' = [response EXCEPT ![h] = answer]
  <2>1. CASE local[h].kind = "callback"
    <3>1. GoTo(h, "create") /\ "create" \in PC
      BY <2>1 DEF ResolvePrincipal, PC
    <3>2. pc' = [pc EXCEPT ![h] = "create"] /\ response' = [response EXCEPT ![h] = Null]
      BY <1>1, <3>1, GoesTo
    <3> QED
      BY <2>1, <3>2
  <2>2. CASE local[h].kind # "callback"
    BY <2>2 DEF ResolvePrincipal, Answer
  <2> QED
    BY <2>1, <2>2
<1>8. /\ Respond(200, "keep", "keep") \in Response
      /\ label \in PC \ {"idle"} /\ answer \in Response \cup {Null}
  BY DEF Respond, Response, Cookie, PC
<1>9. /\ pc' \in [Handlers -> PC] /\ local' \in [Handlers -> Local \cup {Null}]
      /\ response' \in [Handlers -> Response \cup {Null}]
      /\ pc'[h] = label /\ local'[h] = local[h] /\ response'[h] = answer
      /\ Moves(h) /\ RequestsGrow
  BY <1>3, <1>4, <1>7, <1>8, Proceeds
<1>10. TypeOK'
  BY <1>2, <1>4, <1>6, <1>9 DEF TypeOK
<1>11. Grows
  BY <1>2, <1>4, <1>6, <1>9, TTLAssumption DEF Grows, SessionsGrow, TypeOK, Time
<1>12. HandlerInv(h)'
  <2>1. OwnLogin(h) => OwnLogin(h)'
    BY <1>9, LoginsGrow
  <2>2. KindInv(h)'
    BY <1>1, <1>4, <1>5, <1>7, <1>9 DEF KindInv
  <2>3. CallbackInv(h)' /\ AdmissionInv(h)'
    BY <1>1, <1>2, <1>4, <1>6, <1>7, <1>9, <2>1
       DEF CallbackInv, InCallback, OwnCode, AdmissionInv
  <2>4. ResponseInv(h)'
    <3>1. CASE label = "create"
      BY <1>7, <1>9, <3>1 DEF ResponseInv
    <3>2. CASE label = "respond"
      <4>1. /\ response'[h] \in Response /\ response'[h].status = 200
            /\ response'[h].session \notin Handlers /\ response'[h].state \notin Handlers
        BY <1>7, <1>8, <1>9, <3>2, CookieAssumption DEF Respond
      <4>2. local[h].kind = "api" => Admitted(h)
        BY <1>1, <1>4 DEF AdmissionInv
      <4>3. local[h].kind = "api" => Admitted(h)'
        BY <1>2, <1>9, <4>2 DEF Admitted
      <4> QED
        BY <1>9, <3>2, <4>1, <4>3 DEF ResponseInv
    <3> QED
      BY <3>1, <3>2
  <2> QED
    BY <2>2, <2>3, <2>4 DEF HandlerInv
<1>13. Consumed(h)' => Consumed(h)
  BY <1>1, <1>2, <1>4, <1>7, <1>9 DEF Consumed, InCallback, HasSession
<1>14. SessionInv' /\ FlowInv' /\ JarInv'
  BY <1>2, <1>9, <1>11, <1>13, ConsumedKept, SessionsKept, FlowsKept, JarsKept
<1> QED
  BY <1>9, <1>10, <1>11, <1>12, <1>14, OneMoves

\* The session is the first of its token, for the user the login was for.  The
\* answer may or may not tell the browser.
LEMMA SessionCreated ==
  ASSUME AuthInv, NEW h \in Handlers, pc[h] = "create",
         web_sessions' = web_sessions \cup {NewSession(h)},
         UNCHANGED <<environment, auth_flows, principals, jar, local>>,
         NEW answer \in Response, Answer(h, answer), answer.state \notin Handlers,
         answer.session \in Handlers => answer.session = h, answer.status \notin {200, 302}
  PROVE  AuthInv'
<1>1. UNCHANGED <<now, redirects, codes, auth_flows, principals, jar>>
  BY DEF environment
<1>2. Serving(h)
  BY DEF Serving
<1>3. /\ TypeOK /\ local[h] \in Local /\ ~HasSession(h)
      /\ KindInv(h) /\ CallbackInv(h) /\ local' = [local EXCEPT ![h] = local[h]]
  BY <1>2, ServingIs
<1>4. /\ local[h].subject \in Subjects /\ OwnLogin(h) /\ principals[local[h].subject] # "absent"
      /\ OwnCode(h, local[h].subject) \in codes
  BY <1>3 DEF KindInv, CallbackInv, InCallback
<1>5. /\ NewSession(h) \in Session /\ NewSession(h).token = h
      /\ NewSession(h).subject = local[h].subject
  BY <1>3, <1>4, TTLAssumption DEF NewSession, Session, Expiry, TypeOK, Time
<1>6. /\ "respond" \in PC \ {"idle"} /\ answer \in Response \cup {Null}
      /\ pc' = [pc EXCEPT ![h] = "respond"] /\ response' = [response EXCEPT ![h] = answer]
  BY DEF PC, Answer
<1>7. /\ pc' \in [Handlers -> PC] /\ local' \in [Handlers -> Local \cup {Null}]
      /\ response' \in [Handlers -> Response \cup {Null}]
      /\ pc'[h] = "respond" /\ local'[h] = local[h] /\ response'[h] = answer
      /\ Moves(h) /\ RequestsGrow
  BY <1>2, <1>3, <1>6, Proceeds
<1>8. TypeOK'
  BY <1>1, <1>3, <1>5, <1>7 DEF TypeOK
<1>9. SessionsGrow
  BY <1>3, <1>5 DEF SessionsGrow, HasSession
<1>10. Grows
  BY <1>1, <1>3, <1>7, <1>9, TTLAssumption DEF Grows, PrincipalsGrow, TypeOK, Time
<1>11. OwnLogin(h)' /\ HasSession(h)'
  BY <1>4, <1>5, <1>7, LoginsGrow DEF HasSession
<1>12. HandlerInv(h)'
  <2>1. KindInv(h)' /\ CallbackInv(h)' /\ AdmissionInv(h)'
    BY <1>3, <1>7 DEF KindInv, CallbackInv, InCallback, AdmissionInv
  <2>2. ResponseInv(h)'
    BY <1>7, <1>11 DEF ResponseInv, Respond
  <2> QED
    BY <2>1, <2>2 DEF HandlerInv
<1>13. SessionInv'
  <2>1. ASSUME NEW s \in web_sessions
        PROVE  /\ OwnLogin(s.token)' /\ pc'[s.token] \in {"respond", "done"}
               /\ OwnCode(s.token, s.subject)' \in codes'
               /\ principals'[s.subject] # "absent"
    <3>1. /\ s.token \in Handlers /\ OwnLogin(s.token) /\ pc[s.token] \in {"respond", "done"}
          /\ OwnCode(s.token, s.subject) \in codes /\ principals[s.subject] # "absent"
      BY <1>3 DEF AuthInv, SessionInv, TypeOK, Session
    <3>2. OwnLogin(s.token)'
      BY <1>7, <3>1, LoginsGrow
    <3> QED
      BY <1>1, <1>7, <3>1, <3>2 DEF RequestsGrow, OwnCode
  <2>2. OwnCode(h, local[h].subject)' \in codes'
    BY <1>1, <1>4 DEF OwnCode
  <2>3. \A s \in web_sessions : s.token # h
    BY <1>3 DEF HasSession
  <2>4. \A s, t \in web_sessions' : s.token = t.token => s = t
    BY <1>5, <2>3 DEF AuthInv, SessionInv
  <2>5. ASSUME NEW s \in web_sessions'
        PROVE  /\ OwnLogin(s.token)' /\ pc'[s.token] \in {"respond", "done"}
               /\ OwnCode(s.token, s.subject)' \in codes'
               /\ principals'[s.subject] # "absent"
    <3>1. CASE s \in web_sessions
      BY <2>1, <3>1
    <3>2. CASE s = NewSession(h)
      <4>1. s.token = h /\ s.subject = local[h].subject
        BY <1>5, <3>2
      <4> QED
        BY <1>1, <1>4, <1>7, <1>11, <2>2, <4>1 DEF OwnCode
    <3> QED
      BY <3>1, <3>2
  <2> QED
    BY <2>4, <2>5 DEF SessionInv
<1>14. \A g \in Handlers : Consumed(g)' => Consumed(g)
  <2>1. Consumed(h)
    BY DEF Consumed, InCallback
  <2>2. ASSUME NEW g \in Handlers, g # h, Consumed(g)' PROVE Consumed(g)
    <3>1. HasSession(g)' => HasSession(g)
      BY <1>5, <2>2 DEF HasSession
    <3> QED
      BY <1>7, <2>2, <3>1 DEF Consumed, InCallback, Moves, Idles
  <2> QED
    BY <2>1, <2>2
<1>15. FlowInv' /\ JarInv'
  BY <1>1, <1>10, <1>14, FlowsKept, JarsKept
<1> QED
  BY <1>7, <1>8, <1>10, <1>12, <1>13, <1>15, OneMoves

\* The session is written and its cookie answered.
LEMMA CreateSessionStep ==
  ASSUME AuthInv, NEW h \in Handlers, CreateSession(h)
  PROVE  AuthInv'
<1> DEFINE answer == Respond(303, "clear", h)
<1>1. /\ answer \in Response /\ answer.state \notin Handlers /\ answer.session = h
      /\ answer.status \notin {200, 302}
  BY CookieAssumption DEF Respond, Response, Cookie
<1>2. /\ pc[h] = "create" /\ web_sessions' = web_sessions \cup {NewSession(h)}
      /\ UNCHANGED <<environment, auth_flows, principals, jar, local>> /\ Answer(h, answer)
  BY DEF CreateSession
<1> HIDE DEF answer
<1> QED
  BY <1>1, <1>2, SessionCreated

\* The row keeps its token, its user and its expiry.
LEMMA RevokeSessionStep ==
  ASSUME AuthInv, NEW h \in Handlers, RevokeSession(h)
  PROVE  AuthInv'
<1> DEFINE revoked(s) == IF s.token = local[h].token THEN [s EXCEPT !.revoked = TRUE] ELSE s
           answer == Respond(204, "keep", "clear")
<1>1. /\ pc[h] = "revoke" /\ UNCHANGED <<environment, auth_flows, principals, jar, local>>
      /\ web_sessions' = {revoked(s) : s \in web_sessions} /\ Answer(h, answer)
  BY DEF RevokeSession
<1>2. Serving(h) /\ UNCHANGED <<now, redirects, codes, auth_flows, principals, jar>>
  BY <1>1 DEF Serving, environment
<1>3. /\ TypeOK /\ local[h] \in Local /\ ~HasSession(h)
      /\ local' = [local EXCEPT ![h] = local[h]]
  BY <1>1, <1>2, ServingIs
<1>4. \A s \in web_sessions :
        /\ revoked(s) \in Session /\ revoked(s).token = s.token /\ revoked(s).subject = s.subject
        /\ revoked(s).expires_at = s.expires_at
        /\ s.revoked => revoked(s).revoked
  BY <1>3 DEF TypeOK, Session
<1>5. Plain(answer)
  BY PlainAnswers
<1> HIDE DEF revoked, answer
<1>6. /\ "respond" \in PC \ {"idle"} /\ answer \in Response \cup {Null}
      /\ pc' = [pc EXCEPT ![h] = "respond"] /\ response' = [response EXCEPT ![h] = answer]
  BY <1>1, <1>5 DEF PC, Answer, Plain
<1>7. /\ pc' \in [Handlers -> PC] /\ local' \in [Handlers -> Local \cup {Null}]
      /\ response' \in [Handlers -> Response \cup {Null}]
      /\ pc'[h] = "respond" /\ local'[h] = local[h] /\ response'[h] = answer
      /\ Moves(h) /\ RequestsGrow
  BY <1>2, <1>3, <1>6, Proceeds
<1>8. TypeOK'
  BY <1>1, <1>2, <1>3, <1>4, <1>7 DEF TypeOK
<1>9. SessionsGrow
  BY <1>1, <1>4 DEF SessionsGrow
<1>10. Grows
  BY <1>2, <1>3, <1>7, <1>9, TTLAssumption DEF Grows, PrincipalsGrow, TypeOK, Time
<1>11. HandlerInv(h)'
  BY <1>3, <1>5, <1>7, PlainAnswered
<1>12. SessionInv'
  <2>1. SessionInv
    BY DEF AuthInv
  <2>2. ASSUME NEW t \in web_sessions'
        PROVE  /\ OwnLogin(t.token)' /\ pc'[t.token] \in {"respond", "done"}
               /\ OwnCode(t.token, t.subject)' \in codes'
               /\ principals'[t.subject] # "absent"
    <3>1. PICK s \in web_sessions : t = revoked(s)
      BY <1>1
    <3>2. /\ t.token = s.token /\ t.subject = s.subject
          /\ t.token \in Handlers /\ OwnLogin(t.token) /\ pc[t.token] \in {"respond", "done"}
          /\ OwnCode(t.token, t.subject) \in codes /\ principals[t.subject] # "absent"
      BY <1>3, <1>4, <2>1, <3>1 DEF SessionInv, TypeOK, Session
    <3>3. OwnLogin(t.token)'
      BY <1>7, <3>2, LoginsGrow
    <3> QED
      BY <1>1, <1>2, <1>7, <3>2, <3>3 DEF RequestsGrow, OwnCode
  <2>3. \A s, t \in web_sessions' : s.token = t.token => s = t
    BY <1>1, <1>4, <2>1 DEF SessionInv
  <2> QED
    BY <2>2, <2>3 DEF SessionInv
<1>13. \A g \in Handlers : Consumed(g)' => Consumed(g)
  <2>1. \A g : HasSession(g)' => HasSession(g)
    BY <1>1, <1>4 DEF HasSession
  <2>2. \A g \in Handlers : g = h => ~Consumed(g)'
    BY <1>3, <1>7, <2>1 DEF Consumed, InCallback
  <2> QED
    BY <1>7, <2>1, <2>2 DEF Consumed, InCallback, Moves, Idles
<1>14. FlowInv' /\ JarInv'
  BY <1>2, <1>10, <1>13, FlowsKept, JarsKept
<1> QED
  BY <1>7, <1>8, <1>10, <1>11, <1>12, <1>14, OneMoves

\* A row that is found vouches for the session since the request was sent.
LEMMA PrincipalForSessionStep ==
  ASSUME AuthInv, NEW h \in Handlers, PrincipalForSession(h)
  PROVE  AuthInv'
<1>1. pc[h] = "select" /\ UNCHANGED <<environment, tables, jar>>
  BY DEF PrincipalForSession
<1>2. Serving(h) /\ UNCHANGED <<now, redirects, codes, auth_flows, web_sessions, principals>>
  BY <1>1 DEF Serving, environment, tables
<1>3. /\ TypeOK /\ local[h] \in Local /\ ~HasSession(h) /\ KindInv(h) /\ AdmissionInv(h)
  BY <1>2, ServingIs
<1>4. CASE Answer(h, Respond(401, "keep", "keep")) /\ UNCHANGED local
  <2>1. PrincipalsGrow /\ principals' \in [Subjects -> {"absent", "ACTIVE", "INACTIVE"}]
    BY <1>2, <1>3 DEF PrincipalsGrow, TypeOK
  <2> QED
    BY <1>1, <1>2, <1>4, <2>1, AnsweredPlainly, PlainAnswers
<1>5. ASSUME NEW s \in web_sessions, Admissible(s, local[h].token),
             local' = [local EXCEPT ![h].subject = s.subject], GoTo(h, "resolve")
      PROVE  AuthInv'
  <2> DEFINE request == [local[h] EXCEPT !.subject = s.subject]
  <2>1. /\ local' = [local EXCEPT ![h] = request]
        /\ "resolve" \in PC \ {"idle"} /\ Null \in Response \cup {Null}
    BY <1>3, <1>5 DEF PC, TypeOK
  <2>2. local[h].kind = "api" /\ s.subject \in Subjects /\ local[h].usable
    BY <1>1, <1>3, <1>5 DEF KindInv, AdmissionInv, TypeOK, Session
  <2>3. /\ request \in Local /\ request.kind = local[h].kind /\ request.state = local[h].state
        /\ request.browser = local[h].browser /\ request.subject = s.subject
        /\ request.token = local[h].token /\ request.usable = local[h].usable
    BY <1>3, <2>2 DEF Local
  <2> HIDE DEF request
  <2>4. pc' = [pc EXCEPT ![h] = "resolve"] /\ response' = [response EXCEPT ![h] = Null]
    BY <1>1, <1>5, <2>1, GoesTo
  <2>5. /\ pc' \in [Handlers -> PC] /\ local' \in [Handlers -> Local \cup {Null}]
        /\ response' \in [Handlers -> Response \cup {Null}]
        /\ pc'[h] = "resolve" /\ local'[h] = request /\ response'[h] = Null
        /\ Moves(h) /\ RequestsGrow
    BY <1>2, <2>1, <2>3, <2>4, Proceeds
  <2>6. Admitted(h)'
    BY <1>2, <1>5, <2>2, <2>3, <2>5 DEF Admitted, Admissible
  <2>7. HandlerInv(h)'
    <3>1. KindInv(h)' /\ ResponseInv(h)'
      BY <2>2, <2>3, <2>5 DEF KindInv, ResponseInv
    <3>2. CallbackInv(h)' /\ AdmissionInv(h)'
      BY <2>2, <2>3, <2>5, <2>6 DEF CallbackInv, InCallback, AdmissionInv
    <3> QED
      BY <3>1, <3>2 DEF HandlerInv
  <2>8. ~Consumed(h)'
    BY <1>2, <1>3, <2>2, <2>3, <2>5 DEF Consumed, InCallback, HasSession
  <2> QED
    BY <1>1, <2>5, <2>7, <2>8, ProceedStep
<1> QED
  BY <1>4, <1>5 DEF PrincipalForSession

-----------------------------------------------------------------------------
(* Failures *)

\* What a handler answers to an error sets no cookie.
LEMMA OnErrorIsPlain ==
  ASSUME NEW h
  PROVE  Plain(OnError(h))
<1>1. /\ Plain(Respond(401, "clear", "keep")) /\ Plain(Respond(500, "clear", "keep"))
      /\ Plain(Respond(204, "keep", "clear")) /\ Plain(Respond(401, "keep", "keep"))
  BY PlainAnswers
<1> QED
  BY <1>1 DEF OnError

\* A failed statement changes nothing.
LEMMA StatementFailsStep ==
  ASSUME AuthInv, NEW h \in Handlers, StatementFails(h)
  PROVE  AuthInv'
<1>1. /\ Serving(h) /\ Answer(h, OnError(h)) /\ UNCHANGED <<environment, jar, local>>
      /\ UNCHANGED <<auth_flows, web_sessions, principals>>
  BY DEF StatementFails, Serving, tables
<1>2. PrincipalsGrow /\ principals' \in [Subjects -> {"absent", "ACTIVE", "INACTIVE"}]
  BY <1>1 DEF PrincipalsGrow, AuthInv, TypeOK
<1> QED
  BY <1>1, <1>2, AnsweredPlainly, OnErrorIsPlain

\* A statement that took effect unnoticed leaves a used flow, a principal or a session
\* nobody holds.
LEMMA StatementUnacknowledgedStep ==
  ASSUME AuthInv, NEW h \in Handlers, StatementUnacknowledged(h)
  PROVE  AuthInv'
<1> DEFINE answer == OnError(h)
<1>1. Answer(h, answer) /\ UNCHANGED <<environment, jar, local>> /\ Plain(answer) /\ TypeOK
  BY OnErrorIsPlain DEF StatementUnacknowledged, AuthInv
<1> HIDE DEF answer
<1>2. CASE /\ pc[h] = "consume" /\ UNCHANGED <<web_sessions, principals>>
           /\ auth_flows' = {flow \in auth_flows : flow.state # local[h].state}
  <2>1. /\ PrincipalsGrow /\ principals' \in [Subjects -> {"absent", "ACTIVE", "INACTIVE"}]
        /\ auth_flows' \subseteq auth_flows /\ Serving(h)
    BY <1>1, <1>2 DEF PrincipalsGrow, TypeOK, Serving
  <2> QED
    BY <1>1, <1>2, <2>1, AnsweredPlainly
<1>3. CASE /\ pc[h] = "resolve" /\ UNCHANGED <<auth_flows, web_sessions>>
           /\ UpsertPrincipal(local[h].subject)
  <2>1. Serving(h)
    BY <1>3 DEF Serving
  <2>2. local[h].subject \in Subjects
    BY <1>3, <2>1, ServingIs DEF KindInv
  <2>3. PrincipalsGrow /\ principals' \in [Subjects -> {"absent", "ACTIVE", "INACTIVE"}]
    BY <1>1, <1>3, <2>2, Upserted
  <2> QED
    BY <1>1, <1>3, <2>1, <2>3, AnsweredPlainly
<1>4. CASE /\ pc[h] = "create" /\ UNCHANGED <<auth_flows, principals>>
           /\ web_sessions' = web_sessions \cup {NewSession(h)}
  BY <1>1, <1>4, SessionCreated DEF Plain
<1> QED
  BY <1>2, <1>3, <1>4 DEF StatementUnacknowledged

-----------------------------------------------------------------------------
(* Answers reach the browser, or do not *)

\* The handler ends; what it wrote remains.
LEMMA Finished ==
  ASSUME AuthInv, NEW h \in Handlers, pc[h] # "idle", Finish(h), UNCHANGED <<now, codes, tables, local>>
  PROVE  /\ pc' \in [Handlers -> PC] /\ response' \in [Handlers -> Response \cup {Null}]
         /\ Moves(h) /\ Grows /\ HandlerInv(h)' /\ SessionInv' /\ FlowInv'
<1>1. UNCHANGED <<now, codes, auth_flows, web_sessions, principals, local>>
  BY DEF tables
<1>2. TypeOK /\ KindInv(h)
  BY DEF AuthInv, HandlerInv
<1>3. /\ pc' \in [Handlers -> PC] /\ response' \in [Handlers -> Response \cup {Null}]
      /\ pc'[h] = "done" /\ response'[h] = Null /\ \A g \in Handlers \ {h} : Idles(g)
  BY <1>1, <1>2 DEF Finish, TypeOK, PC, Idles
<1>4. Moves(h)
  BY <1>1, <1>3 DEF Moves
<1>5. Grows
  BY <1>1, <1>4, MovesGrow
<1>6. HandlerInv(h)'
  BY <1>1, <1>2, <1>3
     DEF HandlerInv, KindInv, ResponseInv, CallbackInv, AdmissionInv, InCallback, Started
<1>7. Consumed(h)' => Consumed(h)
  BY <1>1, <1>3 DEF Consumed, InCallback, HasSession
<1>8. SessionInv' /\ FlowInv'
  BY <1>1, <1>4, <1>5, <1>7, ConsumedKept, SessionsKept, FlowsKept
<1> QED
  BY <1>3, <1>4, <1>5, <1>6, <1>8

\* The answer is lost.
LEMMA LoseStep ==
  ASSUME AuthInv, NEW h \in Handlers, Lose(h)
  PROVE  AuthInv'
<1>1. /\ pc[h] # "idle" /\ Finish(h) /\ UNCHANGED <<now, redirects, codes, tables, jar, local>>
  BY DEF Lose, environment
<1>2. /\ pc' \in [Handlers -> PC] /\ response' \in [Handlers -> Response \cup {Null}]
      /\ Moves(h) /\ Grows /\ HandlerInv(h)' /\ SessionInv' /\ FlowInv'
  BY <1>1, Finished
<1>3. TypeOK'
  BY <1>1, <1>2 DEF AuthInv, TypeOK, tables
<1>4. JarInv'
  BY <1>1, <1>2, JarsKept
<1> QED
  BY <1>2, <1>3, <1>4, OneMoves

\* The browser that asked gets the cookies of its own login and session.
LEMMA DeliverStep ==
  ASSUME AuthInv, NEW h \in Handlers, Deliver(h)
  PROVE  AuthInv'
<1> DEFINE b == local[h].browser
           state == SetCookie(jar[b].state, response[h].state)
           session == SetCookie(jar[b].session, response[h].session)
<1>1. /\ pc[h] = "respond" /\ Finish(h) /\ UNCHANGED <<now, codes, tables, local>>
      /\ redirects' = redirects \cup IF response[h].status = 302 THEN {h} ELSE {}
      /\ jar' = [jar EXCEPT ![b] = [state |-> SetCookie(@.state, response[h].state),
                                    session |-> SetCookie(@.session, response[h].session)]]
  BY DEF Deliver
<1>2. /\ pc' \in [Handlers -> PC] /\ response' \in [Handlers -> Response \cup {Null}]
      /\ Moves(h) /\ Grows /\ HandlerInv(h)' /\ SessionInv' /\ FlowInv'
  BY <1>1, Finished
<1>3. /\ TypeOK /\ KindInv(h) /\ ResponseInv(h) /\ JarInv
  BY DEF AuthInv, HandlerInv
<1>4. b \in Browsers /\ response[h] \in Response
  BY <1>1, <1>3 DEF KindInv, ResponseInv, Started, Local
<1>5. /\ state \in {jar[b].state, Null} \/ (state = h /\ Login(h))
      /\ session \in {jar[b].session, Null} \/ (session = h /\ OwnLogin(h) /\ HasSession(h))
  <2>1. response[h].state \in Cookie /\ response[h].session \in Cookie
    BY <1>4 DEF Response
  <2>2. /\ response[h].state \in Handlers => response[h].state = h /\ Login(h)
        /\ response[h].session \in Handlers =>
             response[h].session = h /\ OwnLogin(h) /\ HasSession(h)
    BY <1>1, <1>3 DEF ResponseInv
  <2> QED
    BY <2>1, <2>2 DEF SetCookie, Cookie
<1>6. /\ jar'[b].state = state /\ jar'[b].session = session
      /\ \A c \in Browsers \ {b} : jar'[c] = jar[c]
      /\ jar' \in [Browsers -> [state : Handlers \cup {Null}, session : Handlers \cup {Null}]]
  <2>1. state \in Handlers \cup {Null} /\ session \in Handlers \cup {Null}
    BY <1>3, <1>4, <1>5 DEF TypeOK
  <2>2. jar' = [jar EXCEPT ![b] = [state |-> state, session |-> session]]
    BY <1>1, <1>3, <1>4 DEF TypeOK
  <2> HIDE DEF state, session, b
  <2> QED
    BY <1>3, <1>4, <2>1, <2>2 DEF TypeOK
<1>7. TypeOK'
  <2>1. redirects' \in SUBSET Handlers
    BY <1>1, <1>3 DEF TypeOK
  <2> QED
    BY <1>1, <1>2, <1>3, <1>6, <2>1 DEF TypeOK, tables
<1> HIDE DEF state, session
<1>8. \A g \in Handlers : /\ Login(g) => Login(g)'
                          /\ OwnLogin(g) => OwnLogin(g)'
                          /\ HasSession(g) => HasSession(g)'
  BY <1>1, <1>2, LoginsGrow DEF Grows, HasSession, tables
<1>9. \A g \in redirects' : Login(g)'
  BY <1>1, <1>3, <1>8 DEF TypeOK, JarInv, ResponseInv
<1>10. ASSUME NEW c \in Browsers, NEW d \in Handlers, jar'[c].state = d
       PROVE  Login(d)' /\ local'[d].browser = c
  <2>1. Login(d) /\ local[d].browser = c
    BY <1>3, <1>4, <1>5, <1>6, <1>10, NullAssumption DEF JarInv
  <2> QED
    BY <1>1, <1>8, <2>1
<1>11. ASSUME NEW c \in Browsers, NEW d \in Handlers, jar'[c].session = d
       PROVE  OwnLogin(d)' /\ local'[d].browser = c /\ HasSession(d)'
  <2>1. OwnLogin(d) /\ local[d].browser = c /\ HasSession(d)
    BY <1>3, <1>4, <1>5, <1>6, <1>11, NullAssumption DEF JarInv
  <2> QED
    BY <1>1, <1>8, <2>1
<1>12. JarInv'
  <2>1. ASSUME NEW c \in Browsers
        PROVE  /\ jar'[c].state # Null => jar'[c].state \in Handlers
               /\ jar'[c].session # Null => jar'[c].session \in Handlers
    BY <1>6
  <2>2. ASSUME NEW c \in Browsers, jar'[c].state # Null
        PROVE  Login(jar[c].state)' /\ local'[jar'[c].state].browser = c
    BY <1>10, <2>1, <2>2 DEF Login, Started
  <2>3. ASSUME NEW c \in Browsers, jar'[c].session # Null
        PROVE  /\ OwnLogin(jar[c].session)' /\ local'[jar'[c].session].browser = c
               /\ HasSession(jar[c].session)'
    BY <1>11, <2>1, <2>3 DEF OwnLogin, Login, Started, HasSession
  <2> QED
    BY <1>9, <2>2, <2>3 DEF JarInv
<1> QED
  BY <1>2, <1>7, <1>12, OneMoves

-----------------------------------------------------------------------------
(* The environment *)

\* What happens elsewhere leaves every request alone.
LEMMA ElsewhereStep ==
  ASSUME AuthInv, TypeOK', Grows,
         UNCHANGED <<auth_flows, web_sessions, redirects, jar, pc, local, response>>
  PROVE  AuthInv'
<1>1. \A g \in Handlers : HandlerInv(g)'
  BY OthersKeep DEF Idles
<1>2. \A g \in Handlers : Consumed(g)' => Consumed(g)
  BY DEF Consumed, InCallback, HasSession
<1>3. SessionInv' /\ FlowInv' /\ JarInv'
  BY <1>2, SessionsKept, FlowsKept, JarsKept
<1> QED
  BY <1>1, <1>3 DEF AuthInv

\* A user authenticates, a principal is taken out of service, time passes.
LEMMA EnvironmentStep ==
  ASSUME AuthInv, Authenticate \/ Deactivate \/ Tick \/ UNCHANGED vars
  PROVE  AuthInv'
<1>1. TypeOK /\ now \in Nat
  BY TTLAssumption DEF AuthInv, TypeOK, Time
<1>2. UNCHANGED <<web_sessions, pc, local>> => RequestsGrow /\ SessionsGrow
  BY DEF RequestsGrow, SessionsGrow, Started
<1>3. CASE Authenticate
  <2>1. /\ UNCHANGED <<now, auth_flows, web_sessions, principals, redirects, jar, pc, local, response>>
        /\ codes \subseteq codes' /\ codes' \in SUBSET Code
    BY <1>1, <1>3 DEF Authenticate, tables, TypeOK, Code
  <2>2. Grows /\ TypeOK'
    BY <1>1, <1>2, <2>1 DEF Grows, PrincipalsGrow, TypeOK
  <2> QED
    BY <2>1, <2>2, ElsewhereStep
<1>4. CASE Deactivate
  <2>1. /\ UNCHANGED <<now, codes, auth_flows, web_sessions, redirects, jar, pc, local, response>>
        /\ PrincipalsGrow /\ principals' \in [Subjects -> {"absent", "ACTIVE", "INACTIVE"}]
    BY <1>1, <1>4 DEF Deactivate, environment, PrincipalsGrow, TypeOK
  <2>2. Grows /\ TypeOK'
    BY <1>1, <1>2, <2>1 DEF Grows, TypeOK
  <2> QED
    BY <2>1, <2>2, ElsewhereStep
<1>5. CASE Tick
  <2>1. /\ UNCHANGED <<codes, auth_flows, web_sessions, principals, redirects, jar, pc, local, response>>
        /\ now' \in Time /\ now' \in Nat /\ now <= now'
    BY <1>1, <1>5, TTLAssumption DEF Tick, tables, TypeOK, Time
  <2>2. Grows /\ TypeOK'
    BY <1>1, <1>2, <2>1 DEF Grows, PrincipalsGrow, TypeOK
  <2> QED
    BY <2>1, <2>2, ElsewhereStep
<1>6. CASE UNCHANGED vars
  <2>1. UNCHANGED <<now, codes, auth_flows, web_sessions, principals, redirects, jar, pc, local, response>>
    BY <1>6 DEF vars
  <2>2. Grows /\ TypeOK'
    BY <1>1, <1>2, <2>1 DEF Grows, PrincipalsGrow, TypeOK
  <2> QED
    BY <2>1, <2>2, ElsewhereStep
<1> QED
  BY <1>3, <1>4, <1>5, <1>6

-----------------------------------------------------------------------------
(* The theorems *)

\* No request, no session, no cookie.
LEMMA AuthInit == Init => AuthInv
<1> SUFFICES ASSUME Init PROVE AuthInv
  OBVIOUS
<1>1. TypeOK
  BY TTLAssumption DEF Init, TypeOK, Time, PC
<1>2. \A h \in Handlers : HandlerInv(h)
  BY DEF Init, HandlerInv, KindInv, ResponseInv, CallbackInv, AdmissionInv, InCallback, Started
<1>3. SessionInv /\ JarInv
  BY DEF Init, SessionInv, JarInv
<1>4. FlowInv
  BY DEF Init, FlowInv, Consumed, InCallback, HasSession
<1> QED
  BY <1>1, <1>2, <1>3, <1>4 DEF AuthInv

\* Every step keeps the invariant.
LEMMA AuthStep == AuthInv /\ [Next]_vars => AuthInv'
<1> SUFFICES ASSUME AuthInv, [Next]_vars PROVE AuthInv'
  OBVIOUS
<1>1. ASSUME NEW h \in Handlers, Arrive(h) PROVE AuthInv'
  BY <1>1, BeginStep, CallbackStep, LogoutStep, ApiRequestStep, BearerRequestStep DEF Arrive
<1>2. ASSUME NEW h \in Handlers, Proceed(h) PROVE AuthInv'
  BY <1>2, ConsumeFlowStep, ExchangeStep, ResolvePrincipalStep, CreateSessionStep,
     RevokeSessionStep, PrincipalForSessionStep, DeliverStep DEF Proceed
<1>3. ASSUME NEW h \in Handlers, Fault(h) PROVE AuthInv'
  BY <1>3, StatementFailsStep, StatementUnacknowledgedStep, LoseStep DEF Fault
<1>4. ASSUME Authenticate \/ Deactivate \/ Tick \/ Quiet \/ UNCHANGED vars PROVE AuthInv'
  BY <1>4, EnvironmentStep DEF Quiet
<1> QED
  BY <1>1, <1>2, <1>3, <1>4 DEF Next

\* The inductive invariant holds of the login, the sessions and the middleware.
THEOREM AuthInvariant == Spec => []AuthInv
BY AuthInit, AuthStep, PTL DEF Spec

\* The variables keep their types: requests, browsers and users without bound.
THEOREM AuthTypes == Spec => []TypeOK
<1>1. AuthInv => TypeOK
  BY DEF AuthInv
<1> QED
  BY <1>1, AuthInvariant, PTL

\* DELETE ... RETURNING lets one of any number of repeated callbacks through.
THEOREM LoginGivesOneSession == Spec => []FlowSingleUse
<1>1. AuthInv => FlowSingleUse
  <2> SUFFICES ASSUME AuthInv, NEW s \in web_sessions, NEW t \in web_sessions,
                      local[s.token].state = local[t.token].state
               PROVE  s = t
    BY DEF FlowSingleUse
  <2>1. /\ s.token \in Handlers /\ t.token \in Handlers
        /\ Consumed(s.token) /\ Consumed(t.token)
    BY DEF AuthInv, TypeOK, Session, Consumed, HasSession
  <2>2. s.token = t.token
    BY <2>1 DEF AuthInv, FlowInv
  <2> QED
    BY <2>2 DEF AuthInv, SessionInv
<1> QED
  BY <1>1, AuthInvariant, PTL

\* The state cookie keeps the sessions of other browsers' logins away.
THEOREM BrowsersHoldTheirOwn == Spec => []SessionOfOwnLogin
<1>1. AuthInv => SessionOfOwnLogin
  BY DEF AuthInv, JarInv, SessionOfOwnLogin, OwnLogin
<1> QED
  BY <1>1, AuthInvariant, PTL

\* The nonce keeps the users of other logins away.
THEOREM SessionsAreAuthenticated == Spec => []SessionOfAuthenticatedUser
<1>1. AuthInv => SessionOfAuthenticatedUser
  BY DEF AuthInv, SessionInv, SessionOfAuthenticatedUser, OwnCode
<1> QED
  BY <1>1, AuthInvariant, PTL

\* A session that was bad when a request was sent admits it at no later moment,
\* whatever logins, logouts and deactivations run beside it.
THEOREM StaleSessionsAreRefused == Spec => []StaleSessionRefused
<1>1. AuthInv => StaleSessionRefused
  <2> SUFFICES ASSUME AuthInv, NEW h \in Handlers, response[h] = Respond(200, "keep", "keep"),
                      local[h].kind = "api"
               PROVE  Admitted(h)
    BY DEF StaleSessionRefused, Admitted
  <2>1. ResponseInv(h)
    BY DEF AuthInv, HandlerInv
  <2>2. response[h] # Null
    BY ResponseAssumption DEF Respond, Response, Cookie
  <2> QED
    BY <2>1, <2>2 DEF ResponseInv
<1> QED
  BY <1>1, AuthInvariant, PTL
=============================================================================
