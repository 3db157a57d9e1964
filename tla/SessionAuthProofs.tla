--------------------------- MODULE SessionAuthProofs ---------------------------
(***************************************************************************)
(* Who a session and a reservation belong to, proved for every number of   *)
(* handlers, browsers and users and every choice of requests.              *)
(***************************************************************************)
EXTENDS SessionAuth, TLAPS

Locals == [user : OptUser, session : OptToken, owner : OptUser, code : Codes, token : OptToken]

--------------------------------------------------------------------------------
(* Types *)

\* A cookie's lifetime is a natural number.
LEMMA MaxAgeType == MaxAge \in Nat
<1>1. TTL \in Nat /\ Second \in Nat /\ Second > 0
  BY SessionAssumption
<1>2. TTL \div Second \in Nat
  BY <1>1
<1> QED
  BY <1>1, <1>2 DEF MaxAge

\* What a division cuts off is less than the divisor.
LEMMA DivisionBound == \A a \in Nat, b \in Nat \ {0} : (a \div b) * b + b > a
BY SMTT(30)

\* A cookie lasts as long as the TTL but for less than a second.
LEMMA MaxAgeFits == MaxAge + Second > TTL
<1>1. TTL \in Nat /\ Second \in Nat \ {0}
  BY SessionAssumption
<1> QED
  BY <1>1, DivisionBound DEF MaxAge

\* The initial state has its types.
LEMMA TypeInit == Init => TypeOK
<1> SUFFICES ASSUME Init PROVE TypeOK
  OBVIOUS
<1>1. NoRequest \in Request
  BY SessionAssumption DEF NoRequest, Request, Ops
<1>2. NoLocals \in Locals /\ NoSession \in [exists : BOOLEAN, user : OptUser, expires : Nat, seen : Nat]
  BY DEF NoLocals, NoSession, Locals, OptUser, OptToken, Codes
<1>3. NoReservation \in [exists : BOOLEAN, session : OptToken, user : OptUser]
  BY DEF NoReservation, OptUser, OptToken
<1>4. NoCookie \in [token : OptToken, until : Nat]
  BY DEF NoCookie, OptToken
<1>5. "idle" \in Labels /\ "none" \in Codes /\ NoToken \in OptToken
  BY DEF Labels, Codes, OptToken
<1> QED
  BY <1>1, <1>2, <1>3, <1>4, <1>5, SessionAssumption DEF Init, TypeOK, Locals

\* A step of one handler that keeps the browsers and the clock has the right
\* types when the new label and the new locals have.
LEMMA ContinueType ==
    ASSUME TypeOK, NEW h \in Handlers, NEW l, NEW label,
           label \in Labels, l \in Locals,
           label = "touch" => cookie[h] # NoToken,
           label \in {"attach", "insert", "read"} => l.session # NoToken,
           Continue(h, label, l),
           users' \subseteq [id : UserIds, email : Emails, password : Passwords],
           sessions' \in [Handlers -> [exists : BOOLEAN, user : OptUser, expires : Nat, seen : Nat]],
           reservations' \in [Handlers -> [exists : BOOLEAN, session : OptToken, user : OptUser]]
    PROVE  TypeOK'
<1>1. pc' = [pc EXCEPT ![h] = label] /\ loc' = [loc EXCEPT ![h] = l]
  BY DEF Continue
<1>2. UNCHANGED <<jar, now, req, cookie, before, resp>>
  BY DEF Continue
<1>3. pc' \in [Handlers -> Labels] /\ loc' \in [Handlers -> Locals]
  BY <1>1 DEF TypeOK, Locals
<1>4. ASSUME NEW g \in Handlers
      PROVE  /\ pc'[g] = "touch" => cookie'[g] # NoToken
             /\ pc'[g] \in {"attach", "insert", "read"} => loc'[g].session # NoToken
  <2>1. CASE g = h
    BY <1>1, <1>2, <2>1 DEF TypeOK
  <2>2. CASE g # h
    BY <1>1, <1>2, <2>2 DEF TypeOK
  <2> QED
    BY <2>1, <2>2
<1> QED
  BY <1>2, <1>3, <1>4 DEF TypeOK, Locals

\* The locals of a handler, with a code and a token, are locals.
LEMMA AnswerType ==
    ASSUME TypeOK, NEW h \in Handlers, NEW l \in Locals, NEW code \in Codes,
           NEW token \in OptToken, Answer(h, l, code, token),
           users' \subseteq [id : UserIds, email : Emails, password : Passwords],
           sessions' \in [Handlers -> [exists : BOOLEAN, user : OptUser, expires : Nat, seen : Nat]],
           reservations' \in [Handlers -> [exists : BOOLEAN, session : OptToken, user : OptUser]]
    PROVE  TypeOK'
<1>1. [l EXCEPT !.code = code, !.token = token] \in Locals
  BY DEF Locals
<1>2. "respond" \in Labels /\ "respond" \notin {"touch", "attach", "insert", "read"}
  BY DEF Labels
<1>3. Continue(h, "respond", [l EXCEPT !.code = code, !.token = token])
  BY DEF Answer
<1> HIDE DEF Locals
<1> QED
  BY <1>1, <1>2, <1>3, ContinueType

\* Every step keeps the types.
LEMMA TypeStep == TypeOK /\ [Next]_vars => TypeOK'
<1> SUFFICES ASSUME TypeOK, [Next]_vars PROVE TypeOK'
  OBVIOUS
<1> USE SessionAssumption
<1>l. \A h \in Handlers : loc[h] \in Locals
  BY DEF TypeOK, Locals
<1>t. NoToken \in OptToken /\ \A h \in Handlers : h \in OptToken /\ h # NoToken
  BY DEF OptToken
<1>c. Codes = {"none", "OK", "LOST", "FAILED", "INVALID", "EMAIL_TAKEN",
               "INVALID_CREDENTIALS", "SESSION_REQUIRED", "NOT_FOUND"}
  BY DEF Codes
<1>p. Labels = {"idle", "done", "respond", "register", "credentials", "attach", "create",
                "lookup", "touch", "insert", "read"}
  BY DEF Labels
<1>d. UNCHANGED db => /\ users' \subseteq [id : UserIds, email : Emails, password : Passwords]
                      /\ sessions' \in [Handlers -> [exists : BOOLEAN, user : OptUser, expires : Nat, seen : Nat]]
                      /\ reservations' \in [Handlers -> [exists : BOOLEAN, session : OptToken, user : OptUser]]
  BY DEF TypeOK, db
<1>1. ASSUME NEW h \in Handlers, BeginRequest(h) PROVE TypeOK'
  <2>1. PICK rq \in Requests[h] :
          /\ rq.op \in Ops \ {"none"}
          /\ req' = [req EXCEPT ![h] = rq]
          /\ cookie' = [cookie EXCEPT ![h] =
                IF now < jar[rq.browser].until THEN jar[rq.browser].token ELSE NoToken]
          /\ before' = [before EXCEPT ![h] = {o \in Handlers : pc[o] = "done"}]
          /\ pc' = [pc EXCEPT ![h] = FirstStatement(rq.op)]
          /\ loc' = [loc EXCEPT ![h].code = IF rq.op = "logout" THEN "OK" ELSE "none"]
    BY <1>1 DEF BeginRequest
  <2>2. UNCHANGED <<db, jar, now, resp>>
    BY <1>1 DEF BeginRequest
  <2>3. rq \in Request /\ rq.browser \in Browsers
    BY <2>1 DEF Request
  <2>4. FirstStatement(rq.op) \in {"create", "register", "credentials", "respond", "lookup"}
    BY <2>1, Zenon DEF FirstStatement
  <2>5. req' \in [Handlers -> Request]
    BY <2>1, <2>3 DEF TypeOK
  <2>6. cookie' \in [Handlers -> OptToken]
    BY <2>1, <2>3, <1>t DEF TypeOK
  <2>7. before' \in [Handlers -> SUBSET Handlers]
    BY <2>1 DEF TypeOK
  <2>8. pc' \in [Handlers -> Labels]
    BY <2>1, <2>4, <1>p DEF TypeOK
  <2>9. loc' \in [Handlers -> Locals]
    <3> DEFINE l == [loc[h] EXCEPT !.code = IF rq.op = "logout" THEN "OK" ELSE "none"]
    <3>1. (IF rq.op = "logout" THEN "OK" ELSE "none") \in Codes
      BY <1>c
    <3>2. l \in Locals
      BY <3>1, <1>l DEF Locals
    <3>3. loc' = [loc EXCEPT ![h] = l]
      BY <2>1 DEF TypeOK
    <3> HIDE DEF l
    <3> QED
      BY <3>2, <3>3 DEF TypeOK, Locals
  <2>10. ASSUME NEW g \in Handlers
         PROVE  /\ pc'[g] = "touch" => cookie'[g] # NoToken
                /\ pc'[g] \in {"attach", "insert", "read"} => loc'[g].session # NoToken
    <3>1. CASE g = h
      BY <2>1, <2>4, <3>1 DEF TypeOK
    <3>2. CASE g # h
      BY <2>1, <3>2 DEF TypeOK
    <3> QED
      BY <3>1, <3>2
  <2> QED
    BY <2>2, <2>5, <2>6, <2>7, <2>8, <2>9, <2>10, <1>d DEF TypeOK, Locals
<1>2. ASSUME NEW h \in Handlers, Register(h) PROVE TypeOK'
  <2>1. req[h] \in Request /\ Normal[req[h].email] \in Emails /\ req[h].password \in Passwords
    BY DEF TypeOK, Request
  <2>2. [id |-> h, email |-> Normal[req[h].email], password |-> req[h].password]
           \in [id : UserIds, email : Emails, password : Passwords]
    BY <2>1 DEF UserIds
  <2>3. users' \subseteq [id : UserIds, email : Emails, password : Passwords]
    BY <1>2, <2>2 DEF Register, TypeOK
  <2>4. PICK code \in Codes : Answer(h, loc[h], code, NoToken)
    BY <1>2, <1>c DEF Register
  <2>5. UNCHANGED <<sessions, reservations>>
    BY <1>2 DEF Register
  <2> QED
    BY <2>3, <2>4, <2>5, <1>l, <1>t, AnswerType DEF TypeOK
<1>3. ASSUME NEW h \in Handlers, Credentials(h) PROVE TypeOK'
  <2>1. UNCHANGED db
    BY <1>3 DEF Credentials
  <2>2. CASE \E u \in users : Continue(h, "lookup", [loc[h] EXCEPT !.user = u.id])
    <3>1. PICK u \in users : Continue(h, "lookup", [loc[h] EXCEPT !.user = u.id])
      BY <2>2
    <3>2. u.id \in OptUser
      BY DEF TypeOK, OptUser
    <3>3. [loc[h] EXCEPT !.user = u.id] \in Locals
      BY <3>2, <1>l DEF Locals
    <3> QED
      BY <3>1, <3>3, <2>1, <1>d, <1>p, ContinueType
  <2>3. CASE Answer(h, loc[h], "INVALID_CREDENTIALS", NoToken)
    BY <2>3, <2>1, <1>d, <1>l, <1>t, <1>c, AnswerType
  <2> QED
    BY <1>3, <2>2, <2>3 DEF Credentials
<1>4. ASSUME NEW h \in Handlers, AttachUser(h) PROVE TypeOK'
  <2>1. loc[h].session \in OptToken /\ loc[h].user \in OptUser
    BY <1>l DEF Locals
  <2>2. sessions' \in [Handlers -> [exists : BOOLEAN, user : OptUser, expires : Nat, seen : Nat]]
    <3> DEFINE t == loc[h].session
               row == [sessions[t] EXCEPT !.user = loc[h].user]
    <3>1. t \in Handlers
      BY <1>4, <2>1 DEF AttachUser, TypeOK, OptToken
    <3>2. row \in [exists : BOOLEAN, user : OptUser, expires : Nat, seen : Nat]
      <4>1. sessions[t] \in [exists : BOOLEAN, user : OptUser, expires : Nat, seen : Nat]
        BY <3>1 DEF TypeOK
      <4> HIDE DEF t
      <4> QED
        BY <2>1, <4>1, Zenon
    <3>3. sessions' = [sessions EXCEPT ![t] = row]
      BY <1>4 DEF AttachUser
    <3> HIDE DEF t, row
    <3> QED
      BY <3>1, <3>2, <3>3 DEF TypeOK
  <2>3. Answer(h, loc[h], "OK", loc[h].session) /\ UNCHANGED <<users, reservations>>
    BY <1>4 DEF AttachUser
  <2> QED
    BY <2>1, <2>2, <2>3, <1>l, <1>c, AnswerType DEF TypeOK
<1>5. ASSUME NEW h \in Handlers, CreateAnonymousSession(h) PROVE TypeOK'
  <2> DEFINE l == [loc[h] EXCEPT !.session = h]
  <2>1. l \in Locals /\ l.session = h
    BY <1>l, <1>t DEF Locals
  <2>2. sessions' \in [Handlers -> [exists : BOOLEAN, user : OptUser, expires : Nat, seen : Nat]]
    BY <1>5 DEF CreateAnonymousSession, TypeOK, OptUser
  <2>3. UNCHANGED <<users, reservations>> /\ (Continue(h, "attach", l) \/ Answer(h, l, "OK", h))
    BY <1>5 DEF CreateAnonymousSession
  <2>4. CASE Continue(h, "attach", l)
    <3> HIDE DEF l
    <3> QED
      BY <2>1, <2>2, <2>3, <2>4, <1>t, <1>p, ContinueType DEF TypeOK
  <2>5. CASE Answer(h, l, "OK", h)
    <3> HIDE DEF l
    <3> QED
      BY <2>1, <2>2, <2>3, <2>5, <1>t, <1>c, AnswerType DEF TypeOK
  <2> QED
    BY <2>3, <2>4, <2>5
<1>6. ASSUME NEW h \in Handlers, LookupSession(h) PROVE TypeOK'
  <2>1. UNCHANGED db
    BY <1>6 DEF LookupSession
  <2>2. CASE HasSession(h) /\ Continue(h, "touch", [loc[h] EXCEPT !.owner = sessions[cookie[h]].user])
    <3>1. cookie[h] # NoToken /\ cookie[h] \in Handlers
      BY <2>2 DEF HasSession, TypeOK, OptToken
    <3>2. [loc[h] EXCEPT !.owner = sessions[cookie[h]].user] \in Locals
      BY <3>1, <1>l DEF Locals, TypeOK
    <3> QED
      BY <2>1, <2>2, <3>1, <3>2, <1>d, <1>p, ContinueType
  <2>3. CASE Continue(h, "create", loc[h])
    BY <2>1, <2>3, <1>d, <1>l, <1>p, ContinueType
  <2>4. CASE Answer(h, loc[h], "SESSION_REQUIRED", NoToken)
    BY <2>1, <2>4, <1>d, <1>l, <1>t, <1>c, AnswerType
  <2> QED
    BY <1>6, <2>2, <2>3, <2>4 DEF LookupSession
<1>7. ASSUME NEW h \in Handlers, TouchSession(h) PROVE TypeOK'
  <2> DEFINE t == cookie[h]
             l == [loc[h] EXCEPT !.session = t, !.owner = sessions[t].user]
  <2>1. t \in Handlers
    BY <1>7 DEF TouchSession, TypeOK, OptToken
  <2>2. l \in Locals /\ l.session = t
    BY <2>1, <1>l, <1>t DEF Locals, TypeOK
  <2>3. sessions' \in [Handlers -> [exists : BOOLEAN, user : OptUser, expires : Nat, seen : Nat]]
    <3> DEFINE row == [sessions[t] EXCEPT !.seen = now]
    <3>1. row \in [exists : BOOLEAN, user : OptUser, expires : Nat, seen : Nat]
      <4>1. sessions[t] \in [exists : BOOLEAN, user : OptUser, expires : Nat, seen : Nat] /\ now \in Nat
        BY <2>1 DEF TypeOK
      <4> HIDE DEF t
      <4> QED
        BY <4>1, Zenon
    <3>2. sessions' = [sessions EXCEPT ![t] = row]
      BY <1>7 DEF TouchSession
    <3> HIDE DEF t, row
    <3> QED
      BY <2>1, <3>1, <3>2 DEF TypeOK
  <2>4. UNCHANGED <<users, reservations>> /\ WithSession(h, l)
    BY <1>7 DEF TouchSession
  <2>5. \/ \E label \in {"attach", "insert", "read"} : Continue(h, label, l)
        \/ Answer(h, l, "OK", NoToken)
    <3> HIDE DEF l
    <3> QED
      BY <2>4, Zenon DEF WithSession
  <2>6. CASE \E label \in {"attach", "insert", "read"} : Continue(h, label, l)
    <3>1. PICK label \in {"attach", "insert", "read"} : Continue(h, label, l)
      BY <2>6
    <3> HIDE DEF l, t
    <3> QED
      BY <2>1, <2>2, <2>3, <2>4, <3>1, <1>t, <1>p, ContinueType DEF TypeOK
  <2>7. CASE Answer(h, l, "OK", NoToken)
    <3> HIDE DEF l, t
    <3> QED
      BY <2>2, <2>3, <2>4, <2>7, <1>t, <1>c, AnswerType DEF TypeOK
  <2> QED
    BY <2>5, <2>6, <2>7
<1>8. ASSUME NEW h \in Handlers, InsertReservation(h) PROVE TypeOK'
  <2>1. reservations' \in [Handlers -> [exists : BOOLEAN, session : OptToken, user : OptUser]]
    BY <1>8, <1>l DEF InsertReservation, TypeOK, Locals
  <2>2. Answer(h, loc[h], "OK", NoToken) /\ UNCHANGED <<users, sessions>>
    BY <1>8 DEF InsertReservation
  <2> QED
    BY <2>1, <2>2, <1>l, <1>t, <1>c, AnswerType DEF TypeOK
<1>9. ASSUME NEW h \in Handlers, ReadReservation(h) PROVE TypeOK'
  <2>1. UNCHANGED db /\ \E code \in {"OK", "NOT_FOUND"} : Answer(h, loc[h], code, NoToken)
    BY <1>9 DEF ReadReservation
  <2> QED
    BY <2>1, <1>d, <1>l, <1>t, <1>c, AnswerType
<1>10. ASSUME NEW h \in Handlers, Respond(h) PROVE TypeOK'
  <2>1. req[h].browser \in Browsers /\ loc[h].token \in OptToken /\ loc[h].code \in Codes
    BY <1>l DEF TypeOK, Request, Locals
  <2>2. now + MaxAge \in Nat
    BY MaxAgeType DEF TypeOK
  <2>3. jar' \in [Browsers -> [token : OptToken, until : Nat]]
    <3>1. \/ jar' = [jar EXCEPT ![req[h].browser] = NoCookie]
          \/ jar' = [jar EXCEPT ![req[h].browser] = [token |-> loc[h].token, until |-> now + MaxAge]]
          \/ jar' = jar
      BY <1>10, Zenon DEF Respond
    <3>2. NoCookie \in [token : OptToken, until : Nat]
      BY <1>t DEF NoCookie
    <3>3. [token |-> loc[h].token, until |-> now + MaxAge] \in [token : OptToken, until : Nat]
      BY <2>1, <2>2
    <3> QED
      BY <2>1, <3>1, <3>2, <3>3 DEF TypeOK
  <2>4. pc' = [pc EXCEPT ![h] = "done"] /\ resp' = [resp EXCEPT ![h] = loc[h].code]
    BY <1>10 DEF Respond
  <2>5. UNCHANGED <<db, now, req, cookie, before, loc>>
    BY <1>10 DEF Respond
  <2>6. pc' \in [Handlers -> Labels] /\ resp' \in [Handlers -> Codes]
    BY <2>1, <2>4, <1>p DEF TypeOK
  <2>7. \A g \in Handlers : pc'[g] = pc[g] \/ pc'[g] = "done"
    BY <2>4 DEF TypeOK
  <2> QED
    BY <2>3, <2>5, <2>6, <2>7, <1>d DEF TypeOK
<1>11. ASSUME NEW h \in Handlers, Lost(h) PROVE TypeOK'
  <2>4. pc' = [pc EXCEPT ![h] = "done"] /\ resp' = [resp EXCEPT ![h] = "LOST"]
    BY <1>11 DEF Lost
  <2>5. UNCHANGED <<db, jar, now, req, cookie, before, loc>>
    BY <1>11 DEF Lost
  <2>6. pc' \in [Handlers -> Labels] /\ resp' \in [Handlers -> Codes]
    BY <2>4, <1>p, <1>c DEF TypeOK
  <2>7. \A g \in Handlers : pc'[g] = pc[g] \/ pc'[g] = "done"
    BY <2>4 DEF TypeOK
  <2> QED
    BY <2>5, <2>6, <2>7, <1>d DEF TypeOK
<1>12. ASSUME NEW h \in Handlers, DBError(h) PROVE TypeOK'
  <2>1. UNCHANGED db /\ \E code \in {"INVALID", "FAILED"} : Answer(h, loc[h], code, NoToken)
    BY <1>12 DEF DBError
  <2> QED
    BY <2>1, <1>d, <1>l, <1>t, <1>c, AnswerType
<1>13. CASE Tick
  BY <1>13 DEF Tick, TypeOK, db
<1>14. CASE UNCHANGED vars
  BY <1>14 DEF vars, TypeOK, db
<1> QED
  BY <1>1, <1>2, <1>3, <1>4, <1>5, <1>6, <1>7, <1>8, <1>9, <1>10, <1>11, <1>12, <1>13, <1>14
     DEF Next, Step, AllQuiet

\* The types hold in every reachable state.
THEOREM SessionTypes == Spec => []TypeOK
<1> QED
  BY TypeInit, TypeStep, PTL DEF Spec

--------------------------------------------------------------------------------
(* The inductive invariant *)

\* A statement belongs to the operation that was asked for.
LabelFits(h) ==
    /\ pc[h] = "idle" => req[h].op = "none" /\ loc[h] = NoLocals
    /\ pc[h] = "register" => req[h].op = "register"
    /\ pc[h] \in {"credentials", "attach"} => req[h].op = "login"
    /\ pc[h] = "create" => req[h].op \in {"login", "anonymous"}
    /\ pc[h] \in {"lookup", "touch"} => req[h].op \in {"login", "me", "reserve", "view"}
    /\ pc[h] = "insert" => req[h].op = "reserve"
    /\ pc[h] = "read" => req[h].op = "view"

\* A code is decided once and is what is answered, unless the answer is lost.
CodeFits(h) ==
    /\ pc[h] \notin {"respond", "done"} => loc[h].code = "none"
    /\ resp[h] \in {"none", "LOST", loc[h].code}
    /\ resp[h] # "none" => pc[h] = "done"

\* The user a login goes on with has the email and the password it gave.
LoginUser(h) ==
    loc[h].user # NoUser =>
        /\ req[h].op = "login"
        /\ \E x \in users : /\ x.id = loc[h].user /\ x.email = Normal[req[h].email]
                            /\ x.password = req[h].password

\* The session a request goes on with is the one of its cookie, or new.
SessionFits(h) ==
    /\ pc[h] = "attach" => loc[h].session \in {cookie[h], h}
    /\ pc[h] \in {"insert", "read"} => loc[h].session = cookie[h]

\* The user read with a session logged in on it.
OwnerLinked(h) == loc[h].owner # NoUser => Linked(cookie[h], loc[h].owner)

Justified(h) ==
    \/ reservations[req[h].id].session = cookie[h]
    \/ \E u \in UserIds : Linked(reservations[req[h].id].session, u) /\ Linked(cookie[h], u)

\* What is decided about a reservation that is looked at is right.
ViewFits(h) ==
    req[h].op = "view" =>
        /\ reservations[req[h].id].exists
        /\ loc[h].code = "OK" => Justified(h)
        /\ loc[h].code = "NOT_FOUND" => reservations[req[h].id].session # cookie[h]

\* A registration that succeeds made its user.
RegisterFits(h) ==
    req[h].op = "register" /\ loc[h].code = "OK" =>
        \E u \in users : u.id = h /\ u.email = Normal[req[h].email]

\* A header is written once.
MadeOnce(h) == reservations[h].exists => pc[h] \in {"respond", "done"}

HandlerInv(h) ==
    /\ LabelFits(h) /\ CodeFits(h) /\ LoginUser(h) /\ SessionFits(h)
    /\ OwnerLinked(h) /\ ViewFits(h) /\ RegisterFits(h) /\ MadeOnce(h)

EmailsUnique == \A u, v \in users : u.email = v.email => u = v

SessionsLinked == \A t \in Handlers : sessions[t].user # NoUser => Linked(t, sessions[t].user)

ReservationsLinked ==
    \A r \in Handlers :
        reservations[r].user # NoUser => Linked(reservations[r].session, reservations[r].user)

Inv ==
    /\ TypeOK
    /\ EmailsUnique /\ SessionsLinked /\ ReservationsLinked
    /\ \A h \in Handlers : HandlerInv(h)

\* What a step of one handler leaves to the others.
Kept ==
    /\ users \subseteq users'
    /\ \A t, u : Linked(t, u) => Linked(t, u)'
    /\ \A r \in Handlers : reservations[r].exists => reservations'[r] = reservations[r]

Untouched(g) ==
    /\ pc'[g] = pc[g] /\ req'[g] = req[g] /\ cookie'[g] = cookie[g]
    /\ loc'[g] = loc[g] /\ resp'[g] = resp[g] /\ reservations'[g] = reservations[g]

\* A login stays behind the sessions and users it linked: no request is
\* forgotten and no user deleted.
LEMMA LinksStay ==
    ASSUME users \subseteq users',
           \A o \in Handlers : req[o].op = "login" => req'[o] = req[o] /\ cookie'[o] = cookie[o]
    PROVE  \A t, u : Linked(t, u) => Linked(t, u)'
<1> SUFFICES ASSUME NEW t, NEW u, Linked(t, u) PROVE Linked(t, u)'
  OBVIOUS
<1>1. PICK o \in Handlers : Links(o, t, u)
  BY DEF Linked
<1>2. req'[o] = req[o] /\ cookie'[o] = cookie[o]
  BY <1>1 DEF Links
<1>3. PICK x \in users : x.id = u /\ x.email = Normal[req[o].email] /\ x.password = req[o].password
  BY <1>1 DEF Links
<1>4. x \in users'
  OBVIOUS
<1>5. Links(o, t, u)'
  BY <1>1, <1>2, <1>3, <1>4 DEF Links
<1> QED
  BY <1>5 DEF Linked

\* A handler that does nothing keeps its part of the invariant.
LEMMA OthersKeep ==
    ASSUME TypeOK, Kept, NEW g \in Handlers, HandlerInv(g), Untouched(g)
    PROVE  HandlerInv(g)'
<1>1. LabelFits(g)' /\ CodeFits(g)' /\ SessionFits(g)' /\ MadeOnce(g)'
  BY DEF HandlerInv, LabelFits, CodeFits, SessionFits, MadeOnce, Untouched, NoLocals
<1>2. LoginUser(g)'
  BY DEF HandlerInv, LoginUser, Untouched, Kept
<1>3. OwnerLinked(g)'
  BY DEF HandlerInv, OwnerLinked, Untouched, Kept
<1>4. RegisterFits(g)'
  BY DEF HandlerInv, RegisterFits, Untouched, Kept
<1>5. ViewFits(g)'
  <2> SUFFICES ASSUME req[g].op = "view" PROVE ViewFits(g)'
    BY DEF ViewFits, Untouched
  <2>1. req[g].id \in Handlers /\ reservations[req[g].id].exists
    BY DEF TypeOK, Request, HandlerInv, ViewFits
  <2>2. reservations'[req'[g].id] = reservations[req[g].id]
    BY <2>1 DEF Kept, Untouched
  <2>3. Justified(g) => Justified(g)'
    BY <2>2 DEF Justified, Kept, Untouched
  <2> QED
    BY <2>1, <2>2, <2>3 DEF ViewFits, HandlerInv, Untouched
<1> QED
  BY <1>1, <1>2, <1>3, <1>4, <1>5 DEF HandlerInv

\* A step of handler h keeps the invariant when it does so for h and the tables.
LEMMA OneHandlerSteps ==
    ASSUME Inv, TypeOK', Kept, NEW h \in Handlers, HandlerInv(h)',
           \A g \in Handlers \ {h} : Untouched(g),
           EmailsUnique', SessionsLinked', ReservationsLinked'
    PROVE  Inv'
<1>1. \A g \in Handlers : HandlerInv(g)'
  BY OthersKeep DEF Inv
<1> QED
  BY <1>1 DEF Inv

\* The invariant holds initially.
LEMMA InvInit == Init => Inv
<1> SUFFICES ASSUME Init PROVE Inv
  OBVIOUS
<1>1. TypeOK
  BY TypeInit
<1>2. EmailsUnique
  BY SessionAssumption DEF Init, EmailsUnique
<1>3. SessionsLinked
  BY DEF Init, SessionsLinked, NoSession
<1>4. ReservationsLinked
  BY DEF Init, ReservationsLinked, NoReservation
<1>5. ASSUME NEW h \in Handlers PROVE HandlerInv(h)
  <2>1. pc[h] = "idle" /\ req[h].op = "none" /\ loc[h] = NoLocals /\ resp[h] = "none"
    BY DEF Init, NoRequest
  <2>2. ~reservations[h].exists
    BY DEF Init, NoReservation
  <2> QED
    BY <2>1, <2>2 DEF HandlerInv, LabelFits, CodeFits, LoginUser, SessionFits, OwnerLinked,
                      ViewFits, RegisterFits, MadeOnce, NoLocals
<1> QED
  BY <1>1, <1>2, <1>3, <1>4, <1>5 DEF Inv

\* A step that leaves the tables alone keeps what is said of them.
LEMMA TablesKeep ==
    ASSUME Inv, Kept, UNCHANGED db
    PROVE  EmailsUnique' /\ SessionsLinked' /\ ReservationsLinked'
<1>1. users' = users /\ sessions' = sessions /\ reservations' = reservations
  BY DEF db
<1>2. EmailsUnique'
  BY <1>1 DEF Inv, EmailsUnique
<1>3. SessionsLinked'
  BY <1>1 DEF Inv, SessionsLinked, Kept
<1>4. ReservationsLinked'
  BY <1>1 DEF Inv, ReservationsLinked, Kept
<1> QED
  BY <1>2, <1>3, <1>4

\* What Continue changes: one handler, its label and its locals.
LEMMA ContinueEffect ==
    ASSUME TypeOK, NEW h \in Handlers, NEW label, NEW l, Continue(h, label, l)
    PROVE  /\ pc'[h] = label /\ loc'[h] = l
           /\ req' = req /\ cookie' = cookie /\ resp' = resp
           /\ \A g \in Handlers \ {h} : pc'[g] = pc[g] /\ loc'[g] = loc[g]
BY DEF Continue, TypeOK

\* What Answer changes.
LEMMA AnswerEffect ==
    ASSUME TypeOK, NEW h \in Handlers, NEW l \in Locals, NEW code, NEW token,
           Answer(h, l, code, token)
    PROVE  /\ pc'[h] = "respond" /\ loc'[h].code = code
           /\ loc'[h].user = l.user /\ loc'[h].session = l.session /\ loc'[h].owner = l.owner
           /\ req' = req /\ cookie' = cookie /\ resp' = resp
           /\ \A g \in Handlers \ {h} : pc'[g] = pc[g] /\ loc'[g] = loc[g]
<1> DEFINE m == [l EXCEPT !.code = code, !.token = token]
<1>1. Continue(h, "respond", m)
  BY DEF Answer
<1>2. m.code = code /\ m.user = l.user /\ m.session = l.session /\ m.owner = l.owner
  BY DEF Locals
<1> HIDE DEF m
<1> QED
  BY <1>1, <1>2, ContinueEffect

\* Statements change neither requests nor cookies, so they keep what was linked.
LEMMA StatementKeeps ==
    ASSUME req' = req, cookie' = cookie, users \subseteq users',
           \A r \in Handlers : reservations[r].exists => reservations'[r] = reservations[r]
    PROVE  Kept
BY LinksStay DEF Kept

\* An answer that decides neither a view nor a registration with success.
LEMMA PlainAnswer ==
    ASSUME Inv, Kept, NEW h \in Handlers, NEW l \in Locals, NEW code \in Codes,
           NEW token, Answer(h, l, code, token),
           pc[h] \notin {"idle", "done"},
           req[h].op = "view" => code \notin {"OK", "NOT_FOUND"},
           req[h].op = "register" => code # "OK",
           l.user = loc[h].user,
           l.owner # NoUser => Linked(cookie[h], l.owner),
           \A r \in Handlers : reservations[r].exists => reservations'[r] = reservations[r]
    PROVE  HandlerInv(h)'
<1>t. TypeOK
  BY DEF Inv
<1>1. /\ pc'[h] = "respond" /\ loc'[h].code = code
      /\ loc'[h].user = l.user /\ loc'[h].session = l.session /\ loc'[h].owner = l.owner
      /\ req' = req /\ cookie' = cookie /\ resp' = resp
  BY <1>t, AnswerEffect
<1>2. HandlerInv(h)
  BY DEF Inv
<1>3. resp[h] = "none"
  BY <1>2 DEF HandlerInv, CodeFits
<1>4. LabelFits(h)' /\ CodeFits(h)' /\ SessionFits(h)' /\ MadeOnce(h)'
  BY <1>1, <1>3 DEF LabelFits, CodeFits, SessionFits, MadeOnce
<1>5. LoginUser(h)'
  BY <1>1, <1>2 DEF HandlerInv, LoginUser, Kept
<1>6. OwnerLinked(h)'
  BY <1>1 DEF OwnerLinked, Kept
<1>7. RegisterFits(h)'
  BY <1>1 DEF RegisterFits
<1>8. ViewFits(h)'
  <2>1. req[h].op = "view" => req[h].id \in Handlers /\ reservations[req[h].id].exists
    BY <1>2, <1>t DEF TypeOK, Request, HandlerInv, ViewFits
  <2>2. req[h].op = "view" => reservations'[req[h].id].exists
    BY <2>1
  <2> QED
    BY <1>1, <2>2 DEF ViewFits
<1> QED
  BY <1>4, <1>5, <1>6, <1>7, <1>8 DEF HandlerInv

\* A statement after which the handler goes on.
LEMMA PlainContinue ==
    ASSUME Inv, Kept, NEW h \in Handlers, NEW l, NEW label, Continue(h, label, l),
           reservations' = reservations,
           pc[h] \notin {"idle", "respond", "done"},
           \/ label \in {"lookup", "touch"} /\ req[h].op \in {"login", "me", "reserve", "view"}
           \/ label = "create" /\ req[h].op = "login"
           \/ label = "attach" /\ req[h].op = "login" /\ l.session \in {cookie[h], h}
           \/ label = "insert" /\ req[h].op = "reserve" /\ l.session = cookie[h]
           \/ label = "read" /\ req[h].op = "view" /\ l.session = cookie[h],
           l.code = loc[h].code,
           \/ l.user = loc[h].user
           \/ /\ req[h].op = "login"
              /\ \E x \in users : /\ x.id = l.user /\ x.email = Normal[req[h].email]
                                  /\ x.password = req[h].password,
           l.owner # NoUser => Linked(cookie[h], l.owner)
    PROVE  HandlerInv(h)'
<1>t. TypeOK
  BY DEF Inv
<1>1. /\ pc'[h] = label /\ loc'[h] = l
      /\ req' = req /\ cookie' = cookie /\ resp' = resp
  BY <1>t, ContinueEffect
<1>2. HandlerInv(h)
  BY DEF Inv
<1>3. l.code = "none" /\ resp[h] = "none" /\ ~reservations[h].exists
  BY <1>2 DEF HandlerInv, CodeFits, MadeOnce
<1>4. LabelFits(h)' /\ CodeFits(h)' /\ SessionFits(h)' /\ MadeOnce(h)'
  BY <1>1, <1>3 DEF LabelFits, CodeFits, SessionFits, MadeOnce
<1>5. LoginUser(h)'
  BY <1>1, <1>2 DEF HandlerInv, LoginUser, Kept
<1>6. OwnerLinked(h)'
  BY <1>1 DEF OwnerLinked, Kept
<1>7. RegisterFits(h)' /\ ViewFits(h)'
  BY <1>1, <1>2, <1>3 DEF HandlerInv, RegisterFits, ViewFits
<1> QED
  BY <1>4, <1>5, <1>6, <1>7 DEF HandlerInv

--------------------------------------------------------------------------------
(* The steps *)

\* A request is sent: nothing was linked by the handler that takes it.
LEMMA BeginStep == ASSUME Inv, TypeOK', NEW h \in Handlers, BeginRequest(h) PROVE Inv'
<1>t. TypeOK /\ HandlerInv(h)
  BY DEF Inv
<1>1. PICK rq \in Requests[h] :
        /\ rq.op \in Ops \ {"none"}
        /\ rq.op = "view" => reservations[rq.id].exists
        /\ req' = [req EXCEPT ![h] = rq]
        /\ cookie' = [cookie EXCEPT ![h] =
              IF now < jar[rq.browser].until THEN jar[rq.browser].token ELSE NoToken]
        /\ pc' = [pc EXCEPT ![h] = FirstStatement(rq.op)]
        /\ loc' = [loc EXCEPT ![h].code = IF rq.op = "logout" THEN "OK" ELSE "none"]
  BY DEF BeginRequest
<1>2. pc[h] = "idle" /\ UNCHANGED <<db, resp>>
  BY DEF BeginRequest
<1>3. req[h].op = "none" /\ loc[h] = NoLocals /\ resp[h] = "none" /\ ~reservations[h].exists
  BY <1>t, <1>2 DEF HandlerInv, LabelFits, CodeFits, MadeOnce
<1>4. \A g \in Handlers \ {h} : Untouched(g)
  <2> SUFFICES ASSUME NEW g \in Handlers \ {h} PROVE Untouched(g)
    OBVIOUS
  <2>1. pc'[g] = pc[g] /\ req'[g] = req[g] /\ cookie'[g] = cookie[g]
    BY <1>1, <1>t DEF TypeOK
  <2>2. loc'[g] = loc[g]
    BY <1>1, <1>t DEF TypeOK
  <2> QED
    BY <2>1, <2>2, <1>2 DEF Untouched, db
<1>5. \A o \in Handlers : req[o].op = "login" => req'[o] = req[o] /\ cookie'[o] = cookie[o]
  BY <1>3, <1>4 DEF Untouched
<1>6. users' = users /\ reservations' = reservations
  BY <1>2 DEF db
<1>7. Kept
  BY <1>5, <1>6, LinksStay DEF Kept
<1>8. EmailsUnique' /\ SessionsLinked' /\ ReservationsLinked'
  BY <1>2, <1>7, TablesKeep
<1>9. HandlerInv(h)'
  <2>1. req'[h] = rq /\ pc'[h] = FirstStatement(rq.op) /\ resp'[h] = "none"
    BY <1>1, <1>2, <1>3, <1>t DEF TypeOK
  <2>2. /\ loc'[h].user = NoUser /\ loc'[h].owner = NoUser
        /\ loc'[h].code = IF rq.op = "logout" THEN "OK" ELSE "none"
    <3>1. loc'[h] = [loc[h] EXCEPT !.code = IF rq.op = "logout" THEN "OK" ELSE "none"]
      BY <1>1, <1>t DEF TypeOK
    <3> QED
      BY <3>1, <1>3 DEF NoLocals
  <2>3. rq.op \in {"anonymous", "me", "register", "login", "logout", "reserve", "view"}
    BY <1>1 DEF Ops
  <2>4. /\ rq.op = "anonymous" => FirstStatement(rq.op) = "create"
        /\ rq.op = "register" => FirstStatement(rq.op) = "register"
        /\ rq.op = "login" => FirstStatement(rq.op) = "credentials"
        /\ rq.op = "logout" => FirstStatement(rq.op) = "respond"
        /\ rq.op \in {"me", "reserve", "view"} => FirstStatement(rq.op) = "lookup"
    BY DEF FirstStatement
  <2>5. LabelFits(h)' /\ SessionFits(h)'
    BY <2>1, <2>3, <2>4 DEF LabelFits, SessionFits
  <2>6. CodeFits(h)'
    BY <2>1, <2>2, <2>3, <2>4 DEF CodeFits
  <2>7. LoginUser(h)' /\ OwnerLinked(h)'
    BY <2>2 DEF LoginUser, OwnerLinked
  <2>8. RegisterFits(h)' /\ ViewFits(h)'
    BY <1>1, <1>6, <2>1, <2>2 DEF RegisterFits, ViewFits
  <2>9. MadeOnce(h)'
    BY <1>3, <1>6 DEF MadeOnce
  <2> QED
    BY <2>5, <2>6, <2>7, <2>8, <2>9 DEF HandlerInv
<1> QED
  BY <1>4, <1>7, <1>8, <1>9, OneHandlerSteps

\* An answer arrives or is lost: the code does not change any more.
LEMMA RespondStep ==
    ASSUME Inv, TypeOK', NEW h \in Handlers, Respond(h) \/ Lost(h)
    PROVE  Inv'
<1>t. TypeOK /\ HandlerInv(h)
  BY DEF Inv
<1>1. pc[h] = "respond" /\ UNCHANGED <<db, req, cookie, loc>> /\ pc' = [pc EXCEPT ![h] = "done"]
  BY DEF Respond, Lost
<1>2. \/ resp' = [resp EXCEPT ![h] = loc[h].code]
      \/ resp' = [resp EXCEPT ![h] = "LOST"]
  BY DEF Respond, Lost
<1>3. \A g \in Handlers \ {h} : Untouched(g)
  BY <1>1, <1>2, <1>t DEF Untouched, TypeOK, db
<1>4. Kept
  BY <1>1, StatementKeeps DEF db
<1>5. EmailsUnique' /\ SessionsLinked' /\ ReservationsLinked'
  BY <1>1, <1>4, TablesKeep
<1>6. HandlerInv(h)'
  <2>1. pc'[h] = "done" /\ resp'[h] \in {"LOST", loc[h].code}
    BY <1>1, <1>2, <1>t DEF TypeOK
  <2>2. LabelFits(h)' /\ CodeFits(h)' /\ SessionFits(h)' /\ MadeOnce(h)'
    BY <1>1, <2>1 DEF LabelFits, CodeFits, SessionFits, MadeOnce
  <2>3. LoginUser(h)' /\ RegisterFits(h)'
    BY <1>1, <1>t DEF HandlerInv, LoginUser, RegisterFits, db
  <2>4. OwnerLinked(h)'
    BY <1>1, <1>t, <1>4 DEF HandlerInv, OwnerLinked, Kept
  <2>5. ViewFits(h)'
    BY <1>1, <1>t, <1>4 DEF HandlerInv, ViewFits, Justified, Kept, db
  <2> QED
    BY <2>2, <2>3, <2>4, <2>5 DEF HandlerInv
<1> QED
  BY <1>3, <1>4, <1>5, <1>6, OneHandlerSteps

\* A statement of h that fails leaves an error code behind.
LEMMA DBErrorStep == ASSUME Inv, TypeOK', NEW h \in Handlers, DBError(h) PROVE Inv'
<1>t. TypeOK /\ HandlerInv(h) /\ loc[h] \in Locals
  BY DEF Inv, TypeOK, Locals
<1>1. PICK code \in {"INVALID", "FAILED"} : Answer(h, loc[h], code, NoToken)
  BY DEF DBError
<1>2. UNCHANGED db /\ pc[h] \notin {"idle", "done"}
  BY DEF DBError
<1>3. /\ req' = req /\ cookie' = cookie /\ resp' = resp
      /\ \A g \in Handlers \ {h} : pc'[g] = pc[g] /\ loc'[g] = loc[g]
  BY <1>t, <1>1, AnswerEffect
<1>4. Kept
  BY <1>2, <1>3, StatementKeeps DEF db
<1>5. EmailsUnique' /\ SessionsLinked' /\ ReservationsLinked'
  BY <1>2, <1>4, TablesKeep
<1>6. \A g \in Handlers \ {h} : Untouched(g)
  BY <1>2, <1>3 DEF Untouched, db
<1>7. code \in Codes
  BY DEF Codes
<1>8. HandlerInv(h)'
  BY <1>t, <1>1, <1>2, <1>4, <1>7, PlainAnswer DEF HandlerInv, OwnerLinked, db
<1> QED
  BY <1>4, <1>5, <1>6, <1>8, OneHandlerSteps

\* A registration inserts a user whose email is new, or nothing.
LEMMA RegisterStep == ASSUME Inv, TypeOK', NEW h \in Handlers, Register(h) PROVE Inv'
<1> DEFINE email == Normal[req[h].email]
           new == [id |-> h, email |-> email, password |-> req[h].password]
<1>t. TypeOK /\ HandlerInv(h) /\ loc[h] \in Locals
  BY DEF Inv, TypeOK, Locals
<1>1. PICK code \in {"INVALID", "OK", "EMAIL_TAKEN"} :
        /\ Answer(h, loc[h], code, NoToken)
        /\ users' = IF code = "OK" THEN users \cup {new} ELSE users
        /\ code = "OK" => IsFree(email)
  BY DEF Register
<1>2. pc[h] = "register" /\ UNCHANGED <<sessions, reservations>> /\ req[h].op = "register"
  BY <1>t DEF Register, HandlerInv, LabelFits
<1>3. /\ pc'[h] = "respond" /\ loc'[h].code = code
      /\ loc'[h].user = loc[h].user /\ loc'[h].owner = loc[h].owner
      /\ req' = req /\ cookie' = cookie /\ resp' = resp
      /\ \A g \in Handlers \ {h} : pc'[g] = pc[g] /\ loc'[g] = loc[g]
  BY <1>t, <1>1, AnswerEffect
<1>4. Kept
  BY <1>1, <1>2, <1>3, StatementKeeps
<1>5. EmailsUnique'
  <2>1. new.email = email
    OBVIOUS
  <2>2. EmailsUnique
    BY DEF Inv
  <2> HIDE DEF new, email
  <2> QED
    BY <1>1, <2>1, <2>2 DEF EmailsUnique, IsFree
<1>6. SessionsLinked' /\ ReservationsLinked'
  BY <1>2, <1>4 DEF Inv, SessionsLinked, ReservationsLinked, Kept
<1>7. \A g \in Handlers \ {h} : Untouched(g)
  BY <1>2, <1>3 DEF Untouched
<1>8. HandlerInv(h)'
  <2>1. resp[h] = "none"
    BY <1>2, <1>t DEF HandlerInv, CodeFits
  <2>2. LabelFits(h)' /\ CodeFits(h)' /\ SessionFits(h)' /\ MadeOnce(h)'
    BY <1>3, <2>1 DEF LabelFits, CodeFits, SessionFits, MadeOnce
  <2>3. LoginUser(h)' /\ OwnerLinked(h)'
    BY <1>2, <1>3, <1>4, <1>t DEF HandlerInv, LoginUser, OwnerLinked, Kept
  <2>4. ViewFits(h)'
    BY <1>2, <1>3 DEF ViewFits
  <2>5. RegisterFits(h)'
    <3>1. CASE code = "OK"
      <4>1. new \in users' /\ new.id = h /\ new.email = email
        BY <1>1, <3>1
      <4> QED
        BY <4>1, <1>3 DEF RegisterFits
    <3>2. CASE code # "OK"
      BY <1>3, <3>2 DEF RegisterFits
    <3> QED
      BY <3>1, <3>2
  <2> QED
    BY <2>2, <2>3, <2>4, <2>5 DEF HandlerInv
<1> QED
  BY <1>4, <1>5, <1>6, <1>7, <1>8, OneHandlerSteps

\* A login compares email and password before it goes on.
LEMMA CredentialsStep == ASSUME Inv, TypeOK', NEW h \in Handlers, Credentials(h) PROVE Inv'
<1>t. TypeOK /\ HandlerInv(h) /\ loc[h] \in Locals
  BY DEF Inv, TypeOK, Locals
<1>1. UNCHANGED db /\ pc[h] = "credentials" /\ req[h].op = "login"
  BY <1>t DEF Credentials, HandlerInv, LabelFits
<1>2. CASE \E u \in users : /\ Matches(u, req[h])
                            /\ Continue(h, "lookup", [loc[h] EXCEPT !.user = u.id])
  <2>1. PICK u \in users : /\ Matches(u, req[h])
                           /\ Continue(h, "lookup", [loc[h] EXCEPT !.user = u.id])
    BY <1>2
  <2> DEFINE l == [loc[h] EXCEPT !.user = u.id]
  <2>2. l.user = u.id /\ l.code = loc[h].code /\ l.owner = loc[h].owner
    BY <1>t DEF Locals
  <2>3. Continue(h, "lookup", l)
    BY <2>1
  <2> HIDE DEF l
  <2>4. /\ req' = req /\ cookie' = cookie /\ resp' = resp
        /\ \A g \in Handlers \ {h} : pc'[g] = pc[g] /\ loc'[g] = loc[g]
    BY <1>t, <2>3, ContinueEffect
  <2>5. Kept
    BY <1>1, <2>4, StatementKeeps DEF db
  <2>6. HandlerInv(h)'
    <3>1. l.owner # NoUser => Linked(cookie[h], l.owner)
      BY <1>t, <2>2 DEF HandlerInv, OwnerLinked
    <3>2. \E x \in users : /\ x.id = l.user /\ x.email = Normal[req[h].email]
                           /\ x.password = req[h].password
      BY <2>1, <2>2 DEF Matches
    <3> QED
      BY <1>1, <2>2, <2>3, <2>5, <3>1, <3>2, PlainContinue DEF db
  <2>7. \A g \in Handlers \ {h} : Untouched(g)
    BY <1>1, <2>4 DEF Untouched, db
  <2> QED
    BY <1>1, <2>5, <2>6, <2>7, TablesKeep, OneHandlerSteps
<1>3. CASE Answer(h, loc[h], "INVALID_CREDENTIALS", NoToken)
  <2>1. /\ req' = req /\ cookie' = cookie /\ resp' = resp
        /\ \A g \in Handlers \ {h} : pc'[g] = pc[g] /\ loc'[g] = loc[g]
    BY <1>t, <1>3, AnswerEffect
  <2>2. Kept
    BY <1>1, <2>1, StatementKeeps DEF db
  <2>3. HandlerInv(h)'
    <3>1. "INVALID_CREDENTIALS" \in Codes
      BY DEF Codes
    <3> QED
      BY <1>t, <1>1, <1>3, <2>2, <3>1, PlainAnswer DEF HandlerInv, OwnerLinked, db
  <2>4. \A g \in Handlers \ {h} : Untouched(g)
    BY <1>1, <2>1 DEF Untouched, db
  <2> QED
    BY <1>1, <2>2, <2>3, <2>4, TablesKeep, OneHandlerSteps
<1> QED
  BY <1>2, <1>3 DEF Credentials

\* A login attaches the user whose credentials it gave to the session of its
\* cookie or to the one it made.
LEMMA AttachStep == ASSUME Inv, TypeOK', NEW h \in Handlers, AttachUser(h) PROVE Inv'
<1>t. TypeOK /\ HandlerInv(h) /\ loc[h] \in Locals
  BY DEF Inv, TypeOK, Locals
<1>1. /\ pc[h] = "attach" /\ req[h].op = "login" /\ UNCHANGED <<users, reservations>>
      /\ loc[h].session \in {cookie[h], h} /\ Answer(h, loc[h], "OK", loc[h].session)
  BY <1>t DEF AttachUser, HandlerInv, LabelFits, SessionFits
<1>2. /\ req' = req /\ cookie' = cookie /\ resp' = resp
      /\ \A g \in Handlers \ {h} : pc'[g] = pc[g] /\ loc'[g] = loc[g]
  BY <1>t, <1>1, AnswerEffect
<1>3. Kept
  BY <1>1, <1>2, StatementKeeps
<1>4. SessionsLinked'
  <2> SUFFICES ASSUME NEW t \in Handlers, sessions'[t].user # NoUser
               PROVE  Linked(t, sessions[t].user)'
    BY DEF SessionsLinked
  <2>1. CASE t = loc[h].session
    <3>1. sessions'[t].user = loc[h].user
      BY <1>t, <2>1 DEF AttachUser, TypeOK
    <3>2. Linked(t, loc[h].user)
      BY <1>1, <1>t, <2>1, <3>1 DEF HandlerInv, LoginUser, Linked, Links
    <3> QED
      BY <1>3, <3>1, <3>2 DEF Kept
  <2>2. CASE t # loc[h].session
    <3>1. sessions'[t] = sessions[t]
      BY <1>t, <2>2 DEF AttachUser, TypeOK
    <3> QED
      BY <1>3, <3>1 DEF Kept, Inv, SessionsLinked
  <2> QED
    BY <2>1, <2>2
<1>5. EmailsUnique' /\ ReservationsLinked'
  BY <1>1, <1>3 DEF Inv, EmailsUnique, ReservationsLinked, Kept
<1>6. \A g \in Handlers \ {h} : Untouched(g)
  BY <1>1, <1>2 DEF Untouched
<1>7. HandlerInv(h)'
  <2>1. "OK" \in Codes
    BY DEF Codes
  <2> QED
    BY <1>t, <1>1, <1>3, <2>1, PlainAnswer DEF HandlerInv, OwnerLinked
<1> QED
  BY <1>3, <1>4, <1>5, <1>6, <1>7, OneHandlerSteps

\* A new session belongs to nobody.
LEMMA CreateStep ==
    ASSUME Inv, TypeOK', NEW h \in Handlers, CreateAnonymousSession(h) PROVE Inv'
<1> DEFINE l == [loc[h] EXCEPT !.session = h]
<1>t. TypeOK /\ HandlerInv(h) /\ loc[h] \in Locals
  BY DEF Inv, TypeOK, Locals
<1>1. /\ pc[h] = "create" /\ req[h].op \in {"login", "anonymous"}
      /\ UNCHANGED <<users, reservations>>
      /\ \/ req[h].op = "login" /\ Continue(h, "attach", l)
         \/ Answer(h, l, "OK", h)
  BY <1>t DEF CreateAnonymousSession, HandlerInv, LabelFits
<1>2. /\ l \in Locals /\ l.session = h /\ l.user = loc[h].user
      /\ l.owner = loc[h].owner /\ l.code = loc[h].code
  BY <1>t DEF Locals, OptToken
<1> HIDE DEF l
<1>3. /\ req' = req /\ cookie' = cookie /\ resp' = resp
      /\ \A g \in Handlers \ {h} : pc'[g] = pc[g] /\ loc'[g] = loc[g]
  BY <1>t, <1>1, <1>2, AnswerEffect, ContinueEffect
<1>4. Kept
  BY <1>1, <1>3, StatementKeeps
<1>5. SessionsLinked'
  <2> SUFFICES ASSUME NEW t \in Handlers, sessions'[t].user # NoUser
               PROVE  Linked(t, sessions[t].user)'
    BY DEF SessionsLinked
  <2>1. t # h /\ sessions'[t] = sessions[t]
    BY <1>t DEF CreateAnonymousSession, TypeOK
  <2> QED
    BY <1>4, <2>1 DEF Kept, Inv, SessionsLinked
<1>6. EmailsUnique' /\ ReservationsLinked'
  BY <1>1, <1>4 DEF Inv, EmailsUnique, ReservationsLinked, Kept
<1>7. \A g \in Handlers \ {h} : Untouched(g)
  BY <1>1, <1>3 DEF Untouched
<1>8. HandlerInv(h)'
  <2>1. l.owner # NoUser => Linked(cookie[h], l.owner)
    BY <1>t, <1>2 DEF HandlerInv, OwnerLinked
  <2>2. CASE req[h].op = "login" /\ Continue(h, "attach", l)
    BY <1>1, <1>2, <1>4, <2>1, <2>2, PlainContinue
  <2>3. CASE Answer(h, l, "OK", h)
    <3>1. "OK" \in Codes
      BY DEF Codes
    <3> QED
      BY <1>1, <1>2, <1>4, <2>1, <2>3, <3>1, PlainAnswer
  <2> QED
    BY <1>1, <2>2, <2>3
<1> QED
  BY <1>4, <1>5, <1>6, <1>7, <1>8, OneHandlerSteps

\* The user that is read with a session is one who logged in on it.
LEMMA LookupStep == ASSUME Inv, TypeOK', NEW h \in Handlers, LookupSession(h) PROVE Inv'
<1>t. TypeOK /\ HandlerInv(h) /\ loc[h] \in Locals
  BY DEF Inv, TypeOK, Locals
<1>1. /\ UNCHANGED db /\ pc[h] = "lookup"
      /\ req[h].op \in {"login", "me", "reserve", "view"}
  BY <1>t DEF LookupSession, HandlerInv, LabelFits
<1>2. loc[h].owner # NoUser => Linked(cookie[h], loc[h].owner)
  BY <1>t DEF HandlerInv, OwnerLinked
<1>3. CASE HasSession(h) /\ Continue(h, "touch", [loc[h] EXCEPT !.owner = sessions[cookie[h]].user])
  <2> DEFINE l == [loc[h] EXCEPT !.owner = sessions[cookie[h]].user]
  <2>1. /\ l.owner = sessions[cookie[h]].user /\ l.user = loc[h].user /\ l.code = loc[h].code
    BY <1>t DEF Locals
  <2>2. l.owner # NoUser => Linked(cookie[h], l.owner)
    <3>1. cookie[h] \in Handlers
      BY <1>t, <1>3 DEF HasSession, TypeOK, OptToken
    <3> QED
      BY <2>1, <3>1 DEF Inv, SessionsLinked
  <2>3. Continue(h, "touch", l)
    BY <1>3
  <2> HIDE DEF l
  <2>4. /\ req' = req /\ cookie' = cookie /\ resp' = resp
        /\ \A g \in Handlers \ {h} : pc'[g] = pc[g] /\ loc'[g] = loc[g]
    BY <1>t, <2>3, ContinueEffect
  <2>5. Kept
    BY <1>1, <2>4, StatementKeeps DEF db
  <2>6. HandlerInv(h)'
    BY <1>1, <2>1, <2>2, <2>3, <2>5, PlainContinue DEF db
  <2>7. \A g \in Handlers \ {h} : Untouched(g)
    BY <1>1, <2>4 DEF Untouched, db
  <2> QED
    BY <1>1, <2>5, <2>6, <2>7, TablesKeep, OneHandlerSteps
<1>4. CASE req[h].op = "login" /\ Continue(h, "create", loc[h])
  <2>1. /\ req' = req /\ cookie' = cookie /\ resp' = resp
        /\ \A g \in Handlers \ {h} : pc'[g] = pc[g] /\ loc'[g] = loc[g]
    BY <1>t, <1>4, ContinueEffect
  <2>2. Kept
    BY <1>1, <2>1, StatementKeeps DEF db
  <2>3. HandlerInv(h)'
    BY <1>1, <1>2, <1>4, <2>2, PlainContinue DEF db
  <2>4. \A g \in Handlers \ {h} : Untouched(g)
    BY <1>1, <2>1 DEF Untouched, db
  <2> QED
    BY <1>1, <2>2, <2>3, <2>4, TablesKeep, OneHandlerSteps
<1>5. CASE Answer(h, loc[h], "SESSION_REQUIRED", NoToken)
  <2>1. /\ req' = req /\ cookie' = cookie /\ resp' = resp
        /\ \A g \in Handlers \ {h} : pc'[g] = pc[g] /\ loc'[g] = loc[g]
    BY <1>t, <1>5, AnswerEffect
  <2>2. Kept
    BY <1>1, <2>1, StatementKeeps DEF db
  <2>3. HandlerInv(h)'
    <3>1. "SESSION_REQUIRED" \in Codes
      BY DEF Codes
    <3> QED
      BY <1>t, <1>1, <1>2, <1>5, <2>2, <3>1, PlainAnswer DEF db
  <2>4. \A g \in Handlers \ {h} : Untouched(g)
    BY <1>1, <2>1 DEF Untouched, db
  <2> QED
    BY <1>1, <2>2, <2>3, <2>4, TablesKeep, OneHandlerSteps
<1> QED
  BY <1>3, <1>4, <1>5 DEF LookupSession

\* A touch changes no user; the row it returns is that of the cookie.
LEMMA TouchStep == ASSUME Inv, TypeOK', NEW h \in Handlers, TouchSession(h) PROVE Inv'
<1> DEFINE l == [loc[h] EXCEPT !.session = cookie[h], !.owner = sessions[cookie[h]].user]
<1>t. TypeOK /\ HandlerInv(h) /\ loc[h] \in Locals
  BY DEF Inv, TypeOK, Locals
<1>1. /\ pc[h] = "touch" /\ req[h].op \in {"login", "me", "reserve", "view"}
      /\ UNCHANGED <<users, reservations>> /\ WithSession(h, l)
  BY <1>t DEF TouchSession, HandlerInv, LabelFits
<1>2. cookie[h] \in Handlers
  BY <1>t, <1>1 DEF TypeOK, OptToken
<1>3. /\ l \in Locals /\ l.session = cookie[h] /\ l.user = loc[h].user
      /\ l.owner = sessions[cookie[h]].user /\ l.code = loc[h].code
  <2>1. sessions[cookie[h]].user \in OptUser /\ cookie[h] \in OptToken
    BY <1>t, <1>2 DEF TypeOK
  <2> QED
    BY <1>t, <2>1 DEF Locals
<1>4. l.owner # NoUser => Linked(cookie[h], l.owner)
  BY <1>2, <1>3 DEF Inv, SessionsLinked
<1> HIDE DEF l
<1>5. \/ req[h].op = "login" /\ Continue(h, "attach", l)
      \/ req[h].op = "reserve" /\ Continue(h, "insert", l)
      \/ req[h].op = "view" /\ Continue(h, "read", l)
      \/ req[h].op = "me" /\ Answer(h, l, "OK", NoToken)
  BY <1>1 DEF WithSession
<1>6. /\ req' = req /\ cookie' = cookie /\ resp' = resp
      /\ \A g \in Handlers \ {h} : pc'[g] = pc[g] /\ loc'[g] = loc[g]
  BY <1>t, <1>3, <1>5, AnswerEffect, ContinueEffect
<1>7. Kept
  BY <1>1, <1>6, StatementKeeps
<1>8. SessionsLinked'
  <2> SUFFICES ASSUME NEW t \in Handlers, sessions'[t].user # NoUser
               PROVE  Linked(t, sessions[t].user)'
    BY DEF SessionsLinked
  <2>1. sessions'[t].user = sessions[t].user
    <3>1. CASE t = cookie[h]
      BY <1>t, <3>1 DEF TouchSession, TypeOK
    <3>2. CASE t # cookie[h]
      BY <1>t, <3>2 DEF TouchSession, TypeOK
    <3> QED
      BY <3>1, <3>2
  <2> QED
    BY <1>7, <2>1 DEF Kept, Inv, SessionsLinked
<1>9. EmailsUnique' /\ ReservationsLinked'
  BY <1>1, <1>7 DEF Inv, EmailsUnique, ReservationsLinked, Kept
<1>10. \A g \in Handlers \ {h} : Untouched(g)
  BY <1>1, <1>6 DEF Untouched
<1>11. HandlerInv(h)'
  <2>1. CASE req[h].op = "me" /\ Answer(h, l, "OK", NoToken)
    <3>1. "OK" \in Codes
      BY DEF Codes
    <3> QED
      BY <1>1, <1>3, <1>4, <1>7, <2>1, <3>1, PlainAnswer
  <2>2. CASE \/ req[h].op = "login" /\ Continue(h, "attach", l)
             \/ req[h].op = "reserve" /\ Continue(h, "insert", l)
             \/ req[h].op = "view" /\ Continue(h, "read", l)
    BY <1>1, <1>3, <1>4, <1>7, <2>2, PlainContinue
  <2> QED
    BY <1>5, <2>1, <2>2
<1> QED
  BY <1>7, <1>8, <1>9, <1>10, <1>11, OneHandlerSteps

\* A reservation carries the session of the cookie and a user linked to it.
LEMMA InsertStep == ASSUME Inv, TypeOK', NEW h \in Handlers, InsertReservation(h) PROVE Inv'
<1>t. TypeOK /\ HandlerInv(h) /\ loc[h] \in Locals
  BY DEF Inv, TypeOK, Locals
<1>1. /\ pc[h] = "insert" /\ req[h].op = "reserve" /\ UNCHANGED <<users, sessions>>
      /\ loc[h].session = cookie[h] /\ ~reservations[h].exists
      /\ Answer(h, loc[h], "OK", NoToken)
  BY <1>t DEF InsertReservation, HandlerInv, LabelFits, SessionFits, MadeOnce
<1>2. /\ reservations'[h].session = loc[h].session /\ reservations'[h].user = loc[h].owner
      /\ \A r \in Handlers \ {h} : reservations'[r] = reservations[r]
  BY <1>t DEF InsertReservation, TypeOK
<1>3. /\ req' = req /\ cookie' = cookie /\ resp' = resp
      /\ \A g \in Handlers \ {h} : pc'[g] = pc[g] /\ loc'[g] = loc[g]
  BY <1>t, <1>1, AnswerEffect
<1>4. \A r \in Handlers : reservations[r].exists => reservations'[r] = reservations[r]
  BY <1>1, <1>2
<1>5. Kept
  BY <1>1, <1>3, <1>4, StatementKeeps
<1>6. loc[h].owner # NoUser => Linked(cookie[h], loc[h].owner)
  BY <1>t DEF HandlerInv, OwnerLinked
<1>7. ReservationsLinked'
  <2> SUFFICES ASSUME NEW r \in Handlers, reservations'[r].user # NoUser
               PROVE  Linked(reservations[r].session, reservations[r].user)'
    BY DEF ReservationsLinked
  <2>1. CASE r = h
    BY <1>1, <1>2, <1>5, <1>6, <2>1 DEF Kept
  <2>2. CASE r # h
    BY <1>2, <1>5, <2>2 DEF Kept, Inv, ReservationsLinked
  <2> QED
    BY <2>1, <2>2
<1>8. EmailsUnique' /\ SessionsLinked'
  BY <1>1, <1>5 DEF Inv, EmailsUnique, SessionsLinked, Kept
<1>9. \A g \in Handlers \ {h} : Untouched(g)
  BY <1>2, <1>3 DEF Untouched
<1>10. HandlerInv(h)'
  <2>1. "OK" \in Codes
    BY DEF Codes
  <2> QED
    BY <1>t, <1>1, <1>4, <1>5, <1>6, <2>1, PlainAnswer
<1> QED
  BY <1>5, <1>7, <1>8, <1>9, <1>10, OneHandlerSteps

\* What is decided about a reservation follows from the links of its session
\* and of the session of the cookie.
LEMMA ReadStep == ASSUME Inv, TypeOK', NEW h \in Handlers, ReadReservation(h) PROVE Inv'
<1> DEFINE header == reservations[req[h].id]
           ok == CanAccessReservation(header, loc[h].session, loc[h].owner)
<1>t. TypeOK /\ HandlerInv(h) /\ loc[h] \in Locals
  BY DEF Inv, TypeOK, Locals
<1>1. /\ pc[h] = "read" /\ req[h].op = "view" /\ UNCHANGED db /\ loc[h].session = cookie[h]
      /\ Answer(h, loc[h], IF ok THEN "OK" ELSE "NOT_FOUND", NoToken)
  BY <1>t DEF ReadReservation, HandlerInv, LabelFits, SessionFits
<1>2. /\ pc'[h] = "respond" /\ loc'[h].code = IF ok THEN "OK" ELSE "NOT_FOUND"
      /\ loc'[h].user = loc[h].user /\ loc'[h].owner = loc[h].owner
      /\ req' = req /\ cookie' = cookie /\ resp' = resp
      /\ \A g \in Handlers \ {h} : pc'[g] = pc[g] /\ loc'[g] = loc[g]
  BY <1>t, <1>1, AnswerEffect
<1>3. Kept
  BY <1>1, <1>2, StatementKeeps DEF db
<1>4. req[h].id \in Handlers /\ header.exists /\ header.user \in OptUser
  BY <1>t, <1>1 DEF HandlerInv, ViewFits, TypeOK, Request
<1>5. ok => Justified(h)
  <2> SUFFICES ASSUME ok, header.session # cookie[h] PROVE Justified(h)
    BY DEF Justified
  <2>1. header.user # NoUser /\ loc[h].owner = header.user
    BY <1>1 DEF CanAccessReservation
  <2>2. Linked(header.session, header.user) /\ Linked(cookie[h], header.user)
    BY <1>t, <1>4, <2>1 DEF Inv, ReservationsLinked, HandlerInv, OwnerLinked
  <2>3. header.user \in UserIds
    BY <1>4, <2>1 DEF OptUser
  <2> QED
    BY <2>2, <2>3 DEF Justified
<1>6. ~ok => header.session # cookie[h]
  BY <1>1 DEF CanAccessReservation
<1>7. HandlerInv(h)'
  <2>1. resp[h] = "none"
    BY <1>1, <1>t DEF HandlerInv, CodeFits
  <2>2. LabelFits(h)' /\ CodeFits(h)' /\ SessionFits(h)' /\ MadeOnce(h)'
    BY <1>2, <2>1 DEF LabelFits, CodeFits, SessionFits, MadeOnce
  <2>3. LoginUser(h)' /\ OwnerLinked(h)' /\ RegisterFits(h)'
    BY <1>1, <1>2, <1>3, <1>t DEF HandlerInv, LoginUser, OwnerLinked, RegisterFits, Kept
  <2>4. ViewFits(h)'
    <3>1. reservations'[req'[h].id] = header
      BY <1>1, <1>2 DEF db
    <3>2. Justified(h) => Justified(h)'
      BY <1>2, <1>3, <3>1 DEF Justified, Kept
    <3> HIDE DEF ok
    <3> QED
      BY <1>1, <1>2, <1>4, <1>5, <1>6, <3>1, <3>2 DEF ViewFits
  <2> QED
    BY <2>2, <2>3, <2>4 DEF HandlerInv
<1>8. \A g \in Handlers \ {h} : Untouched(g)
  BY <1>1, <1>2 DEF Untouched, db
<1> QED
  BY <1>1, <1>3, <1>7, <1>8, TablesKeep, OneHandlerSteps

\* A step of no handler keeps the invariant.
LEMMA QuietStep == ASSUME Inv, TypeOK', Tick \/ UNCHANGED vars PROVE Inv'
<1>1. UNCHANGED <<db, pc, req, cookie, loc, resp>>
  BY DEF Tick, vars, db
<1>2. Kept
  BY <1>1, StatementKeeps DEF db
<1>3. \A g \in Handlers : Untouched(g)
  BY <1>1 DEF Untouched, db
<1>4. \A g \in Handlers : HandlerInv(g)'
  BY <1>2, <1>3, OthersKeep DEF Inv
<1> QED
  BY <1>1, <1>2, <1>4, TablesKeep DEF Inv

\* Every step keeps the invariant.
LEMMA InvStep == Inv /\ [Next]_vars => Inv'
<1> SUFFICES ASSUME Inv, [Next]_vars PROVE Inv'
  OBVIOUS
<1>1. TypeOK'
  BY TypeStep DEF Inv
<1>2. CASE \E h \in Handlers : BeginRequest(h) \/ Step(h) \/ Lost(h) \/ DBError(h)
  <2>1. PICK h \in Handlers : BeginRequest(h) \/ Step(h) \/ Lost(h) \/ DBError(h)
    BY <1>2
  <2>2. CASE BeginRequest(h)
    BY <1>1, <2>2, BeginStep
  <2>3. CASE Lost(h) \/ Respond(h)
    BY <1>1, <2>3, RespondStep
  <2>4. CASE DBError(h)
    BY <1>1, <2>4, DBErrorStep
  <2>5. CASE Register(h) \/ Credentials(h) \/ AttachUser(h)
    BY <1>1, <2>5, RegisterStep, CredentialsStep, AttachStep
  <2>6. CASE CreateAnonymousSession(h) \/ LookupSession(h) \/ TouchSession(h)
    BY <1>1, <2>6, CreateStep, LookupStep, TouchStep
  <2>7. CASE InsertReservation(h) \/ ReadReservation(h)
    BY <1>1, <2>7, InsertStep, ReadStep
  <2> QED
    BY <2>1, <2>2, <2>3, <2>4, <2>5, <2>6, <2>7 DEF Step
<1>3. CASE Tick \/ UNCHANGED vars
  BY <1>1, <1>3, QuietStep
<1> QED
  BY <1>2, <1>3 DEF Next, AllQuiet

--------------------------------------------------------------------------------
(* What is remembered of a session: its token is handed out once, it has the   *)
(* user of a login from when the login is answered, and the cookie with it     *)
(* lasts as long as it does.                                                   *)

Live(t) == t \in Handlers /\ sessions[t].exists

\* A session is made once, by a request that is past that statement, and is over
\* a TTL from now at the latest.
SessionMade(t) ==
    sessions[t].exists =>
        pc[t] \in {"attach", "respond", "done"} /\ sessions[t].expires <= now + TTL

\* A login that is, or is about to be, answered with success.
LoggedIn(o) == req[o].op = "login" /\ loc[o].code = "OK"

\* A reservation of h under session t has a user.
Knows(h, t) ==
    /\ pc[h] = "insert" /\ loc[h].session = t => loc[h].owner # NoUser
    /\ reservations[h].exists /\ reservations[h].session = t => reservations[h].user # NoUser

\* The tokens of a handler are those of sessions, a login goes on with a user and
\* leaves one, and what was answered before is known.
Remembers(h) ==
    /\ cookie[h] # NoToken => Live(cookie[h])
    /\ loc[h].session # NoToken => Live(loc[h].session)
    /\ loc[h].token # NoToken => Live(loc[h].token)
    /\ pc[h] \in {"lookup", "touch", "create", "attach"} /\ req[h].op = "login" =>
          loc[h].user # NoUser
    /\ LoggedIn(h) => Live(loc[h].token) /\ sessions[loc[h].token].user # NoUser
    /\ \A o \in before[h] : pc[o] = "done" /\ (LoggedIn(o) => Knows(h, loc[o].token))

\* A browser keeps the token of a session, until less than a second before the
\* session is over.
CookieFits(b) ==
    jar[b].token # NoToken =>
        /\ Live(jar[b].token)
        /\ jar[b].until + Second > sessions[jar[b].token].expires

Memory ==
    /\ \A t \in Handlers : SessionMade(t)
    /\ \A h \in Handlers : Remembers(h)
    /\ \A b \in Browsers : CookieFits(b)

\* No session is forgotten or loses its user, and what was answered stays so.
Lasts ==
    /\ now' >= now
    /\ \A t \in Handlers : sessions[t].exists =>
          /\ sessions'[t].exists /\ sessions'[t].expires = sessions[t].expires
          /\ sessions[t].user # NoUser => sessions'[t].user # NoUser
    /\ \A o \in Handlers : pc[o] = "done" => Untouched(o)

\* A session goes on living.
LEMMA LiveLasts ==
    ASSUME Lasts
    PROVE  \A t : Live(t) => Live(t)'
BY DEF Lasts, Live

\* A handler that does nothing remembers what it did.
LEMMA OthersRemember ==
    ASSUME Inv, Memory, Lasts, NEW g \in Handlers, Untouched(g), before'[g] = before[g]
    PROVE  Remembers(g)'
<1>1. Remembers(g) /\ before[g] \subseteq Handlers
  BY DEF Memory, Inv, TypeOK
<1>2. \A t : Live(t) => Live(t)'
  BY LiveLasts
<1>3. /\ cookie'[g] # NoToken => Live(cookie[g])'
      /\ loc'[g].session # NoToken => Live(loc[g].session)'
      /\ loc'[g].token # NoToken => Live(loc[g].token)'
  BY <1>1, <1>2 DEF Remembers, Untouched, Live
<1>4. LoggedIn(g)' => Live(loc[g].token)' /\ sessions'[loc'[g].token].user # NoUser
  BY <1>1, <1>2 DEF Remembers, Untouched, Live, LoggedIn, Lasts
<1>5. ASSUME NEW o \in before[g]
      PROVE  pc'[o] = "done" /\ (LoggedIn(o)' => Knows(g, loc[o].token)')
  <2>1. o \in Handlers /\ pc[o] = "done" /\ (LoggedIn(o) => Knows(g, loc[o].token))
    BY <1>1 DEF Remembers
  <2>2. Untouched(o)
    BY <2>1 DEF Lasts
  <2> QED
    BY <2>1, <2>2 DEF Untouched, LoggedIn, Knows
<1> QED
  BY <1>1, <1>3, <1>4, <1>5 DEF Remembers, Untouched

\* A browser that gets no answer keeps its cookie.
LEMMA CookiesLast ==
    ASSUME Inv, Memory, Lasts, NEW b \in Browsers, jar'[b] = jar[b]
    PROVE  CookieFits(b)'
<1>1. CookieFits(b) /\ jar[b].until \in Nat
  BY DEF Memory, Inv, TypeOK
<1> QED
  BY <1>1, SessionAssumption DEF CookieFits, Live, Lasts

\* A step keeps the memory when it does so for the handler that takes it, the
\* cookies and a session that is made.
LEMMA MemoryStep ==
    ASSUME Inv, Memory, Inv', Lasts, NEW h \in Handlers, Remembers(h)',
           \A g \in Handlers \ {h} : Untouched(g) /\ before'[g] = before[g],
           pc[h] \in {"attach", "respond"} => pc'[h] \in {"attach", "respond", "done"},
           \A t \in Handlers : sessions'[t].exists =>
              \/ sessions[t].exists
              \/ t = h /\ pc'[h] \in {"attach", "respond"} /\ sessions'[t].expires = now + TTL,
           \A b \in Browsers : CookieFits(b)'
    PROVE  Memory'
<1>1. \A g \in Handlers : Remembers(g)'
  BY OthersRemember
<1>2. ASSUME NEW t \in Handlers, sessions'[t].exists
      PROVE  pc'[t] \in {"attach", "respond", "done"} /\ sessions'[t].expires <= now' + TTL
  <2>1. now \in Nat /\ now' \in Nat /\ TTL \in Nat /\ sessions[t].expires \in Nat /\ now' >= now
    BY SessionAssumption DEF Inv, TypeOK, Lasts
  <2>2. CASE sessions[t].exists
    <3>1. SessionMade(t) /\ sessions'[t].expires = sessions[t].expires
      BY <2>2 DEF Memory, Lasts
    <3>2. pc'[t] \in {"attach", "respond", "done"}
      BY <2>2, <3>1 DEF SessionMade, Untouched, Lasts
    <3> QED
      BY <2>1, <2>2, <3>1, <3>2 DEF SessionMade
  <2>3. CASE ~sessions[t].exists
    BY <1>2, <2>1, <2>3
  <2> QED
    BY <2>2, <2>3
<1> QED
  BY <1>1, <1>2 DEF Memory, SessionMade

\* A statement that changes no session lets everything last.
LEMMA SessionsLast ==
    ASSUME Inv, now' = now, sessions' = sessions, NEW h \in Handlers, pc[h] # "done",
           \A g \in Handlers \ {h} : Untouched(g)
    PROVE  Lasts
BY DEF Lasts, Inv, TypeOK

\* A statement of h: what it remembers then.
LEMMA StatementRemembers ==
    ASSUME Inv, Memory, Lasts, NEW h \in Handlers, pc[h] \notin {"idle", "done"},
           NEW label, NEW l, Continue(h, label, l),
           l.session # NoToken => Live(l.session)',
           l.token # NoToken => Live(l.token)',
           label \in {"lookup", "touch", "create", "attach"} /\ req[h].op = "login" =>
              l.user # NoUser,
           req[h].op = "login" /\ l.code = "OK" =>
              Live(l.token)' /\ sessions'[l.token].user # NoUser,
           \A o \in before[h] : LoggedIn(o) =>
              /\ label = "insert" /\ l.session = loc[o].token => l.owner # NoUser
              /\ reservations'[h].exists /\ reservations'[h].session = loc[o].token =>
                    reservations'[h].user # NoUser
    PROVE  Remembers(h)'
<1>1. TypeOK /\ Remembers(h) /\ before[h] \subseteq Handlers
  BY DEF Memory, Inv, TypeOK
<1>2. pc'[h] = label /\ loc'[h] = l /\ req' = req /\ cookie' = cookie /\ before' = before
  <2>1. before' = before
    BY DEF Continue
  <2> QED
    BY <1>1, <2>1, ContinueEffect
<1>3. \A t : Live(t) => Live(t)'
  BY LiveLasts
<1>4. cookie'[h] # NoToken => Live(cookie[h])'
  BY <1>1, <1>2, <1>3 DEF Remembers, Live
<1>5. ASSUME NEW o \in before[h]
      PROVE  pc'[o] = "done" /\ (LoggedIn(o)' => Knows(h, loc[o].token)')
  <2>1. o \in Handlers /\ pc[o] = "done"
    BY <1>1 DEF Remembers
  <2>2. Untouched(o)
    BY <2>1 DEF Lasts
  <2>3. PICK t : t = loc[o].token
    OBVIOUS
  <2>4. LoggedIn(o) => Knows(h, t)'
    BY <1>2, <2>3 DEF Knows
  <2> QED
    BY <2>1, <2>2, <2>3, <2>4 DEF Untouched, LoggedIn, Knows
<1> QED
  BY <1>2, <1>4, <1>5 DEF Remembers, Live, LoggedIn

\* The same for a statement that changes no session and makes no reservation.
LEMMA PlainStatement ==
    ASSUME Inv, Memory, Inv', NEW h \in Handlers, pc[h] \notin {"idle", "respond", "done", "attach"},
           NEW label, NEW l, Continue(h, label, l), sessions' = sessions,
           reservations'[h] = reservations[h],
           \A g \in Handlers \ {h} : reservations'[g] = reservations[g],
           l.session = loc[h].session, l.token \in {NoToken, loc[h].token},
           label \in {"lookup", "touch", "create"} /\ req[h].op = "login" => l.user # NoUser,
           label \notin {"attach", "insert"},
           req[h].op = "login" => l.code # "OK"
    PROVE  Memory'
<1>1. TypeOK /\ Remembers(h) /\ ~reservations[h].exists
  BY DEF Inv, Memory, HandlerInv, MadeOnce
<1>2. /\ now' = now /\ before' = before /\ jar' = jar
      /\ \A g \in Handlers \ {h} : Untouched(g)
  BY <1>1, ContinueEffect DEF Continue, Untouched
<1>3. Lasts
  BY <1>2, SessionsLast
<1>4. (l.session # NoToken => Live(l.session)') /\ (l.token # NoToken => Live(l.token)')
  BY <1>1, <1>3, LiveLasts DEF Remembers
<1>5. Remembers(h)'
  BY <1>1, <1>3, <1>4, StatementRemembers
<1>6. \A b \in Browsers : CookieFits(b)'
  BY <1>2, <1>3, CookiesLast
<1> QED
  BY <1>2, <1>3, <1>5, <1>6, MemoryStep

\* A request is sent with a cookie that names a session, after the requests that
\* are answered.
LEMMA BeginMemory ==
    ASSUME Inv, Memory, Inv', NEW h \in Handlers, BeginRequest(h)
    PROVE  Memory'
<1>1. TypeOK /\ pc[h] = "idle" /\ UNCHANGED <<db, jar, now, resp>>
      /\ loc[h] = NoLocals /\ ~reservations[h].exists
  BY DEF BeginRequest, Inv, HandlerInv, LabelFits, MadeOnce
<1>2. PICK rq \in Requests[h] :
          /\ rq.op \in Ops \ {"none"}
          /\ req' = [req EXCEPT ![h] = rq]
          /\ cookie' = [cookie EXCEPT ![h] =
                IF now < jar[rq.browser].until THEN jar[rq.browser].token ELSE NoToken]
          /\ before' = [before EXCEPT ![h] = {o \in Handlers : pc[o] = "done"}]
          /\ pc' = [pc EXCEPT ![h] = FirstStatement(rq.op)]
          /\ loc' = [loc EXCEPT ![h].code = IF rq.op = "logout" THEN "OK" ELSE "none"]
  BY DEF BeginRequest
<1>3. rq.browser \in Browsers
  BY <1>2, SessionAssumption DEF Request
<1>4. /\ FirstStatement(rq.op) \notin {"insert", "attach", "idle", "done"}
      /\ rq.op = "login" => FirstStatement(rq.op) = "credentials"
  BY <1>2 DEF FirstStatement
<1>5. UNCHANGED <<users, sessions, reservations>>
  BY <1>1 DEF db
<1>6. /\ req'[h] = rq /\ pc'[h] = FirstStatement(rq.op)
      /\ cookie'[h] = IF now < jar[rq.browser].until THEN jar[rq.browser].token ELSE NoToken
      /\ before'[h] = {o \in Handlers : pc[o] = "done"}
      /\ \A g \in Handlers \ {h} : Untouched(g) /\ before'[g] = before[g]
  BY <1>1, <1>2, <1>5 DEF TypeOK, Untouched
<1>7. loc'[h].session = NoToken /\ loc'[h].token = NoToken /\ (rq.op = "login" => loc'[h].code = "none")
  BY <1>1, <1>2 DEF TypeOK, NoLocals
<1>8. Lasts
  BY <1>1, <1>5, <1>6, SessionsLast
<1>9. cookie'[h] # NoToken => Live(cookie[h])'
  <2>1. PICK t : t = jar[rq.browser].token
    OBVIOUS
  <2>2. t # NoToken => Live(t)'
    BY <1>3, <1>8, <2>1, LiveLasts DEF Memory, CookieFits
  <2> QED
    BY <1>6, <2>1, <2>2 DEF Live
<1>10. ASSUME NEW o \in before'[h]
       PROVE  pc'[o] = "done" /\ (LoggedIn(o)' => Knows(h, loc[o].token)')
  <2>1. o \in Handlers /\ pc[o] = "done" /\ o # h
    BY <1>1, <1>6
  <2>2. pc'[h] # "insert" /\ ~reservations'[h].exists
    BY <1>1, <1>4, <1>5, <1>6
  <2> QED
    BY <1>6, <2>1, <2>2 DEF Untouched, Knows
<1>11. Remembers(h)'
  BY <1>4, <1>6, <1>7, <1>9, <1>10 DEF Remembers, LoggedIn
<1>12. \A b \in Browsers : CookieFits(b)'
  BY <1>1, <1>8, CookiesLast
<1> QED
  BY <1>1, <1>5, <1>6, <1>8, <1>11, <1>12, MemoryStep

\* The cookie of an answer is that of a session that has at most a TTL left.
LEMMA RespondMemory ==
    ASSUME Inv, Memory, Inv', NEW h \in Handlers, Respond(h) \/ Lost(h)
    PROVE  Memory'
<1>1. /\ TypeOK /\ pc[h] = "respond" /\ pc' = [pc EXCEPT ![h] = "done"] /\ Remembers(h)
      /\ UNCHANGED <<db, now, req, cookie, before, loc>>
  BY DEF Respond, Lost, Inv, Memory
<1>2. UNCHANGED <<users, sessions, reservations>>
  BY <1>1 DEF db
<1>3. pc'[h] = "done" /\ \A g \in Handlers \ {h} : Untouched(g)
  <2>1. \A g \in Handlers \ {h} : resp'[g] = resp[g]
    BY <1>1 DEF Respond, Lost, TypeOK
  <2> QED
    BY <1>1, <1>2, <2>1 DEF TypeOK, Untouched
<1>4. Lasts
  BY <1>1, <1>2, <1>3, SessionsLast
<1>5. Remembers(h)'
  <2>1. \A o \in before[h] : o \in Handlers /\ pc[o] = "done" /\ pc'[o] = "done"
    BY <1>1, <1>3 DEF Remembers, TypeOK, Untouched
  <2> QED
    BY <1>1, <1>2, <1>3, <2>1 DEF Remembers, LoggedIn, Live, Knows
<1>6. ASSUME NEW b \in Browsers PROVE CookieFits(b)'
  <2> DEFINE t == loc[h].token
             new == [token |-> t, until |-> now + MaxAge]
  <2>1. \/ jar' = [jar EXCEPT ![req[h].browser] = NoCookie]
        \/ t # NoToken /\ jar' = [jar EXCEPT ![req[h].browser] = new]
        \/ jar' = jar
    BY Zenon DEF Respond, Lost
  <2>2. \/ jar'[b] = NoCookie
        \/ t # NoToken /\ jar'[b] = new
        \/ jar'[b] = jar[b]
    <3> HIDE DEF new, t
    <3> QED
      BY <1>1, <2>1 DEF TypeOK
  <2>3. CASE jar'[b] = NoCookie
    BY <2>3 DEF CookieFits, NoCookie
  <2>4. CASE jar'[b] = jar[b]
    BY <1>4, <2>4, CookiesLast
  <2>5. CASE t # NoToken /\ jar'[b] = new
    <3>1. jar'[b].token = t /\ jar'[b].until = now + MaxAge
      BY <2>5
    <3>2. Live(t) /\ SessionMade(t)
      BY <1>1, <2>5 DEF Remembers, Memory, Live
    <3>3. sessions[t].expires <= now + TTL
      BY <3>2 DEF SessionMade, Live
    <3>4. now \in Nat /\ TTL \in Nat /\ Second \in Nat /\ sessions[t].expires \in Nat
      BY <1>1, <3>2, SessionAssumption DEF TypeOK, Live
    <3>5. jar'[b].until + Second > sessions[t].expires
      BY <3>1, <3>3, <3>4, MaxAgeType, MaxAgeFits
    <3> HIDE DEF t
    <3> QED
      BY <1>2, <3>1, <3>2, <3>4, <3>5 DEF CookieFits, Live
  <2> QED
    BY <2>2, <2>3, <2>4, <2>5
<1> QED
  BY <1>1, <1>2, <1>3, <1>4, <1>5, <1>6, MemoryStep

\* An answer without a cookie is the end of a request.
LEMMA PlainAnswerMemory ==
    ASSUME Inv, Memory, Inv', NEW h \in Handlers,
           pc[h] \notin {"idle", "respond", "done", "attach"}, NEW code,
           Answer(h, loc[h], code, NoToken), sessions' = sessions,
           \A g \in Handlers : reservations'[g] = reservations[g],
           req[h].op = "login" => code # "OK"
    PROVE  Memory'
<1>1. loc[h] \in Locals
  BY DEF Inv, TypeOK, Locals
<1>2. PICK l : l = [loc[h] EXCEPT !.code = code, !.token = NoToken]
  OBVIOUS
<1>3. Continue(h, "respond", l) /\ l.code = code /\ l.token = NoToken /\ l.session = loc[h].session
  BY <1>1, <1>2 DEF Answer, Locals
<1> QED
  BY <1>3, PlainStatement

\* A failed statement.
LEMMA DBErrorMemory ==
    ASSUME Inv, Memory, Inv', NEW h \in Handlers, DBError(h)
    PROVE  Memory'
<1>1. PICK l, code : /\ l = [loc[h] EXCEPT !.code = code, !.token = NoToken]
                     /\ code = IF req[h].op = "register" THEN "INVALID" ELSE "FAILED"
  OBVIOUS
<1>2. /\ TypeOK /\ loc[h] \in Locals /\ Remembers(h) /\ HandlerInv(h)
      /\ pc[h] \notin {"idle", "done"}
      /\ UNCHANGED <<users, sessions, reservations>>
  BY DEF DBError, db, Inv, TypeOK, Locals, Memory
<1>3. Continue(h, "respond", l) /\ l.code = code /\ l.token = NoToken /\ l.session = loc[h].session
  BY <1>1, <1>2 DEF DBError, Answer, Locals
<1>4. \A o \in before[h] : LoggedIn(o) =>
         (reservations'[h].exists /\ reservations'[h].session = loc[o].token =>
             reservations'[h].user # NoUser)
  BY <1>2 DEF Remembers, Knows
<1>5. /\ now' = now /\ before' = before /\ jar' = jar /\ pc'[h] = "respond"
      /\ \A g \in Handlers \ {h} : Untouched(g)
  <2>1. now' = now /\ before' = before /\ jar' = jar
    BY <1>3 DEF Continue
  <2> QED
    BY <1>2, <1>3, <2>1, ContinueEffect DEF Untouched
<1>6. Lasts
  BY <1>2, <1>5, SessionsLast
<1>7. l.session # NoToken => Live(l.session)'
  BY <1>2, <1>3, <1>6, LiveLasts DEF Remembers
<1>8. Remembers(h)'
  <2>1. l.code # "OK"
    BY <1>1, <1>3
  <2> QED
    BY <1>2, <1>3, <1>4, <1>6, <1>7, <2>1, StatementRemembers
<1>9. \A b \in Browsers : CookieFits(b)'
  BY <1>5, <1>6, CookiesLast
<1> QED
  BY <1>2, <1>5, <1>6, <1>8, <1>9, MemoryStep

\* A registration touches no session.
LEMMA RegisterMemory ==
    ASSUME Inv, Memory, Inv', NEW h \in Handlers, Register(h)
    PROVE  Memory'
<1>1. PICK code : Answer(h, loc[h], code, NoToken)
  BY DEF Register
<1>2. pc[h] = "register" /\ UNCHANGED <<sessions, reservations>> /\ req[h].op = "register"
  BY DEF Register, Inv, HandlerInv, LabelFits
<1> QED
  BY <1>1, <1>2, PlainAnswerMemory

\* A login that gave the right password goes on with a user.
LEMMA CredentialsMemory ==
    ASSUME Inv, Memory, Inv', NEW h \in Handlers, Credentials(h)
    PROVE  Memory'
<1>1. /\ pc[h] = "credentials" /\ UNCHANGED <<users, sessions, reservations>>
      /\ TypeOK /\ loc[h] \in Locals /\ Remembers(h) /\ HandlerInv(h)
  BY DEF Credentials, db, Inv, TypeOK, Locals, Memory
<1>2. CASE \E u \in users : Continue(h, "lookup", [loc[h] EXCEPT !.user = u.id])
  <2>1. PICK u \in users : Continue(h, "lookup", [loc[h] EXCEPT !.user = u.id])
    BY <1>2
  <2>2. u.id # NoUser
    BY <1>1, SessionAssumption DEF TypeOK
  <2>3. PICK l : l = [loc[h] EXCEPT !.user = u.id]
    OBVIOUS
  <2>4. /\ Continue(h, "lookup", l) /\ l.user # NoUser /\ l.session = loc[h].session
        /\ l.code = loc[h].code /\ l.token = loc[h].token
    BY <1>1, <2>1, <2>2, <2>3 DEF Locals
  <2>5. l.code = "none"
    BY <1>1, <2>4 DEF HandlerInv, CodeFits
  <2> QED
    BY <1>1, <2>4, <2>5, PlainStatement
<1>3. CASE Answer(h, loc[h], "INVALID_CREDENTIALS", NoToken)
  BY <1>1, <1>3, PlainAnswerMemory
<1> QED
  BY <1>2, <1>3 DEF Credentials

\* The session of a login has its user from then on.
LEMMA AttachMemory ==
    ASSUME Inv, Memory, Inv', NEW h \in Handlers, AttachUser(h)
    PROVE  Memory'
<1>1. /\ pc[h] = "attach" /\ UNCHANGED <<users, reservations>> /\ req[h].op = "login"
      /\ TypeOK /\ loc[h] \in Locals /\ Remembers(h) /\ ~reservations[h].exists
  BY DEF AttachUser, Inv, TypeOK, Locals, Memory, HandlerInv, LabelFits, MadeOnce
<1>2. PICK t, u, l : /\ t = loc[h].session /\ u = loc[h].user
                     /\ l = [loc[h] EXCEPT !.code = "OK", !.token = loc[h].session]
  OBVIOUS
<1>3. Continue(h, "respond", l) /\ l.code = "OK" /\ l.token = t /\ l.session = t /\ l.user = u
  BY <1>1, <1>2 DEF AttachUser, Answer, Locals
<1>4. t # NoToken /\ Live(t) /\ u # NoUser
  BY <1>1, <1>2 DEF Remembers, TypeOK
<1>5. sessions' = [sessions EXCEPT ![t].user = u]
  BY <1>2 DEF AttachUser
<1>6. /\ sessions'[t].user = u
      /\ \A s \in Handlers :
            /\ sessions'[s].exists = sessions[s].exists /\ sessions'[s].expires = sessions[s].expires
            /\ s # t => sessions'[s].user = sessions[s].user
  BY <1>1, <1>4, <1>5 DEF TypeOK, Live
<1>7. /\ now' = now /\ before' = before /\ jar' = jar /\ pc'[h] = "respond"
      /\ \A g \in Handlers \ {h} : Untouched(g)
  <2>1. now' = now /\ before' = before /\ jar' = jar
    BY <1>3 DEF Continue
  <2> QED
    BY <1>1, <1>3, <2>1, ContinueEffect DEF Untouched
<1>8. Lasts
  <2>1. now' >= now
    BY <1>1, <1>7 DEF TypeOK
  <2>2. \A o \in Handlers : pc[o] = "done" => Untouched(o)
    BY <1>1, <1>7
  <2> QED
    BY <1>4, <1>6, <2>1, <2>2 DEF Lasts
<1>9. Live(t)'
  BY <1>4, <1>8, LiveLasts
<1>10. Remembers(h)'
  BY <1>1, <1>3, <1>4, <1>6, <1>8, <1>9, StatementRemembers
<1>11. \A b \in Browsers : CookieFits(b)'
  BY <1>7, <1>8, CookiesLast
<1> QED
  BY <1>6, <1>7, <1>8, <1>10, <1>11, MemoryStep

\* A session is made under a token nobody has.
LEMMA CreateMemory ==
    ASSUME Inv, Memory, Inv', NEW h \in Handlers, CreateAnonymousSession(h)
    PROVE  Memory'
<1>1. /\ pc[h] = "create" /\ UNCHANGED <<users, reservations>>
      /\ TypeOK /\ loc[h] \in Locals /\ Remembers(h) /\ ~reservations[h].exists
      /\ ~sessions[h].exists /\ loc[h].code = "none"
  BY DEF CreateAnonymousSession, Inv, TypeOK, Locals, Memory, HandlerInv, MadeOnce, CodeFits,
         SessionMade
<1>2. /\ sessions'[h].exists /\ sessions'[h].expires = now + TTL
      /\ \A t \in Handlers : t # h => sessions'[t] = sessions[t]
  BY <1>1 DEF CreateAnonymousSession, TypeOK
<1>3. PICK l, label :
         /\ Continue(h, label, l) /\ label \in {"attach", "respond"} /\ l.session = h
         /\ l.token \in {loc[h].token, h} /\ l.user = loc[h].user
         /\ req[h].op = "login" => label = "attach" /\ l.code = "none"
  <2>1. PICK m, n : /\ m = [loc[h] EXCEPT !.session = h]
                    /\ n = [m EXCEPT !.code = "OK", !.token = h]
    OBVIOUS
  <2>2. /\ m.session = h /\ m.token = loc[h].token /\ m.user = loc[h].user /\ m.code = "none"
        /\ n.session = h /\ n.token = h /\ n.user = loc[h].user
    BY <1>1, <2>1 DEF Locals
  <2>3. IF req[h].op = "login" THEN Continue(h, "attach", m) ELSE Continue(h, "respond", n)
    BY <2>1 DEF CreateAnonymousSession, Answer
  <2> QED
    BY <2>2, <2>3
<1>4. /\ now' = now /\ before' = before /\ jar' = jar /\ pc'[h] = label
      /\ \A g \in Handlers \ {h} : Untouched(g)
  <2>1. now' = now /\ before' = before /\ jar' = jar
    BY <1>3 DEF Continue
  <2> QED
    BY <1>1, <1>3, <2>1, ContinueEffect DEF Untouched
<1>5. Lasts
  <2>1. now' >= now
    BY <1>1, <1>4 DEF TypeOK
  <2>2. \A o \in Handlers : pc[o] = "done" => Untouched(o)
    BY <1>1, <1>4
  <2> QED
    BY <1>1, <1>2, <2>1, <2>2 DEF Lasts
<1>6. Live(h)' /\ (l.token # NoToken => Live(l.token)')
  <2>1. Live(h)'
    BY <1>2 DEF Live
  <2> QED
    BY <1>1, <1>3, <1>5, <2>1, LiveLasts DEF Remembers
<1>7. Remembers(h)'
  BY <1>1, <1>3, <1>5, <1>6, StatementRemembers DEF Remembers
<1>8. \A b \in Browsers : CookieFits(b)'
  BY <1>4, <1>5, CookiesLast
<1>9. \A t \in Handlers : sessions'[t].exists => sessions[t].exists \/ t = h
  BY <1>2
<1> QED
  BY <1>1, <1>2, <1>3, <1>4, <1>5, <1>7, <1>8, <1>9, MemoryStep

\* The session of the cookie is looked up.
LEMMA LookupMemory ==
    ASSUME Inv, Memory, Inv', NEW h \in Handlers, LookupSession(h)
    PROVE  Memory'
<1>1. /\ pc[h] = "lookup" /\ UNCHANGED <<users, sessions, reservations>>
      /\ TypeOK /\ loc[h] \in Locals /\ Remembers(h) /\ loc[h].code = "none"
  BY DEF LookupSession, db, Inv, TypeOK, Locals, Memory, HandlerInv, CodeFits
<1>2. CASE Continue(h, "touch", [loc[h] EXCEPT !.owner = sessions[cookie[h]].user])
  <2>1. PICK l : l = [loc[h] EXCEPT !.owner = sessions[cookie[h]].user]
    OBVIOUS
  <2>2. /\ Continue(h, "touch", l) /\ l.user = loc[h].user /\ l.session = loc[h].session
        /\ l.code = "none" /\ l.token = loc[h].token
    BY <1>1, <1>2, <2>1 DEF Locals
  <2> QED
    BY <1>1, <2>2, PlainStatement DEF Remembers
<1>3. CASE Continue(h, "create", loc[h])
  <2>1. PICK l : l = loc[h]
    OBVIOUS
  <2>2. Continue(h, "create", l)
    BY <1>3, <2>1
  <2> QED
    BY <1>1, <2>1, <2>2, PlainStatement DEF Remembers
<1>4. CASE Answer(h, loc[h], "SESSION_REQUIRED", NoToken)
  BY <1>1, <1>4, PlainAnswerMemory
<1> QED
  BY <1>2, <1>3, <1>4 DEF LookupSession

\* The row a touch returns has the user of every login answered before.
LEMMA TouchMemory ==
    ASSUME Inv, Memory, Inv', NEW h \in Handlers, TouchSession(h)
    PROVE  Memory'
<1>1. /\ pc[h] = "touch" /\ UNCHANGED <<users, reservations>>
      /\ TypeOK /\ loc[h] \in Locals /\ Remembers(h) /\ ~reservations[h].exists
      /\ loc[h].code = "none"
  BY DEF TouchSession, Inv, TypeOK, Locals, Memory, HandlerInv, MadeOnce, CodeFits
<1>2. PICK t, l : t = cookie[h] /\ l = [loc[h] EXCEPT !.session = t, !.owner = sessions[t].user]
  OBVIOUS
<1>3. t # NoToken /\ Live(t)
  BY <1>1, <1>2 DEF Remembers, TypeOK
<1>4. sessions' = [sessions EXCEPT ![t].seen = now] /\ WithSession(h, l)
  BY <1>2 DEF TouchSession
<1>5. /\ l.session = t /\ l.owner = sessions[t].user /\ l.user = loc[h].user
      /\ l.token = loc[h].token /\ l.code = "none" /\ l \in Locals
  <2>1. sessions[t].user \in OptUser /\ t \in OptToken
    BY <1>1, <1>3 DEF TypeOK, Live, OptToken
  <2> QED
    BY <1>1, <1>2, <2>1 DEF Locals
<1>6. \A s \in Handlers :
         /\ sessions'[s].exists = sessions[s].exists /\ sessions'[s].expires = sessions[s].expires
         /\ sessions'[s].user = sessions[s].user
  BY <1>1, <1>3, <1>4 DEF TypeOK, Live
<1>7. PICK label, m :
         /\ Continue(h, label, m) /\ m.session = t /\ m.owner = l.owner /\ m.user = loc[h].user
         /\ m.token \in {loc[h].token, NoToken} /\ label \in {"attach", "insert", "read", "respond"}
         /\ req[h].op = "login" => label = "attach" /\ m.code = "none"
  <2>1. PICK n : n = [l EXCEPT !.code = "OK", !.token = NoToken]
    OBVIOUS
  <2>2. n.session = t /\ n.owner = l.owner /\ n.user = loc[h].user /\ n.token = NoToken
    BY <1>5, <2>1 DEF Locals
  <2>3. \/ req[h].op = "login" /\ Continue(h, "attach", l)
        \/ req[h].op = "reserve" /\ Continue(h, "insert", l)
        \/ req[h].op = "view" /\ Continue(h, "read", l)
        \/ req[h].op # "login" /\ Answer(h, l, "OK", NoToken)
    BY <1>4 DEF WithSession
  <2>4. CASE req[h].op # "login" /\ Answer(h, l, "OK", NoToken)
    BY <2>1, <2>2, <2>4 DEF Answer
  <2>5. CASE \/ req[h].op = "login" /\ Continue(h, "attach", l)
             \/ req[h].op = "reserve" /\ Continue(h, "insert", l)
             \/ req[h].op = "view" /\ Continue(h, "read", l)
    BY <1>5, <2>5
  <2> QED
    BY <2>3, <2>4, <2>5
<1>8. /\ now' = now /\ before' = before /\ jar' = jar /\ pc'[h] = label
      /\ \A g \in Handlers \ {h} : Untouched(g)
  <2>1. now' = now /\ before' = before /\ jar' = jar
    BY <1>7 DEF Continue
  <2> QED
    BY <1>1, <1>7, <2>1, ContinueEffect DEF Untouched
<1>9. Lasts
  <2>1. now' >= now
    BY <1>1, <1>8 DEF TypeOK
  <2>2. \A o \in Handlers : pc[o] = "done" => Untouched(o)
    BY <1>1, <1>8
  <2> QED
    BY <1>6, <2>1, <2>2 DEF Lasts
<1>10. Live(t)' /\ (m.token # NoToken => Live(m.token)')
  BY <1>1, <1>3, <1>7, <1>9, LiveLasts DEF Remembers
<1>11. \A o \in before[h] : LoggedIn(o) => (t = loc[o].token => l.owner # NoUser)
  BY <1>1, <1>5 DEF TypeOK, Memory, Remembers
<1>12. Remembers(h)'
  <2>1. label \in {"lookup", "touch", "create", "attach"} /\ req[h].op = "login" => m.user # NoUser
    BY <1>1, <1>7 DEF Remembers
  <2>2. ~reservations'[h].exists
    BY <1>1
  <2> QED
    BY <1>1, <1>7, <1>9, <1>10, <1>11, <2>1, <2>2, StatementRemembers
<1>13. \A b \in Browsers : CookieFits(b)'
  BY <1>8, <1>9, CookiesLast
<1> QED
  BY <1>1, <1>6, <1>8, <1>9, <1>12, <1>13, MemoryStep

\* The header of a reservation takes the session and the user of its request.
LEMMA InsertMemory ==
    ASSUME Inv, Memory, Inv', NEW h \in Handlers, InsertReservation(h)
    PROVE  Memory'
<1>1. /\ pc[h] = "insert" /\ UNCHANGED <<users, sessions>> /\ req[h].op = "reserve"
      /\ TypeOK /\ loc[h] \in Locals /\ Remembers(h)
  BY DEF InsertReservation, Inv, TypeOK, Locals, Memory, HandlerInv, LabelFits
<1>2. /\ reservations'[h].session = loc[h].session /\ reservations'[h].user = loc[h].owner
      /\ \A g \in Handlers \ {h} : reservations'[g] = reservations[g]
  BY <1>1 DEF InsertReservation, TypeOK
<1>3. PICK l : l = [loc[h] EXCEPT !.code = "OK", !.token = NoToken]
  OBVIOUS
<1>4. Continue(h, "respond", l) /\ l.token = NoToken /\ l.session = loc[h].session
  BY <1>1, <1>3 DEF InsertReservation, Answer, Locals
<1>5. /\ now' = now /\ before' = before /\ jar' = jar /\ pc'[h] = "respond"
      /\ \A g \in Handlers \ {h} : Untouched(g)
  <2>1. now' = now /\ before' = before /\ jar' = jar
    BY <1>4 DEF Continue
  <2> QED
    BY <1>1, <1>2, <1>4, <2>1, ContinueEffect DEF Untouched
<1>6. Lasts
  BY <1>1, <1>5, SessionsLast
<1>7. l.session # NoToken => Live(l.session)'
  BY <1>1, <1>4, <1>6, LiveLasts DEF Remembers
<1>8. \A o \in before[h] : LoggedIn(o) =>
         (loc[h].session = loc[o].token => reservations'[h].user # NoUser)
  BY <1>1, <1>2 DEF Remembers, Knows
<1>9. Remembers(h)'
  BY <1>1, <1>2, <1>4, <1>6, <1>7, <1>8, StatementRemembers
<1>10. \A b \in Browsers : CookieFits(b)'
  BY <1>5, <1>6, CookiesLast
<1> QED
  BY <1>1, <1>5, <1>6, <1>9, <1>10, MemoryStep

\* Looking at a reservation changes nothing.
LEMMA ReadMemory ==
    ASSUME Inv, Memory, Inv', NEW h \in Handlers, ReadReservation(h)
    PROVE  Memory'
<1>1. PICK code : Answer(h, loc[h], code, NoToken)
  BY DEF ReadReservation
<1>2. pc[h] = "read" /\ UNCHANGED <<sessions, reservations>> /\ req[h].op = "view"
  BY DEF ReadReservation, Inv, HandlerInv, LabelFits, db
<1> QED
  BY <1>1, <1>2, PlainAnswerMemory

\* Time passes, or nothing happens.
LEMMA QuietMemory ==
    ASSUME Inv, Memory, Inv', Tick \/ UNCHANGED vars
    PROVE  Memory'
<1>1. UNCHANGED <<users, sessions, reservations, jar, pc, req, cookie, before, loc, resp>>
  BY DEF Tick, vars, db
<1>2. now \in Nat /\ now' \in Nat /\ now' >= now /\ TTL \in Nat
      /\ \A t \in Handlers : sessions[t].expires \in Nat
  BY SessionAssumption DEF Tick, vars, Inv, TypeOK
<1>3. \A g \in Handlers : Untouched(g) /\ before'[g] = before[g]
  BY <1>1 DEF Untouched
<1>4. Lasts
  BY <1>1, <1>2, <1>3 DEF Lasts
<1>5. \A g \in Handlers : Remembers(g)'
  BY <1>3, <1>4, OthersRemember
<1>6. \A b \in Browsers : CookieFits(b)'
  BY <1>1, <1>4, CookiesLast
<1>7. ASSUME NEW t \in Handlers PROVE SessionMade(t)'
  <2>1. SessionMade(t)
    BY DEF Memory
  <2> QED
    BY <1>1, <1>2, <2>1 DEF SessionMade
<1> QED
  BY <1>5, <1>6, <1>7 DEF Memory

\* Nobody has a session yet.
LEMMA InitMemory == Init => Memory
<1> SUFFICES ASSUME Init PROVE Memory
  OBVIOUS
<1>1. \A t \in Handlers : SessionMade(t)
  BY DEF Init, SessionMade, NoSession
<1>2. \A h \in Handlers : Remembers(h)
  BY DEF Init, Remembers, LoggedIn, NoLocals, NoRequest
<1>3. \A b \in Browsers : CookieFits(b)
  BY DEF Init, CookieFits, NoCookie
<1> QED
  BY <1>1, <1>2, <1>3 DEF Memory

\* Every step keeps the memory.
LEMMA NextMemory == Inv /\ Memory /\ [Next]_vars => Memory'
<1> SUFFICES ASSUME Inv, Memory, [Next]_vars PROVE Memory'
  OBVIOUS
<1>1. Inv'
  BY InvStep
<1>2. ASSUME NEW h \in Handlers, BeginRequest(h) \/ Step(h) \/ Lost(h) \/ DBError(h)
      PROVE  Memory'
  BY <1>1, <1>2, BeginMemory, RespondMemory, DBErrorMemory, RegisterMemory, CredentialsMemory,
     AttachMemory, CreateMemory, LookupMemory, TouchMemory, InsertMemory, ReadMemory DEF Step
<1>3. CASE Tick \/ UNCHANGED vars
  BY <1>1, <1>3, QuietMemory
<1> QED
  BY <1>2, <1>3 DEF Next, AllQuiet

--------------------------------------------------------------------------------
(* Theorems *)

\* The inductive invariant holds in every reachable state.
THEOREM SessionInvariant == Spec => []Inv
<1> QED
  BY InvInit, InvStep, PTL DEF Spec

\* A session has a user, and a reservation carries one, only after a login with
\* that user's password on that session.
THEOREM LinksHaveCredentials == Spec => []CredentialsBehindLink
<1>1. Inv => CredentialsBehindLink
  BY DEF Inv, SessionsLinked, ReservationsLinked, CredentialsBehindLink
<1> QED
  BY <1>1, SessionInvariant, PTL

\* A reservation is shown only to its session or to a session of its user.
THEOREM AccessIsJustified == Spec => []AccessJustified
<1>1. Inv => AccessJustified
  <2> SUFFICES ASSUME Inv, NEW h \in Handlers, req[h].op = "view", resp[h] = "OK"
               PROVE  Justified(h)
    BY DEF AccessJustified, Justified
  <2>1. HandlerInv(h)
    BY DEF Inv
  <2>2. loc[h].code = "OK"
    BY <2>1 DEF HandlerInv, CodeFits
  <2> QED
    BY <2>1, <2>2 DEF HandlerInv, ViewFits
<1> QED
  BY <1>1, SessionInvariant, PTL

\* The session that made a reservation is never told that there is none.
THEOREM OwnersKeepAccess == Spec => []OwnerKeepsAccess
<1>1. Inv => OwnerKeepsAccess
  <2> SUFFICES ASSUME Inv, NEW h \in Handlers, req[h].op = "view", resp[h] = "NOT_FOUND"
               PROVE  reservations[req[h].id].session # cookie[h]
    BY DEF OwnerKeepsAccess
  <2>1. HandlerInv(h)
    BY DEF Inv
  <2>2. loc[h].code = "NOT_FOUND"
    BY <2>1 DEF HandlerInv, CodeFits
  <2> QED
    BY <2>1, <2>2 DEF HandlerInv, ViewFits
<1> QED
  BY <1>1, SessionInvariant, PTL

\* Racing registrations leave one user per email and one success.
THEOREM EmailsAreUnique == Spec => []OneUserPerEmail
<1>1. Inv => OneUserPerEmail
  <2> SUFFICES ASSUME Inv PROVE OneUserPerEmail
    OBVIOUS
  <2>1. \A u, v \in users : u.email = v.email => u = v
    BY DEF Inv, EmailsUnique
  <2>2. ASSUME NEW g \in Handlers, NEW h \in Handlers,
               req[g].op = "register", resp[g] = "OK",
               req[h].op = "register", resp[h] = "OK",
               Normal[req[g].email] = Normal[req[h].email]
        PROVE  g = h
    <3>1. HandlerInv(g) /\ HandlerInv(h)
      BY DEF Inv
    <3>2. loc[g].code = "OK" /\ loc[h].code = "OK"
      BY <2>2, <3>1 DEF HandlerInv, CodeFits
    <3>3. PICK u \in users : u.id = g /\ u.email = Normal[req[g].email]
      BY <2>2, <3>1, <3>2 DEF HandlerInv, RegisterFits
    <3>4. PICK v \in users : v.id = h /\ v.email = Normal[req[h].email]
      BY <2>2, <3>1, <3>2 DEF HandlerInv, RegisterFits
    <3> QED
      BY <2>1, <2>2, <3>3, <3>4
  <2> QED
    BY <2>1, <2>2 DEF OneUserPerEmail
<1> QED
  BY <1>1, SessionInvariant, PTL

\* What is remembered of sessions, logins and cookies holds in every reachable
\* state.
THEOREM MemoryInvariant == Spec => []Memory
<1>1. Init => Inv /\ Memory
  BY InvInit, InitMemory
<1>2. Inv /\ Memory /\ [Next]_vars => (Inv /\ Memory)'
  BY InvStep, NextMemory
<1> QED
  BY <1>1, <1>2, PTL DEF Spec

\* A reservation asked for after a login was answered, under its session, carries
\* a user: no touch and no other login undoes AttachUser, and TouchSession reads
\* the row again.
THEOREM LoginsAreRemembered == Spec => []LoginIsRemembered
<1>1. Inv /\ Memory => LoginIsRemembered
  <2> SUFFICES ASSUME Inv, Memory, NEW h \in Handlers, NEW o \in Handlers,
                      reservations[h].exists, o \in before[h],
                      req[o].op = "login", resp[o] = "OK",
                      loc[o].token = reservations[h].session
               PROVE  reservations[h].user # NoUser
    BY DEF LoginIsRemembered
  <2>1. loc[o].code = "OK"
    BY DEF Inv, HandlerInv, CodeFits
  <2> QED
    BY <2>1 DEF Memory, Remembers, Knows, LoggedIn
<1> QED
  BY <1>1, SessionInvariant, MemoryInvariant, PTL

\* Whatever SESSION_TTL is, and although the cookie's Max-Age is cut to whole
\* seconds, no browser drops the cookie of a session a second or more before the
\* session is over.
THEOREM CookiesLastToTheSecond == Spec => []CookieLastsToTheSecond
<1>1. Memory => CookieLastsToTheSecond
  BY DEF Memory, CookieFits, CookieLastsToTheSecond, Live
<1> QED
  BY <1>1, MemoryInvariant, PTL

================================================================================
