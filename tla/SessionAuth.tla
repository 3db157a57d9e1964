------------------------------ MODULE SessionAuth ------------------------------
(***************************************************************************)
(* Visitor sessions, registration and login, and what reservations take    *)
(* from them: the session and the user a request runs under are read once, *)
(* at its start, and used later.                                           *)
(*                                                                         *)
(* Browsers keep one cookie each and send requests that are served at the  *)
(* same time.  Every statement is a transaction of its own, so each one is *)
(* a step.  A token stands for itself, its hash and its session's row; the *)
(* token, the user or the reservation a request creates is named after the *)
(* handler that serves it.                                                 *)
(***************************************************************************)
EXTENDS Integers, FiniteSets

CONSTANTS
    Handlers,     \* request goroutines
    Browsers,
    Requests,     \* Requests[h]: what handler h may be asked
    Emails,       \* emails as they are typed
    Normal,       \* Normal[e]: lower case, without spaces around
    Blank,        \* the email that is empty then
    Passwords,
    Unusable,     \* passwords that are too short or that bcrypt refuses
    Registered,   \* the users there are
    NoUser, NoToken,
    TTL, Second,  \* SESSION_TTL and a second, in ticks of the clock
    MaxTime,
    Faulty        \* handlers whose database call or client may fail

Ops == {"none", "anonymous", "me", "register", "login", "logout", "reserve", "view"}

Request ==
    [op : Ops, browser : Browsers, email : Emails, password : Passwords, id : Handlers]

UserIds == Handlers \cup {u.id : u \in Registered}

ASSUME SessionAssumption ==
    /\ Handlers # {} /\ Browsers # {} /\ Passwords # {}
    /\ Requests \in [Handlers -> SUBSET Request]
    /\ Normal \in [Emails -> Emails] /\ Blank \in Emails
    /\ Unusable \subseteq Passwords
    /\ Registered \subseteq [id : UserIds, email : Emails, password : Passwords]
    /\ \A u, v \in Registered : u.email = v.email \/ u.id = v.id => u = v
    /\ \A u \in Registered : u.id \notin Handlers
    /\ NoUser \notin UserIds /\ NoToken \notin Handlers
    /\ TTL \in Nat /\ Second \in Nat \ {0} /\ MaxTime \in Nat
    /\ TTL >= Second  \* else Max-Age is left out and the cookie has no end
    /\ Faulty \subseteq Handlers

VARIABLES
    users,         \* the rows of users
    sessions,      \* sessions[t]: the row of visitor_sessions with token t
    reservations,  \* reservations[r]: owner columns of the header made by r
    jar,           \* jar[b]: the cookie browser b keeps, and until when
    now,
    pc, req,
    cookie,        \* cookie[h]: the token that came with the request of h
    before,        \* before[h]: the requests answered before that of h was sent
    loc,           \* loc[h]: the local variables of h
    resp           \* resp[h]: the code h answered

db == <<users, sessions, reservations>>
vars == <<users, sessions, reservations, jar, now, pc, req, cookie, before, loc, resp>>

NoSession == [exists |-> FALSE, user |-> NoUser, expires |-> 0, seen |-> 0]
NoReservation == [exists |-> FALSE, session |-> NoToken, user |-> NoUser]
NoCookie == [token |-> NoToken, until |-> 0]
NoLocals == [user |-> NoUser, session |-> NoToken, owner |-> NoUser,
             code |-> "none", token |-> NoToken]

--------------------------------------------------------------------------------
(* Requests come and go *)

FirstStatement(op) ==
    CASE op = "anonymous" -> "create"
      [] op = "register" -> "register"
      [] op = "login" -> "credentials"
      [] op = "logout" -> "respond"
      [] OTHER -> "lookup"

\* A browser sends the cookie it has, if that has not outlived its Max-Age.  A
\* client can ask only for reservations that were made.
BeginRequest(h) ==
    /\ pc[h] = "idle"
    /\ \E rq \in Requests[h] :
          /\ rq.op \in Ops \ {"none"}
          /\ rq.op = "view" => reservations[rq.id].exists
          /\ req' = [req EXCEPT ![h] = rq]
          /\ cookie' = [cookie EXCEPT ![h] =
                IF now < jar[rq.browser].until THEN jar[rq.browser].token ELSE NoToken]
          /\ before' = [before EXCEPT ![h] = {o \in Handlers : pc[o] = "done"}]
          /\ pc' = [pc EXCEPT ![h] = FirstStatement(rq.op)]
          /\ loc' = [loc EXCEPT ![h].code = IF rq.op = "logout" THEN "OK" ELSE "none"]
    /\ UNCHANGED <<db, jar, now, resp>>

Continue(h, label, l) ==
    /\ pc' = [pc EXCEPT ![h] = label]
    /\ loc' = [loc EXCEPT ![h] = l]
    /\ UNCHANGED <<jar, now, req, cookie, before, resp>>

\* The handler writes its answer, with a cookie or without.
Answer(h, l, code, token) ==
    Continue(h, "respond", [l EXCEPT !.code = code, !.token = token])

\* Variant: a second is lost in the conversion.
ShortMaxAge == (TTL \div Second) * Second - Second

\* int(ttl.Seconds())
MaxAge == (TTL \div Second) * Second

\* The answer arrives; BuildCookie and ClearCookie change what the browser keeps.
Respond(h) ==
    LET b == req[h].browser
        t == loc[h].token
    IN  /\ pc[h] = "respond"
        /\ pc' = [pc EXCEPT ![h] = "done"]
        /\ resp' = [resp EXCEPT ![h] = loc[h].code]
        /\ jar' = CASE req[h].op = "logout" -> [jar EXCEPT ![b] = NoCookie]
                    [] req[h].op # "logout" /\ t # NoToken ->
                          [jar EXCEPT ![b] = [token |-> t, until |-> now + MaxAge]]
                    [] OTHER -> jar
        /\ UNCHANGED <<db, now, req, cookie, before, loc>>

\* The client is gone before the answer arrives.
Lost(h) ==
    /\ h \in Faulty
    /\ pc[h] = "respond"
    /\ pc' = [pc EXCEPT ![h] = "done"]
    /\ resp' = [resp EXCEPT ![h] = "LOST"]
    /\ UNCHANGED <<db, jar, now, req, cookie, before, loc>>

\* Variant: the cookie of the session is set before the error is looked at.
DBErrorWithCookie(h) ==
    /\ h \in Faulty
    /\ pc[h] \notin {"idle", "done"}
    /\ pc[h] = "lookup" => cookie[h] # NoToken
    /\ pc[h] = "respond" => req[h].op # "logout" /\ loc[h].code = "OK"
    /\ Answer(h, loc[h], IF req[h].op = "register" THEN "INVALID" ELSE "FAILED", loc[h].session)
    /\ UNCHANGED db

\* A call to the database fails; registration answers every error but one as a
\* bad request.  The call may be the one before: its statement was committed and
\* its acknowledgement lost, so that a request about to answer OK fails as well.
DBError(h) ==
    /\ h \in Faulty
    /\ pc[h] \notin {"idle", "done"}
    /\ pc[h] = "lookup" => cookie[h] # NoToken
    /\ pc[h] = "respond" => req[h].op # "logout" /\ loc[h].code = "OK"
    /\ Answer(h, loc[h], IF req[h].op = "register" THEN "INVALID" ELSE "FAILED", NoToken)
    /\ UNCHANGED db

--------------------------------------------------------------------------------
(* auth *)

IsFree(email) == \A u \in users : u.email # email

\* Variant: there is no unique index on email.
RegisterUnchecked(h) ==
    LET email == Normal[req[h].email]
        password == req[h].password
        new == [id |-> h, email |-> email, password |-> password]
    IN  /\ pc[h] = "register"
        /\ email # Blank /\ password \notin Unusable
        /\ users' = users \cup {new}
        /\ Answer(h, loc[h], "OK", NoToken)
        /\ UNCHANGED <<sessions, reservations>>

\* The request is checked, the password is hashed and one INSERT decides.
Register(h) ==
    LET email == Normal[req[h].email]
        password == req[h].password
        new == [id |-> h, email |-> email, password |-> password]
    IN  /\ pc[h] = "register"
        /\ \/ /\ email = Blank \/ password \in Unusable
              /\ Answer(h, loc[h], "INVALID", NoToken)
              /\ UNCHANGED users
           \/ /\ email # Blank /\ password \notin Unusable /\ IsFree(email)
              /\ users' = users \cup {new}
              /\ Answer(h, loc[h], "OK", NoToken)
           \/ /\ email # Blank /\ password \notin Unusable /\ ~IsFree(email)
              /\ Answer(h, loc[h], "EMAIL_TAKEN", NoToken)
              /\ UNCHANGED users
        /\ UNCHANGED <<sessions, reservations>>

\* Variant: the password is not compared.
MatchesEmail(u, rq) == u.email = Normal[rq.email]

Matches(u, rq) == u.email = Normal[rq.email] /\ u.password = rq.password

\* GetUserByEmail and the comparison of the hash.
Credentials(h) ==
    /\ pc[h] = "credentials"
    /\ \/ \E u \in users :
             /\ Matches(u, req[h])
             /\ Continue(h, "lookup", [loc[h] EXCEPT !.user = u.id])
       \/ /\ \A u \in users : ~Matches(u, req[h])
          /\ Answer(h, loc[h], "INVALID_CREDENTIALS", NoToken)
    /\ UNCHANGED db

\* The login is over; its cookie is the one that came or the one just made.
AttachUser(h) ==
    /\ pc[h] = "attach"
    /\ sessions' = [sessions EXCEPT ![loc[h].session].user = loc[h].user]
    /\ Answer(h, loc[h], "OK", loc[h].session)
    /\ UNCHANGED <<users, reservations>>

--------------------------------------------------------------------------------
(* sessions *)

\* Variant: a login goes on with the session it did not have.
CreateUnused(h) ==
    /\ pc[h] = "create"
    /\ sessions' = [sessions EXCEPT ![h] =
          [exists |-> TRUE, user |-> NoUser, expires |-> now + TTL, seen |-> now]]
    /\ IF req[h].op = "login"
       THEN Continue(h, "attach", loc[h])
       ELSE Answer(h, [loc[h] EXCEPT !.session = h], "OK", h)
    /\ UNCHANGED <<users, reservations>>

\* An anonymous session is the answer; a login goes on to attach its user.
CreateAnonymousSession(h) ==
    LET l == [loc[h] EXCEPT !.session = h]
    IN  /\ pc[h] = "create"
        /\ sessions' = [sessions EXCEPT ![h] =
              [exists |-> TRUE, user |-> NoUser, expires |-> now + TTL, seen |-> now]]
        /\ IF req[h].op = "login" THEN Continue(h, "attach", l) ELSE Answer(h, l, "OK", h)
        /\ UNCHANGED <<users, reservations>>

\* The cookie names a session that is not over.
HasSession(h) ==
    /\ cookie[h] # NoToken
    /\ sessions[cookie[h]].exists /\ ~(sessions[cookie[h]].expires < now)

\* GetCurrentSession, first statement; a login that finds none makes one.
LookupSession(h) ==
    /\ pc[h] = "lookup"
    /\ \/ HasSession(h) /\ Continue(h, "touch", [loc[h] EXCEPT !.owner = sessions[cookie[h]].user])
       \/ ~HasSession(h) /\ req[h].op = "login" /\ Continue(h, "create", loc[h])
       \/ /\ ~HasSession(h) /\ req[h].op # "login"
          /\ Answer(h, loc[h], "SESSION_REQUIRED", NoToken)
    /\ UNCHANGED db

\* Where a request goes once it has its session.
WithSession(h, l) ==
    CASE req[h].op = "login" -> Continue(h, "attach", l)
      [] req[h].op = "reserve" -> Continue(h, "insert", l)
      [] req[h].op = "view" -> Continue(h, "read", l)
      [] OTHER -> Answer(h, l, "OK", NoToken)

\* Variant: the row is saved as it was read.
TouchSavesRow(h) ==
    LET t == cookie[h]
    IN  /\ pc[h] = "touch"
        /\ sessions' = [sessions EXCEPT ![t].seen = now, ![t].user = loc[h].owner]
        /\ WithSession(h, [loc[h] EXCEPT !.session = t])
        /\ UNCHANGED <<users, reservations>>

\* GetCurrentSession, second statement: it updates one column and returns the
\* row as it is then.
TouchSession(h) ==
    LET t == cookie[h]
    IN  /\ pc[h] = "touch"
        /\ sessions' = [sessions EXCEPT ![t].seen = now]
        /\ WithSession(h, [loc[h] EXCEPT !.session = t, !.owner = sessions[t].user])
        /\ UNCHANGED <<users, reservations>>

--------------------------------------------------------------------------------
(* Reservations: who they belong to *)

\* ReserveQuantity and ReserveSeats, down to the owner columns of the header.
InsertReservation(h) ==
    /\ pc[h] = "insert"
    /\ reservations' = [reservations EXCEPT ![h] =
          [exists |-> TRUE, session |-> loc[h].session, user |-> loc[h].owner]]
    /\ Answer(h, loc[h], "OK", NoToken)
    /\ UNCHANGED <<users, sessions>>

\* Variant: two NULL users are taken for the same user.
CanAccessWithoutUser(header, session, owner) ==
    header.session = session \/ header.user = owner

\* Variant: a header with a user belongs to the user alone.
CanAccessAsUser(header, session, owner) ==
    IF header.user # NoUser THEN header.user = owner ELSE header.session = session

CanAccessReservation(header, session, owner) ==
    \/ header.session = session
    \/ header.user # NoUser /\ owner # NoUser /\ header.user = owner

\* GetReservation, and the check the transitions make under the row lock.
ReadReservation(h) ==
    /\ pc[h] = "read"
    /\ Answer(h, loc[h],
              IF CanAccessReservation(reservations[req[h].id], loc[h].session, loc[h].owner)
              THEN "OK" ELSE "NOT_FOUND", NoToken)
    /\ UNCHANGED db

Tick ==
    /\ now < MaxTime
    /\ now' = now + 1
    /\ UNCHANGED <<db, jar, pc, req, cookie, before, loc, resp>>

--------------------------------------------------------------------------------
NoRequest ==
    [op |-> "none", browser |-> CHOOSE b \in Browsers : TRUE,
     email |-> Blank, password |-> CHOOSE w \in Passwords : TRUE,
     id |-> CHOOSE r \in Handlers : TRUE]

Init ==
    /\ users = Registered
    /\ sessions = [t \in Handlers |-> NoSession]
    /\ reservations = [r \in Handlers |-> NoReservation]
    /\ jar = [b \in Browsers |-> NoCookie]
    /\ now = 0
    /\ pc = [h \in Handlers |-> "idle"]
    /\ req = [h \in Handlers |-> NoRequest]
    /\ cookie = [h \in Handlers |-> NoToken]
    /\ before = [h \in Handlers |-> {}]
    /\ loc = [h \in Handlers |-> NoLocals]
    /\ resp = [h \in Handlers |-> "none"]

Step(h) ==
    \/ Register(h) \/ Credentials(h) \/ AttachUser(h)
    \/ CreateAnonymousSession(h) \/ LookupSession(h) \/ TouchSession(h)
    \/ InsertReservation(h) \/ ReadReservation(h)
    \/ Respond(h)

\* No request is being served and the clock has reached its bound; a request
\* that cannot be sent yet is not sent any more.
AllQuiet ==
    /\ \A h \in Handlers : pc[h] \in {"idle", "done"}
    /\ now = MaxTime
    /\ UNCHANGED vars

Next ==
    \/ \E h \in Handlers : BeginRequest(h) \/ Step(h) \/ Lost(h) \/ DBError(h)
    \/ Tick
    \/ AllQuiet

Spec == Init /\ [][Next]_vars

--------------------------------------------------------------------------------
(* Properties *)

Codes == {"none", "OK", "LOST", "FAILED", "INVALID", "EMAIL_TAKEN",
          "INVALID_CREDENTIALS", "SESSION_REQUIRED", "NOT_FOUND"}

Labels == {"idle", "done", "respond", "register", "credentials", "attach", "create",
           "lookup", "touch", "insert", "read"}

OptUser == UserIds \cup {NoUser}
OptToken == Handlers \cup {NoToken}

\* The variables have their types, and a statement that needs the session of
\* its request has one.
TypeOK ==
    /\ users \subseteq [id : UserIds, email : Emails, password : Passwords]
    /\ sessions \in [Handlers -> [exists : BOOLEAN, user : OptUser, expires : Nat, seen : Nat]]
    /\ reservations \in [Handlers -> [exists : BOOLEAN, session : OptToken, user : OptUser]]
    /\ jar \in [Browsers -> [token : OptToken, until : Nat]]
    /\ now \in Nat
    /\ pc \in [Handlers -> Labels]
    /\ req \in [Handlers -> Request]
    /\ cookie \in [Handlers -> OptToken]
    /\ before \in [Handlers -> SUBSET Handlers]
    /\ loc \in [Handlers -> [user : OptUser, session : OptToken, owner : OptUser,
                             code : Codes, token : OptToken]]
    /\ resp \in [Handlers -> Codes]
    /\ \A h \in Handlers :
          /\ pc[h] = "touch" => cookie[h] # NoToken
          /\ pc[h] \in {"attach", "insert", "read"} => loc[h].session # NoToken

\* Registrations that race for an email, spelled alike or not, leave one user,
\* and only one of them is answered 201.
OneUserPerEmail ==
    /\ \A u, v \in users : u.email = v.email => u = v
    /\ \A g, h \in Handlers :
          /\ req[g].op = "register" /\ resp[g] = "OK"
          /\ req[h].op = "register" /\ resp[h] = "OK"
          /\ Normal[req[g].email] = Normal[req[h].email]
          => g = h

\* Request o was a login that gave u's email and password and carried session
\* t's cookie or made t.
Links(o, t, u) ==
    /\ req[o].op = "login"
    /\ cookie[o] = t \/ o = t
    /\ \E x \in users : x.id = u /\ x.email = Normal[req[o].email] /\ x.password = req[o].password

Linked(t, u) == \E o \in Handlers : Links(o, t, u)

\* A session belongs to a user, and a reservation made under it carries that
\* user, only after a login with the user's password on that very session.
CredentialsBehindLink ==
    /\ \A t \in Handlers : sessions[t].user # NoUser => Linked(t, sessions[t].user)
    /\ \A r \in Handlers :
          reservations[r].user # NoUser => Linked(reservations[r].session, reservations[r].user)

\* A reservation is shown to the session that made it, or to one that logged in
\* as the user who had logged in when it was made: never because both are
\* anonymous, whatever logins happen while it is read.
AccessJustified ==
    \A h \in Handlers :
        req[h].op = "view" /\ resp[h] = "OK" =>
            LET header == reservations[req[h].id]
            IN  \/ header.session = cookie[h]
                \/ \E u \in UserIds : Linked(header.session, u) /\ Linked(cookie[h], u)

\* The session that made a reservation keeps seeing it as long as it lives, also
\* after somebody logs in on it, whether before or after the reservation.
OwnerKeepsAccess ==
    \A h \in Handlers :
        req[h].op = "view" /\ resp[h] = "NOT_FOUND" =>
            reservations[req[h].id].session # cookie[h]

\* A login that was answered is not forgotten: a reservation that is asked for
\* later under the same session carries a user, although touches and further
\* logins write the same row in between.
LoginIsRemembered ==
    \A h \in Handlers, o \in Handlers :
        /\ req[h].op = "reserve" /\ reservations[h].exists
        /\ o \in before[h] /\ req[o].op = "login" /\ resp[o] = "OK"
        /\ loc[o].token = reservations[h].session
        => reservations[h].user # NoUser

\* A login that fails after it made its session, or is not heard, leaves that
\* session to nobody: no browser keeps its token, no request carries it, and no
\* reservation is made under it, although the row stays, with or without a user.
OrphanIsUnreachable ==
    \A h \in Handlers :
        req[h].op = "login" /\ resp[h] \in {"FAILED", "LOST"} =>
            /\ \A b \in Browsers : jar[b].token # h
            /\ \A g \in Handlers : cookie[g] # h /\ reservations[g].session # h

\* A browser drops the cookie of a session less than a second before the session
\* is over: Max-Age is cut to whole seconds, and an answer, whenever it arrives,
\* starts it anew.
CookieLastsToTheSecond ==
    \A b \in Browsers :
        jar[b].token # NoToken =>
            /\ sessions[jar[b].token].exists
            /\ jar[b].until + Second > sessions[jar[b].token].expires

================================================================================
