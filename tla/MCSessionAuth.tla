----------------------------- MODULE MCSessionAuth -----------------------------
(* Small instances of SessionAuth. *)
EXTENDS SessionAuth, TLC

MCEmails == {"A", "a", "b", "C", "c", ""}
MCNormal == [e \in MCEmails |-> CASE e = "A" -> "a" [] e = "C" -> "c" [] OTHER -> e]
MCPasswords == {"p", "q", "short"}
TwoUsers == {[id |-> "u1", email |-> "a", password |-> "p"],
             [id |-> "u2", email |-> "b", password |-> "q"]}

Plain(op, b) == [op |-> op, browser |-> b, email |-> "", password |-> "p", id |-> "h1"]
WithEmail(op, b, e, w) == [Plain(op, b) EXCEPT !.email = e, !.password = w]
View(b, r) == [Plain("view", b) EXCEPT !.id = r]

\* Logins on one or two browsers before, between and after a reservation and a
\* look at it.
OwnerRequests ==
    "h1" :> {Plain("anonymous", "b1"), WithEmail("login", "b1", "A", "p")}
    @@ "h2" :> {WithEmail("login", "b1", "a", "p"), WithEmail("login", "b1", "b", "q"),
                WithEmail("login", "b2", "a", "p"), WithEmail("login", "b2", "a", "q"),
                Plain("anonymous", "b2")}
    @@ "h3" :> {Plain("reserve", "b1")}
    @@ "h4" :> {View("b1", "h3"), View("b2", "h3")}

\* Touches, a login and a logout on one browser.
TouchRequests ==
    "h1" :> {Plain("anonymous", "b1")}
    @@ "h2" :> {Plain("me", "b1"), Plain("logout", "b1")}
    @@ "h3" :> {WithEmail("login", "b1", "b", "q")}
    @@ "h4" :> {Plain("reserve", "b1")}

\* Registrations that race for a new email, and a login of whoever won.
RegisterRequests ==
    "h1" :> {WithEmail("login", "b1", "c", "p"), WithEmail("login", "b1", "c", "q")}
    @@ "h2" :> {WithEmail("register", "b2", "c", "q"), WithEmail("register", "b2", "b", "p"),
                WithEmail("register", "b2", "c", "short")}
    @@ "h3" :> {WithEmail("register", "b1", "C", "p"), WithEmail("register", "b1", "", "p")}
    @@ "h4" :> {}

AllRequests ==
    [h \in Handlers |-> OwnerRequests[h] \cup TouchRequests[h] \cup RegisterRequests[h]]

\* The workloads are explored side by side and not mixed; in that of the owners
\* nothing fails.
Workload(requests) == \A h \in Handlers : pc[h] = "idle" \/ req[h] \in requests[h]
NoFault == \A h \in Handlers : loc[h].code # "FAILED" /\ resp[h] # "LOST"

OneWorkload ==
    \/ Workload(OwnerRequests) /\ NoFault
    \/ Workload(TouchRequests)
    \/ Workload(RegisterRequests)

================================================================================
