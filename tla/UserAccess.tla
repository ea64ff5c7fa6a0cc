------------------------------- MODULE UserAccess -------------------------------
(***************************************************************************)
(* Roles and cookie sessions of the portal: signing in, the validation of  *)
(* the cookie by OnValidatePrincipal, its sliding renewal by the cookie    *)
(* handler, and changes of roles.  A cookie is accepted as it is for Fresh *)
(* units of time after it was issued, then the role in it is compared with *)
(* the database.  Requests of one browser overlap, and the role may change *)
(* while a request waits for the database.                                 *)
(***************************************************************************)
EXTENDS Integers

CONSTANTS
  Users, Sessions,  \* accounts, and the browsers they sign in with
  Requests,         \* requests that are served at the same time
  Roles,            \* Demo, Viewer, Technician, Manager, Administrator
  NoRole,           \* the role of an account that is disabled or has none
  NoCookie,
  Fresh,            \* how long a cookie is accepted without the database
  Lifetime,         \* ExpireTimeSpan
  Latency,          \* bound on the time from a role query to the new cookie
  MaxTime           \* bound on time

Cookies == [user: Users, role: Roles, issued: Int, expires: Int, since: Int]

ASSUME AccessAssumption ==
  /\ NoRole \notin Roles
  /\ Fresh \in Nat \ {0} /\ Lifetime \in Nat /\ Fresh < Lifetime
  /\ Latency \in Nat /\ MaxTime \in Nat
  /\ NoCookie \notin Cookies

VARIABLES
  now,
  role,     \* user -> active role in nexusops_user_roles
  changed,  \* user -> when it last changed
  cookie,   \* session -> the cookie its browser has
  request   \* request -> where it is, its session, its cookie, and whether the
            \*            answer brings this cookie to the browser

vars == <<now, role, changed, cookie, request>>

\* issued and expires are IssuedUtc and ExpiresUtc, but for a cookie whose role is
\* on its way: issued is then the time of the query.  since, when the user signed
\* in, is for the properties.
Steps == {"idle", "login", "validate", "renew", "reject", "serving", "answer"}
RequestRecords ==
  [pc: Steps, session: Sessions, cookie: Cookies \cup {NoCookie}, renews: BOOLEAN]

TypeOK ==
  /\ now \in Int
  /\ role \in [Users -> Roles \cup {NoRole}]
  /\ changed \in [Users -> Int]
  /\ cookie \in [Sessions -> Cookies \cup {NoCookie}]
  /\ request \in [Requests -> RequestRecords]

Init ==
  /\ now = 0
  /\ role \in [Users -> Roles \cup {NoRole}]
  /\ changed = [u \in Users |-> 0]
  /\ cookie = [s \in Sessions |-> NoCookie]
  /\ request \in [Requests -> [pc: {"idle"}, session: Sessions, cookie: {NoCookie}, renews: {FALSE}]]

-------------------------------------------------------------------------------
Carried(q) == request[q].cookie
Set(q, pc, s, c, renews) ==
  request' = [request EXCEPT ![q] = [pc |-> pc, session |-> s, cookie |-> c, renews |-> renews]]
Goto(q, pc) == Set(q, pc, request[q].session, Carried(q), FALSE)
Done(q) == Set(q, "idle", request[q].session, NoCookie, FALSE)

\* The password is right; FindRoleAsync gives the role for the cookie.
SignIn(q, s, u) ==
  /\ request[q].pc = "idle"
  /\ role[u] # NoRole
  /\ Set(q, "login", s, [user |-> u, role |-> role[u], issued |-> now, expires |-> now,
                         since |-> now], FALSE)
  /\ UNCHANGED <<now, role, changed, cookie>>

\* HttpContext.SignInAsync makes the cookie of the answer, for the whole lifetime.
Admit(q) ==
  /\ request[q].pc = "login"
  /\ Set(q, "answer", request[q].session,
         [Carried(q) EXCEPT !.issued = now, !.expires = now + Lifetime, !.since = now], TRUE)
  /\ UNCHANGED <<now, role, changed, cookie>>

\* The cookie handler renews a cookie that is past half of its time, before
\* OnValidatePrincipal and whatever that makes of it, for as long as it was issued.
Slides(c) == c.expires - now < now - c.issued
Slid(c) == [c EXCEPT !.issued = now, !.expires = now + (c.expires - c.issued)]

\* A request with a cookie that has not expired: it is accepted, and maybe
\* renewed, as it is, or it is to be validated.
Send(q, s) ==
  LET c == cookie[s] IN
  /\ request[q].pc = "idle" /\ c # NoCookie
  /\ now <= c.expires
  /\ IF now - c.issued >= Fresh THEN Set(q, "validate", s, c, FALSE)
     ELSE Set(q, "serving", s, IF Slides(c) THEN Slid(c) ELSE c, Slides(c))
  /\ UNCHANGED <<now, role, changed, cookie>>

\* OnValidatePrincipal compares the role with the database ...
Validate(q) ==
  LET c == Carried(q) IN
  /\ request[q].pc = "validate"
  /\ IF role[c.user] = c.role
     THEN Set(q, "renew", request[q].session, [c EXCEPT !.issued = now], FALSE)
     ELSE Goto(q, "reject")
  /\ UNCHANGED <<now, role, changed, cookie>>

\* ... and sets IssuedUtc, so that the cookie is renewed for the time it has left.
Renew(q) ==
  /\ request[q].pc = "renew"
  /\ Set(q, "serving", request[q].session, [Carried(q) EXCEPT !.issued = now], TRUE)
  /\ UNCHANGED <<now, role, changed, cookie>>

\* The principal is rejected, and the answer takes the cookie from the browser.
Reject(q) ==
  /\ request[q].pc = "reject"
  /\ cookie' = [cookie EXCEPT ![request[q].session] = NoCookie]
  /\ Done(q)
  /\ UNCHANGED <<now, role, changed>>

\* The browser gets the answer, and the cookie if it is a new one.
Answer(q) ==
  /\ request[q].pc \in {"serving", "answer"}
  /\ cookie' = [cookie EXCEPT ![request[q].session] = IF request[q].renews THEN Carried(q) ELSE @]
  /\ Done(q)
  /\ UNCHANGED <<now, role, changed>>

\* A request ends without an answer: a query fails, or the client leaves.
Abort(q) ==
  /\ request[q].pc # "idle"
  /\ Done(q)
  /\ UNCHANGED <<now, role, changed, cookie>>

\* The user signs out, or the browser is closed.
SignOut(s) ==
  /\ cookie[s] # NoCookie
  /\ cookie' = [cookie EXCEPT ![s] = NoCookie]
  /\ UNCHANGED <<now, role, changed, request>>

\* AddAsync or UpdateAsync: a user gets a role, another one, or is disabled.
ChangeRole(u, r) ==
  /\ role[u] # r
  /\ role' = [role EXCEPT ![u] = r]
  /\ changed' = [changed EXCEPT ![u] = now]
  /\ UNCHANGED <<now, cookie, request>>

\* Time passes, but not beyond the latency of a cookie that is being issued.
Tick ==
  /\ now < MaxTime
  /\ \A q \in Requests :
       request[q].pc \in {"login", "renew"} => now < Carried(q).issued + Latency
  /\ now' = now + 1
  /\ UNCHANGED <<role, changed, cookie, request>>

Next ==
  \/ \E q \in Requests :
       \/ \E s \in Sessions : Send(q, s) \/ \E u \in Users : SignIn(q, s, u)
       \/ Admit(q) \/ Validate(q) \/ Renew(q) \/ Reject(q) \/ Answer(q) \/ Abort(q)
  \/ \E s \in Sessions : SignOut(s)
  \/ \E u \in Users, r \in Roles \cup {NoRole} : ChangeRole(u, r)
  \/ Tick

Spec == Init /\ [][Next]_vars

-------------------------------------------------------------------------------
(* Properties *)

\* The role of a cookie is the current one, or it has changed since t.
Known(c, t) == role[c.user] = c.role \/ changed[c.user] >= t

\* The lifetime after the user signed in is over, or almost.
Ending(c) == now > c.since + Lifetime - Fresh

\* Until then a cookie expires when the lifetime is over, and was issued soon after
\* its role was read; in the end it slides without that.
Recent(c) ==
  /\ c.issued <= now
  /\ \/ c.expires = c.since + Lifetime /\ Known(c, c.issued - Latency)
     \/ Ending(c)

CookiesAreKnown ==
  /\ \A s \in Sessions : cookie[s] # NoCookie => Recent(cookie[s])
  /\ \A q \in Requests :
       LET c == Carried(q) IN
       /\ request[q].pc # "idle" => c # NoCookie
       /\ request[q].pc \in {"validate", "serving", "answer"} => Recent(c)
       /\ request[q].pc \in {"login", "renew"} =>
            c.issued <= now /\ now <= c.issued + Latency /\ Known(c, c.issued)
       /\ request[q].pc = "renew" => c.expires = c.since + Lifetime \/ Ending(c)

\* The inductive invariant
IInv == TypeOK /\ CookiesAreKnown

\* What a step that serves a request has to do with the role in the cookie.
RoleIsCurrent(q) ==
  request[q].pc # "serving" /\ request'[q].pc = "serving" =>
    LET c == request'[q].cookie
    IN  role[c.user] = c.role \/ now - changed[c.user] < Fresh + Latency \/ Ending(c)

\* A request is served with a role that the user has or had until a moment ago:
\* disabled users and changed roles lose their access within five minutes and
\* the time of a query, however requests of their browsers overlap, but for the
\* last five minutes of the eight hours after the user signed in.
StaleRolesExpire == [][\A q \in Requests : RoleIsCurrent(q)]_vars
===============================================================================
