----------------------- MODULE UserAdministration_proofs -----------------------
(***************************************************************************)
(* For any accounts, browsers, overlapping requests and changes of roles:  *)
(* a cookie carries a role that was current when it was read, and when it  *)
(* is accepted that was less than Fresh + Latency ago (UserAccess); the    *)
(* users page implements the changes of roles that UserAccess permits, and *)
(* access is changed only by those who may (UserAdministration).  The      *)
(* page's invariant is proved together with that of UserAccess, whose      *)
(* lemmas apply because every step of the page is one of its steps.        *)
(***************************************************************************)
EXTENDS UserAdministration, TLAPS

USE AccessAssumption

-------------------------------------------------------------------------------
(* The cookies *)

\* The initial states satisfy the invariant.
LEMMA InitInv == Init => IInv
<1> SUFFICES ASSUME Init PROVE IInv
  OBVIOUS
<1>1. TypeOK
  <2>1. request \in [Requests -> RequestRecords]
    <3>1. ASSUME NEW q \in Requests PROVE request[q] \in RequestRecords
      <4>1. request[q] \in [pc: {"idle"}, session: Sessions, cookie: {NoCookie}, renews: {FALSE}]
        BY DEF Init
      <4> QED
        BY <4>1 DEF RequestRecords, Steps
    <3> QED
      BY <3>1 DEF Init
  <2> QED
    BY <2>1 DEF Init, TypeOK
<1>2. /\ \A s \in Sessions : cookie[s] = NoCookie
      /\ \A q \in Requests : request[q].pc = "idle"
  BY DEF Init
<1> QED
  BY <1>1, <1>2 DEF IInv, CookiesAreKnown

\* What an assignment to one request does.
LEMMA SetRequest ==
  ASSUME TypeOK, NEW q \in Requests, NEW pc \in Steps, NEW s \in Sessions,
         NEW c \in Cookies \cup {NoCookie}, NEW renews \in BOOLEAN, Set(q, pc, s, c, renews)
  PROVE  /\ request' \in [Requests -> RequestRecords]
         /\ request'[q].pc = pc /\ request'[q].cookie = c /\ request'[q].renews = renews
         /\ \A p \in Requests : p # q => request'[p] = request[p]
<1> DEFINE r == [pc |-> pc, session |-> s, cookie |-> c, renews |-> renews]
<1>1. r \in RequestRecords
  BY DEF RequestRecords
<1>2. r.pc = pc /\ r.cookie = c /\ r.renews = renews
  OBVIOUS
<1>3. request' = [request EXCEPT ![q] = r]
  BY DEF Set
<1> HIDE DEF r
<1> QED
  BY <1>1, <1>2, <1>3 DEF TypeOK

\* What the end of a request does.
LEMMA DoneStep ==
  ASSUME TypeOK, NEW q \in Requests, Done(q)
  PROVE  /\ request' \in [Requests -> RequestRecords]
         /\ request'[q].pc = "idle" /\ request'[q].cookie = NoCookie
         /\ \A p \in Requests : p # q => request'[p] = request[p]
<1>1. request[q].session \in Sessions /\ "idle" \in Steps
  BY DEF TypeOK, RequestRecords, Steps
<1> QED
  BY <1>1, SetRequest DEF Done

\* A request that is at work carries a cookie.
LEMMA CarriedCookie ==
  ASSUME TypeOK, CookiesAreKnown, NEW q \in Requests, request[q].pc # "idle"
  PROVE  Carried(q) \in Cookies /\ request[q].session \in Sessions
BY DEF TypeOK, RequestRecords, CookiesAreKnown, Carried

\* The cookies that the steps make: what they keep of the one they start from.
LEMMA ReissuedCookie ==
  ASSUME NEW c \in Cookies, NEW i \in Int, NEW d, d = [c EXCEPT !.issued = i]
  PROVE  /\ d \in Cookies /\ d.issued = i /\ d.user = c.user /\ d.role = c.role
         /\ d.expires = c.expires /\ d.since = c.since
<1>1. [c EXCEPT !.issued = i] \in Cookies
  BY DEF Cookies
<1>2. LET e == [c EXCEPT !.issued = i]
      IN  /\ e.issued = i /\ e.user = c.user /\ e.role = c.role
          /\ e.expires = c.expires /\ e.since = c.since
  BY DEF Cookies
<1> QED
  BY <1>1, <1>2

LEMMA NewCookie ==
  ASSUME NEW c \in Cookies, TypeOK,
         NEW d, d = [c EXCEPT !.issued = now, !.expires = now + Lifetime, !.since = now]
  PROVE  /\ d \in Cookies /\ d.issued = now /\ d.user = c.user /\ d.role = c.role
         /\ d.expires = now + Lifetime /\ d.since = now
<1> DEFINE whole == now + Lifetime
<1>1. now \in Int /\ whole \in Int
  BY AccessAssumption DEF TypeOK
<1>2. d = [c EXCEPT !.issued = now, !.expires = whole, !.since = now]
  OBVIOUS
<1> HIDE DEF whole
<1>3. /\ d \in Cookies /\ d.issued = now /\ d.user = c.user /\ d.role = c.role
      /\ d.expires = whole /\ d.since = now
  <2>1. LET f == [c EXCEPT !.issued = now, !.expires = whole, !.since = now]
        IN  /\ f \in Cookies /\ f.issued = now /\ f.user = c.user /\ f.role = c.role
            /\ f.expires = whole /\ f.since = now
    BY <1>1 DEF Cookies
  <2> QED
    BY <1>2, <2>1
<1>4. whole = now + Lifetime
  BY DEF whole
<1> QED
  BY <1>3, <1>4, Zenon

LEMMA SlidCookie ==
  ASSUME NEW c \in Cookies, TypeOK
  PROVE  /\ Slid(c) \in Cookies
         /\ Slid(c).user = c.user /\ Slid(c).role = c.role /\ Slid(c).since = c.since
         /\ Slid(c).issued = now /\ Slid(c).expires = now + (c.expires - c.issued)
<1> DEFINE left == now + (c.expires - c.issued)
<1>1. now \in Int /\ left \in Int
  BY DEF Cookies, TypeOK
<1>2. Slid(c) = [c EXCEPT !.issued = now, !.expires = left]
  BY DEF Slid
<1> HIDE DEF left
<1>3. /\ Slid(c) \in Cookies
      /\ Slid(c).user = c.user /\ Slid(c).role = c.role /\ Slid(c).since = c.since
      /\ Slid(c).issued = now /\ Slid(c).expires = left
  <2>1. LET f == [c EXCEPT !.issued = now, !.expires = left]
        IN  /\ f \in Cookies /\ f.issued = now /\ f.user = c.user /\ f.role = c.role
            /\ f.expires = left /\ f.since = c.since
    BY <1>1 DEF Cookies
  <2> QED
    BY <1>2, <2>1
<1> QED
  BY <1>3 DEF left

\* What a request does with the cookie it is sent with.
LEMMA SendStep ==
  ASSUME TypeOK, NEW q \in Requests, NEW s \in Sessions, Send(q, s)
  PROVE  LET c == cookie[s]
             d == request'[q].cookie
         IN  /\ c \in Cookies /\ d \in Cookies /\ request'[q].pc \in {"validate", "serving"}
             /\ request' \in [Requests -> RequestRecords]
             /\ d.user = c.user /\ d.role = c.role /\ d.since = c.since
             /\ d = c \/ (d = Slid(c) /\ Slides(c) /\ now - c.issued < Fresh)
             /\ request'[q].pc = "serving" => now - c.issued < Fresh
             /\ \A p \in Requests : p # q => request'[p] = request[p]
<1> DEFINE c == cookie[s]
<1>1. c \in Cookies
  BY DEF Send, TypeOK
<1>2. CASE now - c.issued >= Fresh
  <2>1. Set(q, "validate", s, c, FALSE)
    BY <1>2 DEF Send
  <2> HIDE DEF c
  <2>2. "validate" \in Steps /\ FALSE \in BOOLEAN
    BY DEF Steps
  <2>3. /\ request' \in [Requests -> RequestRecords]
        /\ request'[q].pc = "validate" /\ request'[q].cookie = c
        /\ \A p \in Requests : p # q => request'[p] = request[p]
    BY <1>1, <2>1, <2>2, SetRequest
  <2> QED
    BY <1>1, <2>3 DEF c
<1>3. CASE ~ (now - c.issued >= Fresh)
  <2> DEFINE d == IF Slides(c) THEN Slid(c) ELSE c
  <2>1. Set(q, "serving", s, d, Slides(c))
    BY <1>3 DEF Send
  <2>2. d \in Cookies /\ d.user = c.user /\ d.role = c.role /\ d.since = c.since
    BY <1>1, SlidCookie
  <2>3. "serving" \in Steps /\ Slides(c) \in BOOLEAN
    BY DEF Steps, Slides
  <2>4. now - c.issued < Fresh
    BY <1>1, <1>3 DEF Cookies, TypeOK
  <2>5. d = c \/ (d = Slid(c) /\ Slides(c))
    OBVIOUS
  <2> HIDE DEF c, d
  <2>6. /\ request' \in [Requests -> RequestRecords]
        /\ request'[q].pc = "serving" /\ request'[q].cookie = d
        /\ \A p \in Requests : p # q => request'[p] = request[p]
    BY <2>1, <2>2, <2>3, SetRequest
  <2> QED
    BY <1>1, <2>2, <2>4, <2>5, <2>6 DEF c
<1> QED
  BY <1>2, <1>3

\* What a sign-in, a validation and the two ways to make a cookie do.
LEMMA CookieSteps ==
  ASSUME TypeOK, CookiesAreKnown, NEW q \in Requests,
         \/ \E s \in Sessions, u \in Users : SignIn(q, s, u)
         \/ Admit(q) \/ Validate(q) \/ Renew(q)
  PROVE  LET d == request'[q].cookie IN
         /\ UNCHANGED <<now, role, changed, cookie>>
         /\ request' \in [Requests -> RequestRecords] /\ d \in Cookies
         /\ \A p \in Requests : p # q => request'[p] = request[p]
         /\ \/ /\ request[q].pc = "idle" /\ request'[q].pc = "login"
               /\ d.issued = now /\ role[d.user] = d.role
            \/ LET c == Carried(q) IN
               /\ c \in Cookies /\ d.user = c.user /\ d.role = c.role
               /\ \/ /\ request[q].pc = "login" /\ request'[q].pc = "answer"
                     /\ d.issued = now /\ d.since = now /\ d.expires = now + Lifetime
                  \/ /\ request[q].pc = "validate" /\ request'[q].pc = "renew"
                     /\ role[d.user] = d.role
                     /\ d.issued = now /\ d.since = c.since /\ d.expires = c.expires
                  \/ request[q].pc = "validate" /\ request'[q].pc = "reject"
                  \/ /\ request[q].pc = "renew" /\ request'[q].pc = "serving"
                     /\ d.issued = now /\ d.since = c.since /\ d.expires = c.expires
<1> USE DEF Steps
<1>1. CASE \E s \in Sessions, u \in Users : SignIn(q, s, u)
  <2>1. PICK s \in Sessions, u \in Users : SignIn(q, s, u)
    BY <1>1
  <2> DEFINE d == [user |-> u, role |-> role[u], issued |-> now, expires |-> now, since |-> now]
  <2>2. d \in Cookies /\ d.issued = now /\ role[d.user] = d.role
    BY <2>1 DEF SignIn, TypeOK, Cookies
  <2>3. Set(q, "login", s, d, FALSE)
    BY <2>1 DEF SignIn
  <2> HIDE DEF d
  <2>4. /\ request' \in [Requests -> RequestRecords]
        /\ request'[q].pc = "login" /\ request'[q].cookie = d
        /\ \A p \in Requests : p # q => request'[p] = request[p]
    BY <2>2, <2>3, SetRequest
  <2> QED
    BY <2>1, <2>2, <2>4 DEF SignIn
<1>2. CASE Admit(q)
  <2> DEFINE d == [Carried(q) EXCEPT !.issued = now, !.expires = now + Lifetime, !.since = now]
  <2>1. Set(q, "answer", request[q].session, d, TRUE) /\ request[q].pc = "login"
        /\ UNCHANGED <<now, role, changed, cookie>>
    BY <1>2 DEF Admit
  <2>2. Carried(q) \in Cookies /\ request[q].session \in Sessions
    BY <2>1, CarriedCookie
  <2>0. d = [Carried(q) EXCEPT !.issued = now, !.expires = now + Lifetime, !.since = now]
    OBVIOUS
  <2> HIDE DEF d
  <2>3. /\ d \in Cookies /\ d.user = Carried(q).user /\ d.role = Carried(q).role
        /\ d.issued = now /\ d.since = now /\ d.expires = now + Lifetime
    BY <2>0, <2>2, NewCookie
  <2>4. /\ request' \in [Requests -> RequestRecords]
        /\ request'[q].pc = "answer" /\ request'[q].cookie = d
        /\ \A p \in Requests : p # q => request'[p] = request[p]
    BY <2>1, <2>2, <2>3, SetRequest
  <2> QED
    BY <2>1, <2>2, <2>3, <2>4
<1>3. CASE Validate(q)
  <2> DEFINE d == [Carried(q) EXCEPT !.issued = now]
  <2>1. /\ request[q].pc = "validate" /\ UNCHANGED <<now, role, changed, cookie>>
        /\ \/ Set(q, "renew", request[q].session, d, FALSE) /\ role[Carried(q).user] = Carried(q).role
           \/ Set(q, "reject", request[q].session, Carried(q), FALSE)
    BY <1>3 DEF Validate, Goto
  <2>2. Carried(q) \in Cookies /\ request[q].session \in Sessions
    BY <2>1, CarriedCookie
  <2>0. d = [Carried(q) EXCEPT !.issued = now] /\ now \in Int
    BY DEF TypeOK
  <2> HIDE DEF d
  <2>3. /\ d \in Cookies /\ d.user = Carried(q).user /\ d.role = Carried(q).role
        /\ d.issued = now /\ d.since = Carried(q).since /\ d.expires = Carried(q).expires
    BY <2>0, <2>2, ReissuedCookie
  <2>4. CASE Set(q, "renew", request[q].session, d, FALSE) /\ role[Carried(q).user] = Carried(q).role
    <3>1. /\ request' \in [Requests -> RequestRecords]
          /\ request'[q].pc = "renew" /\ request'[q].cookie = d
          /\ \A p \in Requests : p # q => request'[p] = request[p]
      <4>1. Set(q, "renew", request[q].session, d, FALSE) /\ "renew" \in Steps
        BY <2>4
      <4> QED
        BY <2>2, <2>3, <4>1, SetRequest
    <3> QED
      BY <2>1, <2>2, <2>3, <2>4, <3>1
  <2>5. CASE Set(q, "reject", request[q].session, Carried(q), FALSE)
    <3>1. /\ request' \in [Requests -> RequestRecords]
          /\ request'[q].pc = "reject" /\ request'[q].cookie = Carried(q)
          /\ \A p \in Requests : p # q => request'[p] = request[p]
      BY <2>2, <2>5, SetRequest
    <3> QED
      BY <2>1, <2>2, <3>1
  <2> QED
    BY <2>1, <2>4, <2>5
<1>4. CASE Renew(q)
  <2> DEFINE d == [Carried(q) EXCEPT !.issued = now]
  <2>1. Set(q, "serving", request[q].session, d, TRUE) /\ request[q].pc = "renew"
        /\ UNCHANGED <<now, role, changed, cookie>>
    BY <1>4 DEF Renew
  <2>2. Carried(q) \in Cookies /\ request[q].session \in Sessions
    BY <2>1, CarriedCookie
  <2>0. d = [Carried(q) EXCEPT !.issued = now] /\ now \in Int
    BY DEF TypeOK
  <2> HIDE DEF d
  <2>3. /\ d \in Cookies /\ d.user = Carried(q).user /\ d.role = Carried(q).role
        /\ d.issued = now /\ d.since = Carried(q).since /\ d.expires = Carried(q).expires
    BY <2>0, <2>2, ReissuedCookie
  <2>4. /\ request' \in [Requests -> RequestRecords]
        /\ request'[q].pc = "serving" /\ request'[q].cookie = d
        /\ \A p \in Requests : p # q => request'[p] = request[p]
    BY <2>1, <2>2, <2>3, SetRequest
  <2> QED
    BY <2>1, <2>2, <2>3, <2>4
<1> QED
  BY <1>1, <1>2, <1>3, <1>4

\* What the end of a request leaves in the browsers.
LEMMA EndStep ==
  ASSUME TypeOK, NEW q \in Requests, Reject(q) \/ Answer(q) \/ Abort(q)
  PROVE  /\ UNCHANGED <<now, role, changed>>
         /\ request' \in [Requests -> RequestRecords]
         /\ request'[q].pc = "idle" /\ \A p \in Requests : p # q => request'[p] = request[p]
         /\ \A s \in Sessions :
              \/ cookie'[s] \in {cookie[s], NoCookie}
              \/ cookie'[s] = Carried(q) /\ request[q].pc \in {"serving", "answer"}
         /\ cookie' \in [Sessions -> Cookies \cup {NoCookie}]
<1>1. Done(q) /\ UNCHANGED <<now, role, changed>>
  BY DEF Reject, Answer, Abort
<1>2. Carried(q) \in Cookies \cup {NoCookie}
  BY DEF TypeOK, RequestRecords, Carried
<1> QED
  BY <1>1, <1>2, DoneStep DEF Reject, Answer, Abort, TypeOK

\* Every step keeps the types.
LEMMA StepTypes == ASSUME TypeOK, CookiesAreKnown, [Next]_vars PROVE TypeOK'
<1>1. ASSUME NEW q \in Requests,
             \/ \E s \in Sessions, u \in Users : SignIn(q, s, u)
             \/ Admit(q) \/ Validate(q) \/ Renew(q)
      PROVE  TypeOK'
  BY <1>1, CookieSteps DEF TypeOK
<1>2. ASSUME NEW q \in Requests, NEW s \in Sessions, Send(q, s) PROVE TypeOK'
  <2>1. UNCHANGED <<now, role, changed, cookie>>
    BY <1>2 DEF Send
  <2> QED
    BY <1>2, <2>1, SendStep DEF TypeOK
<1>3. ASSUME NEW q \in Requests, Reject(q) \/ Answer(q) \/ Abort(q) PROVE TypeOK'
  BY <1>3, EndStep DEF TypeOK
<1>4. ASSUME NEW s \in Sessions, SignOut(s) PROVE TypeOK'
  BY <1>4 DEF SignOut, TypeOK
<1>5. ASSUME NEW u \in Users, NEW r \in Roles \cup {NoRole}, ChangeRole(u, r) PROVE TypeOK'
  BY <1>5 DEF ChangeRole, TypeOK
<1>6. CASE Tick
  BY <1>6 DEF Tick, TypeOK
<1>7. CASE UNCHANGED vars
  BY <1>7 DEF vars, TypeOK
<1> QED
  BY <1>1, <1>2, <1>3, <1>4, <1>5, <1>6, <1>7 DEF Next

\* A cookie that is in order stays so, whatever changes about roles and time.
LEMMA RecentStays ==
  ASSUME TypeOK, NEW c \in Cookies, Recent(c), [Next]_vars
  PROVE  Recent(c)'
<1>1. /\ now \in Int /\ now' \in Int /\ now' >= now
      /\ \A u \in Users : changed[u] \in Int
      /\ \/ UNCHANGED <<role, changed>>
         \/ /\ now' = now
            /\ \E u \in Users : /\ \A v \in Users : v # u => role'[v] = role[v] /\ changed'[v] = changed[v]
                                /\ changed'[u] = now
  <2>1. CASE \E u \in Users, r \in Roles \cup {NoRole} : ChangeRole(u, r)
    BY <2>1 DEF ChangeRole, TypeOK
  <2>2. CASE Tick
    BY <2>2 DEF Tick, TypeOK
  <2>3. ASSUME ~ Tick, ~ \E u \in Users, r \in Roles \cup {NoRole} : ChangeRole(u, r)
        PROVE  UNCHANGED <<now, role, changed>>
    BY <2>3 DEF Next, vars, SignIn, Admit, Send, Validate, Renew, Reject, Answer, Abort, SignOut
  <2> QED
    BY <2>1, <2>2, <2>3 DEF TypeOK
<1>2. /\ c.user \in Users /\ c.issued \in Int /\ c.since \in Int /\ c.issued <= now
  BY DEF Cookies, Recent
<1>3. CASE Ending(c)
  BY <1>1, <1>2, <1>3, AccessAssumption DEF Ending, Recent
<1>4. CASE c.expires = c.since + Lifetime /\ Known(c, c.issued - Latency)
  <2>1. Known(c, c.issued - Latency)'
    BY <1>1, <1>2, <1>4, AccessAssumption DEF Known
  <2> QED
    BY <1>1, <1>2, <1>4, <2>1 DEF Recent
<1> QED
  BY <1>3, <1>4 DEF Recent

\* What CookiesAreKnown says of one request.
InOrder(q) ==
  LET c == Carried(q) IN
  /\ request[q].pc # "idle" => c # NoCookie
  /\ request[q].pc \in {"validate", "serving", "answer"} => Recent(c)
  /\ request[q].pc \in {"login", "renew"} =>
       c.issued <= now /\ now <= c.issued + Latency /\ Known(c, c.issued)
  /\ request[q].pc = "renew" => c.expires = c.since + Lifetime \/ Ending(c)

\* A request that does not move stays in order.
LEMMA InOrderStays ==
  ASSUME TypeOK, CookiesAreKnown, [Next]_vars, NEW p \in Requests, request'[p] = request[p]
  PROVE  InOrder(p)'
<1>1. InOrder(p) /\ Carried(p)' = Carried(p)
  BY DEF CookiesAreKnown, InOrder, Carried
<1>2. CASE request[p].pc = "idle"
  BY <1>1, <1>2 DEF InOrder
<1>3. CASE request[p].pc # "idle"
  <2> DEFINE c == Carried(p)
  <2>1. c \in Cookies
    BY <1>3, CarriedCookie
  <2>2. request[p].pc \in {"validate", "serving", "answer"} => Recent(c)'
    BY <1>1, <2>1, RecentStays DEF InOrder
  <2>3. ASSUME request[p].pc \in {"login", "renew"}
        PROVE  (c.issued <= now /\ now <= c.issued + Latency /\ Known(c, c.issued))'
    <3>1. /\ c.issued <= now /\ now <= c.issued + Latency /\ Known(c, c.issued)
          /\ c.user \in Users /\ c.issued \in Int /\ now \in Int
      BY <1>1, <2>1, <2>3 DEF InOrder, Cookies, TypeOK
    <3> HIDE DEF c
    <3>2. CASE Tick
      <4>1. now < c.issued + Latency
        BY <2>3, <3>2 DEF Tick, c
      <4> QED
        BY <3>1, <3>2, <4>1, AccessAssumption, <1>1 DEF Tick, Known, c
    <3>3. CASE \E u \in Users, r \in Roles \cup {NoRole} : ChangeRole(u, r)
      <4>1. PICK u \in Users, r \in Roles \cup {NoRole} : ChangeRole(u, r)
        BY <3>3
      <4>2. /\ now' = now
            /\ role'[c.user] = role[c.user] \/ changed'[c.user] = now
            /\ changed'[c.user] \in {changed[c.user], now}
        BY <3>1, <4>1 DEF ChangeRole, TypeOK
      <4>3. c' = c
        BY <1>1 DEF c
      <4> QED
        BY <3>1, <4>2, <4>3 DEF Known
    <3>4. ASSUME ~ Tick, ~ \E u \in Users, r \in Roles \cup {NoRole} : ChangeRole(u, r)
          PROVE  UNCHANGED <<now, role, changed>>
      BY <3>4 DEF Next, vars, SignIn, Admit, Send, Validate, Renew, Reject, Answer, Abort, SignOut
    <3> QED
      BY <1>1, <3>1, <3>2, <3>3, <3>4 DEF Known, c
  <2>4. request[p].pc = "renew" => (c.expires = c.since + Lifetime \/ Ending(c))'
    <3>1. now \in Int /\ now' \in Int /\ now' >= now
      <4>1. now' = now \/ now' = now + 1
        BY DEF Next, vars, SignIn, Admit, Send, Validate, Renew, Reject, Answer, Abort, SignOut,
               ChangeRole, Tick
      <4> QED
        BY <4>1 DEF TypeOK
    <3>2. c.since \in Int /\ Lifetime \in Int /\ Fresh \in Int
      BY <2>1, AccessAssumption DEF Cookies
    <3> HIDE DEF c
    <3>3. c' = c
      BY <1>1 DEF c
    <3>4. request[p].pc = "renew" => c.expires = c.since + Lifetime \/ Ending(c)
      BY <1>1 DEF InOrder, c
    <3> QED
      BY <3>1, <3>2, <3>3, <3>4 DEF Ending
  <2>5. c # NoCookie
    BY <1>1, <1>3 DEF InOrder
  <2> QED
    BY <1>1, <2>2, <2>3, <2>4, <2>5 DEF InOrder
<1> QED
  BY <1>2, <1>3

\* Every step keeps what is known of the cookies.
LEMMA StepCookies == ASSUME TypeOK, CookiesAreKnown, [Next]_vars PROVE CookiesAreKnown'
<1>1. /\ \A s \in Sessions : cookie[s] # NoCookie => cookie[s] \in Cookies /\ Recent(cookie[s])
      /\ \A q \in Requests : InOrder(q)
  BY DEF TypeOK, CookiesAreKnown, InOrder
<1>2. ASSUME \A s \in Sessions : cookie'[s] \in {cookie[s], NoCookie}
      PROVE  \A s \in Sessions : cookie'[s] # NoCookie => Recent(cookie[s])'
  BY <1>1, <1>2, RecentStays
<1>3. ASSUME NEW q \in Requests, Reject(q) \/ Answer(q) \/ Abort(q) PROVE CookiesAreKnown'
  <2>1. \A s \in Sessions : cookie'[s] # NoCookie => Recent(cookie[s])'
    <3> SUFFICES ASSUME NEW s \in Sessions, cookie'[s] # NoCookie PROVE Recent(cookie[s])'
      OBVIOUS
    <3>1. CASE cookie'[s] \in {cookie[s], NoCookie}
      BY <1>1, <3>1, RecentStays
    <3>2. CASE cookie'[s] = Carried(q) /\ request[q].pc \in {"serving", "answer"}
      <4>1. Carried(q) \in Cookies /\ Recent(Carried(q))
        BY <1>1, <3>2, CarriedCookie DEF InOrder
      <4> QED
        BY <3>2, <4>1, RecentStays
    <3> QED
      BY <1>3, <3>1, <3>2, EndStep
  <2>2. \A p \in Requests : InOrder(p)'
    BY <1>3, EndStep, InOrderStays DEF InOrder
  <2> QED
    BY <2>1, <2>2 DEF CookiesAreKnown, InOrder
<1>4. ASSUME NEW q \in Requests,
             \/ \E s \in Sessions, u \in Users : SignIn(q, s, u)
             \/ Admit(q) \/ Validate(q) \/ Renew(q)
      PROVE  CookiesAreKnown'
  <2> DEFINE d == request'[q].cookie
  <2>1. InOrder(q) /\ now \in Int /\ d \in Cookies
    BY <1>1, <1>4, CookieSteps DEF TypeOK
  <2>2. d \in Cookies /\ d.user \in Users /\ d.issued \in Int /\ d.since \in Int /\ changed[d.user] \in Int
    BY <2>1 DEF Cookies, TypeOK
  <2>3. UNCHANGED <<now, role, changed, cookie>> /\ \A p \in Requests : p # q => request'[p] = request[p]
    BY <1>4, CookieSteps
  <2>4. Carried(q)' = d /\ d # NoCookie
    BY <2>2, AccessAssumption DEF Carried
  <2> HIDE DEF d
  <2>5. InOrder(q)'
    <3>1. CASE /\ request[q].pc = "idle" /\ request'[q].pc = "login"
               /\ d.issued = now /\ role[d.user] = d.role
      BY <2>1, <2>2, <2>3, <2>4, <3>1, AccessAssumption DEF InOrder, Known
    <3>2. CASE /\ request[q].pc = "login" /\ request'[q].pc = "answer"
               /\ Carried(q) \in Cookies /\ d.user = Carried(q).user /\ d.role = Carried(q).role
               /\ d.issued = now /\ d.since = now /\ d.expires = now + Lifetime
      <4>1. Known(Carried(q), Carried(q).issued) /\ now <= Carried(q).issued + Latency
            /\ Carried(q).issued \in Int
        BY <2>1, <3>2 DEF InOrder, Cookies
      <4>2. Known(d, now - Latency)
        BY <2>1, <2>2, <3>2, <4>1, AccessAssumption DEF Known
      <4> QED
        BY <2>1, <2>2, <2>3, <2>4, <3>2, <4>2 DEF InOrder, Recent, Known
    <3>3. CASE /\ request[q].pc = "validate" /\ request'[q].pc = "renew" /\ role[d.user] = d.role
               /\ Carried(q) \in Cookies
               /\ d.issued = now /\ d.since = Carried(q).since /\ d.expires = Carried(q).expires
      <4>1. d.expires = d.since + Lifetime \/ Ending(d)
        BY <2>1, <3>3 DEF InOrder, Recent, Ending
      <4> QED
        BY <2>1, <2>2, <2>3, <2>4, <3>3, <4>1, AccessAssumption DEF InOrder, Known, Ending
    <3>4. CASE request'[q].pc = "reject"
      BY <2>4, <3>4 DEF InOrder
    <3>5. CASE /\ request[q].pc = "renew" /\ request'[q].pc = "serving"
               /\ Carried(q) \in Cookies /\ d.user = Carried(q).user /\ d.role = Carried(q).role
               /\ d.issued = now /\ d.since = Carried(q).since /\ d.expires = Carried(q).expires
      <4>1. Known(Carried(q), Carried(q).issued) /\ now <= Carried(q).issued + Latency
            /\ Carried(q).issued \in Int
        BY <2>1, <3>5 DEF InOrder, Cookies
      <4>2. Known(d, now - Latency)
        BY <2>1, <2>2, <3>5, <4>1, AccessAssumption DEF Known
      <4>3. d.expires = d.since + Lifetime \/ Ending(d)
        BY <2>1, <3>5 DEF InOrder, Ending
      <4>4. Recent(d)
        BY <2>1, <3>5, <4>2, <4>3 DEF Recent
      <4> QED
        BY <2>3, <2>4, <3>5, <4>4 DEF InOrder, Recent, Known, Ending
    <3> QED
      BY <1>4, <3>1, <3>2, <3>3, <3>4, <3>5, CookieSteps DEF d
  <2>6. \A p \in Requests : InOrder(p)'
    BY <2>3, <2>5, InOrderStays
  <2>7. \A s \in Sessions : cookie'[s] # NoCookie => Recent(cookie[s])'
    BY <1>2, <2>3
  <2> QED
    BY <2>6, <2>7 DEF CookiesAreKnown, InOrder
<1>5. ASSUME NEW q \in Requests, NEW s \in Sessions, Send(q, s) PROVE CookiesAreKnown'
  <2> DEFINE c == cookie[s]
  <2> DEFINE d == request'[q].cookie
  <2>1. UNCHANGED <<now, role, changed, cookie>> /\ cookie[s] # NoCookie
    BY <1>5 DEF Send
  <2>2. /\ c \in Cookies /\ d \in Cookies /\ Recent(c)
        /\ request'[q].pc \in {"validate", "serving"}
        /\ d = c \/ (d = Slid(c) /\ Slides(c) /\ now - c.issued < Fresh)
        /\ \A p \in Requests : p # q => request'[p] = request[p]
    BY <1>1, <1>5, <2>1, SendStep
  <2>3. Slid(c).since = c.since /\ Slid(c).issued = now
    BY <2>2, SlidCookie
  <2>4. Carried(q)' = d /\ d # NoCookie
    BY <2>2, AccessAssumption DEF Carried
  <2>5. c.expires \in Int /\ c.issued \in Int /\ c.since \in Int /\ now \in Int
    BY <2>2 DEF Cookies, TypeOK
  <2> HIDE DEF c, d
  <2>6. Recent(d)
    <3>1. CASE d = c
      BY <2>2, <3>1
    <3>2. CASE d = Slid(c) /\ Slides(c) /\ now - c.issued < Fresh
      <4>1. Ending(c)
        BY <2>2, <2>5, <3>2, AccessAssumption DEF Recent, Ending, Slides
      <4> QED
        BY <2>3, <2>5, <3>2, <4>1 DEF Recent, Ending
    <3> QED
      BY <2>2, <3>1, <3>2
  <2>7. InOrder(q)'
    BY <2>1, <2>2, <2>4, <2>6 DEF InOrder, Recent, Known, Ending
  <2>8. \A p \in Requests : InOrder(p)'
    BY <2>2, <2>7, InOrderStays
  <2>9. \A t \in Sessions : cookie'[t] # NoCookie => Recent(cookie[t])'
    BY <1>2, <2>1
  <2> QED
    BY <2>8, <2>9 DEF CookiesAreKnown, InOrder
<1>6. CASE UNCHANGED request /\ \A s \in Sessions : cookie'[s] \in {cookie[s], NoCookie}
  BY <1>2, <1>6, InOrderStays DEF CookiesAreKnown, InOrder
<1>7. ASSUME \/ \E s \in Sessions : SignOut(s)
             \/ \E u \in Users, r \in Roles \cup {NoRole} : ChangeRole(u, r)
             \/ Tick
             \/ UNCHANGED vars
      PROVE  UNCHANGED request /\ \A s \in Sessions : cookie'[s] \in {cookie[s], NoCookie}
  BY <1>7 DEF SignOut, ChangeRole, Tick, vars, TypeOK
<1> QED
  BY <1>3, <1>4, <1>5, <1>6, <1>7 DEF Next

\* Until the last minutes of the lifetime, cookies and requests carry roles that
\* were current when they were issued or less than the latency of a query before,
\* and expire when the lifetime is over (OnValidatePrincipal, SignInAsync, and the
\* cookie handler, which slides none before): IInv is invariant.
THEOREM CookiesKnown == Spec => []IInv
<1>1. Init => IInv
  BY InitInv
<1>2. IInv /\ [Next]_vars => IInv'
  BY StepTypes, StepCookies DEF IInv
<1> QED
  BY <1>1, <1>2, PTL DEF Spec

\* A request is served with a role the user has or had until less than the five
\* minutes and the time of a query ago, but for the last five minutes of the
\* lifetime after his sign-in and a cookie that slides past its end.
THEOREM RolesExpire == Spec => StaleRolesExpire
<1>1. ASSUME IInv, [Next]_vars, NEW q \in Requests,
             request[q].pc # "serving", request'[q].pc = "serving"
      PROVE  LET c == request'[q].cookie
             IN  role[c.user] = c.role \/ now - changed[c.user] < Fresh + Latency \/ Ending(c)
  <2> USE DEF IInv
  <2> DEFINE d == request'[q].cookie
  <2>1. \/ \E s \in Sessions : Send(q, s)
        \/ Renew(q)
    <3>1. ASSUME NEW p \in Requests, NEW s \in Sessions, Send(p, s) PROVE p = q
      BY <1>1, <3>1, SendStep
    <3>2. ASSUME NEW p \in Requests,
                 \/ \E s \in Sessions, u \in Users : SignIn(p, s, u)
                 \/ Admit(p) \/ Validate(p) \/ Renew(p)
          PROVE  Renew(p) /\ p = q
      <4>1. p = q
        BY <1>1, <3>2, CookieSteps
      <4>2. request'[p].pc = "serving" => request[p].pc = "renew"
        BY <1>1, <3>2, CookieSteps
      <4> QED
        BY <1>1, <3>2, <4>1, <4>2 DEF SignIn, Admit, Validate
    <3>3. ASSUME NEW p \in Requests, Reject(p) \/ Answer(p) \/ Abort(p) PROVE FALSE
      BY <1>1, <3>3, EndStep
    <3>4. ASSUME \/ \E s \in Sessions : SignOut(s)
                 \/ \E u \in Users, r \in Roles \cup {NoRole} : ChangeRole(u, r)
                 \/ Tick
                 \/ UNCHANGED vars
          PROVE FALSE
      BY <1>1, <3>4 DEF SignOut, ChangeRole, Tick, vars
    <3> QED
      BY <1>1, <3>1, <3>2, <3>3, <3>4 DEF Next
  <2>2. ASSUME NEW s \in Sessions, Send(q, s)
        PROVE  role[d.user] = d.role \/ now - changed[d.user] < Fresh + Latency \/ Ending(d)
    <3> DEFINE c == cookie[s]
    <3>1. /\ c \in Cookies /\ d.user = c.user /\ d.role = c.role /\ d.since = c.since
          /\ now - c.issued < Fresh
      BY <1>1, <2>2, SendStep
    <3>2. Recent(c)
      BY <1>1, <2>2 DEF Send, CookiesAreKnown
    <3>3. c.user \in Users /\ c.issued \in Int /\ now \in Int /\ changed[c.user] \in Int
      BY <1>1, <3>1 DEF Cookies, TypeOK
    <3> HIDE DEF c, d
    <3> QED
      BY <3>1, <3>2, <3>3, AccessAssumption DEF Recent, Known, Ending
  <2>3. ASSUME Renew(q)
        PROVE  role[d.user] = d.role \/ now - changed[d.user] < Fresh + Latency \/ Ending(d)
    <3> DEFINE c == Carried(q)
    <3>1. /\ request[q].pc = "renew" /\ c \in Cookies /\ d.user = c.user /\ d.role = c.role
      BY <1>1, <2>3, CookieSteps DEF Renew
    <3>2. now <= c.issued + Latency /\ Known(c, c.issued)
      BY <1>1, <3>1 DEF CookiesAreKnown
    <3>3. c.user \in Users /\ c.issued \in Int /\ now \in Int /\ changed[c.user] \in Int
      BY <1>1, <3>1 DEF Cookies, TypeOK
    <3> HIDE DEF c, d
    <3> QED
      BY <3>1, <3>2, <3>3, AccessAssumption DEF Known
  <2> QED
    BY <2>1, <2>2, <2>3
<1>2. IInv /\ [Next]_vars => [\A q \in Requests : RoleIsCurrent(q)]_vars
  BY <1>1 DEF RoleIsCurrent
<1> QED
  BY CookiesKnown, <1>2, PTL DEF Spec, StaleRolesExpire

\* Why the last minutes are excepted: a cookie that was issued for less than twice
\* Fresh, and a request for it between the half of that time and Fresh.  The request
\* is served without a look at the database, and its answer brings a cookie with the
\* same role for the same time, so that nothing ends this (SlidingExpiration and the
\* early return of OnValidatePrincipal).
THEOREM ShortCookiesSlide ==
  ASSUME TypeOK, NEW q \in Requests, NEW s \in Sessions, Send(q, s),
         cookie[s].expires - cookie[s].issued < 2 * (now - cookie[s].issued),
         now - cookie[s].issued < Fresh
  PROVE  /\ request'[q].pc = "serving" /\ request'[q].renews
         /\ request'[q].cookie.user = cookie[s].user /\ request'[q].cookie.role = cookie[s].role
         /\ request'[q].cookie.issued = now
         /\ request'[q].cookie.expires - now = cookie[s].expires - cookie[s].issued
<1> DEFINE c == cookie[s]
<1>1. c \in Cookies /\ now \in Int /\ Fresh \in Int
  BY AccessAssumption DEF Send, TypeOK
<1>2. c.issued \in Int /\ c.expires \in Int
  BY <1>1 DEF Cookies
<1>3. Slides(c) /\ ~ (now - c.issued >= Fresh)
  BY <1>1, <1>2 DEF Slides
<1>4. Set(q, "serving", s, Slid(c), TRUE)
  BY <1>3 DEF Send
<1>5. /\ Slid(c) \in Cookies
      /\ Slid(c).user = c.user /\ Slid(c).role = c.role
      /\ Slid(c).issued = now /\ Slid(c).expires = now + (c.expires - c.issued)
  BY <1>1, SlidCookie
<1> HIDE DEF c
<1>6. "serving" \in Steps
  BY DEF Steps
<1>7. request'[q].pc = "serving" /\ request'[q].cookie = Slid(c) /\ request'[q].renews
  BY <1>4, <1>5, <1>6, SetRequest
<1> QED
  BY <1>1, <1>2, <1>5, <1>7 DEF c

-------------------------------------------------------------------------------
(* The users page *)

Inv == TypeOK /\ CookiesAreKnown /\ AccessIsConsistent

\* The initial states satisfy the invariant.
LEMMA AdminInitInv == AdminInit => Inv
<1> SUFFICES ASSUME AdminInit PROVE Inv
  OBVIOUS
<1>1. TypeOK /\ CookiesAreKnown
  BY InitInv DEF AdminInit, IInv
<1>2. page \in [Requests -> Pages] /\ \A q \in Requests : page[q] = NoPage
  BY DEF AdminInit, Pages
<1>3. RowsAgree
  BY DEF AdminInit, Init, RowsAgree
<1>4. TargetsAgree /\ AuthorityIsHeld
  BY <1>2 DEF TargetsAgree, AuthorityIsHeld, NoPage
<1> QED
  BY <1>1, <1>2, <1>3, <1>4 DEF Inv, AccessIsConsistent

\* What a handler that writes has, by its step.
LEMMA PageFields ==
  ASSUME Inv, NEW q \in Requests
  PROVE  /\ page[q].step = "update" =>
              /\ page[q].user \in Users /\ page[q].given \in Roles
              /\ page[q].role \in Roles \cup {NoRole}
         /\ page[q].step \in {"insert", "link"} => page[q].user \in Users /\ page[q].given \in Roles
         /\ page[q].step # "none" => page[q] # NoPage
<1>1. page[q] \in Pages
  BY DEF Inv, AccessIsConsistent
<1> QED
  BY <1>1 DEF Pages, NoPage, Handled

\* Giving a user a role is a change of UserAccess, or none.
LEMMA GrantStep ==
  ASSUME Inv, NEW u \in Users, NEW r \in Roles \cup {NoRole}, Grant(u, r)
  PROVE  [Next]_vars
<1>1. CASE role[u] = r
  BY <1>1 DEF Grant, Inv, TypeOK, vars
<1>2. CASE role[u] # r
  BY <1>2 DEF Grant, ChangeRole, Next
<1> QED
  BY <1>1, <1>2

\* Every step of the portal with its users page is a step of UserAccess.
LEMMA StepImplements == ASSUME Inv, [AdminNext]_adminVars PROVE [Next]_vars
<1>1. CASE Elsewhere
  BY <1>1 DEF Elsewhere, Next
<1>2. ASSUME NEW q \in Requests, NEW u \in Users, NEW given \in Roles,
             SignUp(q, u, given) \/ \E active \in BOOLEAN : PostUpdate(q, u, given, active)
      PROVE  UNCHANGED vars
  BY <1>2 DEF SignUp, PostUpdate
<1>3. ASSUME NEW q \in Requests, Update(q) PROVE [Next]_vars
  BY <1>3, PageFields, GrantStep DEF Update
<1>4. ASSUME NEW q \in Requests, Insert(q) PROVE [Next]_vars
  BY <1>4, PageFields, GrantStep DEF Insert
<1>5. ASSUME NEW q \in Requests, Link(q) PROVE UNCHANGED vars
  BY <1>5 DEF Link
<1>6. ASSUME NEW q \in Requests, Leave(q) PROVE Next
  BY <1>6 DEF Leave, Next
<1>7. CASE UNCHANGED adminVars
  BY <1>7 DEF adminVars
<1> QED
  BY <1>1, <1>2, <1>3, <1>4, <1>5, <1>6, <1>7 DEF AdminNext

\* Cookies are of users.
LEMMA CookieUsers ==
  ASSUME Inv
  PROVE  /\ \A s \in Sessions : cookie[s] # NoCookie => cookie[s].user \in Users
         /\ \A q \in Requests : request[q].pc # "idle" => Carried(q).user \in Users
<1>1. ASSUME NEW s \in Sessions, cookie[s] # NoCookie PROVE cookie[s].user \in Users
  BY <1>1 DEF Inv, TypeOK, Cookies
<1>2. ASSUME NEW q \in Requests, request[q].pc # "idle" PROVE Carried(q).user \in Users
  <2>1. Carried(q) \in Cookies
    BY <1>2, CarriedCookie DEF Inv
  <2> QED
    BY <2>1 DEF Cookies
<1> QED
  BY <1>1, <1>2

\* A handler that begins is one of a request that is served, with the right to give.
LEMMA BeginStep ==
  ASSUME Inv, NEW q \in Requests, NEW given, NEW next \in Pages, Begin(q, given, next), next # NoPage,
         UNCHANGED request
  PROVE  /\ page' \in [Requests -> Pages] /\ page'[q] = next
         /\ \A p \in Requests : p # q => page'[p] = page[p]
         /\ \A p \in Requests : page'[p] # NoPage => request'[p].pc = "serving"
         /\ given \in Assignable(Carried(q).role) /\ request[q].pc = "serving"
BY DEF Begin, Inv, AccessIsConsistent

\* The checks of OnPostUpdateAsync establish what its write relies on.
LEMMA PostUpdateConsistent ==
  ASSUME Inv, NEW q \in Requests, NEW u \in Users, NEW given \in Roles, NEW active \in BOOLEAN,
         PostUpdate(q, u, given, active)
  PROVE  AccessIsConsistent'
<1> DEFINE next == [step |-> "update", user |-> u, given |-> given, overtaken |-> FALSE,
                    role |-> IF active THEN given ELSE NoRole]
<1>1. next \in Pages /\ next # NoPage
  BY DEF Pages, NoPage
<1>2. Begin(q, given, next) /\ UNCHANGED <<role, cookie, request, accounts, assigned, linked>>
  BY DEF PostUpdate, vars
<1>3. /\ next.step = "update" /\ next.user = u /\ next.given = given /\ next.role \in {given, NoRole}
  OBVIOUS
<1>4. /\ assigned[u] # NoRole /\ Carried(q).user # u
      /\ Carried(q).role = "Administrator" \/ assigned[u] \notin High
  BY DEF PostUpdate
<1> HIDE DEF next
<1>5. /\ page' \in [Requests -> Pages] /\ page'[q] = next
      /\ \A p \in Requests : p # q => page'[p] = page[p]
      /\ \A p \in Requests : page'[p] # NoPage => request'[p].pc = "serving"
      /\ given \in Assignable(Carried(q).role)
  BY <1>1, <1>2, BeginStep
<1>6. RowsAgree'
  BY <1>2 DEF Inv, AccessIsConsistent, RowsAgree, Carried
<1>7. TargetsAgree'
  BY <1>2, <1>3, <1>4, <1>5 DEF Inv, AccessIsConsistent, TargetsAgree
<1>8. AuthorityIsHeld'
  BY <1>2, <1>3, <1>4, <1>5 DEF Inv, AccessIsConsistent, AuthorityIsHeld, Carried
<1> QED
  BY <1>5, <1>6, <1>7, <1>8 DEF AccessIsConsistent

\* An account that is made is of a user without a row, whom nobody else creates.
LEMMA SignUpConsistent ==
  ASSUME Inv, NEW q \in Requests, NEW u \in Users, NEW given \in Roles, SignUp(q, u, given)
  PROVE  AccessIsConsistent'
<1> DEFINE next == [step |-> "insert", user |-> u, given |-> given]
<1>1. next \in Pages /\ next # NoPage
  BY DEF Pages, NoPage
<1>2. Begin(q, given, next) /\ UNCHANGED <<role, cookie, request, assigned, linked>>
  BY DEF SignUp, vars
<1>3. next.step = "insert" /\ next.user = u /\ next.given = given
  OBVIOUS
<1>4. u \notin accounts /\ accounts' = accounts \cup {u}
  BY DEF SignUp
<1> HIDE DEF next
<1>5. /\ page' \in [Requests -> Pages] /\ page'[q] = next
      /\ \A p \in Requests : p # q => page'[p] = page[p]
      /\ \A p \in Requests : page'[p] # NoPage => request'[p].pc = "serving"
      /\ given \in Assignable(Carried(q).role)
  BY <1>1, <1>2, BeginStep
<1>6. RowsAgree'
  BY <1>2, <1>4 DEF Inv, AccessIsConsistent, RowsAgree, Carried
<1>7. assigned[u] = NoRole /\ \A p \in Requests : page[p].step = "insert" => page[p].user # u
  BY <1>4 DEF Inv, AccessIsConsistent, RowsAgree, TargetsAgree
<1>8. TargetsAgree'
  BY <1>2, <1>3, <1>4, <1>5, <1>7 DEF Inv, AccessIsConsistent, TargetsAgree
<1>9. AuthorityIsHeld'
  BY <1>2, <1>3, <1>5 DEF Inv, AccessIsConsistent, AuthorityIsHeld, Carried
<1> QED
  BY <1>5, <1>6, <1>8, <1>9 DEF AccessIsConsistent

\* The update of a row overtakes the other updates of it, and disturbs no insert.
LEMMA UpdateConsistent ==
  ASSUME Inv, NEW q \in Requests, Update(q)
  PROVE  AccessIsConsistent'
<1> DEFINE u == page[q].user
<1>1. /\ u \in Users /\ page[q].given \in Roles /\ page[q].role \in {page[q].given, NoRole}
      /\ assigned[u] # NoRole /\ page[q] # NoPage
  BY PageFields DEF Update, Inv, AccessIsConsistent, TargetsAgree, AuthorityIsHeld
<1>2. /\ assigned' = [assigned EXCEPT ![u] = page[q].given]
      /\ role' = [role EXCEPT ![u] = page[q].role]
      /\ UNCHANGED <<cookie, request, accounts, linked>>
  BY DEF Update, Grant
<1> HIDE DEF u
<1>3. ASSUME NEW p \in Requests
      PROVE  /\ page'[p] \in Pages
             /\ page'[p] # NoPage => page[p] # NoPage
             /\ page'[p].step \in {"update", "insert", "link"} =>
                  /\ p # q /\ page'[p].step = page[p].step /\ page'[p].user = page[p].user
                  /\ page'[p].given = page[p].given
             /\ page'[p].step = "update" =>
                  /\ page'[p].role = page[p].role
                  /\ page[p].overtaken \/ page[p].user = u => page'[p].overtaken
  <2>1. page[p] \in Pages
    BY DEF Inv, AccessIsConsistent
  <2>2. CASE p = q
    <3>1. page'[p] = Handled
      BY <2>2 DEF Update
    <3> QED
      BY <1>1, <2>2, <3>1 DEF Handled, Pages
  <2>3. CASE p # q /\ page[p].step = "update" /\ page[p].user = u
    <3>1. page'[p] = [page[p] EXCEPT !.overtaken = TRUE]
      BY <2>3 DEF Update, u
    <3>2. page[p] \in [step: {"update"}, user: Users, role: Roles \cup {NoRole}, given: Roles, overtaken: BOOLEAN]
      BY <2>1, <2>3 DEF Pages, NoPage, Handled
    <3> QED
      BY <2>3, <3>1, <3>2 DEF Pages, NoPage
  <2>4. CASE p # q /\ ~ (page[p].step = "update" /\ page[p].user = u)
    <3>1. page'[p] = page[p]
      BY <2>4 DEF Update, u
    <3>2. page[p].step = "update" => page[p].overtaken \in BOOLEAN
      BY <2>1 DEF Pages, NoPage, Handled
    <3> QED
      BY <2>1, <2>4, <3>1, <3>2
  <2> QED
    BY <2>2, <2>3, <2>4
<1>4. page' \in [Requests -> Pages]
  BY <1>3 DEF Update
<1>5. \A p \in Requests : page'[p] # NoPage => request'[p].pc = "serving"
  BY <1>2, <1>3 DEF Inv, AccessIsConsistent
<1>6. /\ assigned' \in [Users -> Roles \cup {NoRole}]
      /\ \A v \in Users : assigned'[v] = NoRole <=> assigned[v] = NoRole
      /\ \A v \in Users : role'[v] \in {assigned'[v], NoRole}
      /\ \A v \in Users : v # u => assigned'[v] = assigned[v]
  <2>1. /\ assigned \in [Users -> Roles \cup {NoRole}] /\ role \in [Users -> Roles \cup {NoRole}]
        /\ \A v \in Users : role[v] \in {assigned[v], NoRole}
    BY DEF Inv, AccessIsConsistent, RowsAgree, TypeOK
  <2>2. NoRole \notin Roles
    BY AccessAssumption
  <2>3. assigned'[u] = page[q].given /\ role'[u] = page[q].role
    BY <1>1, <1>2, <2>1
  <2>4. \A v \in Users : v # u => assigned'[v] = assigned[v] /\ role'[v] = role[v]
    BY <1>1, <1>2, <2>1
  <2> QED
    BY <1>1, <1>2, <2>1, <2>2, <2>3, <2>4
<1>7. RowsAgree'
  BY <1>2, <1>6, CookieUsers DEF Inv, AccessIsConsistent, RowsAgree, Carried
<1>8. TargetsAgree'
  <2>1. \A p \in Requests : page[p].step \in {"update", "insert", "link"} => page[p].user \in Users
    BY PageFields
  <2> QED
    BY <1>2, <1>3, <1>6, <2>1 DEF Inv, AccessIsConsistent, TargetsAgree
<1>9. AuthorityIsHeld'
  <2>1. \A p \in Requests : page[p].step = "update" => page[p].user \in Users
    BY PageFields
  <2> QED
    BY <1>2, <1>3, <1>6, <2>1 DEF Inv, AccessIsConsistent, AuthorityIsHeld, Carried
<1> QED
  BY <1>4, <1>5, <1>7, <1>8, <1>9 DEF AccessIsConsistent

\* The insert gives a row to a user who had none: no update is of him.
LEMMA InsertConsistent ==
  ASSUME Inv, NEW q \in Requests, Insert(q)
  PROVE  AccessIsConsistent'
<1> DEFINE u == page[q].user
<1>1. /\ u \in Users /\ page[q].given \in Roles /\ u \in accounts
      /\ assigned[u] = NoRole /\ page[q] # NoPage
      /\ \A p \in Requests : page[p].step = "insert" /\ page[p].user = u => p = q
  BY PageFields DEF Insert, Inv, AccessIsConsistent, TargetsAgree
<1>2. /\ assigned' = [assigned EXCEPT ![u] = page[q].given]
      /\ role' = [role EXCEPT ![u] = page[q].given]
      /\ UNCHANGED <<cookie, request, accounts, linked>>
  BY DEF Insert, Grant
<1>3. /\ page'[q] \in Pages /\ page'[q].step = "link" /\ page'[q].user = u
      /\ \A p \in Requests : p # q => page'[p] = page[p]
      /\ page' \in [Requests -> Pages]
  <2>1. page[q] \in [step: {"insert", "link"}, user: Users, given: Roles]
    BY DEF Insert, Inv, AccessIsConsistent, Pages, NoPage, Handled
  <2>2. [page[q] EXCEPT !.step = "link"] \in [step: {"insert", "link"}, user: Users, given: Roles]
    BY <2>1
  <2>3. [page[q] EXCEPT !.step = "link"].step = "link" /\ [page[q] EXCEPT !.step = "link"].user = u
    BY <2>1
  <2>4. page' = [page EXCEPT ![q] = [page[q] EXCEPT !.step = "link"]] /\ page \in [Requests -> Pages]
    BY DEF Insert, Inv, AccessIsConsistent
  <2> QED
    BY <2>2, <2>3, <2>4 DEF Pages
<1> HIDE DEF u
<1>4. /\ assigned' \in [Users -> Roles \cup {NoRole}]
      /\ assigned'[u] # NoRole
      /\ \A v \in Users : role'[v] \in {assigned'[v], NoRole}
      /\ \A v \in Users : v # u => assigned'[v] = assigned[v]
  <2>1. /\ assigned \in [Users -> Roles \cup {NoRole}] /\ role \in [Users -> Roles \cup {NoRole}]
        /\ \A v \in Users : role[v] \in {assigned[v], NoRole}
    BY DEF Inv, AccessIsConsistent, RowsAgree, TypeOK
  <2>2. assigned'[u] = page[q].given /\ role'[u] = page[q].given /\ NoRole \notin Roles
    BY <1>1, <1>2, <2>1, AccessAssumption
  <2>3. \A v \in Users : v # u => assigned'[v] = assigned[v] /\ role'[v] = role[v]
    BY <1>1, <1>2, <2>1
  <2> QED
    BY <1>1, <1>2, <2>1, <2>2, <2>3
<1>5. \A p \in Requests : page'[p] # NoPage => request'[p].pc = "serving"
  BY <1>1, <1>2, <1>3 DEF Inv, AccessIsConsistent
<1>6. RowsAgree'
  BY <1>1, <1>2, <1>4, CookieUsers DEF Inv, AccessIsConsistent, RowsAgree, Carried
<1>7. \A p \in Requests : page[p].step \in {"update", "insert", "link"} => page[p].user \in Users
  BY PageFields
<1>8. TargetsAgree'
  BY <1>1, <1>2, <1>3, <1>4, <1>7 DEF Inv, AccessIsConsistent, TargetsAgree
<1>9. AuthorityIsHeld'
  BY <1>1, <1>2, <1>3, <1>4, <1>7 DEF Inv, AccessIsConsistent, TargetsAgree, AuthorityIsHeld, Carried
<1> QED
  BY <1>3, <1>5, <1>6, <1>8, <1>9 DEF AccessIsConsistent

\* A handler that is at its end leaves the rows alone; the answer of a request
\* may bring its cookie to the browser.
LEMMA EndConsistent ==
  ASSUME Inv, NEW q \in Requests, Link(q) \/ Leave(q)
  PROVE  AccessIsConsistent'
<1>1. /\ \A p \in Requests : p # q => page'[p] = page[p] /\ request'[p] = request[p]
      /\ page'[q] \in {NoPage, Handled} /\ page' \in [Requests -> Pages]
      /\ page'[q] = Handled => request'[q].pc = "serving"
      /\ request'[q] = request[q] \/ request'[q].pc = "idle"
      /\ UNCHANGED <<role, accounts, assigned>>
      /\ \A s \in Sessions :
           \/ cookie'[s] \in {cookie[s], NoCookie}
           \/ cookie'[s] = Carried(q) /\ request[q].pc # "idle"
      /\ linked' = linked \/ (page[q].step = "link" /\ linked' = linked \cup {page[q].user})
  <2>1. CASE Link(q)
    BY <2>1, PageFields DEF Link, vars, Inv, AccessIsConsistent, Pages
  <2>2. CASE Leave(q)
    <3>1. (Answer(q) \/ Abort(q)) /\ UNCHANGED <<accounts, assigned, linked>>
          /\ page' = [page EXCEPT ![q] = NoPage]
      BY <2>2 DEF Leave
    <3>2. /\ request'[q].pc = "idle" /\ \A p \in Requests : p # q => request'[p] = request[p]
          /\ UNCHANGED role
          /\ \A s \in Sessions :
               \/ cookie'[s] \in {cookie[s], NoCookie}
               \/ cookie'[s] = Carried(q) /\ request[q].pc # "idle"
      BY <3>1, EndStep DEF Inv
    <3> QED
      BY <3>1, <3>2 DEF Inv, AccessIsConsistent, Pages, NoPage, Handled
  <2> QED
    BY <2>1, <2>2
<1>2. page[q].step = "link" => page[q].user \in accounts
  BY PageFields DEF Inv, AccessIsConsistent, TargetsAgree, RowsAgree
<1>3. \A p \in Requests : page'[p] # NoPage => request'[p].pc = "serving"
  BY <1>1 DEF Inv, AccessIsConsistent
<1>4. RowsAgree'
  BY <1>1, <1>2 DEF Inv, AccessIsConsistent, RowsAgree, Carried
<1>5. TargetsAgree'
  BY <1>1 DEF Inv, AccessIsConsistent, TargetsAgree, NoPage, Handled
<1>6. AuthorityIsHeld'
  BY <1>1 DEF Inv, AccessIsConsistent, AuthorityIsHeld, Carried, NoPage, Handled
<1> QED
  BY <1>1, <1>3, <1>4, <1>5, <1>6 DEF AccessIsConsistent

\* A request that is sent, or at work on its cookie, was not served, and carries a
\* cookie of somebody with a row.
LEMMA RequestMoves ==
  ASSUME Inv, NEW q \in Requests,
         \/ \E s \in Sessions : Send(q, s) \/ \E u \in Users : SignIn(q, s, u)
         \/ Admit(q) \/ Validate(q) \/ Renew(q)
  PROVE  /\ request[q].pc # "serving" /\ UNCHANGED <<role, cookie>>
         /\ assigned[request'[q].cookie.user] # NoRole
         /\ \A p \in Requests : p # q => request'[p] = request[p]
<1>0. TypeOK /\ CookiesAreKnown /\ RowsAgree
  BY DEF Inv, AccessIsConsistent
<1>1. CASE \E s \in Sessions : Send(q, s)
  <2>1. PICK s \in Sessions : Send(q, s)
    BY <1>1
  <2>2. request'[q].cookie.user = cookie[s].user /\ \A p \in Requests : p # q => request'[p] = request[p]
    BY <1>0, <2>1, SendStep
  <2>3. /\ cookie[s] # NoCookie /\ request[q].pc # "serving"
        /\ UNCHANGED <<role, cookie>>
    BY <2>1 DEF Send
  <2> QED
    BY <1>0, <2>2, <2>3 DEF RowsAgree
<1>2. CASE \E s \in Sessions, u \in Users : SignIn(q, s, u)
  <2>1. /\ request'[q].cookie.user \in Users
        /\ role[request'[q].cookie.user] = request'[q].cookie.role
        /\ request'[q].cookie.role \in Roles
        /\ \A p \in Requests : p # q => request'[p] = request[p]
    BY <1>0, <1>2, CookieSteps DEF SignIn, Cookies
  <2>2. request[q].pc # "serving" /\ UNCHANGED <<role, cookie>>
    BY <1>2 DEF SignIn
  <2> QED
    BY <1>0, <2>1, <2>2, AccessAssumption DEF RowsAgree
<1>3. CASE Admit(q) \/ Validate(q) \/ Renew(q)
  <2>1. /\ request[q].pc \in {"login", "validate", "renew"} /\ UNCHANGED <<role, cookie>>
    BY <1>3 DEF Admit, Validate, Renew
  <2>2. /\ request'[q].cookie.user = Carried(q).user
        /\ \A p \in Requests : p # q => request'[p] = request[p]
    BY <1>0, <1>3, <2>1, CookieSteps
  <2> QED
    BY <1>0, <2>1, <2>2 DEF RowsAgree
<1> QED
  BY <1>1, <1>2, <1>3

\* The rest of the portal does not disturb the page: a request that a handler
\* serves is in none of its actions, and whoever signs in has a role.
LEMMA ElsewhereConsistent ==
  ASSUME Inv, Elsewhere
  PROVE  AccessIsConsistent'
<1> DEFINE PortalStep ==
      /\ UNCHANGED <<role, accounts, assigned, linked, page>>
      /\ \A p \in Requests : request[p].pc = "serving" => request'[p] = request[p]
      /\ \A p \in Requests :
           request'[p].pc # "idle" =>
             request'[p] = request[p] \/ assigned[request'[p].cookie.user] # NoRole
      /\ \A s \in Sessions : cookie'[s] \in {cookie[s], NoCookie}
<1>1. PortalStep
  <2>1. ASSUME NEW q \in Requests,
               \/ \E s \in Sessions : Send(q, s) \/ \E u \in Users : SignIn(q, s, u)
               \/ Admit(q) \/ Validate(q) \/ Renew(q)
        PROVE  PortalStep
    BY <2>1, RequestMoves DEF Elsewhere
  <2>2. ASSUME NEW q \in Requests, Reject(q) PROVE PortalStep
    BY <2>2, EndStep DEF Elsewhere, Reject, Inv, TypeOK
  <2>3. CASE (\E s \in Sessions : SignOut(s)) \/ Tick
    BY <2>3 DEF Elsewhere, SignOut, Tick, Inv, TypeOK
  <2> QED
    BY <2>1, <2>2, <2>3 DEF Elsewhere
<1>2. page \in [Requests -> Pages] /\ \A q \in Requests : page[q] # NoPage => request[q].pc = "serving"
  BY DEF Inv, AccessIsConsistent
<1>3. \A q \in Requests : page'[q] # NoPage => request'[q].pc = "serving" /\ request'[q] = request[q]
  BY <1>1, <1>2
<1>4. \A q \in Requests : page'[q].step \in {"update", "insert", "link"} => request'[q] = request[q]
  BY <1>1, <1>3, PageFields
<1>5. RowsAgree'
  BY <1>1 DEF Inv, AccessIsConsistent, RowsAgree, Carried
<1>6. TargetsAgree'
  BY <1>1 DEF Inv, AccessIsConsistent, TargetsAgree
<1>7. AuthorityIsHeld'
  BY <1>1, <1>4 DEF Inv, AccessIsConsistent, AuthorityIsHeld, Carried
<1> QED
  BY <1>1, <1>2, <1>3, <1>5, <1>6, <1>7 DEF AccessIsConsistent

\* Every step keeps the invariant.
LEMMA StepInv == ASSUME Inv, [AdminNext]_adminVars PROVE Inv'
<1>1. TypeOK' /\ CookiesAreKnown'
  BY StepImplements, StepTypes, StepCookies DEF Inv
<1>2. AccessIsConsistent'
  <2>1. CASE Elsewhere
    BY <2>1, ElsewhereConsistent
  <2>2. ASSUME NEW q \in Requests, NEW u \in Users, NEW given \in Roles,
               SignUp(q, u, given) \/ \E active \in BOOLEAN : PostUpdate(q, u, given, active)
        PROVE  AccessIsConsistent'
    BY <2>2, SignUpConsistent, PostUpdateConsistent
  <2>3. ASSUME NEW q \in Requests, Update(q) \/ Insert(q) \/ Link(q) \/ Leave(q)
        PROVE  AccessIsConsistent'
    BY <2>3, UpdateConsistent, InsertConsistent, EndConsistent
  <2>4. CASE UNCHANGED adminVars
    BY <2>4 DEF adminVars, vars, Inv, AccessIsConsistent, RowsAgree, TargetsAgree, AuthorityIsHeld, Carried
  <2> QED
    BY <2>1, <2>2, <2>3, <2>4 DEF AdminNext
<1> QED
  BY <1>1, <1>2 DEF Inv

LEMMA InvHolds == AdminSpec => []Inv
<1>1. Inv /\ [AdminNext]_adminVars => Inv'
  BY StepInv
<1> QED
  BY AdminInitInv, <1>1, PTL DEF AdminSpec

\* The rows, the accounts and the handlers of the users page agree, wherever one
\* of them ends (OnPostAsync, OnPostUpdateAsync, AddAsync).
THEOREM AccessConsistent == AdminSpec => []AccessIsConsistent
<1>1. Inv => AccessIsConsistent
  BY DEF Inv
<1> QED
  BY InvHolds, <1>1, PTL

\* The users page does to the roles what UserAccess permits, so that what is
\* proved of its cookies holds with the page at work (AddAsync, UpdateAsync).
THEOREM PageImplementsAccess == AdminSpec => ImplementsUserAccess
<1>1. AdminInit => Init
  BY DEF AdminInit
<1>2. Inv /\ [AdminNext]_adminVars => [Next]_vars
  BY StepImplements
<1> QED
  BY InvHolds, <1>1, <1>2, PTL DEF AdminSpec, ImplementsUserAccess, Spec

\* With the users page at work, too, a lost role is no longer served after the
\* five minutes and the time of a query (OnValidatePrincipal, UpdateAsync).
THEOREM PageRolesExpire == AdminSpec => StaleRolesExpire
  BY PageImplementsAccess, RolesExpire, PTL DEF ImplementsUserAccess

\* Nobody's access changes but by the request of somebody else who may give it,
\* or who was overtaken after he had checked that he may (OnPostUpdateAsync).
THEOREM GrantsHaveAuthority == AdminSpec => AccessIsGranted
<1>1. ASSUME Inv, [AdminNext]_adminVars, NEW u \in Users, assigned'[u] # assigned[u] \/ role'[u] # role[u]
      PROVE  \E q \in Requests : HasAuthority(q, u)
  <2>1. PICK q \in Requests : Update(q) \/ Insert(q)
    <3>1. CASE Elsewhere
      BY <1>1, <3>1 DEF Elsewhere, Send, SignIn, Admit, Validate, Renew, Reject, SignOut, Tick
    <3>2. ASSUME NEW q \in Requests, NEW v \in Users, NEW given \in Roles,
                 SignUp(q, v, given) \/ \E active \in BOOLEAN : PostUpdate(q, v, given, active)
          PROVE  FALSE
      BY <1>1, <3>2 DEF SignUp, PostUpdate, vars
    <3>3. ASSUME NEW q \in Requests, Link(q) \/ Leave(q) PROVE FALSE
      BY <1>1, <3>3 DEF Link, Leave, Answer, Abort, vars
    <3>4. CASE UNCHANGED adminVars
      BY <1>1, <3>4 DEF adminVars, vars
    <3> QED
      BY <1>1, <3>1, <3>2, <3>3, <3>4 DEF AdminNext
  <2>2. /\ page[q].step \in {"update", "insert"} /\ request[q].pc = "serving"
        /\ page[q].user \in Users /\ page[q].given \in Assignable(Carried(q).role)
    BY <1>1, <2>1, PageFields DEF Update, Insert, Inv, AccessIsConsistent, AuthorityIsHeld
  <2>3. page[q].user = u /\ assigned'[u] = page[q].given
    <3>1. /\ assigned \in [Users -> Roles \cup {NoRole}]
          /\ role \in [Users -> Roles \cup {NoRole}]
      BY <1>1 DEF Inv, TypeOK, AccessIsConsistent, RowsAgree
    <3>2. /\ assigned' = [assigned EXCEPT ![page[q].user] = page[q].given]
          /\ \E r \in Roles \cup {NoRole} : role' = [role EXCEPT ![page[q].user] = r]
      BY <1>1, <2>1, PageFields DEF Update, Insert, Grant
    <3> QED
      BY <1>1, <2>2, <3>1, <3>2
  <2>4. Carried(q).user # u
    <3>1. CASE Update(q)
      <4>1. page[q].step = "update"
        BY <3>1 DEF Update
      <4> QED
        BY <1>1, <2>3, <4>1 DEF Inv, AccessIsConsistent, AuthorityIsHeld
    <3>2. CASE Insert(q)
      <4>1. page[q].step = "insert"
        BY <3>2 DEF Insert
      <4>2. assigned[u] = NoRole
        BY <1>1, <2>3, <4>1 DEF Inv, AccessIsConsistent, TargetsAgree
      <4>3. assigned[Carried(q).user] # NoRole
        BY <1>1, <2>2 DEF Inv, AccessIsConsistent, RowsAgree
      <4> QED
        BY <4>2, <4>3
    <3> QED
      BY <2>1, <3>1, <3>2
  <2>5. \/ Carried(q).role = "Administrator"
        \/ Carried(q).role = "Manager" /\ assigned'[u] \notin High
    BY <2>2, <2>3 DEF Assignable
  <2>6. \/ Carried(q).role = "Administrator" \/ assigned[u] \notin High
        \/ page[q].step = "update" /\ page[q].overtaken
    <3>1. CASE Update(q)
      <4>1. page[q].step = "update"
        BY <3>1 DEF Update
      <4> QED
        BY <1>1, <2>3, <4>1 DEF Inv, AccessIsConsistent, AuthorityIsHeld
    <3>2. CASE Insert(q)
      <4>1. page[q].step = "insert"
        BY <3>2 DEF Insert
      <4>2. assigned[u] = NoRole
        BY <1>1, <2>3, <4>1 DEF Inv, AccessIsConsistent, TargetsAgree
      <4> QED
        BY <4>2, RolesAssumption DEF High, RoleNames
    <3> QED
      BY <2>1, <3>1, <3>2
  <2> QED
    BY <2>2, <2>3, <2>4, <2>5, <2>6 DEF HasAuthority
<1>2. Inv /\ [AdminNext]_adminVars =>
        [\A u \in Users : assigned'[u] # assigned[u] \/ (role'[u] # role[u])
           => \E q \in Requests : HasAuthority(q, u)]_adminVars
  BY <1>1
<1> QED
  BY InvHolds, <1>2, PTL DEF AdminSpec, AccessIsGranted
===============================================================================
