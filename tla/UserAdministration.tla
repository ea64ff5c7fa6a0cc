--------------------------- MODULE UserAdministration ---------------------------
(***************************************************************************)
(* The users page: administrators and managers create accounts and change  *)
(* the access of others.  The page checks what it read from the database,  *)
(* writes later, and creates an account in three places one after another. *)
(* UserAccess is what the page does to the roles: this module implements   *)
(* its Spec, where ChangeRole stands for the two writes of the page.       *)
(***************************************************************************)
EXTENDS UserAccess

RoleNames == {"Demo", "Viewer", "Technician", "Manager", "Administrator"}

ASSUME RolesAssumption == Roles \subseteq RoleNames /\ NoRole \notin RoleNames

VARIABLES
  accounts,  \* users that Supabase Auth knows
  assigned,  \* user -> role in his row of nexusops_user_roles, NoRole without a row
  linked,    \* users that an employee has as auth_user_id
  page       \* request -> what its handler does next

adminVars == <<vars, accounts, assigned, linked, page>>

\* overtaken, for the properties: the row was written after the page read it.
NoPage == [step |-> "none"]
Handled == [step |-> "done"]
Pages == [step: {"update"}, user: Users, role: Roles \cup {NoRole}, given: Roles, overtaken: BOOLEAN]
           \cup [step: {"insert", "link"}, user: Users, given: Roles]
           \cup {NoPage, Handled}

AdminInit ==
  /\ Init
  /\ assigned \in [Users -> Roles \cup {NoRole}]
  /\ \A u \in Users : role[u] \in {assigned[u], NoRole}
  /\ accounts = {u \in Users : assigned[u] # NoRole}
  /\ linked = {}
  /\ page = [q \in Requests |-> NoPage]

-------------------------------------------------------------------------------
\* NexusOpsRole.Manager and above
High == {"Manager", "Administrator"}

\* AssignableRoles: what a user of the page may give, nothing for anybody else
Assignable(r) ==
  {given \in Roles \ {"Demo"} : r = "Administrator" \/ (r = "Manager" /\ given \notin High)}

\* Whoever is served may give the role, and the handler goes on.
Begin(q, given, next) ==
  /\ request[q].pc = "serving" /\ page[q] = NoPage
  /\ given \in Assignable(Carried(q).role)
  /\ page' = [page EXCEPT ![q] = next]

\* The effective role of a user becomes r.
Grant(u, r) ==
  /\ role' = [role EXCEPT ![u] = r]
  /\ changed' = IF role[u] = r THEN changed ELSE [changed EXCEPT ![u] = now]
  /\ UNCHANGED <<now, cookie, request>>

\* Faulty variant: the rank of the user whose access changes is not checked.
PostUpdateUnranked(q, u, given, active) ==
  /\ Begin(q, given, [step |-> "update", user |-> u, given |-> given, overtaken |-> FALSE,
                      role |-> IF active THEN given ELSE NoRole])
  /\ assigned[u] # NoRole
  /\ Carried(q).user # u
  /\ UNCHANGED <<vars, accounts, assigned, linked>>

\* OnPostUpdateAsync lists the users and checks that the change is permitted ...
PostUpdate(q, u, given, active) ==
  /\ Begin(q, given, [step |-> "update", user |-> u, given |-> given, overtaken |-> FALSE,
                      role |-> IF active THEN given ELSE NoRole])
  /\ assigned[u] # NoRole
  /\ Carried(q).role # "Administrator" => assigned[u] \notin High
  /\ Carried(q).user # u
  /\ UNCHANGED <<vars, accounts, assigned, linked>>

\* Faulty variant: the update has no condition on the user.
UpdateAll(q) ==
  /\ page[q].step = "update"
  /\ assigned' = [u \in Users |-> IF assigned[u] = NoRole THEN NoRole ELSE page[q].given]
  /\ role' = [u \in Users |-> IF assigned[u] = NoRole THEN NoRole ELSE page[q].role]
  /\ changed' = [u \in Users |-> IF role[u] = role'[u] THEN changed[u] ELSE now]
  /\ page' = [page EXCEPT ![q] = Handled]
  /\ UNCHANGED <<now, cookie, request, accounts, linked>>

\* ... and UpdateAsync writes the row, whatever it is by now.
Update(q) ==
  LET u == page[q].user IN
  /\ page[q].step = "update"
  /\ assigned' = [assigned EXCEPT ![u] = page[q].given]
  /\ Grant(u, page[q].role)
  /\ page' = [p \in Requests |->
                IF p = q THEN Handled
                ELSE IF page[p].step = "update" /\ page[p].user = u
                     THEN [page[p] EXCEPT !.overtaken = TRUE] ELSE page[p]]
  /\ UNCHANGED <<accounts, linked>>

\* Faulty variant: an answer for an e-mail that has an account is taken for a new one.
SignUpAgain(q, u, given) ==
  /\ Begin(q, given, [step |-> "insert", user |-> u, given |-> given])
  /\ accounts' = accounts \cup {u}
  /\ UNCHANGED <<vars, assigned, linked>>

\* OnPostAsync: CreateUserAsync makes an account at Supabase, which refuses known
\* e-mails.  An answer without the account's id ends the request (Leave).
SignUp(q, u, given) ==
  /\ u \notin accounts
  /\ Begin(q, given, [step |-> "insert", user |-> u, given |-> given])
  /\ accounts' = accounts \cup {u}
  /\ UNCHANGED <<vars, assigned, linked>>

\* AddAsync inserts the row ...
Insert(q) ==
  LET u == page[q].user IN
  /\ page[q].step = "insert"
  /\ assigned' = [assigned EXCEPT ![u] = page[q].given]
  /\ Grant(u, page[q].given)
  /\ page' = [page EXCEPT ![q].step = "link"]
  /\ UNCHANGED <<accounts, linked>>

\* ... and links the employee with the same e-mail.
Link(q) ==
  /\ page[q].step = "link"
  /\ linked' = linked \cup {page[q].user}
  /\ page' = [page EXCEPT ![q] = Handled]
  /\ UNCHANGED <<vars, accounts, assigned>>

\* The handler has answered, maybe with an error of a query, or its client has left.
Leave(q) ==
  /\ Answer(q) \/ Abort(q)
  /\ page' = [page EXCEPT ![q] = NoPage]
  /\ UNCHANGED <<accounts, assigned, linked>>

\* The rest of the portal, which leaves the page alone
Elsewhere ==
  /\ \/ \E q \in Requests :
          \/ \E s \in Sessions : Send(q, s) \/ \E u \in Users : SignIn(q, s, u)
          \/ Admit(q) \/ Validate(q) \/ Renew(q) \/ Reject(q)
     \/ \E s \in Sessions : SignOut(s)
     \/ Tick
  /\ UNCHANGED <<accounts, assigned, linked, page>>

AdminNext ==
  \/ Elsewhere
  \/ \E q \in Requests :
       \/ \E u \in Users, given \in Roles :
            SignUp(q, u, given) \/ \E active \in BOOLEAN : PostUpdate(q, u, given, active)
       \/ Update(q) \/ Insert(q) \/ Link(q) \/ Leave(q)

AdminSpec == AdminInit /\ [][AdminNext]_adminVars

-------------------------------------------------------------------------------
(* Properties *)

\* What the page does to the roles is what UserAccess permits: one user's role
\* changes in a step, to one it gives, and his cookies are left alone.
ImplementsUserAccess == Spec

\* A user has the role of his row or none; rows, links and cookies are of accounts.
RowsAgree ==
  /\ assigned \in [Users -> Roles \cup {NoRole}]
  /\ \A u \in Users :
       /\ role[u] \in {assigned[u], NoRole}
       /\ assigned[u] # NoRole \/ u \in linked => u \in accounts
  /\ \A s \in Sessions : cookie[s] # NoCookie => assigned[cookie[s].user] # NoRole
  /\ \A q \in Requests : request[q].pc # "idle" => assigned[Carried(q).user] # NoRole

\* Whoever is being created is nobody else's new user and has no row, so that the
\* insert violates no constraint; who is changed or linked has one.
TargetsAgree ==
  \A q \in Requests :
    /\ page[q].step = "insert" =>
         /\ page[q].user \in accounts /\ assigned[page[q].user] = NoRole
         /\ \A p \in Requests : page[p].step = "insert" /\ page[p].user = page[q].user => p = q
    /\ page[q].step \in {"update", "link"} => assigned[page[q].user] # NoRole

\* What the page has checked still holds when it writes, but for the rank of the
\* user, if his row was written meanwhile.
AuthorityIsHeld ==
  \A q \in Requests :
    /\ page[q].step \in {"update", "insert"} => page[q].given \in Assignable(Carried(q).role)
    /\ page[q].step = "update" =>
         /\ page[q].role \in {page[q].given, NoRole} /\ Carried(q).user # page[q].user
         /\ Carried(q).role = "Administrator" \/ assigned[page[q].user] \notin High \/ page[q].overtaken

\* The rows, the accounts at the provider and the handlers in progress agree,
\* whatever the handlers of others write between their steps and wherever one
\* of them ends (OnPostAsync, OnPostUpdateAsync, AddAsync).
AccessIsConsistent ==
  /\ page \in [Requests -> Pages]
  /\ \A q \in Requests : page[q] # NoPage => request[q].pc = "serving"
  /\ RowsAgree /\ TargetsAgree /\ AuthorityIsHeld

\* What a write of the row of u needs: the request of somebody else who is served
\* as an administrator, or as a manager who gives a role below his own to a user
\* below himself, unless that user was promoted while the page was at work.
HasAuthority(q, u) ==
  LET c == Carried(q) IN
  /\ request[q].pc = "serving" /\ page[q].step \in {"update", "insert"}
  /\ page[q].user = u /\ c.user # u
  /\ \/ c.role = "Administrator"
     \/ /\ c.role = "Manager" /\ assigned'[u] \notin High
        /\ assigned[u] \notin High \/ (page[q].step = "update" /\ page[q].overtaken)

\* Access comes only from somebody who may give it, whatever the users page of
\* others does at the same time; nobody raises or changes his own.
AccessIsGranted ==
  [][\A u \in Users : assigned'[u] # assigned[u] \/ (role'[u] # role[u])
       => \E q \in Requests : HasAuthority(q, u)]_adminVars
===============================================================================
