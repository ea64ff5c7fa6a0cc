------------------------------- MODULE Operations -------------------------------
(***************************************************************************)
(* PostgresOperationsStore, PostgresCustomerOrderStore, PostgresTeamStore  *)
(* and PostgresFinanceStore: work orders, their history, customer orders   *)
(* that open them, presence and time entries of the workers, bookings.     *)
(* Requests of the portal run at the same time; only Receive is a          *)
(* transaction, whose inserts are drafts that nobody else sees before its  *)
(* commit, the other operations commit each of their statements.           *)
(* Every statement takes a connection of the pool of the data source, and  *)
(* two operations keep theirs while they wait for a second one.            *)
(***************************************************************************)
EXTENDS Naturals, Sequences, FiniteSets

CONSTANTS
  Orders,       \* work orders that can be opened
  Workers,      \* employees
  Clients,      \* requests that are served at the same time
  Connections,  \* size of the pool
  MaxRequests,  \* bound on requests
  MaxFaults     \* bound on lost connections

ASSUME OperationsAssumption ==
  /\ IsFiniteSet(Clients) /\ Connections \in Nat /\ MaxRequests \in Nat /\ MaxFaults \in Nat

Statuses == {"New", "Assigned", "InProgress", "WaitingParts", "Completed"}

\* The check constraints of work_orders.status and employee_time_entries.entry_source
LegalStatuses == {"new", "assigned", "in_progress", "waiting_parts", "completed", "cancelled"}
LegalSources == {"login", "logout", "manual", "manager"}

VARIABLES
  orders,    \* work order -> its status, "none" before it is inserted, and its worker
  events,    \* work order -> what its events say, in the order of their insertion
  sold,      \* work orders that a customer order refers to
  presence,  \* worker -> presence
  before,    \* <<v, w>>: the presence of v has lasted longer (status_started_at)
  clocked,   \* workers with an open time entry
  booked,    \* financial transactions
  client,    \* request -> its next statement and the values it has
  drafts,    \* request -> the tables its transaction has inserted a row into
  free,      \* connections of the pool that nobody has
  starved,   \* a request has waited for a connection in vain
  requests,  \* requests so far
  faults     \* faults so far

team == <<presence, before, clocked>>
data == <<orders, events, sold, team, booked>>
vars == <<data, client, drafts, free, starved, requests, faults>>

Nobody == "nobody"
Idle == [pc |-> "idle", order |-> "none", value |-> "none"]
Words == Statuses \cup {"created", "created_from_order"}

\* The steps of the transaction of Receive, and what it inserts.
Opening == {"open", "audit", "order", "commit"}
Inserts == {"work_orders", "work_order_events", "customer_orders"}

\* The requests that keep a connection between two statements: the readers of
\* CreateWorkOrder and CreateTransaction, the transaction of Receive.
Keeping == {"created", "accounts"} \cup Opening

ClientStates ==
  [pc: {"idle", "update", "event", "presence", "rejected"} \cup Keeping,
   order: Orders \cup Workers \cup {"none"},
   value: Words \cup Workers \cup {"none", Nobody, "working", "off_duty"}]

TypeOK ==
  /\ orders \in [Orders -> [status: LegalStatuses \cup {"none"}, worker: Workers \cup {Nobody}]]
  /\ events \in [Orders -> Seq(Words)]
  /\ sold \subseteq Orders /\ clocked \subseteq Workers
  /\ presence \in [Workers -> {"working", "off_duty"}]
  /\ before \subseteq Workers \X Workers
  /\ booked \in Nat
  /\ client \in [Clients -> ClientStates] /\ drafts \in [Clients -> SUBSET Inserts]
  /\ free \in 0..Connections /\ starved \in BOOLEAN
  /\ requests \in Nat /\ faults \in Nat

\* The demo seed: everybody has an open time entry, nobody an order.
Init ==
  /\ orders = [o \in Orders |-> [status |-> "none", worker |-> Nobody]]
  /\ events = [o \in Orders |-> <<>>]
  /\ sold = {} /\ clocked = Workers
  /\ presence = [w \in Workers |-> "off_duty"] /\ before = {}
  /\ booked = 0
  /\ client = [c \in Clients |-> Idle] /\ drafts = [c \in Clients |-> {}]
  /\ free = Connections /\ starved = FALSE
  /\ requests = 0 /\ faults = 0

-------------------------------------------------------------------------------
\* status.ToString().ToLowerInvariant(), with one exception
ToDatabase(status) ==
  [New |-> "new", Assigned |-> "assigned", InProgress |-> "inprogress",
   WaitingParts |-> "waiting_parts", Completed |-> "completed"][status]

\* A request that gets its first connection; one that does not has no effect.
Request(c, next) ==
  /\ client[c].pc = "idle" /\ requests < MaxRequests /\ free > 0
  /\ requests' = requests + 1
  /\ client' = [client EXCEPT ![c] = next]
  /\ free' = IF next.pc \in Keeping THEN free - 1 ELSE free
  /\ UNCHANGED <<drafts, starved, faults>>

\* A request continues; a statement takes a connection and gives it back.
At(c, pc) == client[c].pc = pc /\ UNCHANGED <<starved, requests, faults>>
Statement(c, pc) == At(c, pc) /\ free > 0

Goto(c, pc) == client' = [client EXCEPT ![c].pc = pc] /\ UNCHANGED <<drafts, free>>

\* The request is over, and disposes of the reader or transaction it has.
Answer(c) ==
  /\ client' = [client EXCEPT ![c] = Idle]
  /\ drafts' = [drafts EXCEPT ![c] = {}]
  /\ free' = IF client[c].pc \in Keeping THEN free + 1 ELSE free

Exists(o) == orders[o].status # "none"
Unused(o) == ~ Exists(o) /\ \A c \in Clients : client[c].order # o

\* CreateWorkOrder: the insert, whose reader stays open, and the event on a second
\* connection.
CreateWorkOrder(c, o, w) ==
  /\ Unused(o)
  /\ Request(c, [pc |-> "created", order |-> o, value |-> "created"])
  /\ orders' = [orders EXCEPT ![o] = [status |-> "new", worker |-> w]]
  /\ UNCHANGED <<events, sold, team, booked>>

\* The page lets managers set any status and a technician that of his orders.
PostStatus(c, o, status, user) ==
  /\ Exists(o)
  /\ user = "manager" \/ orders[o].worker = user
  /\ Request(c, [pc |-> "update", order |-> o, value |-> status])
  /\ UNCHANGED data

\* Faulty variant: the table has no check on the status.
UpdateUnchecked(c) ==
  /\ Statement(c, "update")
  /\ orders' = [orders EXCEPT ![client[c].order].status = ToDatabase(client[c].value)]
  /\ Goto(c, "event")
  /\ UNCHANGED <<events, sold, team, booked>>

\* Faulty variant: the refusal is caught, and the event follows all the same.
UpdateSwallowed(c) ==
  /\ Statement(c, "update")
  /\ LET status == ToDatabase(client[c].value)
     IN  orders' = IF status \in LegalStatuses
                   THEN [orders EXCEPT ![client[c].order].status = status] ELSE orders
  /\ Goto(c, "event")
  /\ UNCHANGED <<events, sold, team, booked>>

\* UpdateWorkOrderStatus: the update, and the event as a statement of its own.
UpdateWorkOrderStatus(c) ==
  /\ Statement(c, "update")
  /\ LET status == ToDatabase(client[c].value)
     IN  IF status \in LegalStatuses
         THEN orders' = [orders EXCEPT ![client[c].order].status = status] /\ Goto(c, "event")
         ELSE UNCHANGED orders /\ Goto(c, "rejected")
  /\ UNCHANGED <<events, sold, team, booked>>

InsertEvent(c) ==
  /\ Statement(c, "event") \/ Statement(c, "created")
  /\ events' = [events EXCEPT ![client[c].order] = Append(@, client[c].value)]
  /\ Answer(c)
  /\ UNCHANGED <<orders, sold, team, booked>>

\* FindAvailableWorker: the one whose presence has lasted longest.
FindAvailableWorker(w) ==
  LET available == {v \in Workers : presence[v] = "working"}
  IN  \/ w = Nobody /\ available = {}
      \/ w \in available /\ \A v \in available : <<v, w>> \notin before

\* Receive: the transaction reads a worker ...
Receive(c, o, w) ==
  /\ Unused(o)
  /\ FindAvailableWorker(w)
  /\ Request(c, [pc |-> "open", order |-> o, value |-> w])
  /\ UNCHANGED data

\* ... inserts the work order, its event and the customer order ...
Insert(c, pc, table, next) ==
  /\ At(c, pc)
  /\ drafts' = [drafts EXCEPT ![c] = @ \cup {table}]
  /\ client' = [client EXCEPT ![c].pc = next]
  /\ UNCHANGED <<data, free>>

OpenWorkOrder(c) == Insert(c, "open", "work_orders", "audit")

\* What the transaction has inserted becomes visible.
Publish(c) ==
  LET o == client[c].order  draft == drafts[c] IN
  /\ orders' = IF "work_orders" \in draft
               THEN [orders EXCEPT ![o] = [status |-> "assigned", worker |-> client[c].value]]
               ELSE orders
  /\ events' = IF "work_order_events" \in draft
               THEN [events EXCEPT ![o] = Append(@, "created_from_order")] ELSE events
  /\ sold' = IF "customer_orders" \in draft THEN sold \cup {o} ELSE sold
  /\ UNCHANGED <<team, booked>>

\* Faulty variant: the work order is committed before its event is inserted.
AuditAfterCommit(c) ==
  /\ At(c, "audit")
  /\ Publish(c)
  /\ drafts' = [drafts EXCEPT ![c] = {"work_order_events"}]
  /\ client' = [client EXCEPT ![c].pc = "order"]
  /\ UNCHANGED free

AuditOpening(c) == Insert(c, "audit", "work_order_events", "order")
InsertOrder(c) == Insert(c, "order", "customer_orders", "commit")

\* ... and commits.
CommitOrder(c) ==
  /\ At(c, "commit")
  /\ Publish(c)
  /\ Answer(c)

\* StartWork: a time entry of source 'self_service' unless one is open.
StartWork(c, w) ==
  /\ Request(c, [pc |-> IF w \in clocked \/ "self_service" \in LegalSources
                        THEN "presence" ELSE "rejected",
                 order |-> w, value |-> "working"])
  /\ clocked' = IF "self_service" \in LegalSources THEN clocked \cup {w} ELSE clocked
  /\ UNCHANGED <<orders, events, sold, presence, before, booked>>

EndWork(c, w) ==
  /\ Request(c, [pc |-> "presence", order |-> w, value |-> "off_duty"])
  /\ clocked' = clocked \ {w}
  /\ UNCHANGED <<orders, events, sold, presence, before, booked>>

\* UpdateStatus, the second statement of both and an operation of the team page.
UpdateStatus(c) ==
  LET w == client[c].order IN
  /\ Statement(c, "presence")
  /\ presence' = [presence EXCEPT ![w] = client[c].value]
  /\ before' = {pair \in before : w \notin {pair[1], pair[2]}} \cup ((Workers \ {w}) \X {w})
  /\ Answer(c)
  /\ UNCHANGED <<orders, events, sold, clocked, booked>>

PostPresence(c, w, value) ==
  /\ Request(c, [pc |-> "presence", order |-> w, value |-> value])
  /\ UNCHANGED data

\* CreateTransaction: the insert, whose reader stays open ...
CreateTransaction(c) ==
  /\ Request(c, [pc |-> "accounts", order |-> "none", value |-> "none"])
  /\ booked' = booked + 1
  /\ UNCHANGED <<orders, events, sold, team>>

\* ... and ListAccounts, for the name of its account, on a second connection.
ListAccounts(c) ==
  /\ Statement(c, "accounts")
  /\ Answer(c)
  /\ UNCHANGED data

\* The exception of the database, which no page catches, is answered with 500.
Rejected(c) ==
  /\ At(c, "rejected")
  /\ Answer(c)
  /\ UNCHANGED data

\* Faulty variant: a reader that an exception leaves behind is not disposed of.
DisconnectLeaks(c) ==
  /\ client[c].pc \notin {"idle", "rejected"}
  /\ faults < MaxFaults /\ faults' = faults + 1
  /\ client' = [client EXCEPT ![c] = Idle]
  /\ drafts' = [drafts EXCEPT ![c] = {}]
  /\ UNCHANGED <<data, free, starved, requests>>

\* The connection breaks before the next statement, and the request fails.
Disconnect(c) ==
  /\ client[c].pc \notin {"idle", "rejected"}
  /\ faults < MaxFaults /\ faults' = faults + 1
  /\ Answer(c)
  /\ UNCHANGED <<data, starved, requests>>

\* Faulty variant: nothing ends the wait for a connection.
WaitForever(c) == FALSE

\* A wait for a connection lasts for the Timeout of the connection string; the
\* exception ends the request with what it has committed.
PoolTimeout(c) ==
  /\ client[c].pc \in {"update", "event", "created", "presence", "accounts"}
  /\ free = 0
  /\ starved' = TRUE
  /\ Answer(c)
  /\ UNCHANGED <<data, requests, faults>>

\* What a request does after its first statement, without the lost connections
Proceed(c) ==
  \/ UpdateWorkOrderStatus(c) \/ InsertEvent(c) \/ UpdateStatus(c)
  \/ OpenWorkOrder(c) \/ AuditOpening(c) \/ InsertOrder(c) \/ CommitOrder(c)
  \/ ListAccounts(c) \/ Rejected(c) \/ PoolTimeout(c)

Next ==
  \E c \in Clients :
    \/ \E o \in Orders :
         \/ \E w \in Workers : CreateWorkOrder(c, o, w)
         \/ \E s \in Statuses, u \in Workers \cup {"manager"} : PostStatus(c, o, s, u)
         \/ \E w \in Workers \cup {Nobody} : Receive(c, o, w)
    \/ \E w \in Workers :
         StartWork(c, w) \/ EndWork(c, w) \/ \E p \in {"working", "off_duty"} : PostPresence(c, w, p)
    \/ CreateTransaction(c)
    \/ Proceed(c) \/ Disconnect(c)

\* The database answers, and a wait for a connection ends after its timeout.
Fairness == \A c \in Clients : WF_vars(Proceed(c))

Spec == Init /\ [][Next]_vars
LiveSpec == Spec /\ Fairness

-------------------------------------------------------------------------------
(* What a request has at its next statement, and what nobody else has then *)

Said(o) == {events[o][k] : k \in 1..Len(events[o])}
Writing(o, pc) == {c \in Clients : client[c].pc = pc /\ client[c].order = o}

\* An order that is being opened is nobody else's and has left no trace.
OpensAlone ==
  \A c \in Clients :
    client[c].pc \in Opening =>
      LET o == client[c].order IN
      /\ o \in Orders /\ client[c].value \in Workers \cup {Nobody}
      /\ ~ Exists(o)
      /\ {d \in Clients : client[d].pc \in Opening /\ client[d].order = o} = {c}

\* What the transaction of Receive has inserted at each of its steps.
Inserted(pc) ==
  (IF pc \in {"audit", "order", "commit"} THEN {"work_orders"} ELSE {})
    \cup (IF pc \in {"order", "commit"} THEN {"work_order_events"} ELSE {})
    \cup (IF pc = "commit" THEN {"customer_orders"} ELSE {})
Drafted == \A c \in Clients : drafts[c] = Inserted(client[c].pc)

Prepared ==
  \A c \in Clients :
    LET o == client[c].order  value == client[c].value IN
    /\ client[c].pc \in {"created", "update", "event"} => o \in Orders /\ Exists(o)
    /\ client[c].pc = "created" => value = "created"
    /\ client[c].pc \in {"update", "event"} => value \in Statuses
    /\ client[c].pc = "event" => ToDatabase(value) \in LegalStatuses
    /\ client[c].pc = "presence" => o \in Workers /\ value \in {"working", "off_duty"}

\* What an order's history lacks is on its way, unless a connection was missing.
IsWritten(o) ==
  /\ ~ Exists(o) => events[o] = <<>>
  /\ \A w \in Said(o) \cap Statuses : ToDatabase(w) \in LegalStatuses
  /\ Exists(o) /\ ~ starved /\ faults = 0 =>
       /\ Said(o) \cap {"created", "created_from_order"} # {} \/ Writing(o, "created") # {}
       /\ \/ orders[o].status \in {"new", "assigned"}
          \/ \E w \in Said(o) \cap Statuses : orders[o].status = ToDatabase(w)
          \/ \E c \in Writing(o, "event") : orders[o].status = ToDatabase(client[c].value)

HistoryIsWritten == \A o \in Orders : IsWritten(o)

\* What a customer order says of its work order and the reverse.
IsOpened(o) ==
  /\ o \in sold => Exists(o) /\ events[o] # <<>> /\ events[o][1] = "created_from_order"
  /\ "created_from_order" \in Said(o) => o \in sold

-------------------------------------------------------------------------------
(* Properties *)

\* A customer order is never without its work order, whose history begins with
\* the event that the order opened it, and no history has that event without the
\* customer order, whatever breaks between the inserts and whoever updates the
\* work order as soon as it is there (Receive).
OrderIsOpened == \A o \in Orders : IsOpened(o)

\* No connection is lost: those that no request keeps are in the pool, however
\* the requests end (CreateWorkOrder, CreateTransaction, Receive).
PoolConserved == free + Cardinality({c \in Clients : client[c].pc \in Keeping}) = Connections

\* The history of a work order reports no status that the table refused, and
\* unless a connection was missing or lost, a work order nobody is writing has
\* its creation and its status in its history, however the requests overlap.
HistoryIsTrue ==
  \A o \in Orders :
    /\ \A w \in Said(o) \cap Statuses : ToDatabase(w) \in LegalStatuses
    /\ Exists(o) /\ ~ starved /\ faults = 0 /\ (\A c \in Clients : client[c].order # o) =>
         /\ Said(o) \cap {"created", "created_from_order"} # {}
         /\ orders[o].status \in {"new", "assigned"} \cup {ToDatabase(w) : w \in Said(o) \cap Statuses}

\* The inductive invariant
IInv ==
  /\ TypeOK /\ PoolConserved
  /\ OpensAlone /\ Drafted /\ Prepared /\ OrderIsOpened
  /\ HistoryIsWritten

\* Requests that keep a connection and wait for a second one do not wait for each
\* other for ever: every request is answered.
EventuallyAnswered == \A c \in Clients : (client[c].pc # "idle") ~> (client[c].pc = "idle")
===============================================================================
