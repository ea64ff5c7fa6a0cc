------------------------------- MODULE Inventory -------------------------------
(***************************************************************************)
(* PostgresInventoryStore: RecordMovement and Transfer, each a transaction *)
(* of several statements, run by concurrent requests of the portal.  Rows  *)
(* are locked by SELECT FOR UPDATE, UPDATE and the upsert, up to the end   *)
(* of the transaction.  A row of inventory_stock is a warehouse and an     *)
(* item.  Stored quantities are in thousandths, as numeric(14,3) has them. *)
(* Users enter any decimal from 0.001: in quarters of a thousandth, which  *)
(* tell all that the rounding tells apart (less than half, half, more).    *)
(***************************************************************************)
EXTENDS Integers

CONSTANTS
  Warehouses, Items,
  Active,       \* warehouses with is_active = true
  Quantities,   \* quantities users enter, in quarters of a thousandth
  Opening,      \* row -> quantity of the seeded stock, 0 if there is no row
  Reserved,     \* row -> reserved_quantity, which no operation changes
  Ops,          \* requests that are served at the same time
  NoRequest,    \* what an idle operation was asked
  MaxRequests,  \* bound on requests
  MaxFaults     \* bound on lost connections

Rows == Warehouses \X Items
Types == {"receipt", "issue", "transfer_out", "transfer_in"}
Kinds == {"receipt", "issue", "transfer"}
Nobody == "nobody"

Requests ==
  {q \in [kind: Kinds, row: Rows, quantity: Quantities, to: Warehouses] :
     q.kind # "transfer" => q.to = q.row[1]}

ASSUME InventoryAssumption ==
  /\ Quantities \subseteq {q \in Nat : q >= 4}
  /\ Opening \in [Rows -> Nat] /\ Reserved \in [Rows -> Nat]
  /\ \A r \in Rows : Opening[r] >= Reserved[r]
  /\ Nobody \notin Ops /\ NoRequest \notin Requests
  /\ MaxRequests \in Nat /\ MaxFaults \in Nat

VARIABLES
  stock,     \* row -> committed quantity
  present,   \* rows that exist
  total,     \* row -> movement type -> sum of the committed movements
  drift,     \* row -> committed issues and transfers from it that were entered
             \*        with half a thousandth at the end, for the properties
  held,      \* row -> operation whose transaction has it locked
  pc,        \* operation -> its next statement, or how it ended
  request,   \* operation -> what it was asked
  change,    \* operation -> row -> what its transaction adds to the quantity
  moves,     \* operation -> row -> type -> what its transaction records
  requests,  \* requests so far
  faults     \* faults so far

vars == <<stock, present, total, drift, held, pc, request, change, moves, requests, faults>>

Steps == {"idle", "read", "update", "upsert", "record", "commit", "rollback"}

NoChange == [r \in Rows |-> 0]
NoMoves == [r \in Rows |-> [t \in Types |-> 0]]

TypeOK ==
  /\ stock \in [Rows -> Int] /\ present \subseteq Rows
  /\ total \in [Rows -> [Types -> Nat]] /\ drift \in [Rows -> Nat]
  /\ held \in [Rows -> Ops \cup {Nobody}]
  /\ pc \in [Ops -> Steps] /\ request \in [Ops -> Requests \cup {NoRequest}]
  /\ change \in [Ops -> [Rows -> Int]]
  /\ moves \in [Ops -> [Rows -> [Types -> Nat]]]
  /\ requests \in Nat /\ faults \in Nat

Init ==
  /\ stock = Opening /\ present = {r \in Rows : Opening[r] > 0}
  /\ total = NoMoves /\ drift = NoChange
  /\ held = [r \in Rows |-> Nobody]
  /\ pc = [o \in Ops |-> "idle"]
  /\ request = [o \in Ops |-> NoRequest]
  /\ change = [o \in Ops |-> NoChange]
  /\ moves = [o \in Ops |-> NoMoves]
  /\ requests = 0 /\ faults = 0

-------------------------------------------------------------------------------
Row(o) == request[o].row
Destination(o) == <<request[o].to, Row(o)[2]>>
Quantity(o) == request[o].quantity
IsTransfer(o) == request[o].kind = "transfer"
Delta(o) == IF request[o].kind = "receipt" THEN Quantity(o) ELSE -Quantity(o)

\* A value that is stored as numeric(14,3): half a thousandth goes away from zero.
Rounded(x) == IF x < 0 THEN -((2 - x) \div 4) ELSE (x + 2) \div 4
Half(q) == q % 4 = 2

\* What the statements of a transaction write: a movement or a new row has the
\* rounded quantity, the row that is updated the rounded result of the update.
Booked(o) == Rounded(Quantity(o))
Updated(o) == Rounded(4 * stock[Row(o)] + Delta(o))
Noted(o) ==
  [r \in Rows |-> [t \in Types |->
     IF r = Row(o) /\ t = request[o].kind THEN Booked(o) ELSE 0]]
NotedTwice(o) ==
  [r \in Rows |-> [t \in Types |->
     IF <<r, t>> \in {<<Row(o), "transfer_out">>, <<Destination(o), "transfer_in">>}
     THEN Booked(o) ELSE 0]]

Goto(o, step) == pc' = [pc EXCEPT ![o] = step]

\* A statement that writes or locks a row waits for the transaction that has it.
CanLock(o, r) == held[r] \in {o, Nobody}
LockRow(o, r) == CanLock(o, r) /\ held' = [held EXCEPT ![r] = o]

\* The end of a transaction: its locks are released, its drafts are gone.
End(o) ==
  /\ held' = [r \in Rows |-> IF held[r] = o THEN Nobody ELSE held[r]]
  /\ Goto(o, "idle")
  /\ request' = [request EXCEPT ![o] = NoRequest]
  /\ change' = [change EXCEPT ![o] = NoChange]
  /\ moves' = [moves EXCEPT ![o] = NoMoves]

\* A user posts a movement or a transfer of a row on the page.
Begin(o, q) ==
  /\ pc[o] = "idle" /\ requests < MaxRequests
  /\ q.row \in present
  /\ request' = [request EXCEPT ![o] = q]
  /\ Goto(o, "read")
  /\ requests' = requests + 1
  /\ UNCHANGED <<stock, present, total, drift, held, change, moves, faults>>

\* What the code checks of the quantities it has read.
Allowed(o) ==
  /\ 4 * stock[Row(o)] + Delta(o) >= 4 * Reserved[Row(o)]
  /\ IsTransfer(o) => request[o].to # Row(o)[1] /\ request[o].to \in Active

AfterRead(o) ==
  IF ~ Allowed(o) THEN "rollback" ELSE IF IsTransfer(o) THEN "update" ELSE "record"

\* Faulty variant: the row is read without FOR UPDATE.
ReadUnlocked(o) ==
  /\ pc[o] = "read"
  /\ Goto(o, AfterRead(o))
  /\ UNCHANGED <<stock, present, total, drift, held, request, change, moves, requests, faults>>

\* SELECT ... FOR UPDATE of the row, and the checks that follow.
Read(o) ==
  /\ pc[o] = "read"
  /\ LockRow(o, Row(o))
  /\ Goto(o, AfterRead(o))
  /\ UNCHANGED <<stock, present, total, drift, request, change, moves, requests, faults>>

\* UPDATE inventory_stock SET quantity = quantity + ..., checked to be >= 0.
Update(o) ==
  /\ pc[o] = "update"
  /\ LockRow(o, Row(o))
  /\ change' = [change EXCEPT ![o][Row(o)] = Updated(o) - stock[Row(o)]]
  /\ Goto(o, IF Updated(o) < 0 THEN "rollback"
             ELSE IF IsTransfer(o) THEN "upsert" ELSE "commit")
  /\ UNCHANGED <<stock, present, total, drift, request, moves, requests, faults>>

\* Faulty variant: ON CONFLICT DO NOTHING.
InsertIfMissing(o) ==
  /\ pc[o] = "upsert"
  /\ LockRow(o, Destination(o))
  /\ change' = [change EXCEPT ![o][Destination(o)] = IF Destination(o) \in present THEN 0 ELSE Booked(o)]
  /\ Goto(o, "record")
  /\ UNCHANGED <<stock, present, total, drift, request, moves, requests, faults>>

\* INSERT ... ON CONFLICT DO UPDATE of the destination; a row that another
\* transaction is inserting is waited for like a locked one.
Upsert(o) ==
  /\ pc[o] = "upsert"
  /\ LockRow(o, Destination(o))
  /\ change' = [change EXCEPT ![o][Destination(o)] = Booked(o)]
  /\ Goto(o, "record")
  /\ UNCHANGED <<stock, present, total, drift, request, moves, requests, faults>>

\* Faulty variant: both movements of a transfer are of the source warehouse.
RecordAtSource(o) ==
  /\ pc[o] = "record"
  /\ moves' = [moves EXCEPT ![o] =
       IF IsTransfer(o)
       THEN [r \in Rows |-> [t \in Types |->
               IF r = Row(o) /\ t \in {"transfer_out", "transfer_in"} THEN Booked(o) ELSE 0]]
       ELSE Noted(o)]
  /\ Goto(o, IF IsTransfer(o) THEN "commit" ELSE "update")
  /\ UNCHANGED <<stock, present, total, drift, held, request, change, requests, faults>>

\* The movement is inserted before the update, those of a transfer after it.
Record(o) ==
  /\ pc[o] = "record"
  /\ moves' = [moves EXCEPT ![o] = IF IsTransfer(o) THEN NotedTwice(o) ELSE Noted(o)]
  /\ Goto(o, IF IsTransfer(o) THEN "commit" ELSE "update")
  /\ UNCHANGED <<stock, present, total, drift, held, request, change, requests, faults>>

Fault == faults < MaxFaults /\ faults' = faults + 1

\* The writes and the movements become visible together.
Commit(o) ==
  /\ pc[o] = "commit"
  /\ stock' = [r \in Rows |-> stock[r] + change[o][r]]
  /\ present' = IF IsTransfer(o) THEN present \cup {Destination(o)} ELSE present
  /\ total' = [r \in Rows |-> [t \in Types |-> total[r][t] + moves[o][r][t]]]
  /\ drift' = IF request[o].kind # "receipt" /\ Half(Quantity(o))
              THEN [drift EXCEPT ![Row(o)] = @ + 1] ELSE drift
  /\ End(o)
  /\ UNCHANGED <<requests, faults>>

\* Faulty variant: a refused request leaves its transaction open.
LeaveOpen(o) ==
  /\ pc[o] = "rollback"
  /\ Goto(o, "idle")
  /\ UNCHANGED <<stock, present, total, drift, held, request, change, moves, requests, faults>>

\* An exception disposes of the transaction.
Rollback(o) ==
  /\ pc[o] = "rollback"
  /\ End(o)
  /\ UNCHANGED <<stock, present, total, drift, requests, faults>>

\* The connection breaks in the middle of a transaction.
Disconnect(o) ==
  /\ pc[o] # "idle"
  /\ Fault
  /\ End(o)
  /\ UNCHANGED <<stock, present, total, drift, requests>>

\* The row whose lock an operation is about to take.
Wanted(o) == IF pc[o] = "upsert" THEN Destination(o) ELSE Row(o)
WaitsFor(o, p) == pc[o] \in {"read", "update", "upsert"} /\ o # p /\ held[Wanted(o)] = p

\* Postgres finds transactions that wait for each other and aborts one.
Deadlocked(o) ==
  \E ops \in SUBSET Ops : o \in ops /\ \A p \in ops : \E q \in ops : WaitsFor(p, q)
AbortDeadlocked(o) ==
  /\ Deadlocked(o)
  /\ End(o)
  /\ UNCHANGED <<stock, present, total, drift, requests, faults>>

Statement(o) ==
  Read(o) \/ Update(o) \/ Upsert(o) \/ Record(o) \/ Commit(o) \/ Rollback(o)

Next ==
  \E o \in Ops :
    \/ \E q \in Requests : Begin(o, q)
    \/ Statement(o) \/ Disconnect(o) \/ AbortDeadlocked(o)

Spec == Init /\ [][Next]_vars

\* Postgres grants row locks in turn and looks for deadlocks every second.
FairSpec ==
  Spec /\ \A o \in Ops : SF_vars(Statement(o)) /\ WF_vars(AbortDeadlocked(o))

-------------------------------------------------------------------------------
(* Properties *)

Working == {"update", "upsert", "record", "commit"}

\* The transaction of an operation that has read its row has it locked, and the
\* destination of a transfer once it has written it.
RowsLocked ==
  \A o \in Ops :
    /\ pc[o] # "idle" => request[o] \in Requests
    /\ pc[o] \in Working => held[Row(o)] = o
    /\ pc[o] \in {"record", "commit"} /\ IsTransfer(o) => held[Destination(o)] = o

\* So what it has checked stays true until it commits.
StillAllowed == \A o \in Ops : pc[o] \in Working => Allowed(o)

\* What a transaction has written at each of its statements: the result of an
\* update is rounded, so that half a thousandth is added, but not taken away.
Change(o) == IF request[o].kind = "receipt" THEN Booked(o) ELSE -((Quantity(o) + 1) \div 4)
Taken(o) == [r \in Rows |-> IF r = Row(o) THEN Change(o) ELSE 0]
Moved(o) ==
  [r \in Rows |-> IF r = Row(o) THEN Change(o) ELSE IF r = Destination(o) THEN Booked(o) ELSE 0]
DraftedBy(o) ==
  /\ pc[o] \in {"idle", "read"} => change[o] = NoChange /\ moves[o] = NoMoves
  /\ pc[o] \in Working /\ IsTransfer(o) =>
       /\ change[o] = IF pc[o] = "update" THEN NoChange
                      ELSE IF pc[o] = "upsert" THEN Taken(o) ELSE Moved(o)
       /\ moves[o] = IF pc[o] = "commit" THEN NotedTwice(o) ELSE NoMoves
  /\ pc[o] \in Working /\ ~ IsTransfer(o) =>
       /\ pc[o] # "upsert"
       /\ change[o] = IF pc[o] = "commit" THEN Taken(o) ELSE NoChange
       /\ moves[o] = IF pc[o] = "record" THEN NoMoves ELSE Noted(o)

Drafted == \A o \in Ops : DraftedBy(o)

\* No stock is below its reservation, so whatever is issued and transferred at
\* the same time, reserved goods are there.
ReservedCovered == \A r \in Rows : stock[r] >= Reserved[r]

\* The movements of a warehouse explain its stock, up to a thousandth for each
\* issue or transfer from it that was entered with half a thousandth at the end
\* (the stock is rounded after the subtraction, the movement by itself): no other
\* part of a movement is lost, doubled or recorded elsewhere.
LedgerBalances ==
  \A r \in Rows :
    stock[r] = Opening[r] + total[r]["receipt"] + total[r]["transfer_in"]
                          - total[r]["issue"] - total[r]["transfer_out"] + drift[r]

\* The inductive invariant
IInv == TypeOK /\ RowsLocked /\ StillAllowed /\ Drafted /\ ReservedCovered /\ LedgerBalances

\* Every request gets its answer, also when transfers wait for each other's rows.
EventuallyAnswered == \A o \in Ops : pc[o] # "idle" ~> pc[o] = "idle"

Ledger == INSTANCE StockLedger WITH Quantities <- {Rounded(q) : q \in Quantities}

\* Requests at the same time change stock and movements as one at a time would,
\* each with its rounded quantity, or one thousandth less off the stock.
RefinesLedger == Ledger!Spec
===============================================================================
