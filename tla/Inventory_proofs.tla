---------------------------- MODULE Inventory_proofs ----------------------------
(***************************************************************************)
(* Proofs about Inventory, for any warehouses, items, quantities, requests *)
(* and faults.                                                             *)
(*                                                                         *)
(* A transaction that has read its row keeps it locked (RowsLocked), so    *)
(* nobody changes what it has checked (StillAllowed); what it has written  *)
(* when it commits (Drafted) is one operation of StockLedger.  What the    *)
(* rounding of the stock to thousandths does to a quantity does not depend *)
(* on the stock (RoundedChange).                                           *)
(***************************************************************************)
EXTENDS Inventory, TLAPS

\* Rounding the stock after a quantity is added adds the rounded quantity; after
\* one is taken it may be a thousandth less, and never less than is allowed.
LEMMA RoundedChange ==
  ASSUME NEW s \in Nat, NEW q \in Nat
  PROVE  /\ Rounded(q) \in Nat /\ (q + 1) \div 4 \in Nat
         /\ Rounded(4 * s + q) - s = Rounded(q)
         /\ 4 * s - q >= 0 => Rounded(4 * s - q) - s = -((q + 1) \div 4)
         /\ (q + 1) \div 4 = Rounded(q) - (IF Half(q) THEN 1 ELSE 0)
         /\ \A m \in Nat : 4 * s - q >= 4 * m => s - ((q + 1) \div 4) >= m
<1>1. Rounded(q) = (q + 2) \div 4 /\ Rounded(4 * s + q) = (4 * s + q + 2) \div 4
  BY DEF Rounded
<1>2. 4 * s - q >= 0 => Rounded(4 * s - q) = (4 * s - q + 2) \div 4
  BY DEF Rounded
<1>3. (q + 2) \div 4 \in Nat /\ (q + 1) \div 4 \in Nat
  OBVIOUS
<1>4. (4 * s + q + 2) \div 4 - s = (q + 2) \div 4
  OBVIOUS
<1>5. (4 * s - q + 2) \div 4 - s = -((q + 1) \div 4)
  OBVIOUS
<1>6. (q + 1) \div 4 = (q + 2) \div 4 - (IF q % 4 = 2 THEN 1 ELSE 0)
  OBVIOUS
<1>7. \A m \in Nat : 4 * s - q >= 4 * m => s - ((q + 1) \div 4) >= m
  OBVIOUS
<1> QED
  BY <1>1, <1>2, <1>3, <1>4, <1>5, <1>6, <1>7 DEF Half

\* What is taken for a quantity, and its rounded quantity.
LEMMA RoundedQuantity ==
  ASSUME NEW q \in Nat
  PROVE  /\ Rounded(q) \in Nat /\ (q + 1) \div 4 \in Nat
         /\ (q + 1) \div 4 = Rounded(q) - (IF Half(q) THEN 1 ELSE 0)
BY RoundedChange, 0 \in Nat

LEMMA RequestType ==
  ASSUME IInv, NEW o \in Ops, pc[o] # "idle"
  PROVE  /\ request[o].kind \in Kinds /\ Row(o) \in Rows /\ Destination(o) \in Rows
         /\ Quantity(o) \in Quantities /\ Quantity(o) \in Nat /\ Delta(o) \in Int
         /\ Booked(o) \in Nat /\ Change(o) \in Int
         /\ ~ IsTransfer(o) => request[o].kind \in {"receipt", "issue"}
         /\ Row(o)[2] = Destination(o)[2]
         /\ Destination(o) = Row(o) <=> request[o].to = Row(o)[1]
<1>1. request[o] \in Requests
  BY DEF IInv, RowsLocked
<1>2. request[o].kind \in Kinds /\ Row(o) \in Rows /\ Quantity(o) \in Quantities
      /\ request[o].to \in Warehouses
  BY <1>1 DEF Requests, Row, Quantity
<1>3. /\ Destination(o) \in Rows /\ Row(o)[2] = Destination(o)[2]
      /\ Destination(o) = Row(o) <=> request[o].to = Row(o)[1]
  BY <1>2 DEF Rows, Destination
<1>4. Quantity(o) \in Nat
  BY <1>2, InventoryAssumption
<1>5. Booked(o) \in Nat /\ Change(o) \in Int
  BY <1>4, RoundedChange DEF Booked, Change
<1> QED
  BY <1>2, <1>3, <1>4, <1>5 DEF Delta, IsTransfer, Kinds

\* The effect of the end of a transaction.
LEMMA EndEffect ==
  ASSUME IInv, NEW o \in Ops, End(o)
  PROVE  /\ held' \in [Rows -> Ops \cup {Nobody}] /\ pc' \in [Ops -> Steps]
         /\ request' \in [Ops -> Requests \cup {NoRequest}]
         /\ change' \in [Ops -> [Rows -> Int]] /\ moves' \in [Ops -> [Rows -> [Types -> Nat]]]
         /\ pc'[o] = "idle" /\ change'[o] = NoChange /\ moves'[o] = NoMoves
         /\ \A p \in Ops : p # o => /\ pc'[p] = pc[p] /\ request'[p] = request[p]
                                    /\ change'[p] = change[p] /\ moves'[p] = moves[p]
         /\ \A p \in Ops, r \in Rows : p # o /\ held[r] = p => held'[r] = p
<1>1. NoChange \in [Rows -> Int] /\ NoMoves \in [Rows -> [Types -> Nat]]
  BY DEF NoChange, NoMoves
<1> QED
  BY <1>1 DEF End, Goto, IInv, TypeOK, Steps

\* What every step leaves alone: the transactions of the other operations.
Step(o) ==
  \/ \E q \in Requests : Begin(o, q)
  \/ Statement(o) \/ Disconnect(o) \/ AbortDeadlocked(o)

LEMMA OthersStay ==
  ASSUME IInv, NEW o \in Ops, Step(o), NEW p \in Ops, p # o
  PROVE  /\ pc'[p] = pc[p] /\ request'[p] = request[p]
         /\ change'[p] = change[p] /\ moves'[p] = moves[p]
         /\ \A r \in Rows : held[r] = p => held'[r] = p
<1>1. CASE End(o)
  BY <1>1, EndEffect
<1>2. CASE \E q \in Requests : Begin(o, q)
  BY <1>2 DEF Begin, Goto, IInv, TypeOK
<1>3. CASE Read(o) \/ Update(o) \/ Upsert(o) \/ Record(o)
  <2>1. pc[o] # "idle"
    BY <1>3 DEF Read, Update, Upsert, Record
  <2>2. Row(o) \in Rows /\ Destination(o) \in Rows /\ Nobody \notin Ops
    BY <2>1, RequestType, InventoryAssumption
  <2> QED
    BY <1>3, <2>2 DEF Read, Update, Upsert, Record, LockRow, CanLock, Goto, IInv, TypeOK
<1> QED
  BY <1>1, <1>2, <1>3 DEF Step, Statement, Commit, Rollback, Disconnect, AbortDeadlocked

\* The steps that show nothing of a transaction to others.
Hidden(o) == Step(o) /\ UNCHANGED <<stock, present, total, drift>>

LEMMA StepCases ==
  ASSUME [Next]_vars
  PROVE  UNCHANGED vars \/ \E o \in Ops : Hidden(o) \/ Commit(o)
<1> SUFFICES ASSUME NEW o \in Ops, Step(o)
             PROVE  Hidden(o) \/ Commit(o)
  BY DEF Next, Step
<1> QED
  BY DEF Hidden, Step, Statement, Begin, Read, Update, Upsert, Record, Rollback, Disconnect,
         AbortDeadlocked

-------------------------------------------------------------------------------
(* The inductive invariant *)

LEMMA InitIInv == Init => IInv
<1> SUFFICES ASSUME Init PROVE IInv
  OBVIOUS
<1>1. TypeOK
  BY InventoryAssumption DEF Init, TypeOK, NoChange, NoMoves, Steps
<1>2. RowsLocked /\ StillAllowed /\ Drafted
  BY DEF Init, RowsLocked, StillAllowed, Drafted, DraftedBy, Working
<1>3. ReservedCovered /\ LedgerBalances
  BY InventoryAssumption DEF Init, ReservedCovered, LedgerBalances, NoMoves, NoChange, Types
<1> QED
  BY <1>1, <1>2, <1>3 DEF IInv

LEMMA TypeStep ==
  ASSUME IInv, [Next]_vars
  PROVE  TypeOK'
<1>1. CASE UNCHANGED vars
  BY <1>1 DEF vars, IInv, TypeOK
<1>2. ASSUME NEW o \in Ops, NEW step \in Steps, Goto(o, step)
      PROVE  pc' \in [Ops -> Steps]
  BY <1>2 DEF Goto, IInv, TypeOK
<1>3. ASSUME NEW o \in Ops, NEW r \in Rows, LockRow(o, r)
      PROVE  held' \in [Rows -> Ops \cup {Nobody}]
  BY <1>3 DEF LockRow, IInv, TypeOK
<1>4. ASSUME NEW o \in Ops, NEW q \in Requests, Begin(o, q)
      PROVE  TypeOK'
  BY <1>2, <1>4 DEF Begin, IInv, TypeOK, Steps
<1>5. ASSUME NEW o \in Ops, Read(o) \/ Update(o) \/ Upsert(o)
      PROVE  TypeOK'
  <2>1. Row(o) \in Rows /\ Destination(o) \in Rows /\ Booked(o) \in Int /\ Delta(o) \in Int
    BY <1>5, RequestType DEF Read, Update, Upsert
  <2>2. pc' \in [Ops -> Steps]
    BY <1>2, <1>5 DEF Read, Update, Upsert, AfterRead, Steps
  <2>3. held' \in [Rows -> Ops \cup {Nobody}]
    BY <1>3, <1>5, <2>1 DEF Read, Update, Upsert
  <2>4. change' \in [Ops -> [Rows -> Int]]
    <3>1. change \in [Ops -> [Rows -> Int]] /\ stock[Row(o)] \in Int
      BY <2>1 DEF IInv, TypeOK
    <3>2. Updated(o) \in Int
      BY <2>1, <3>1 DEF Updated, Rounded
    <3>3. Updated(o) - stock[Row(o)] \in Int
      BY <3>1, <3>2
    <3> QED
      BY <1>5, <2>1, <3>1, <3>3 DEF Read, Update, Upsert
  <2> QED
    BY <1>5, <2>2, <2>3, <2>4 DEF Read, Update, Upsert, IInv, TypeOK
<1>6. ASSUME NEW o \in Ops, Record(o)
      PROVE  TypeOK'
  <2>1. /\ Row(o) \in Rows /\ Destination(o) \in Rows /\ Booked(o) \in Nat
        /\ ~ IsTransfer(o) => request[o].kind \in Types
    BY <1>6, RequestType DEF Record, Types
  <2>2. moves' \in [Ops -> [Rows -> [Types -> Nat]]]
    <3>1. Noted(o) \in [Rows -> [Types -> Nat]] /\ NotedTwice(o) \in [Rows -> [Types -> Nat]]
      BY <2>1 DEF Noted, NotedTwice
    <3> QED
      BY <1>6, <3>1 DEF Record, IInv, TypeOK
  <2>3. pc' \in [Ops -> Steps]
    BY <1>2, <1>6 DEF Record, Steps
  <2> QED
    BY <1>6, <2>2, <2>3 DEF Record, IInv, TypeOK
<1>7. ASSUME NEW o \in Ops, Commit(o)
      PROVE  TypeOK'
  <2>1. stock' \in [Rows -> Int] /\ total' \in [Rows -> [Types -> Nat]]
    BY <1>7 DEF Commit, IInv, TypeOK
  <2>3. drift' \in [Rows -> Nat]
    <3>1. drift \in [Rows -> Nat]
      BY DEF IInv, TypeOK
    <3>2. drift' = drift \/ drift' = [drift EXCEPT ![Row(o)] = drift[Row(o)] + 1]
      BY <1>7 DEF Commit
    <3> QED
      BY <3>1, <3>2
  <2>2. present' \subseteq Rows
    BY <1>7, RequestType DEF Commit, IInv, TypeOK
  <2> QED
    BY <1>7, <2>1, <2>2, <2>3, EndEffect DEF Commit, IInv, TypeOK
<1>8. ASSUME NEW o \in Ops, Rollback(o) \/ Disconnect(o) \/ AbortDeadlocked(o)
      PROVE  TypeOK'
  BY <1>8, EndEffect DEF Rollback, Disconnect, AbortDeadlocked, Fault, IInv, TypeOK
<1> QED
  BY <1>1, <1>4, <1>5, <1>6, <1>7, <1>8 DEF Next, Statement

LEMMA LocksStep ==
  ASSUME IInv, [Next]_vars
  PROVE  RowsLocked'
<1>1. CASE UNCHANGED vars
  BY <1>1 DEF vars, IInv, RowsLocked, Row, Destination, IsTransfer
<1> SUFFICES ASSUME NEW o \in Ops, Step(o), NEW p \in Ops
             PROVE  /\ pc'[p] # "idle" => request'[p] \in Requests
                    /\ pc'[p] \in Working => held'[Row(p)'] = p
                    /\ pc'[p] \in {"record", "commit"} /\ IsTransfer(p)' => held'[Destination(p)'] = p
  BY <1>1 DEF RowsLocked, Next, Step
<1>2. CASE p # o
  <2>1. pc'[p] = pc[p] /\ request'[p] = request[p] /\ \A r \in Rows : held[r] = p => held'[r] = p
    BY <1>2, OthersStay
  <2>2. Row(p)' = Row(p) /\ Destination(p)' = Destination(p) /\ IsTransfer(p)' = IsTransfer(p)
    BY <2>1 DEF Row, Destination, IsTransfer
  <2>3. pc[p] # "idle" => Row(p) \in Rows /\ Destination(p) \in Rows
    BY RequestType
  <2> QED
    BY <2>1, <2>2, <2>3 DEF IInv, RowsLocked, Working
<1>3. CASE p = o /\ End(o)
  BY <1>3, EndEffect DEF Working
<1>4. CASE p = o /\ \E q \in Requests : Begin(o, q)
  BY <1>4 DEF Begin, Goto, IInv, TypeOK, Working
<1>5. CASE p = o /\ (Read(o) \/ Update(o) \/ Upsert(o) \/ Record(o))
  <2>1. pc[o] # "idle" /\ request' = request
    BY <1>5 DEF Read, Update, Upsert, Record
  <2>2. Row(o)' = Row(o) /\ Destination(o)' = Destination(o) /\ IsTransfer(o)' = IsTransfer(o)
    BY <2>1 DEF Row, Destination, IsTransfer
  <2>3. Row(o) \in Rows /\ Destination(o) \in Rows /\ request[o] \in Requests
    BY <2>1, RequestType DEF IInv, RowsLocked
  <2>4. CASE Read(o)
    <3>1. held'[Row(o)] = o /\ pc[o] = "read" /\ pc'[o] = AfterRead(o)
      BY <2>3, <2>4 DEF Read, LockRow, Goto, IInv, TypeOK
    <3>2. pc'[o] \in {"rollback", "update"} \/ ~ IsTransfer(o)
      BY <3>1 DEF AfterRead
    <3> QED
      BY <1>5, <2>1, <2>2, <2>3, <3>1, <3>2
  <2>5. CASE Update(o)
    <3>1. held'[Row(o)] = o /\ pc'[o] \in {"rollback", "upsert", "commit"}
          /\ (pc'[o] = "commit" => ~ IsTransfer(o))
      BY <2>3, <2>5 DEF Update, LockRow, Goto, IInv, TypeOK
    <3> QED
      BY <1>5, <2>1, <2>2, <2>3, <3>1
  <2>6. CASE Upsert(o)
    <3>1. held[Row(o)] = o
      BY <2>6 DEF Upsert, IInv, RowsLocked, Working
    <3>2. held'[Row(o)] = o /\ held'[Destination(o)] = o
      BY <2>3, <2>6, <3>1 DEF Upsert, LockRow, IInv, TypeOK
    <3> QED
      BY <1>5, <2>1, <2>2, <2>3, <3>2
  <2>7. CASE Record(o)
    <3>1. held' = held /\ pc[o] = "record"
      BY <2>7 DEF Record
    <3> QED
      BY <1>5, <2>1, <2>2, <2>3, <3>1 DEF IInv, RowsLocked, Working
  <2> QED
    BY <1>5, <2>4, <2>5, <2>6, <2>7
<1> QED
  BY <1>2, <1>3, <1>4, <1>5
     DEF Step, Statement, Commit, Rollback, Disconnect, AbortDeadlocked

LEMMA DraftedStep ==
  ASSUME IInv, [Next]_vars
  PROVE  Drafted'
<1>1. ASSUME NEW p \in Ops, request'[p] = request[p]
      PROVE  /\ IsTransfer(p)' = IsTransfer(p) /\ Taken(p)' = Taken(p) /\ Moved(p)' = Moved(p)
             /\ Noted(p)' = Noted(p) /\ NotedTwice(p)' = NotedTwice(p)
  BY <1>1 DEF Row, Destination, IsTransfer, Quantity, Booked, Change, Taken, Moved, Noted, NotedTwice
<1>2. CASE UNCHANGED vars
  BY <1>1, <1>2 DEF vars, IInv, Drafted, DraftedBy
<1> SUFFICES ASSUME NEW o \in Ops, Step(o), NEW p \in Ops
             PROVE  DraftedBy(p)'
  BY <1>2 DEF Drafted, Next, Step
<1>3. DraftedBy(p)
  BY DEF IInv, Drafted
<1>4. CASE p # o
  <2>1. pc'[p] = pc[p] /\ request'[p] = request[p] /\ change'[p] = change[p] /\ moves'[p] = moves[p]
    BY <1>4, OthersStay
  <2> QED
    BY <1>1, <1>3, <2>1 DEF DraftedBy
<1>5. CASE p = o /\ End(o)
  BY <1>5, EndEffect DEF Working, DraftedBy
<1>6. CASE p = o /\ \E q \in Requests : Begin(o, q)
  <2>1. pc[o] = "idle" /\ pc'[o] = "read" /\ change' = change /\ moves' = moves
    BY <1>6 DEF Begin, Goto, IInv, TypeOK
  <2> QED
    BY <1>3, <1>6, <2>1 DEF Working, DraftedBy
<1>7. CASE p = o /\ Read(o)
  <2>1. pc[o] = "read" /\ pc'[o] = AfterRead(o) /\ UNCHANGED <<change, moves, request>>
    BY <1>7 DEF Read, Goto, IInv, TypeOK
  <2>2. \/ pc'[o] = "rollback"
        \/ IsTransfer(o) /\ pc'[o] = "update"
        \/ ~ IsTransfer(o) /\ pc'[o] = "record"
    BY <2>1 DEF AfterRead
  <2> QED
    BY <1>1, <1>3, <1>7, <2>1, <2>2 DEF Working, DraftedBy
<1>8. CASE p = o /\ Update(o)
  <2>1. /\ pc[o] = "update" /\ UNCHANGED <<moves, request>>
        /\ change' = [change EXCEPT ![o][Row(o)] = Updated(o) - stock[Row(o)]]
        /\ \/ pc'[o] = "rollback"
           \/ IsTransfer(o) /\ pc'[o] = "upsert"
           \/ ~ IsTransfer(o) /\ pc'[o] = "commit"
    BY <1>8 DEF Update, Goto, IInv, TypeOK
  <2>2. change'[o] = Taken(o)
    <3>1. change[o] = NoChange /\ Allowed(o) /\ Row(o) \in Rows /\ Quantity(o) \in Nat
      BY <1>3, <1>8, <2>1, RequestType DEF DraftedBy, Working, IInv, StillAllowed
    <3>2. stock[Row(o)] \in Int /\ Reserved[Row(o)] \in Nat /\ stock[Row(o)] >= Reserved[Row(o)]
      BY <3>1, InventoryAssumption DEF IInv, TypeOK, ReservedCovered
    <3>3. stock[Row(o)] \in Nat /\ 4 * stock[Row(o)] + Delta(o) >= 0
      BY <3>1, <3>2, RequestType, <2>1 DEF Allowed
    <3>4. Updated(o) - stock[Row(o)] = Change(o)
      BY <3>1, <3>3, RoundedChange DEF Updated, Delta, Change, Booked
    <3>5. change \in [Ops -> [Rows -> Int]]
      BY DEF IInv, TypeOK
    <3> QED
      BY <2>1, <3>1, <3>4, <3>5 DEF Taken, NoChange
  <2> QED
    BY <1>1, <1>3, <1>8, <2>1, <2>2 DEF Working, DraftedBy
<1>9. CASE p = o /\ Upsert(o)
  <2>1. /\ pc[o] = "upsert" /\ pc'[o] = "record" /\ UNCHANGED <<moves, request>>
        /\ change' = [change EXCEPT ![o][Destination(o)] = Booked(o)]
    BY <1>9 DEF Upsert, Goto, IInv, TypeOK
  <2>2. /\ IsTransfer(o) /\ change[o] = Taken(o) /\ Allowed(o)
    BY <1>3, <1>9, <2>1 DEF DraftedBy, Working, IInv, StillAllowed
  <2>3. Row(o) # Destination(o) /\ Row(o) \in Rows /\ Destination(o) \in Rows
    BY <2>1, <2>2, RequestType DEF Allowed
  <2>4. change'[o] = Moved(o)
    BY <2>1, <2>2, <2>3 DEF Taken, Moved, IInv, TypeOK
  <2> QED
    BY <1>1, <1>3, <1>9, <2>1, <2>4 DEF Working, DraftedBy
<1>10. CASE p = o /\ Record(o)
  <2>1. /\ pc[o] = "record" /\ UNCHANGED <<change, request>>
        /\ pc'[o] = IF IsTransfer(o) THEN "commit" ELSE "update"
        /\ moves'[o] = IF IsTransfer(o) THEN NotedTwice(o) ELSE Noted(o)
    BY <1>10 DEF Record, Goto, IInv, TypeOK
  <2> QED
    BY <1>1, <1>3, <1>10, <2>1 DEF Working, DraftedBy
<1> QED
  BY <1>4, <1>5, <1>6, <1>7, <1>8, <1>9, <1>10
     DEF Step, Statement, Commit, Rollback, Disconnect, AbortDeadlocked

\* What a commit changes, and that the row and the destination are its own.
LEMMA CommitEffect ==
  ASSUME IInv, NEW o \in Ops, Commit(o)
  PROVE  /\ Row(o) \in Rows /\ Destination(o) \in Rows /\ Quantity(o) \in Nat
         /\ Booked(o) \in Nat /\ Change(o) \in Int
         /\ IsTransfer(o) => Row(o) # Destination(o)
         /\ Allowed(o)
         /\ stock' = [r \in Rows |-> stock[r] +
                        (IF r = Row(o) THEN Change(o)
                         ELSE IF IsTransfer(o) /\ r = Destination(o) THEN Booked(o) ELSE 0)]
         /\ total' = [r \in Rows |-> [t \in Types |-> total[r][t] +
                        (IF IsTransfer(o) THEN NotedTwice(o)[r][t] ELSE Noted(o)[r][t])]]
         /\ \A r \in Rows : held[r] # o => stock'[r] = stock[r]
<1>1. pc[o] = "commit"
  BY DEF Commit
<1>2. Allowed(o) /\ held[Row(o)] = o /\ (IsTransfer(o) => held[Destination(o)] = o)
  BY <1>1 DEF IInv, StillAllowed, RowsLocked, Working
<1>3. /\ change[o] = IF IsTransfer(o) THEN Moved(o) ELSE Taken(o)
      /\ moves[o] = IF IsTransfer(o) THEN NotedTwice(o) ELSE Noted(o)
  BY <1>1 DEF IInv, Drafted, DraftedBy, Working
<1>4. Row(o) \in Rows /\ Destination(o) \in Rows /\ Quantity(o) \in Nat
      /\ Booked(o) \in Nat /\ Change(o) \in Int
      /\ (IsTransfer(o) => Row(o) # Destination(o))
  BY <1>1, <1>2, RequestType DEF Allowed
<1>5. stock' = [r \in Rows |-> stock[r] +
                  (IF r = Row(o) THEN Change(o)
                   ELSE IF IsTransfer(o) /\ r = Destination(o) THEN Booked(o) ELSE 0)]
  BY <1>3 DEF Commit, Moved, Taken
<1>6. \A r \in Rows : held[r] # o => stock'[r] = stock[r]
  BY <1>2, <1>5 DEF IInv, TypeOK
<1> QED
  BY <1>2, <1>3, <1>4, <1>5, <1>6 DEF Commit

\* What a commit takes from the row of the request, in terms of StockLedger.
LEMMA CommitAmounts ==
  ASSUME IInv, NEW o \in Ops, Commit(o), NEW kept,
         kept = IF request[o].kind # "receipt" /\ Half(Quantity(o)) THEN 1 ELSE 0
  PROVE  /\ Booked(o) \in {Rounded(x) : x \in Quantities} /\ kept \in {0, 1}
         /\ Change(o) = IF request[o].kind = "receipt" THEN Booked(o) ELSE kept - Booked(o)
         /\ request[o].kind # "receipt" => stock[Row(o)] + Change(o) >= Reserved[Row(o)]
         /\ drift' = [drift EXCEPT ![Row(o)] = @ + kept]
<1>1. /\ Row(o) \in Rows /\ Quantity(o) \in Quantities /\ Quantity(o) \in Nat
      /\ Booked(o) \in Nat
  BY RequestType DEF Commit
<1>2. Booked(o) \in {Rounded(x) : x \in Quantities}
  BY <1>1 DEF Booked
<1>3. kept \in {0, 1}
  OBVIOUS
<1>4. Change(o) = IF request[o].kind = "receipt" THEN Booked(o) ELSE kept - Booked(o)
  <2>1. (Quantity(o) + 1) \div 4 = Booked(o) - kept \/ request[o].kind = "receipt"
    BY <1>1, RoundedQuantity DEF Booked
  <2>2. (Quantity(o) + 1) \div 4 \in Int
    BY <1>1, RoundedQuantity
  <2> QED
    BY <1>1, <1>3, <2>1, <2>2 DEF Change
<1>5. ASSUME request[o].kind # "receipt"
      PROVE  stock[Row(o)] + Change(o) >= Reserved[Row(o)]
  <2>1. stock[Row(o)] \in Int /\ Reserved[Row(o)] \in Nat /\ stock[Row(o)] >= Reserved[Row(o)]
    BY <1>1, InventoryAssumption DEF IInv, TypeOK, ReservedCovered
  <2>2. stock[Row(o)] \in Nat
    BY <2>1
  <2>3. 4 * stock[Row(o)] - Quantity(o) >= 4 * Reserved[Row(o)]
    BY <1>1, <1>5, <2>1, CommitEffect DEF Allowed, Delta
  <2>4. stock[Row(o)] - ((Quantity(o) + 1) \div 4) >= Reserved[Row(o)]
    BY <1>1, <2>1, <2>2, <2>3, RoundedChange
  <2>5. Change(o) = -((Quantity(o) + 1) \div 4) /\ (Quantity(o) + 1) \div 4 \in Nat
    BY <1>1, <1>5, RoundedQuantity DEF Change
  <2> HIDE DEF Change
  <2> QED
    BY <2>1, <2>4, <2>5
<1>6. drift' = [drift EXCEPT ![Row(o)] = @ + kept]
  <2>1. drift \in [Rows -> Nat]
    BY DEF IInv, TypeOK
  <2>2. [drift EXCEPT ![Row(o)] = @ + 0] = drift
    BY <1>1, <2>1
  <2> QED
    BY <2>2 DEF Commit
<1> QED
  BY <1>2, <1>3, <1>4, <1>5, <1>6

LEMMA AllowedStep ==
  ASSUME IInv, [Next]_vars
  PROVE  StillAllowed'
<1>1. ASSUME NEW p \in Ops, request'[p] = request[p], stock'[Row(p)] = stock[Row(p)]
      PROVE  Allowed(p)' = Allowed(p)
  BY <1>1 DEF Allowed, Row, Delta, IsTransfer, Quantity
<1>2. CASE UNCHANGED vars
  BY <1>1, <1>2 DEF vars, IInv, StillAllowed
<1> SUFFICES ASSUME NEW o \in Ops, Step(o), NEW p \in Ops, pc'[p] \in Working
             PROVE  Allowed(p)'
  BY <1>2 DEF StillAllowed, Next, Step
<1>3. CASE p # o
  <2>1. pc'[p] = pc[p] /\ request'[p] = request[p]
    BY <1>3, OthersStay
  <2>2. Row(p) \in Rows /\ held[Row(p)] = p /\ Allowed(p)
    BY <2>1, RequestType DEF IInv, RowsLocked, StillAllowed, Working
  <2>3. stock'[Row(p)] = stock[Row(p)]
    <3>1. CASE Commit(o)
      BY <1>3, <2>2, <3>1, CommitEffect
    <3>2. CASE Hidden(o)
      BY <3>2 DEF Hidden
    <3> QED
      BY <3>1, <3>2 DEF Hidden, Step, Statement, Begin, Read, Update, Upsert, Record, Rollback,
                        Disconnect, AbortDeadlocked
  <2> QED
    BY <1>1, <2>1, <2>2, <2>3
<1>4. CASE p = o /\ (End(o) \/ \E q \in Requests : Begin(o, q))
  BY <1>4, EndEffect DEF Begin, Goto, IInv, TypeOK, Working
<1>5. CASE p = o /\ (Read(o) \/ Update(o) \/ Upsert(o) \/ Record(o))
  <2>1. request' = request /\ stock' = stock
    BY <1>5 DEF Read, Update, Upsert, Record
  <2>2. Allowed(o)
    <3>1. CASE Read(o)
      <4>1. pc'[o] = AfterRead(o)
        BY <3>1 DEF Read, Goto, IInv, TypeOK
      <4> QED
        BY <1>5, <4>1 DEF AfterRead, Working
    <3>2. CASE Update(o) \/ Upsert(o) \/ Record(o)
      BY <3>2 DEF Update, Upsert, Record, IInv, StillAllowed, Working
    <3> QED
      BY <1>5, <3>1, <3>2
  <2> QED
    BY <1>1, <1>5, <2>1, <2>2
<1> QED
  BY <1>3, <1>4, <1>5 DEF Step, Statement, Commit, Rollback, Disconnect, AbortDeadlocked

LEMMA CoveredStep ==
  ASSUME IInv, [Next]_vars
  PROVE  ReservedCovered'
<1>1. CASE stock' = stock
  BY <1>1 DEF IInv, ReservedCovered
<1>2. ASSUME NEW o \in Ops, Commit(o)
      PROVE  ReservedCovered'
  <2>1. \A r \in Rows : stock[r] \in Int /\ Reserved[r] \in Nat /\ stock[r] >= Reserved[r]
    BY InventoryAssumption DEF IInv, TypeOK, ReservedCovered
  <2>2. \A r \in Rows : stock'[r] = stock[r] +
          (IF r = Row(o) THEN Change(o)
           ELSE IF IsTransfer(o) /\ r = Destination(o) THEN Booked(o) ELSE 0)
    BY <1>2, CommitEffect
  <2>3. /\ Row(o) \in Rows /\ Quantity(o) \in Nat /\ Booked(o) \in Nat /\ Change(o) \in Int
        /\ 4 * stock[Row(o)] + Delta(o) >= 4 * Reserved[Row(o)]
    BY <1>2, CommitEffect DEF Allowed
  <2>4. stock[Row(o)] + Change(o) >= Reserved[Row(o)]
    <3>1. stock[Row(o)] \in Nat /\ Reserved[Row(o)] \in Nat /\ stock[Row(o)] >= Reserved[Row(o)]
      BY <2>1, <2>3
    <3>2. CASE request[o].kind = "receipt"
      BY <2>3, <3>1, <3>2 DEF Change
    <3>3. CASE request[o].kind # "receipt"
      <4>1. Change(o) = -((Quantity(o) + 1) \div 4) /\ Delta(o) = -Quantity(o)
        BY <3>3 DEF Change, Delta
      <4>2. stock[Row(o)] - ((Quantity(o) + 1) \div 4) >= Reserved[Row(o)]
            /\ (Quantity(o) + 1) \div 4 \in Nat
        BY <2>3, <3>1, <4>1, RoundedChange
      <4> QED
        BY <3>1, <4>1, <4>2
    <3> QED
      BY <3>2, <3>3
  <2> QED
    BY <2>1, <2>2, <2>3, <2>4 DEF ReservedCovered
<1> QED
  BY <1>1, <1>2, StepCases DEF Hidden, vars

LEMMA BalanceStep ==
  ASSUME IInv, [Next]_vars
  PROVE  LedgerBalances'
<1>1. CASE stock' = stock /\ total' = total /\ drift' = drift
  BY <1>1 DEF IInv, LedgerBalances
<1>2. ASSUME NEW o \in Ops, Commit(o)
      PROVE  LedgerBalances'
  <2> SUFFICES ASSUME NEW r \in Rows
               PROVE  stock'[r] = Opening[r] + total'[r]["receipt"] + total'[r]["transfer_in"]
                                    - total'[r]["issue"] - total'[r]["transfer_out"] + drift'[r]
    BY DEF LedgerBalances
  <2> DEFINE noted(t) == IF IsTransfer(o) THEN NotedTwice(o)[r][t] ELSE Noted(o)[r][t]
  <2> DEFINE kept == IF request[o].kind # "receipt" /\ Half(Quantity(o)) THEN 1 ELSE 0
  <2>0. /\ Quantity(o) \in Nat /\ Booked(o) \in Nat /\ Change(o) \in Int
        /\ Change(o) = IF request[o].kind = "receipt" THEN Booked(o) ELSE kept - Booked(o)
    BY <1>2, CommitEffect, CommitAmounts
  <2>1. /\ stock[r] \in Int /\ Opening[r] \in Nat /\ drift[r] \in Nat
        /\ \A t \in Types : total[r][t] \in Nat
        /\ stock[r] = Opening[r] + total[r]["receipt"] + total[r]["transfer_in"]
                        - total[r]["issue"] - total[r]["transfer_out"] + drift[r]
    BY <1>2, CommitEffect, InventoryAssumption DEF IInv, TypeOK, LedgerBalances
  <2>2. \A t \in Types : total'[r][t] = total[r][t] + noted(t)
    BY <1>2, CommitEffect
  <2>3. /\ stock'[r] = stock[r] + (IF r = Row(o) THEN Change(o)
                                   ELSE IF IsTransfer(o) /\ r = Destination(o) THEN Booked(o) ELSE 0)
        /\ drift'[r] = drift[r] + (IF r = Row(o) THEN kept ELSE 0)
    <3>1. drift' = [drift EXCEPT ![Row(o)] = drift[Row(o)] + kept]
      BY <1>2, CommitAmounts
    <3>2. drift \in [Rows -> Nat] /\ Row(o) \in Rows
      BY <1>2, CommitEffect DEF IInv, TypeOK
    <3>3. stock'[r] = stock[r] + (IF r = Row(o) THEN Change(o)
                                  ELSE IF IsTransfer(o) /\ r = Destination(o) THEN Booked(o) ELSE 0)
      BY <1>2, CommitEffect
    <3> HIDE DEF kept
    <3> QED
      BY <2>1, <3>1, <3>2, <3>3
  <2>4. (IF r = Row(o) THEN Change(o)
         ELSE IF IsTransfer(o) /\ r = Destination(o) THEN Booked(o) ELSE 0)
          = noted("receipt") + noted("transfer_in") - noted("issue") - noted("transfer_out")
              + (IF r = Row(o) THEN kept ELSE 0)
    <3>0. kept \in {0, 1}
      OBVIOUS
    <3>1. CASE IsTransfer(o)
      <4>1. /\ noted("receipt") = 0 /\ noted("issue") = 0
            /\ noted("transfer_out") = IF r = Row(o) THEN Booked(o) ELSE 0
            /\ noted("transfer_in") = IF r = Destination(o) THEN Booked(o) ELSE 0
        BY <3>1 DEF NotedTwice, Types
      <4>2. Row(o) # Destination(o) /\ Change(o) = kept - Booked(o)
        BY <1>2, <2>0, <3>1, CommitEffect DEF IsTransfer
      <4> HIDE DEF noted, kept
      <4> QED
        BY <2>0, <3>0, <3>1, <4>1, <4>2
    <3>2. CASE ~ IsTransfer(o)
      <4>1. request[o].kind \in {"receipt", "issue"}
        BY <1>2, <3>2, RequestType DEF Commit
      <4>2. /\ noted("transfer_in") = 0 /\ noted("transfer_out") = 0
            /\ noted("receipt") =
                 IF r = Row(o) /\ request[o].kind = "receipt" THEN Booked(o) ELSE 0
            /\ noted("issue") = IF r = Row(o) /\ request[o].kind = "issue" THEN Booked(o) ELSE 0
        BY <3>2, <4>1 DEF Noted, Types
      <4>3. request[o].kind = "receipt" => kept = 0
        OBVIOUS
      <4> HIDE DEF noted, kept
      <4> QED
        BY <2>0, <3>0, <3>2, <4>1, <4>2, <4>3
    <3> QED
      BY <3>1, <3>2
  <2>5. /\ \A t \in Types : noted(t) \in Nat
        /\ Types = {"receipt", "issue", "transfer_out", "transfer_in"}
    BY <2>0 DEF Noted, NotedTwice, Types
  <2>7. kept \in {0, 1}
    OBVIOUS
  <2> HIDE DEF noted, kept
  <2>6. /\ noted("receipt") \in Nat /\ noted("issue") \in Nat
        /\ noted("transfer_out") \in Nat /\ noted("transfer_in") \in Nat
        /\ total'[r]["receipt"] = total[r]["receipt"] + noted("receipt")
        /\ total'[r]["issue"] = total[r]["issue"] + noted("issue")
        /\ total'[r]["transfer_out"] = total[r]["transfer_out"] + noted("transfer_out")
        /\ total'[r]["transfer_in"] = total[r]["transfer_in"] + noted("transfer_in")
        /\ total[r]["receipt"] \in Nat /\ total[r]["issue"] \in Nat
        /\ total[r]["transfer_out"] \in Nat /\ total[r]["transfer_in"] \in Nat
    BY <2>1, <2>2, <2>5
  <2> QED
    BY <2>0, <2>1, <2>3, <2>4, <2>6, <2>7
<1> QED
  BY <1>1, <1>2, StepCases DEF Hidden, vars

LEMMA Inductive ==
  ASSUME IInv, [Next]_vars
  PROVE  IInv'
BY TypeStep, LocksStep, AllowedStep, DraftedStep, CoveredStep, BalanceStep DEF IInv
-------------------------------------------------------------------------------
(* The theorems *)

\* Movements and transfers served at the same time never take reserved goods
\* (the checks of RecordMovement and Transfer after SELECT ... FOR UPDATE).
THEOREM ReservedIsCovered == Spec => []ReservedCovered
<1>1. Init => IInv
  BY InitIInv
<1>2. IInv /\ [Next]_vars => IInv'
  BY Inductive
<1>3. IInv => ReservedCovered
  BY DEF IInv
<1> QED
  BY <1>1, <1>2, <1>3, PTL DEF Spec

\* The movements of a warehouse add up to its stock, at any time and for any
\* quantities, up to a thousandth for each issue or transfer from it that was
\* entered with half a thousandth (numeric(14,3) rounds stock and movement apart).
THEOREM LedgerIsBalanced == Spec => []LedgerBalances
<1>1. Init => IInv
  BY InitIInv
<1>2. IInv /\ [Next]_vars => IInv'
  BY Inductive
<1>3. IInv => LedgerBalances
  BY DEF IInv
<1> QED
  BY <1>1, <1>2, <1>3, PTL DEF Spec

LEMMA CommitIsLedgerStep ==
  ASSUME IInv, NEW o \in Ops, Commit(o)
  PROVE  Ledger!Next
<1> DEFINE r == Row(o)
<1> DEFINE to == Destination(o)
<1> DEFINE q == Booked(o)
<1> DEFINE kept == IF request[o].kind # "receipt" /\ Half(Quantity(o)) THEN 1 ELSE 0
<1>1. pc[o] = "commit"
  BY DEF Commit
<1>2. /\ r \in Rows /\ to \in Rows /\ q \in Nat /\ Change(o) \in Int
      /\ r[2] = to[2] /\ (IsTransfer(o) => r # to)
      /\ ~ IsTransfer(o) => request[o].kind \in {"receipt", "issue"}
  BY <1>1, RequestType, CommitEffect
<1>12. /\ q \in {Rounded(x) : x \in Quantities} /\ kept \in {0, 1}
       /\ Change(o) = IF request[o].kind = "receipt" THEN q ELSE kept - q
       /\ request[o].kind # "receipt" => stock[r] + Change(o) >= Reserved[r]
       /\ drift' = [drift EXCEPT ![r] = @ + kept]
  BY CommitAmounts
<1>3. /\ stock \in [Rows -> Int] /\ total \in [Rows -> [Types -> Nat]]
      /\ drift \in [Rows -> Nat] /\ Reserved[r] \in Nat
  BY <1>2, InventoryAssumption DEF IInv, TypeOK
<1>4. /\ stock' = [x \in Rows |-> stock[x] +
                     (IF x = r THEN Change(o) ELSE IF IsTransfer(o) /\ x = to THEN q ELSE 0)]
      /\ total' = [x \in Rows |-> [t \in Types |-> total[x][t] +
                     (IF IsTransfer(o) THEN NotedTwice(o)[x][t] ELSE Noted(o)[x][t])]]
  BY CommitEffect
<1>5. Ledger!Rows = Rows /\ Ledger!Types = Types
  BY DEF Ledger!Rows, Rows, Ledger!Types, Types
<1>6. request[o].kind = "receipt" => kept = 0
  OBVIOUS
<1>7. CASE IsTransfer(o)
  <2>1. Change(o) = -(q - kept)
    BY <1>2, <1>7, <1>12 DEF IsTransfer
  <2> HIDE DEF kept
  <2>2. Ledger!Free(r, q - kept)
    BY <1>2, <1>3, <1>7, <1>12, <2>1 DEF Ledger!Free, IsTransfer
  <2>3. stock' = [stock EXCEPT ![r] = @ - (q - kept), ![to] = @ + q]
    <3> DEFINE new == [stock EXCEPT ![r] = @ - (q - kept), ![to] = @ + q]
    <3> HIDE DEF r, to, q
    <3>1. \A x \in Rows : stock'[x] = new[x]
      BY <1>2, <1>3, <1>4, <1>7, <1>12, <2>1
    <3> QED
      BY <1>3, <1>4, <3>1
  <2>4. total' = [total EXCEPT ![r]["transfer_out"] = @ + q, ![to]["transfer_in"] = @ + q]
    <3> DEFINE new == [total EXCEPT ![r]["transfer_out"] = @ + q, ![to]["transfer_in"] = @ + q]
    <3>1. \A x \in Rows, t \in Types : total'[x][t] = new[x][t]
      <4> SUFFICES ASSUME NEW x \in Rows, NEW t \in Types PROVE total'[x][t] = new[x][t]
        OBVIOUS
      <4>1. total'[x][t] = total[x][t] +
              (IF (x = r /\ t = "transfer_out") \/ (x = to /\ t = "transfer_in") THEN q ELSE 0)
        BY <1>4, <1>7 DEF NotedTwice
      <4> HIDE DEF r, to, q
      <4>2. CASE x = r
        BY <1>2, <1>3, <1>7, <4>1, <4>2
      <4>3. CASE x = to
        BY <1>2, <1>3, <1>7, <4>1, <4>3
      <4>4. CASE x # r /\ x # to
        BY <1>2, <1>3, <1>7, <4>1, <4>4
      <4> QED
        BY <4>2, <4>3, <4>4
    <3>2. \A x \in Rows : total'[x] = [t \in Types |-> total'[x][t]]
      BY <1>4
    <3>3. \A x \in Rows : new[x] = [t \in Types |-> new[x][t]]
      BY <1>2, <1>3, <1>7
    <3> HIDE DEF new
    <3>4. \A x \in Rows : total'[x] = new[x]
      BY <3>1, <3>2, <3>3
    <3> USE DEF new
    <3> QED
      BY <1>3, <1>4, <3>4
  <2> HIDE DEF r, to, q
  <2>5. Ledger!Transfer(r, to, q, kept)
    BY <1>2, <1>7, <1>12, <2>2, <2>3, <2>4 DEF Ledger!Transfer
  <2> QED
    BY <1>2, <1>5, <1>12, <2>5 DEF Ledger!Next
<1>8. ASSUME ~ IsTransfer(o)
      PROVE  /\ stock' = [stock EXCEPT ![r] = @ + Change(o)]
             /\ total' = [total EXCEPT ![r][request[o].kind] = @ + q]
  <2>1. stock' = [stock EXCEPT ![r] = @ + Change(o)]
    <3> DEFINE more == [stock EXCEPT ![r] = @ + Change(o)]
    <3> HIDE DEF r, to, q
    <3>1. \A x \in Rows : stock'[x] = more[x]
      BY <1>2, <1>3, <1>4, <1>8
    <3> QED
      BY <1>3, <1>4, <3>1
  <2> DEFINE new == [total EXCEPT ![r][request[o].kind] = @ + q]
  <2>2. \A x \in Rows, t \in Types : total'[x][t] = new[x][t]
    <3> SUFFICES ASSUME NEW x \in Rows, NEW t \in Types PROVE total'[x][t] = new[x][t]
      OBVIOUS
    <3>1. total'[x][t] = total[x][t] + (IF x = r /\ t = request[o].kind THEN q ELSE 0)
      BY <1>4, <1>8 DEF Noted
    <3> HIDE DEF r, q
    <3>2. CASE x = r
      BY <1>2, <1>3, <3>1, <3>2
    <3>3. CASE x # r
      BY <1>2, <1>3, <3>1, <3>3
    <3> QED
      BY <3>2, <3>3
  <2>3. \A x \in Rows : total'[x] = new[x]
    BY <1>2, <1>3, <1>4, <2>2
  <2> QED
    BY <1>3, <1>4, <2>1, <2>3
<1>9. CASE request[o].kind = "receipt"
  <2>1. ~ IsTransfer(o) /\ Change(o) = q
    BY <1>9, <1>12 DEF IsTransfer
  <2>2. drift' = drift
    BY <1>2, <1>3, <1>6, <1>9, <1>12
  <2> HIDE DEF r, q, kept
  <2>3. Ledger!Receive(r, q)
    BY <1>8, <1>9, <2>1, <2>2 DEF Ledger!Receive
  <2> QED
    BY <1>2, <1>5, <1>12, <2>3 DEF Ledger!Next
<1>10. CASE request[o].kind = "issue"
  <2>1. ~ IsTransfer(o) /\ Change(o) = -(q - kept)
    BY <1>2, <1>10, <1>12 DEF IsTransfer
  <2> HIDE DEF r, q, kept
  <2>2. Ledger!Free(r, q - kept)
    BY <1>2, <1>3, <1>10, <1>12, <2>1 DEF Ledger!Free
  <2>3. stock' = [stock EXCEPT ![r] = @ - (q - kept)]
    BY <1>2, <1>3, <1>8, <1>12, <2>1
  <2>4. Ledger!Issue(r, q, kept)
    BY <1>8, <1>10, <1>12, <2>1, <2>2, <2>3 DEF Ledger!Issue
  <2> QED
    BY <1>2, <1>5, <1>12, <2>4 DEF Ledger!Next
<1> HIDE DEF r, to, q, kept
<1> QED
  BY <1>2, <1>7, <1>9, <1>10

\* The transactions of any number of requests, for any quantities, have the effects
\* of the atomic operations of StockLedger, each at its commit and no other.
THEOREM ImplementsLedger == Spec => RefinesLedger
<1>1. Init => Ledger!Init
  BY DEF Init, Ledger!Init, NoMoves, NoChange, Ledger!Rows, Rows, Ledger!Types, Types
<1>2. Init => IInv
  BY InitIInv
<1>3. IInv /\ [Next]_vars => IInv'
  BY Inductive
<1>4. IInv /\ [Next]_vars => [Ledger!Next]_<<stock, total, drift>>
  <2> SUFFICES ASSUME IInv, [Next]_vars
               PROVE  [Ledger!Next]_<<stock, total, drift>>
    OBVIOUS
  <2> QED
    BY StepCases, CommitIsLedgerStep DEF vars, Hidden
<1> QED
  BY <1>1, <1>2, <1>3, <1>4, PTL DEF Spec, RefinesLedger, Ledger!Spec
===============================================================================
