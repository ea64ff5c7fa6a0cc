------------------------------ MODULE StockLedger ------------------------------
(***************************************************************************)
(* What the inventory promises: each receipt, issue or transfer happens at *)
(* once and with its movements, and takes nothing that is reserved.  The   *)
(* movements have the quantity rounded to thousandths; the stock may lose  *)
(* one thousandth less than they say, which drift counts.                  *)
(***************************************************************************)
EXTENDS Integers

CONSTANTS Warehouses, Items, Quantities, Opening, Reserved

Rows == Warehouses \X Items
Types == {"receipt", "issue", "transfer_out", "transfer_in"}

VARIABLES
  stock,  \* row -> quantity in the warehouse
  total,  \* row -> movement type -> sum of the quantities of such movements
  drift   \* row -> thousandths that movements from it say and the stock kept

Init ==
  /\ stock = Opening
  /\ total = [r \in Rows |-> [t \in Types |-> 0]]
  /\ drift = [r \in Rows |-> 0]

Free(r, q) == stock[r] - q >= Reserved[r]

Receive(r, q) ==
  /\ stock' = [stock EXCEPT ![r] = @ + q]
  /\ total' = [total EXCEPT ![r]["receipt"] = @ + q]
  /\ UNCHANGED drift

Issue(r, q, kept) ==
  /\ Free(r, q - kept)
  /\ stock' = [stock EXCEPT ![r] = @ - (q - kept)]
  /\ total' = [total EXCEPT ![r]["issue"] = @ + q]
  /\ drift' = [drift EXCEPT ![r] = @ + kept]

Transfer(r, to, q, kept) ==
  /\ Free(r, q - kept) /\ r # to /\ r[2] = to[2]
  /\ stock' = [stock EXCEPT ![r] = @ - (q - kept), ![to] = @ + q]
  /\ total' = [total EXCEPT ![r]["transfer_out"] = @ + q, ![to]["transfer_in"] = @ + q]
  /\ drift' = [drift EXCEPT ![r] = @ + kept]

Next ==
  \E r \in Rows, q \in Quantities :
    \/ Receive(r, q)
    \/ \E kept \in {0, 1} : Issue(r, q, kept) \/ \E to \in Rows : Transfer(r, to, q, kept)

Spec == Init /\ [][Next]_<<stock, total, drift>>
===============================================================================
