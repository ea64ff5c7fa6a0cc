------------------------------ MODULE MCInventory ------------------------------
EXTENDS Inventory

\* Two warehouses with the same article; the third has none and gets a row by
\* the first transfer.
OpeningStock == [r \in Rows |-> IF r[1] = "tehnicko" THEN 2 ELSE IF r[1] = "centralno" THEN 4 ELSE 0]
ReservedStock == [r \in Rows |-> IF r[1] = "centralno" THEN 2 ELSE 0]
===============================================================================
