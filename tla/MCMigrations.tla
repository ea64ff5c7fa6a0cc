----------------------------- MODULE MCMigrations -----------------------------
EXTENDS Migrations

\* The next release adds a file, and a careless one edits an old file.
ReleaseFiles ==
  [first    |-> <<[id |-> "001", sum |-> "a"], [id |-> "002", sum |-> "b"]>>,
   next     |-> <<[id |-> "001", sum |-> "a"], [id |-> "002", sum |-> "b"],
                  [id |-> "003", sum |-> "c"]>>,
   careless |-> <<[id |-> "001", sum |-> "a"], [id |-> "002", sum |-> "x"],
                  [id |-> "003", sum |-> "c"]>>]
===============================================================================
