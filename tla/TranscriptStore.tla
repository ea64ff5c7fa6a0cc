---------------------------- MODULE TranscriptStore ----------------------------
(***************************************************************************)
(* PostgresVoiceTranscriptRepository: relays of media streams append what  *)
(* was said to the transcripts of their sessions.  AppendAsync is a        *)
(* transaction of three statements: take the advisory lock of the session, *)
(* insert with the largest committed number plus one, commit, which also   *)
(* releases the lock.  Several streams may belong to one session, and a    *)
(* relay learns its session from the stream, so it may change.             *)
(***************************************************************************)
EXTENDS Naturals, FiniteSets

CONSTANTS
  Sessions,   \* voice call sessions
  Relays,     \* relays from OpenAI to Twilio, each appending one message at a time
  MaxSpoken   \* bound on the messages of a relay

ASSUME SpokenAssumption == MaxSpoken \in Nat

Nobody == "nobody"

ASSUME RelaysAssumption == Nobody \notin Relays

VARIABLES
  rows,    \* session -> its committed rows of voice_call_messages
  holder,  \* session -> relay whose transaction has the advisory lock
  relay    \* relay -> its step, the session and number of its message, its insert

vars == <<rows, holder, relay>>

Messages == [by: Relays, nth: 0..MaxSpoken]

Rows == [number: Nat, message: Messages]

Message(r) == [by |-> r, nth |-> relay[r].nth]

TypeOK ==
  /\ rows \in [Sessions -> SUBSET Rows]
  /\ holder \in [Sessions -> Relays \cup {Nobody}]
  /\ relay \in [Relays -> [pc: {"relaying", "lock", "insert", "commit"},
                           s: Sessions, nth: 0..MaxSpoken, number: Nat]]

Init ==
  /\ rows = [s \in Sessions |-> {}]
  /\ holder = [s \in Sessions |-> Nobody]
  /\ relay \in [Relays -> [pc: {"relaying"}, s: Sessions, nth: {0}, number: {0}]]

-------------------------------------------------------------------------------
Goto(r, pc) == relay' = [relay EXCEPT ![r].pc = pc]

\* The relay reads its next event.
Return(r) == relay' = [relay EXCEPT ![r].pc = "relaying", ![r].number = 0]

\* A transcript event arrives: the relay waits until its message is stored.
Append(r, s) ==
  /\ relay[r].pc = "relaying"
  /\ relay[r].nth < MaxSpoken
  /\ relay' = [relay EXCEPT ![r].pc = "lock", ![r].s = s, ![r].nth = @ + 1]
  /\ UNCHANGED <<rows, holder>>

\* pg_advisory_xact_lock on the session
Lock(r) ==
  /\ relay[r].pc = "lock"
  /\ holder[relay[r].s] = Nobody
  /\ holder' = [holder EXCEPT ![relay[r].s] = r]
  /\ Goto(r, "insert")
  /\ UNCHANGED rows

Numbers(s) == {row.number : row \in rows[s]}

\* Faulty variant: no condition on the session.
NumberAcrossSessions(s) == Cardinality(UNION {rows[t] : t \in Sessions}) + 1

\* coalesce(max(sequence_number) + 1, 1)
NextNumber(s) ==
  IF rows[s] = {} THEN 1
  ELSE (CHOOSE n \in Numbers(s) : \A m \in Numbers(s) : m <= n) + 1

\* Faulty variant: a lock of the statement, not of the transaction.
InsertAndUnlock(r) ==
  /\ relay[r].pc = "insert"
  /\ relay' = [relay EXCEPT ![r].pc = "commit", ![r].number = NextNumber(relay[r].s)]
  /\ holder' = [holder EXCEPT ![relay[r].s] = Nobody]
  /\ UNCHANGED rows

\* The row is there, and seen by nobody else before the commit.
Insert(r) ==
  /\ relay[r].pc = "insert"
  /\ relay' = [relay EXCEPT ![r].pc = "commit", ![r].number = NextNumber(relay[r].s)]
  /\ UNCHANGED <<rows, holder>>

\* Faulty variant: a lock of the connection, which goes back to the pool with it.
StillLocked(r) == holder

\* The end of r's transaction releases what it holds.
Unlocked(r) == [s \in Sessions |-> IF holder[s] = r THEN Nobody ELSE holder[s]]

\* Whether r hears of the commit makes no difference: an error is only logged.
Commit(r) ==
  /\ relay[r].pc = "commit"
  /\ rows' = [rows EXCEPT ![relay[r].s] =
                @ \cup {[number |-> relay[r].number, message |-> Message(r)]}]
  /\ holder' = Unlocked(r)
  /\ Return(r)

\* An error, a session that does not exist, the end of the stream or of the
\* process: the transaction is rolled back and the message is lost.
Rollback(r) ==
  /\ relay[r].pc # "relaying"
  /\ holder' = Unlocked(r)
  /\ Return(r)
  /\ UNCHANGED rows

Next ==
  \E r \in Relays :
    \/ \E s \in Sessions : Append(r, s)
    \/ Lock(r) \/ Insert(r) \/ Commit(r) \/ Rollback(r)

Spec == Init /\ [][Next]_vars

\* Postgres serves the waiters of a lock in turn, and a statement ends.
FairSpec ==
  Spec /\ \A r \in Relays : SF_vars(Lock(r)) /\ WF_vars(Insert(r) \/ Commit(r))

-------------------------------------------------------------------------------
(* Properties *)

List == INSTANCE TranscriptList

\* Only the transaction that has the lock of a session numbers its messages,
\* and its number stays the next one until it commits.
NumberingLocked ==
  \A r \in Relays :
    LET s == relay[r].s IN
    /\ relay[r].pc \in {"insert", "commit"} => holder[s] = r
    /\ relay[r].pc = "commit" => relay[r].number = Cardinality(rows[s]) + 1

\* The messages of a session are numbered 1, 2, ... without a gap or a double,
\* whichever streams write to it at once and whatever is rolled back: ListAsync,
\* which orders by the number, has one answer.
Numbered ==
  \A s \in Sessions :
    /\ IsFiniteSet(rows[s])
    /\ Numbers(s) = 1..Cardinality(rows[s])

\* The inductive invariant
IInv == TypeOK /\ NumberingLocked /\ Numbered

\* The database implements the list in memory: a message is only ever added
\* after those a reader may have seen.
RefinesList == List!Spec

\* A message that waits is stored or given up: no lock is held for ever.
EventuallyStored == \A r \in Relays : relay[r].pc = "lock" ~> relay[r].pc = "relaying"
===============================================================================
