------------------------- MODULE TranscriptStore_proofs -------------------------
(***************************************************************************)
(* Proofs about TranscriptStore, for any sessions and relays.              *)
(*                                                                         *)
(* The transaction that has the advisory lock of a session is the only one *)
(* that numbers a message of it, so the number it read stays the next one  *)
(* until it commits (NumberingLocked), and the numbers of the committed    *)
(* rows are 1..n (Numbered).                                               *)
(***************************************************************************)
EXTENDS TranscriptStore, FiniteSetTheorems, TLAPS

\* The number of a new message is the number of messages plus one.
LEMMA NextIsCount ==
  ASSUME NEW s \in Sessions, TypeOK, Numbered
  PROVE  NextNumber(s) = Cardinality(rows[s]) + 1
<1> DEFINE n == Cardinality(rows[s])
<1>1. n \in Nat
  BY FS_CardinalityType DEF Numbered
<1>2. CASE rows[s] = {}
  BY <1>2, FS_EmptySet DEF NextNumber
<1>3. CASE rows[s] # {}
  <2>1. n # 0
    BY <1>3, FS_EmptySet DEF Numbered
  <2>2. Numbers(s) = 1..n
    BY DEF Numbered
  <2> HIDE DEF n
  <2>3. (CHOOSE k \in 1..n : \A m \in 1..n : m <= k) = n
    <3>1. n \in 1..n /\ \A m \in 1..n : m <= n
      BY <1>1, <2>1
    <3>2. \A k \in 1..n : (\A m \in 1..n : m <= k) => k = n
      BY <1>1, <2>1
    <3> QED
      BY <3>1, <3>2
  <2> QED
    BY <1>3, <2>2, <2>3 DEF NextNumber, n
<1> QED
  BY <1>2, <1>3

\* A row with the next number keeps the numbering.
LEMMA OneMore ==
  ASSUME NEW s \in Sessions, TypeOK, Numbered, NEW row,
         row.number = Cardinality(rows[s]) + 1
  PROVE  /\ IsFiniteSet(rows[s] \cup {row})
         /\ Cardinality(rows[s] \cup {row}) = Cardinality(rows[s]) + 1
         /\ {x.number : x \in rows[s] \cup {row}} = 1..(Cardinality(rows[s]) + 1)
<1> DEFINE n == Cardinality(rows[s])
<1>1. n \in Nat
  BY FS_CardinalityType DEF Numbered
<1>2. {x.number : x \in rows[s]} = 1..n
  BY DEF Numbered, Numbers
<1>3. row \notin rows[s]
  <2>1. n + 1 \notin 1..n
    BY <1>1
  <2> QED
    BY <1>2, <2>1
<1>4. /\ IsFiniteSet(rows[s] \cup {row})
      /\ Cardinality(rows[s] \cup {row}) = n + 1
  BY <1>3, FS_AddElement DEF Numbered
<1>5. {x.number : x \in rows[s] \cup {row}} = {x.number : x \in rows[s]} \cup {row.number}
  OBVIOUS
<1>6. 1..n \cup {n + 1} = 1..(n + 1)
  BY <1>1
<1> QED
  BY <1>2, <1>4, <1>5, <1>6

-------------------------------------------------------------------------------
(* The inductive invariant *)

LEMMA InitIInv == Init => IInv
<1> SUFFICES ASSUME Init PROVE IInv
  OBVIOUS
<1>1. TypeOK
  BY SpokenAssumption DEF Init, TypeOK
<1>2. NumberingLocked
  BY DEF Init, NumberingLocked
<1>3. Numbered
  <2> SUFFICES ASSUME NEW s \in Sessions
               PROVE  IsFiniteSet(rows[s]) /\ Numbers(s) = 1..Cardinality(rows[s])
    BY DEF Numbered
  <2>1. rows[s] = {}
    BY DEF Init
  <2>2. IsFiniteSet(rows[s]) /\ Cardinality(rows[s]) = 0
    BY <2>1, FS_EmptySet
  <2>3. Numbers(s) = {}
    BY <2>1 DEF Numbers
  <2> QED
    BY <2>2, <2>3
<1> QED
  BY <1>1, <1>2, <1>3 DEF IInv

\* A relay that goes back to its next event keeps its type.
LEMMA ReturnTyped ==
  ASSUME TypeOK, NEW r \in Relays, Return(r)
  PROVE  relay' \in [Relays -> [pc: {"relaying", "lock", "insert", "commit"},
                               s: Sessions, nth: 0..MaxSpoken, number: Nat]]
<1> DEFINE R == [pc: {"relaying", "lock", "insert", "commit"},
                 s: Sessions, nth: 0..MaxSpoken, number: Nat]
<1> DEFINE l == [relay[r] EXCEPT !.pc = "relaying", !.number = 0]
<1>1. relay \in [Relays -> R]
  BY DEF TypeOK
<1>2. relay[r] \in R
  BY <1>1
<1>3. l \in R
  BY <1>2
<1>4. relay' = [relay EXCEPT ![r] = l]
  BY <1>1 DEF Return
<1> HIDE DEF l, R
<1>5. relay' \in [Relays -> R]
  BY <1>1, <1>3, <1>4
<1> QED
  BY <1>5 DEF R

LEMMA TypeStep ==
  ASSUME TypeOK, Numbered, [Next]_vars
  PROVE  TypeOK'
<1> USE DEF TypeOK
<1>1. CASE UNCHANGED vars
  BY <1>1 DEF vars
<1>2. ASSUME NEW r \in Relays, NEW s \in Sessions, Append(r, s)
      PROVE  TypeOK'
  <2>1. relay[r].nth + 1 \in 0..MaxSpoken
    BY <1>2, SpokenAssumption DEF Append
  <2> QED
    BY <1>2, <2>1 DEF Append
<1>3. ASSUME NEW r \in Relays, Lock(r)
      PROVE  TypeOK'
  BY <1>3 DEF Lock, Goto
<1>4. ASSUME NEW r \in Relays, Insert(r)
      PROVE  TypeOK'
  <2>1. NextNumber(relay[r].s) \in Nat
    BY NextIsCount, FS_CardinalityType DEF Numbered
  <2> QED
    BY <1>4, <2>1 DEF Insert
<1>5. ASSUME NEW r \in Relays, Unlocked(r) = holder', UNCHANGED rows, Return(r)
      PROVE  TypeOK'
  <2>1. holder' \in [Sessions -> Relays \cup {Nobody}]
    BY <1>5 DEF Unlocked
  <2> QED
    BY <1>5, <2>1, ReturnTyped
<1>6. ASSUME NEW r \in Relays, Commit(r)
      PROVE  TypeOK'
  <2>1. Message(r) \in Messages
    BY DEF Message, Messages
  <2>2. [number |-> relay[r].number, message |-> Message(r)] \in Rows
    BY <2>1 DEF Rows
  <2>3. rows' \in [Sessions -> SUBSET Rows]
    BY <1>6, <2>2 DEF Commit
  <2>4. relay' \in [Relays -> [pc: {"relaying", "lock", "insert", "commit"},
                              s: Sessions, nth: 0..MaxSpoken, number: Nat]]
    BY <1>6, ReturnTyped DEF Commit
  <2>5. holder' \in [Sessions -> Relays \cup {Nobody}]
    BY <1>6 DEF Commit, Unlocked
  <2> QED
    BY <2>3, <2>4, <2>5
<1> QED
  BY <1>1, <1>2, <1>3, <1>4, <1>5, <1>6 DEF Next, Rollback

\* What the end of the transaction of r leaves of the locks.
LEMMA UnlockedOthers ==
  ASSUME NumberingLocked, NEW r \in Relays, holder' = Unlocked(r), Return(r), TypeOK,
         NEW q \in Relays, relay'[q].pc \in {"insert", "commit"}
  PROVE  q # r /\ relay'[q] = relay[q] /\ holder'[relay[q].s] = q
<1>1. q # r /\ relay'[q] = relay[q]
  BY DEF Return, TypeOK
<1> QED
  BY <1>1 DEF Unlocked, NumberingLocked, TypeOK

LEMMA LockedStep ==
  ASSUME TypeOK, NumberingLocked, Numbered, [Next]_vars
  PROVE  NumberingLocked'
<1>1. CASE UNCHANGED vars
  BY <1>1 DEF vars, NumberingLocked
<1>2. ASSUME NEW r \in Relays, NEW s \in Sessions, Append(r, s)
      PROVE  NumberingLocked'
  BY <1>2 DEF Append, NumberingLocked, TypeOK
<1>3. ASSUME NEW r \in Relays, Lock(r)
      PROVE  NumberingLocked'
  <2> SUFFICES ASSUME NEW q \in Relays, relay'[q].pc \in {"insert", "commit"}
               PROVE  /\ holder'[relay'[q].s] = q
                      /\ relay'[q].pc = "commit" =>
                           relay'[q].number = Cardinality(rows'[relay'[q].s]) + 1
    BY DEF NumberingLocked
  <2>1. CASE q = r
    BY <1>3, <2>1 DEF Lock, Goto, TypeOK
  <2>2. CASE q # r
    <3>1. relay'[q] = relay[q]
      BY <1>3, <2>2 DEF Lock, Goto, TypeOK
    <3>2. holder[relay[q].s] = q
      BY <3>1 DEF NumberingLocked
    <3>3. relay[q].s # relay[r].s
      BY <1>3, <3>2, RelaysAssumption DEF Lock
    <3> QED
      BY <1>3, <3>1, <3>2, <3>3 DEF Lock, NumberingLocked, TypeOK
  <2> QED
    BY <2>1, <2>2
<1>4. ASSUME NEW r \in Relays, Insert(r)
      PROVE  NumberingLocked'
  <2>1. NextNumber(relay[r].s) = Cardinality(rows[relay[r].s]) + 1
    BY NextIsCount DEF TypeOK
  <2> QED
    BY <1>4, <2>1 DEF Insert, NumberingLocked, TypeOK
<1>5. ASSUME NEW r \in Relays, Commit(r)
      PROVE  NumberingLocked'
  <2> SUFFICES ASSUME NEW q \in Relays, relay'[q].pc \in {"insert", "commit"}
               PROVE  /\ holder'[relay'[q].s] = q
                      /\ relay'[q].pc = "commit" =>
                           relay'[q].number = Cardinality(rows'[relay'[q].s]) + 1
    BY DEF NumberingLocked
  <2>1. q # r /\ relay'[q] = relay[q] /\ holder'[relay[q].s] = q
    BY <1>5, UnlockedOthers DEF Commit
  <2>2. holder[relay[r].s] = r /\ holder[relay[q].s] = q
    BY <1>5, <2>1 DEF Commit, NumberingLocked
  <2>3. rows'[relay[q].s] = rows[relay[q].s]
    BY <1>5, <2>1, <2>2 DEF Commit, TypeOK
  <2> QED
    BY <2>1, <2>3 DEF NumberingLocked
<1>6. ASSUME NEW r \in Relays, Rollback(r)
      PROVE  NumberingLocked'
  <2> SUFFICES ASSUME NEW q \in Relays, relay'[q].pc \in {"insert", "commit"}
               PROVE  /\ holder'[relay'[q].s] = q
                      /\ relay'[q].pc = "commit" =>
                           relay'[q].number = Cardinality(rows'[relay'[q].s]) + 1
    BY DEF NumberingLocked
  <2>1. q # r /\ relay'[q] = relay[q] /\ holder'[relay[q].s] = q
    BY <1>6, UnlockedOthers DEF Rollback
  <2> QED
    BY <1>6, <2>1 DEF NumberingLocked, Rollback
<1> QED
  BY <1>1, <1>2, <1>3, <1>4, <1>5, <1>6 DEF Next

\* A commit is an Append of TranscriptList; no other step changes the rows.
LEMMA CommitAppends ==
  ASSUME IInv, NEW r \in Relays, Commit(r)
  PROVE  List!Append(relay[r].s, Message(r))
<1>1. relay[r].number = Cardinality(rows[relay[r].s]) + 1
  BY DEF Commit, IInv, NumberingLocked
<1> QED
  BY <1>1 DEF Commit, List!Append, List!Cardinality, Cardinality

LEMMA NumberedStep ==
  ASSUME IInv, [Next]_vars
  PROVE  Numbered'
<1>1. CASE UNCHANGED rows
  BY <1>1 DEF IInv, Numbered, Numbers
<1>2. ASSUME NEW r \in Relays, Commit(r)
      PROVE  Numbered'
  <2> SUFFICES ASSUME NEW s \in Sessions
               PROVE  IsFiniteSet(rows'[s]) /\ Numbers(s)' = 1..Cardinality(rows'[s])
    BY DEF Numbered
  <2> DEFINE row == [number |-> relay[r].number, message |-> Message(r)]
  <2>1. CASE s = relay[r].s
    <3>1. rows'[s] = rows[s] \cup {row}
      BY <1>2, <2>1 DEF Commit, IInv, TypeOK
    <3>2. row.number = Cardinality(rows[s]) + 1
      BY <1>2, <2>1 DEF Commit, IInv, NumberingLocked
    <3> HIDE DEF row
    <3> QED
      BY <3>1, <3>2, OneMore DEF IInv, Numbers
  <2>2. CASE s # relay[r].s
    <3>1. rows'[s] = rows[s]
      BY <1>2, <2>2 DEF Commit, IInv, TypeOK
    <3> QED
      BY <3>1 DEF IInv, Numbered, Numbers
  <2> QED
    BY <2>1, <2>2
<1>3. UNCHANGED rows \/ \E r \in Relays : Commit(r)
  BY DEF Next, vars, Append, Lock, Insert, Rollback
<1> QED
  BY <1>1, <1>2, <1>3

LEMMA Inductive == Spec => []IInv
<1>1. IInv /\ [Next]_vars => IInv'
  BY TypeStep, LockedStep, NumberedStep DEF IInv
<1> QED
  BY InitIInv, <1>1, PTL DEF Spec

-------------------------------------------------------------------------------
(* Theorems *)

\* Every transcript is numbered 1, 2, ... without gaps or doubles, for any
\* number of relays that append at once and fail anywhere.
THEOREM TranscriptsNumbered == Spec => []Numbered
<1>1. IInv => Numbered
  BY DEF IInv
<1> QED
  BY <1>1, Inductive, PTL

\* The transaction of PostgresVoiceTranscriptRepository.AppendAsync does what
\* InMemoryVoiceTranscriptRepository does under its lock.
THEOREM ImplementsList == Spec => RefinesList
<1>1. Init => List!Init
  BY DEF Init, List!Init
<1>2. IInv /\ [Next]_vars => [List!Next]_rows
  <2> SUFFICES ASSUME IInv, [Next]_vars
               PROVE  List!Next \/ UNCHANGED rows
    OBVIOUS
  <2>1. ASSUME NEW r \in Relays, Commit(r)
        PROVE  List!Next
    <3>1. relay[r].s \in Sessions /\ Message(r) \in Messages
      BY DEF IInv, TypeOK, Message, Messages
    <3> QED
      BY <2>1, <3>1, CommitAppends DEF List!Next
  <2>2. UNCHANGED rows \/ \E r \in Relays : Commit(r)
    BY DEF Next, vars, Append, Lock, Insert, Rollback
  <2> QED
    BY <2>1, <2>2
<1> QED
  BY <1>1, <1>2, Inductive, PTL DEF RefinesList, List!Spec, Spec
===============================================================================
