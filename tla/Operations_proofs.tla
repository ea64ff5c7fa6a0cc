--------------------------- MODULE Operations_proofs ---------------------------
(***************************************************************************)
(* Proofs about Operations, for any orders, workers and requests and any   *)
(* size of the pool.  Every step moves one request on; the lemmas say what *)
(* that does to the pool, to the requests and to the tables, the cases of  *)
(* Next are put together from them.                                        *)
(***************************************************************************)
EXTENDS Operations, FiniteSetTheorems, SequenceTheorems, TLAPS

\* The request c goes on as new, and no other one moves.
Becomes(c, new) ==
  /\ client' \in [Clients -> ClientStates]
  /\ client'[c] = new /\ \A d \in Clients \ {c} : client'[d] = client[d]

Those(P) == {d \in Clients : client[d].pc \in P}

\* How many requests are at some of the steps changes with that of c.
LEMMA CountStep ==
  ASSUME TypeOK, NEW c \in Clients, NEW new, Becomes(c, new), NEW P
  PROVE  /\ Cardinality(Those(P)) \in Nat /\ Cardinality(Those(P)') \in Nat
         /\ client[c].pc \in P /\ new.pc \in P => Cardinality(Those(P)') = Cardinality(Those(P))
         /\ client[c].pc \notin P /\ new.pc \notin P => Cardinality(Those(P)') = Cardinality(Those(P))
         /\ client[c].pc \notin P /\ new.pc \in P => Cardinality(Those(P)') = Cardinality(Those(P)) + 1
         /\ client[c].pc \in P /\ new.pc \notin P => Cardinality(Those(P)') = Cardinality(Those(P)) - 1
<1> DEFINE S == Those(P)
           T == Those(P)'
<1>0. S = {d \in Clients : client[d].pc \in P} /\ T = {d \in Clients : client'[d].pc \in P}
  BY DEF Those
<1> HIDE DEF S, T
<1> SUFFICES /\ Cardinality(S) \in Nat /\ Cardinality(T) \in Nat
             /\ client[c].pc \in P /\ new.pc \in P => Cardinality(T) = Cardinality(S)
             /\ client[c].pc \notin P /\ new.pc \notin P => Cardinality(T) = Cardinality(S)
             /\ client[c].pc \notin P /\ new.pc \in P => Cardinality(T) = Cardinality(S) + 1
             /\ client[c].pc \in P /\ new.pc \notin P => Cardinality(T) = Cardinality(S) - 1
  BY DEF S, T
<1>1. IsFiniteSet(S) /\ IsFiniteSet(T)
  BY <1>0, FS_Subset, OperationsAssumption
<1>2. Cardinality(S) \in Nat /\ Cardinality(T) \in Nat
  BY <1>1, FS_CardinalityType
<1>3. CASE (client[c].pc \in P) = (new.pc \in P)
  <2>1. S = T
    BY <1>0, <1>3 DEF Becomes
  <2> QED
    BY <1>2, <1>3, <2>1
<1>4. CASE client[c].pc \notin P /\ new.pc \in P
  <2>1. T = S \cup {c} /\ c \notin S
    BY <1>0, <1>4 DEF Becomes
  <2> QED
    BY <1>1, <1>2, <1>4, <2>1, FS_AddElement
<1>5. CASE client[c].pc \in P /\ new.pc \notin P
  <2>1. T = S \ {c} /\ c \in S
    BY <1>0, <1>5 DEF Becomes
  <2> QED
    BY <1>1, <1>2, <1>5, <2>1, FS_RemoveElement
<1> QED
  BY <1>3, <1>4, <1>5

\* The pool after a request began, ...
LEMMA RequestStep ==
  ASSUME TypeOK, PoolConserved, NEW c \in Clients, NEW next \in ClientStates, Request(c, next)
  PROVE  /\ Becomes(c, next) /\ PoolConserved'
         /\ free' \in 0..Connections /\ requests' \in Nat
         /\ client[c].pc = "idle" /\ UNCHANGED <<drafts, starved, faults>>
<1> DEFINE S == Those(Keeping)
           T == Those(Keeping)'
<1>1. Becomes(c, next)
  BY DEF TypeOK, Request, Becomes
<1>2. client[c].pc = "idle" /\ client[c].pc \notin Keeping
  BY DEF Request, Keeping, Opening
<1>3. /\ Cardinality(S) \in Nat /\ Cardinality(T) \in Nat
      /\ next.pc \in Keeping => Cardinality(T) = Cardinality(S) + 1
      /\ next.pc \notin Keeping => Cardinality(T) = Cardinality(S)
  BY <1>1, <1>2, CountStep
<1>4. free + Cardinality(S) = Connections /\ free \in 0..Connections /\ requests \in Nat
  BY DEF PoolConserved, TypeOK, Those
<1>5. /\ free' = IF next.pc \in Keeping THEN free - 1 ELSE free
      /\ free > 0 /\ requests' = requests + 1
  BY DEF Request
<1> HIDE DEF S, T
<1>6. free' + Cardinality(T) = Connections /\ free' \in 0..Connections
  BY <1>3, <1>4, <1>5, OperationsAssumption
<1> QED
  BY <1>1, <1>2, <1>4, <1>5, <1>6 DEF PoolConserved, Request, T, Those

\* ... after one is over, ...
LEMMA AnswerStep ==
  ASSUME TypeOK, PoolConserved, NEW c \in Clients, Answer(c)
  PROVE  Becomes(c, Idle) /\ PoolConserved' /\ free' \in 0..Connections
<1> DEFINE S == Those(Keeping)
           T == Those(Keeping)'
<1>1. Becomes(c, Idle) /\ Idle.pc \notin Keeping
  BY DEF TypeOK, Answer, Becomes, Idle, ClientStates, Keeping, Opening
<1>2. /\ Cardinality(S) \in Nat /\ Cardinality(T) \in Nat
      /\ client[c].pc \in Keeping => Cardinality(T) = Cardinality(S) - 1
      /\ client[c].pc \notin Keeping => Cardinality(T) = Cardinality(S)
  BY <1>1, CountStep
<1>3. free + Cardinality(S) = Connections /\ free \in 0..Connections
  BY DEF PoolConserved, TypeOK, Those
<1>4. free' = IF client[c].pc \in Keeping THEN free + 1 ELSE free
  BY DEF Answer
<1> HIDE DEF S, T
<1>5. free' + Cardinality(T) = Connections /\ free' \in 0..Connections
  BY <1>2, <1>3, <1>4, OperationsAssumption
<1> QED
  BY <1>1, <1>5 DEF PoolConserved, T, Those

\* ... and after one that keeps no connection went on.
LEMMA GotoStep ==
  ASSUME TypeOK, PoolConserved, NEW c \in Clients, NEW pc, Goto(c, pc),
         pc \in {"event", "rejected"}, client[c].pc \notin Keeping
  PROVE  /\ Becomes(c, [client[c] EXCEPT !.pc = pc])
         /\ PoolConserved' /\ free' \in 0..Connections
<1> DEFINE S == Those(Keeping)
           T == Those(Keeping)'
           new == [client[c] EXCEPT !.pc = pc]
<1>1. new \in ClientStates /\ new.pc = pc
  BY DEF TypeOK, ClientStates
<1>2. Becomes(c, new)
  BY <1>1 DEF TypeOK, Goto, Becomes
<1>3. new.pc \notin Keeping
  BY <1>1 DEF Keeping, Opening
<1>4. Cardinality(S) = Cardinality(T)
  BY <1>2, <1>3, CountStep
<1> QED
  BY <1>2, <1>4 DEF PoolConserved, Goto, TypeOK, Those

\* What a request has drafted goes with its step.
DraftsOK == Drafted /\ drafts \in [Clients -> SUBSET Inserts]

LEMMA DraftsStep ==
  ASSUME IInv, NEW c \in Clients, NEW new, Becomes(c, new),
         \/ drafts' = [drafts EXCEPT ![c] = Inserted(new.pc)]
         \/ drafts' = drafts /\ Inserted(new.pc) = Inserted(client[c].pc)
  PROVE  DraftsOK'
<1>1. drafts \in [Clients -> SUBSET Inserts] /\ \A d \in Clients : drafts[d] = Inserted(client[d].pc)
  BY DEF IInv, TypeOK, Drafted
<1>2. Inserted(new.pc) \subseteq Inserts
  BY DEF Inserted, Inserts
<1> HIDE DEF Inserted
<1>3. drafts' = [drafts EXCEPT ![c] = Inserted(new.pc)]
  BY <1>1
<1>4. drafts' \in [Clients -> SUBSET Inserts]
  BY <1>1, <1>2, <1>3
<1>5. ASSUME NEW d \in Clients PROVE drafts'[d] = Inserted(client'[d].pc)
  BY <1>1, <1>3 DEF Becomes
<1> QED
  BY <1>4, <1>5 DEF DraftsOK, Drafted
-------------------------------------------------------------------------------
(* The tables of the orders, whose state the other tables do not touch     *)

Tables == OpensAlone /\ Prepared /\ OrderIsOpened /\ HistoryIsWritten

\* What a request must have at the step it goes to while the orders stay as they are.
Ready(new) ==
  \/ new.pc \in {"idle", "rejected", "accounts"}
  \/ new.pc = "presence" /\ new.order \in Workers /\ new.value \in {"working", "off_duty"}
  \/ new.pc = "update" /\ new.order \in Orders /\ Exists(new.order) /\ new.value \in Statuses
  \/ new.pc = "open" /\ new.order \in Orders /\ Unused(new.order)
                     /\ new.value \in Workers \cup {Nobody}

\* The transaction of Receive goes on to its next statement.
Continues(c, new) ==
  /\ client[c].pc \in Opening /\ new.pc \in Opening
  /\ new.order = client[c].order /\ new.value = client[c].value

\* Whose order it is that is being opened.
LEMMA OpensOwn ==
  ASSUME IInv, NEW d \in Clients, client[d].pc \in Opening
  PROVE  /\ client[d].order \in Orders /\ client[d].value \in Workers \cup {Nobody}
         /\ ~ Exists(client[d].order)
         /\ \A e \in Clients : client[e].pc \in Opening /\ client[e].order = client[d].order => e = d
BY DEF IInv, OpensAlone

\* A request that leaves the orders alone, and none that owes an event unless the
\* lack of a connection is on record.
LEMMA QuietStep ==
  ASSUME IInv, NEW c \in Clients, NEW new, Becomes(c, new), Ready(new) \/ Continues(c, new),
         UNCHANGED <<orders, events, sold>>,
         client[c].pc \in {"created", "event"} => starved' \/ faults' # 0,
         starved => starved', faults' = 0 => faults = 0
  PROVE  Tables'
<1>1. /\ client' \in [Clients -> ClientStates] /\ client'[c] = new
      /\ \A d \in Clients : d # c => client'[d] = client[d]
  BY DEF Becomes
<1>2. OpensAlone'
  <2>1. ASSUME NEW d \in Clients, client'[d].pc \in Opening
        PROVE  /\ client'[d].order \in Orders /\ client'[d].value \in Workers \cup {Nobody}
               /\ ~ Exists(client'[d].order)
               /\ \A e \in Clients :
                    client'[e].pc \in Opening /\ client'[e].order = client'[d].order => e = d
    <3>0. Ready(new) /\ new.pc \in Opening => new.pc = "open"
      BY DEF Ready, Opening
    <3>1. CASE d = c /\ Ready(new)
      <4>1. /\ new.order \in Orders /\ Unused(new.order) /\ new.value \in Workers \cup {Nobody}
        BY <1>1, <2>1, <3>0, <3>1 DEF Ready
      <4>2. \A e \in Clients : client[e].order # new.order
        BY <4>1 DEF Unused
      <4> QED
        BY <1>1, <3>1, <4>1, <4>2 DEF Unused
    <3>2. CASE d # c
      <4>1. client[d].pc \in Opening /\ client'[d] = client[d]
        BY <1>1, <2>1, <3>2
      <4>2. /\ client[d].order \in Orders /\ client[d].value \in Workers \cup {Nobody}
            /\ ~ Exists(client[d].order)
            /\ \A e \in Clients : client[e].pc \in Opening /\ client[e].order = client[d].order => e = d
        BY <4>1, OpensOwn
      <4>3. Ready(new) /\ new.pc \in Opening => new.order # client[d].order
        BY <3>0 DEF Ready, Unused
      <4>4. Continues(c, new) => new.order # client[d].order
        BY <3>2, <4>2 DEF Continues
      <4> QED
        BY <1>1, <4>1, <4>2, <4>3, <4>4
    <3>3. CASE d = c /\ Continues(c, new)
      <4>1. /\ client[c].order \in Orders /\ client[c].value \in Workers \cup {Nobody}
            /\ ~ Exists(client[c].order)
            /\ \A e \in Clients : client[e].pc \in Opening /\ client[e].order = client[c].order => e = c
        BY <3>3, OpensOwn DEF Continues
      <4> QED
        BY <1>1, <3>3, <4>1 DEF Continues
    <3> QED
      BY <3>1, <3>2, <3>3
  <2>2. UNCHANGED orders
    OBVIOUS
  <2> QED
    BY <2>1, <2>2 DEF OpensAlone, Exists
<1>3. Prepared'
  <2>1. ASSUME NEW d \in Clients
        PROVE  LET o == client'[d].order  value == client'[d].value IN
               /\ client'[d].pc \in {"created", "update", "event"} => o \in Orders /\ Exists(o)
               /\ client'[d].pc = "created" => value = "created"
               /\ client'[d].pc \in {"update", "event"} => value \in Statuses
               /\ client'[d].pc = "event" => ToDatabase(value) \in LegalStatuses
               /\ client'[d].pc = "presence" => o \in Workers /\ value \in {"working", "off_duty"}
    <3>1. CASE d = c
      BY <1>1, <3>1 DEF Ready, Continues, Opening
    <3>2. CASE d # c
      BY <1>1, <3>2 DEF IInv, Prepared
    <3> QED
      BY <3>1, <3>2
  <2>2. UNCHANGED orders
    OBVIOUS
  <2> QED
    BY <2>1, <2>2 DEF Prepared, Exists
<1>4. OrderIsOpened'
  BY DEF IInv, OrderIsOpened, IsOpened, Exists, Said
<1>5. HistoryIsWritten'
  <2>1. ASSUME NEW o \in Orders PROVE UNCHANGED <<Exists(o), Said(o), orders[o], events[o]>>
    BY DEF Exists, Said
  <2>2. ASSUME NEW o \in Orders, NEW d \in Clients, ~ starved', faults' = 0
        PROVE  /\ d \in Writing(o, "created") => d \in Writing(o, "created")'
               /\ d \in Writing(o, "event") => d \in Writing(o, "event")' /\ client'[d] = client[d]
    BY <1>1, <2>2 DEF Writing
  <2>3. ASSUME NEW o \in Orders
        PROVE  /\ ~ Exists(o)' => (events[o])' = <<>>
               /\ \A w \in Said(o)' \cap Statuses : ToDatabase(w) \in LegalStatuses
    BY <2>1 DEF IInv, HistoryIsWritten, IsWritten
  <2>4. ASSUME NEW o \in Orders, Exists(o)', ~ starved', faults' = 0
        PROVE  /\ Said(o)' \cap {"created", "created_from_order"} # {} \/ Writing(o, "created")' # {}
               /\ \/ (orders[o])'.status \in {"new", "assigned"}
                  \/ \E w \in Said(o)' \cap Statuses : (orders[o])'.status = ToDatabase(w)
                  \/ \E d \in Writing(o, "event")' : (orders[o])'.status = ToDatabase(client'[d].value)
    <3>1. /\ Said(o) \cap {"created", "created_from_order"} # {} \/ Writing(o, "created") # {}
          /\ \/ orders[o].status \in {"new", "assigned"}
             \/ \E w \in Said(o) \cap Statuses : orders[o].status = ToDatabase(w)
             \/ \E d \in Writing(o, "event") : orders[o].status = ToDatabase(client[d].value)
      BY <2>1, <2>4 DEF IInv, HistoryIsWritten, IsWritten
    <3>2. Writing(o, "created") \subseteq Clients /\ Writing(o, "event") \subseteq Clients
      BY DEF Writing
    <3> QED
      BY <2>1, <2>2, <2>4, <3>1, <3>2
  <2> QED
    BY <2>3, <2>4 DEF HistoryIsWritten, IsWritten
<1> QED
  BY <1>2, <1>3, <1>4, <1>5 DEF Tables
\* A word is added to the history it is appended to, and to no other.
LEMMA SaidStep ==
  ASSUME TypeOK, NEW o \in Orders, NEW word \in Words,
         events' = [events EXCEPT ![o] = Append(@, word)]
  PROVE  /\ events' \in [Orders -> Seq(Words)]
         /\ Said(o)' = Said(o) \cup {word} /\ (events[o])' # <<>>
         /\ (events[o])'[1] = IF events[o] = <<>> THEN word ELSE events[o][1]
         /\ \A p \in Orders \ {o} : Said(p)' = Said(p) /\ (events[p])' = events[p]
<1>1. events \in [Orders -> Seq(Words)] /\ events[o] \in Seq(Words)
  BY DEF TypeOK
<1> DEFINE old == events[o]
           new == Append(events[o], word)
<1>2. events'[o] = new
  BY <1>1
<1>3. /\ new \in Seq(Words) /\ Len(new) = Len(old) + 1 /\ new[Len(old) + 1] = word
      /\ \A i \in 1..Len(old) : new[i] = old[i]
  BY <1>1, AppendProperties
<1>4. Len(old) \in Nat
  BY <1>1
<1>5. events' \in [Orders -> Seq(Words)]
  BY <1>1, <1>3
<1>6. {new[k] : k \in 1..Len(new)} = {old[k] : k \in 1..Len(old)} \cup {word}
  <2> HIDE DEF new, old
  <2>1. 1..Len(new) = 1..Len(old) \cup {Len(old) + 1}
    BY <1>3, <1>4
  <2> QED
    BY <1>3, <2>1
<1>7. Said(o)' = Said(o) \cup {word}
  BY <1>2, <1>6 DEF Said
<1>8. \A p \in Orders \ {o} : Said(p)' = Said(p) /\ (events[p])' = events[p]
  BY <1>1 DEF Said
<1>9. new # <<>> /\ new[1] = IF old = <<>> THEN word ELSE old[1]
  <2> HIDE DEF new
  <2>1. old = <<>> \/ 1 \in 1..Len(old)
    BY <1>1, <1>4, EmptySeq
  <2>2. old = <<>> => Len(old) = 0
    OBVIOUS
  <2> HIDE DEF old
  <2>3. Len(new) # 0
    BY <1>3, <1>4
  <2> QED
    BY <1>3, <1>4, <2>1, <2>2, <2>3
<1> QED
  BY <1>2, <1>5, <1>7, <1>8, <1>9
-------------------------------------------------------------------------------
(* The invariant *)

LEMMA InitInv == Init => IInv
<1> SUFFICES ASSUME Init PROVE IInv
  OBVIOUS
<1>1. \A c \in Clients : client[c] = Idle /\ client[c].pc = "idle"
  BY DEF Init, Idle
<1>2. TypeOK
  <2>1. Idle \in ClientStates
    BY DEF Idle, ClientStates
  <2>2. client \in [Clients -> ClientStates]
    BY <2>1 DEF Init
  <2>3. /\ orders \in [Orders -> [status: LegalStatuses \cup {"none"}, worker: Workers \cup {Nobody}]]
        /\ events \in [Orders -> Seq(Words)]
    BY DEF Init
  <2>4. presence \in [Workers -> {"working", "off_duty"}]
    BY DEF Init
  <2>5. /\ sold \subseteq Orders /\ clocked \subseteq Workers /\ before \subseteq Workers \X Workers
        /\ booked \in Nat /\ starved \in BOOLEAN /\ drafts \in [Clients -> SUBSET Inserts]
        /\ requests \in Nat /\ faults \in Nat
    BY DEF Init
  <2>6. free \in 0..Connections
    BY OperationsAssumption DEF Init
  <2> QED
    BY <2>2, <2>3, <2>4, <2>5, <2>6 DEF TypeOK
<1>3. Cardinality({}) = 0
  BY FS_EmptySet
<1>4. PoolConserved
  <2>1. {c \in Clients : client[c].pc \in Keeping} = {}
    BY <1>1 DEF Keeping, Opening
  <2>2. free + 0 = Connections
    BY OperationsAssumption DEF Init
  <2> QED
    BY <1>3, <2>1, <2>2 DEF PoolConserved
<1>5. Drafted
  BY <1>1 DEF Init, Drafted, Inserted
<1>6. OpensAlone /\ Prepared
  BY <1>1 DEF OpensAlone, Prepared, Opening
<1>7. \A o \in Orders : ~ Exists(o) /\ events[o] = <<>> /\ Said(o) = {}
  BY DEF Init, Exists, Said
<1>8. OrderIsOpened /\ HistoryIsWritten
  BY <1>7 DEF Init, OrderIsOpened, IsOpened, HistoryIsWritten, IsWritten
<1> QED
  BY <1>2, <1>4, <1>5, <1>6, <1>8 DEF IInv

TeamOK ==
  /\ clocked \subseteq Workers /\ before \subseteq Workers \X Workers
  /\ presence \in [Workers -> {"working", "off_duty"}]

CountersOK == requests \in Nat /\ faults \in Nat /\ starved \in BOOLEAN /\ free \in 0..Connections

\* A step that leaves the orders alone keeps the invariant.
LEMMA QuietInv ==
  ASSUME IInv, NEW c \in Clients, NEW new, Becomes(c, new), Ready(new) \/ Continues(c, new),
         UNCHANGED <<orders, events, sold>>, booked' \in Nat,
         DraftsOK', TeamOK', CountersOK', PoolConserved',
         client[c].pc \in {"created", "event"} => starved' \/ faults' # 0,
         starved => starved', faults' = 0 => faults = 0
  PROVE  IInv'
<1>1. Tables'
  BY QuietStep
<1>2. TypeOK'
  BY DEF IInv, TypeOK, DraftsOK, TeamOK, CountersOK, Becomes
<1> QED
  BY <1>1, <1>2 DEF IInv, Tables, DraftsOK

\* A request that is over has no drafts.
LEMMA AnswerDrafts ==
  ASSUME IInv, NEW c \in Clients, Answer(c), Becomes(c, Idle)
  PROVE  DraftsOK'
<1>1. Inserted(Idle.pc) = {}
  BY DEF Inserted, Idle
<1>2. drafts' = [drafts EXCEPT ![c] = {}]
  BY DEF Answer
<1> QED
  BY <1>1, <1>2, DraftsStep

\* A request begins and leaves the orders alone.
LEMMA BeginInv ==
  ASSUME IInv, NEW c \in Clients, NEW next \in ClientStates, Request(c, next), Ready(next),
         UNCHANGED <<orders, events, sold>>, TeamOK', booked' \in {booked, booked + 1}
  PROVE  IInv'
<1>1. TypeOK /\ PoolConserved
  BY DEF IInv
<1>2. /\ Becomes(c, next) /\ PoolConserved' /\ free' \in 0..Connections /\ requests' \in Nat
      /\ client[c].pc = "idle" /\ UNCHANGED <<drafts, starved, faults>>
  BY <1>1, RequestStep
<1>3. CountersOK' /\ booked' \in Nat
  BY <1>1, <1>2 DEF CountersOK, TypeOK
<1>4. Inserted(next.pc) = Inserted(client[c].pc)
  BY <1>2 DEF Ready, Inserted
<1>5. DraftsOK'
  BY <1>2, <1>4, DraftsStep
<1> QED
  BY <1>2, <1>3, <1>5, QuietInv

\* A request is over and leaves the orders alone.
LEMMA EndInv ==
  ASSUME IInv, NEW c \in Clients, Answer(c), UNCHANGED <<orders, events, sold, requests>>, TeamOK',
         client[c].pc \in {"created", "event"} => starved' \/ faults' # 0,
         starved => starved', faults' = 0 => faults = 0, starved' \in BOOLEAN, faults' \in Nat,
         UNCHANGED booked
  PROVE  IInv'
<1>1. TypeOK /\ PoolConserved
  BY DEF IInv
<1>2. Becomes(c, Idle) /\ PoolConserved' /\ free' \in 0..Connections
  BY <1>1, AnswerStep
<1>3. Idle.pc = "idle" /\ Ready(Idle)
  BY DEF Idle, Ready
<1>4. CountersOK' /\ booked' \in Nat
  BY <1>1, <1>2 DEF CountersOK, TypeOK
<1>5. DraftsOK'
  BY <1>2, AnswerDrafts
<1> QED
  BY <1>2, <1>3, <1>4, <1>5, QuietInv

LEMMA BeginningsInv ==
  ASSUME IInv, NEW c \in Clients,
         \/ \E o \in Orders :
              \/ \E s \in Statuses, u \in Workers \cup {"manager"} : PostStatus(c, o, s, u)
              \/ \E w \in Workers \cup {Nobody} : Receive(c, o, w)
         \/ \E w \in Workers :
              StartWork(c, w) \/ EndWork(c, w) \/ \E p \in {"working", "off_duty"} : PostPresence(c, w, p)
         \/ CreateTransaction(c)
  PROVE  IInv'
<1>1. TeamOK /\ (UNCHANGED team => TeamOK')
  BY DEF IInv, TypeOK, TeamOK, team
<1>2. ASSUME NEW o \in Orders, NEW s \in Statuses, NEW u, PostStatus(c, o, s, u) PROVE IInv'
  <2> DEFINE next == [pc |-> "update", order |-> o, value |-> s]
  <2>1. next \in ClientStates
    BY DEF ClientStates, Words
  <2>2. Ready(next)
    BY <1>2 DEF PostStatus, Ready
  <2>3. Request(c, next) /\ UNCHANGED data
    BY <1>2 DEF PostStatus
  <2> HIDE DEF next
  <2> QED
    BY <1>1, <2>1, <2>2, <2>3, BeginInv DEF data
<1>3. ASSUME NEW o \in Orders, NEW w \in Workers \cup {Nobody}, Receive(c, o, w) PROVE IInv'
  <2> DEFINE next == [pc |-> "open", order |-> o, value |-> w]
  <2>1. next \in ClientStates
    BY DEF ClientStates, Keeping, Opening
  <2>2. Ready(next)
    BY <1>3 DEF Receive, Ready
  <2>3. Request(c, next) /\ UNCHANGED data
    BY <1>3 DEF Receive
  <2> HIDE DEF next
  <2> QED
    BY <1>1, <2>1, <2>2, <2>3, BeginInv DEF data
<1>4. ASSUME NEW w \in Workers, NEW pc \in {"presence", "rejected"}, NEW p \in {"working", "off_duty"},
             Request(c, [pc |-> pc, order |-> w, value |-> p]),
             UNCHANGED <<orders, events, sold, presence, before, booked>>, clocked' \subseteq Workers
      PROVE  IInv'
  <2> DEFINE next == [pc |-> pc, order |-> w, value |-> p]
  <2>1. next \in ClientStates
    BY DEF ClientStates
  <2>2. Ready(next)
    BY DEF Ready
  <2>3. Request(c, next) /\ TeamOK'
    BY <1>1, <1>4 DEF TeamOK
  <2> HIDE DEF next
  <2> QED
    BY <1>4, <2>1, <2>2, <2>3, BeginInv
<1>5. ASSUME NEW w \in Workers, StartWork(c, w) PROVE IInv'
  <2>1. clocked' \subseteq Workers
    BY <1>1, <1>5 DEF StartWork, TeamOK
  <2> QED
    BY <1>4, <1>5, <2>1 DEF StartWork
<1>6. ASSUME NEW w \in Workers, EndWork(c, w) PROVE IInv'
  <2>1. clocked' \subseteq Workers
    BY <1>1, <1>6 DEF EndWork, TeamOK
  <2> QED
    BY <1>4, <1>6, <2>1 DEF EndWork
<1>7. ASSUME NEW w \in Workers, NEW p \in {"working", "off_duty"}, PostPresence(c, w, p) PROVE IInv'
  <2>1. clocked' \subseteq Workers
    BY <1>1, <1>7 DEF PostPresence, TeamOK, data, team
  <2> QED
    BY <1>4, <1>7, <2>1 DEF PostPresence, data, team
<1>8. CASE CreateTransaction(c)
  <2> DEFINE next == [pc |-> "accounts", order |-> "none", value |-> "none"]
  <2>1. next \in ClientStates
    BY DEF ClientStates, Keeping, Opening
  <2>2. Ready(next)
    BY DEF Ready
  <2>3. Request(c, next) /\ UNCHANGED <<orders, events, sold, team>> /\ booked' = booked + 1
    BY <1>8 DEF CreateTransaction
  <2> HIDE DEF next
  <2> QED
    BY <1>1, <2>1, <2>2, <2>3, BeginInv
<1> QED
  BY <1>2, <1>3, <1>5, <1>6, <1>7, <1>8

LEMMA EndingsInv ==
  ASSUME IInv, NEW c \in Clients,
         UpdateStatus(c) \/ ListAccounts(c) \/ Rejected(c) \/ Disconnect(c) \/ PoolTimeout(c)
  PROVE  IInv'
<1>1. TeamOK /\ (UNCHANGED team => TeamOK')
  BY DEF IInv, TypeOK, TeamOK, team
<1>2. starved \in BOOLEAN /\ faults \in Nat
  BY DEF IInv, TypeOK
<1>3. CASE UpdateStatus(c)
  <2> DEFINE w == client[c].order
  <2>1. client[c].pc = "presence" /\ UNCHANGED <<starved, requests, faults>>
    BY <1>3 DEF UpdateStatus, Statement, At
  <2>2. w \in Workers /\ client[c].value \in {"working", "off_duty"}
    BY <2>1 DEF IInv, Prepared
  <2>3. /\ presence' = [presence EXCEPT ![w] = client[c].value]
        /\ before' = {pair \in before : w \notin {pair[1], pair[2]}} \cup ((Workers \ {w}) \X {w})
        /\ Answer(c) /\ UNCHANGED <<orders, events, sold, clocked, booked>>
    BY <1>3 DEF UpdateStatus
  <2> HIDE DEF w
  <2>4. TeamOK'
    BY <1>1, <2>2, <2>3 DEF TeamOK
  <2> QED
    BY <1>2, <2>1, <2>3, <2>4, EndInv
<1>4. CASE ListAccounts(c)
  BY <1>1, <1>2, <1>4, EndInv DEF ListAccounts, Statement, At, data
<1>5. CASE Rejected(c)
  BY <1>1, <1>2, <1>5, EndInv DEF Rejected, At, data
<1>6. CASE Disconnect(c)
  BY <1>1, <1>2, <1>6, EndInv DEF Disconnect, data
<1>7. CASE PoolTimeout(c)
  BY <1>1, <1>2, <1>7, EndInv DEF PoolTimeout, data
<1> QED
  BY <1>3, <1>4, <1>5, <1>6, <1>7
-------------------------------------------------------------------------------
(* The steps that write an order o *)

Drafting == {"created", "update", "event"} \cup Opening

\* The other requests are not disturbed, as they exist or are opened all the same.
LEMMA OthersStep ==
  ASSUME IInv, NEW c \in Clients, NEW new, Becomes(c, new), NEW o \in Orders,
         \A p \in Orders \ {o} : orders'[p] = orders[p],
         Exists(o) => Exists(o)',
         \A d \in Clients \ {c} : client[d].pc \in Opening => client[d].order # o,
         \/ new.pc \in {"idle", "rejected"}
         \/ new.pc = "created" /\ new.order = o /\ Exists(o)' /\ new.value = "created"
         \/ /\ new.pc = "event" /\ new.order = o /\ Exists(o)' /\ new.value \in Statuses
            /\ ToDatabase(new.value) \in LegalStatuses
  PROVE  OpensAlone' /\ Prepared'
<1>1. /\ client' \in [Clients -> ClientStates] /\ client'[c] = new
      /\ \A d \in Clients : d # c => client'[d] = client[d]
  BY DEF Becomes
<1>2. \A p \in Orders : Exists(p) => Exists(p)'
  BY DEF Exists
<1>3. OpensAlone'
  <2>1. ASSUME NEW d \in Clients, client'[d].pc \in Opening
        PROVE  /\ client'[d].order \in Orders /\ client'[d].value \in Workers \cup {Nobody}
               /\ orders'[client'[d].order].status = "none"
               /\ \A e \in Clients :
                    client'[e].pc \in Opening /\ client'[e].order = client'[d].order => e = d
    <3>0. new.pc \notin Opening
      BY DEF Opening
    <3>1. d # c /\ client'[d] = client[d] /\ client[d].pc \in Opening
      BY <1>1, <2>1, <3>0
    <3>2. /\ client[d].order \in Orders /\ client[d].value \in Workers \cup {Nobody}
          /\ ~ Exists(client[d].order)
          /\ \A e \in Clients : client[e].pc \in Opening /\ client[e].order = client[d].order => e = d
      BY <3>1, OpensOwn
    <3>3. client[d].order # o
      BY <3>1
    <3>4. orders'[client[d].order].status = "none"
      BY <3>2, <3>3 DEF Exists
    <3> QED
      BY <1>1, <3>0, <3>1, <3>2, <3>4 DEF Exists
  <2> QED
    BY <2>1 DEF OpensAlone, Exists
<1>4. Prepared'
  <2>1. ASSUME NEW d \in Clients
        PROVE  /\ client'[d].pc \in {"created", "update", "event"} =>
                    client'[d].order \in Orders /\ orders'[client'[d].order].status # "none"
               /\ client'[d].pc = "created" => client'[d].value = "created"
               /\ client'[d].pc \in {"update", "event"} => client'[d].value \in Statuses
               /\ client'[d].pc = "event" => ToDatabase(client'[d].value) \in LegalStatuses
               /\ client'[d].pc = "presence" =>
                    client'[d].order \in Workers /\ client'[d].value \in {"working", "off_duty"}
    <3>1. CASE d = c
      BY <1>1, <3>1 DEF Exists
    <3>2. CASE d # c
      BY <1>1, <1>2, <3>2 DEF IInv, Prepared, Exists
    <3> QED
      BY <3>1, <3>2
  <2> QED
    BY <2>1 DEF Prepared, Exists
<1> QED
  BY <1>3, <1>4

\* Nor are the other orders.
LEMMA OrdersElsewhere ==
  ASSUME IInv, NEW c \in Clients, NEW new, Becomes(c, new), NEW o \in Orders,
         \A p \in Orders \ {o} :
           orders'[p] = orders[p] /\ events'[p] = events[p] /\ (p \in sold' <=> p \in sold),
         client[c].pc \in Drafting => client[c].order = o,
         new.pc \in Drafting => new.order = o,
         UNCHANGED <<starved, faults>>, NEW p \in Orders \ {o}
  PROVE  IsWritten(p)' /\ IsOpened(p)'
<1>1. /\ client' \in [Clients -> ClientStates] /\ client'[c] = new
      /\ \A d \in Clients : d # c => client'[d] = client[d]
  BY DEF Becomes
<1>2. (Exists(p)' <=> Exists(p)) /\ Said(p)' = Said(p)
  BY DEF Exists, Said
<1>3. Writing(p, "created")' = Writing(p, "created") /\ Writing(p, "event")' = Writing(p, "event")
  BY <1>1 DEF Writing, Drafting
<1>4. \A d \in Writing(p, "event") : client'[d] = client[d]
  BY <1>1 DEF Writing, Drafting
<1>5. IsWritten(p) /\ IsOpened(p)
  BY DEF IInv, HistoryIsWritten, OrderIsOpened
<1> QED
  BY <1>2, <1>3, <1>4, <1>5 DEF IsWritten, IsOpened

\* A step that writes an order keeps the invariant if that order is in order.
LEMMA WriteInv ==
  ASSUME IInv, NEW c \in Clients, NEW new, Becomes(c, new), NEW o \in Orders,
         \A p \in Orders \ {o} :
           orders'[p] = orders[p] /\ events'[p] = events[p] /\ (p \in sold' <=> p \in sold),
         OpensAlone' /\ Prepared',
         client[c].pc \in Drafting => client[c].order = o,
         new.pc \in Drafting => new.order = o,
         DraftsOK',
         orders' \in [Orders -> [status: LegalStatuses \cup {"none"}, worker: Workers \cup {Nobody}]],
         events' \in [Orders -> Seq(Words)], sold' \subseteq Orders,
         UNCHANGED <<team, booked, starved, faults>>,
         PoolConserved', free' \in 0..Connections, requests' \in Nat,
         IsWritten(o)', IsOpened(o)'
  PROVE  IInv'
<1>1. \A p \in Orders : IsWritten(p)' /\ IsOpened(p)'
  BY OrdersElsewhere
<1>2. HistoryIsWritten' /\ OrderIsOpened'
  BY <1>1 DEF HistoryIsWritten, OrderIsOpened
<1>3. TypeOK'
  BY DEF IInv, TypeOK, DraftsOK, team, Becomes
<1> QED
  BY <1>2, <1>3 DEF IInv, DraftsOK

LEMMA CreateInv ==
  ASSUME IInv, NEW c \in Clients, NEW o \in Orders, NEW w \in Workers, CreateWorkOrder(c, o, w)
  PROVE  IInv'
<1> DEFINE next == [pc |-> "created", order |-> o, value |-> "created"]
<1>1. TypeOK /\ PoolConserved
  BY DEF IInv
<1>2. next \in ClientStates /\ next.pc = "created" /\ next.order = o /\ next.value = "created"
  BY DEF ClientStates, Words, Keeping, Opening
<1>3. /\ Request(c, next) /\ Unused(o)
      /\ orders' = [orders EXCEPT ![o] = [status |-> "new", worker |-> w]]
      /\ UNCHANGED <<events, sold, team, booked>>
  BY DEF CreateWorkOrder
<1> HIDE DEF next
<1>4. /\ Becomes(c, next) /\ PoolConserved' /\ free' \in 0..Connections /\ requests' \in Nat
      /\ client[c].pc = "idle" /\ UNCHANGED <<drafts, starved, faults>>
  BY <1>1, <1>2, <1>3, RequestStep
<1>5. /\ orders' \in [Orders -> [status: LegalStatuses \cup {"none"}, worker: Workers \cup {Nobody}]]
      /\ orders'[o].status = "new" /\ \A p \in Orders \ {o} : orders'[p] = orders[p]
  BY <1>1, <1>3 DEF TypeOK, LegalStatuses
<1>6. ~ Exists(o) /\ Exists(o)' /\ \A d \in Clients : client[d].order # o
  BY <1>3, <1>5 DEF Unused, Exists
<1>7. events'[o] = <<>> /\ o \notin sold'
  BY <1>3, <1>6 DEF IInv, HistoryIsWritten, IsWritten, OrderIsOpened, IsOpened
<1>8. Said(o)' = {}
  BY <1>7 DEF Said
<1>9. c \in Writing(o, "created")'
  BY <1>2, <1>4 DEF Writing, Becomes
<1>10. IsWritten(o)' /\ IsOpened(o)'
  BY <1>5, <1>6, <1>7, <1>8, <1>9 DEF IsWritten, IsOpened
<1>11. OpensAlone' /\ Prepared'
  BY <1>2, <1>4, <1>5, <1>6, OthersStep
<1>12. DraftsOK'
  <2>1. Inserted(next.pc) = Inserted(client[c].pc)
    BY <1>2, <1>4 DEF Inserted
  <2> QED
    BY <1>4, <2>1, DraftsStep
<1>13. /\ client[c].pc \in Drafting => client[c].order = o
       /\ next.pc \in Drafting => next.order = o
       /\ events' \in [Orders -> Seq(Words)] /\ sold' \subseteq Orders
  BY <1>1, <1>2, <1>3, <1>4 DEF Drafting, Opening, TypeOK
<1>14. \A p \in Orders \ {o} :
         orders'[p] = orders[p] /\ events'[p] = events[p] /\ (p \in sold' <=> p \in sold)
  BY <1>3, <1>5
<1> QED
  BY <1>3, <1>4, <1>5, <1>10, <1>11, <1>12, <1>13, <1>14, WriteInv

LEMMA UpdateInv ==
  ASSUME IInv, NEW c \in Clients, UpdateWorkOrderStatus(c) PROVE IInv'
<1>1. TypeOK /\ PoolConserved /\ client[c] \in ClientStates
  BY DEF IInv, TypeOK
<1>2. /\ client[c].pc = "update" /\ UNCHANGED <<starved, requests, faults, events, sold, team, booked>>
      /\ client[c].pc \notin Keeping
  BY DEF UpdateWorkOrderStatus, Statement, At, Keeping, Opening
<1>3. PICK o \in Orders, status \in {ToDatabase(client[c].value)} :
         o = client[c].order /\ Exists(o) /\ client[c].value \in Statuses
  BY <1>2 DEF IInv, Prepared
<1>4. CASE status \in LegalStatuses
  <2> DEFINE new == [client[c] EXCEPT !.pc = "event"]
  <2>1. Goto(c, "event") /\ orders' = [orders EXCEPT ![o].status = status]
    BY <1>3, <1>4 DEF UpdateWorkOrderStatus
  <2>2. new.pc = "event" /\ new.order = o /\ new.value = client[c].value
    BY <1>1, <1>3 DEF ClientStates
  <2>3. Becomes(c, new) /\ PoolConserved' /\ free' \in 0..Connections
    BY <1>1, <1>2, <2>1, GotoStep
  <2>4. ToDatabase(new.value) = status /\ ToDatabase(new.value) \in LegalStatuses
    BY <1>3, <1>4, <2>2
  <2> HIDE DEF new
  <2>5. /\ orders' \in [Orders -> [status: LegalStatuses \cup {"none"}, worker: Workers \cup {Nobody}]]
        /\ orders'[o].status = status /\ \A p \in Orders \ {o} : orders'[p] = orders[p]
    <3> DEFINE Row == [status: LegalStatuses \cup {"none"}, worker: Workers \cup {Nobody}]
               row == [orders[o] EXCEPT !.status = status]
    <3>1. orders \in [Orders -> Row] /\ orders[o] \in Row
      BY <1>1, <1>3 DEF TypeOK
    <3>2. row \in Row /\ row.status = status
      BY <1>4, <3>1
    <3>3. orders' = [orders EXCEPT ![o] = row]
      BY <2>1
    <3> HIDE DEF Row, row
    <3>4. orders' \in [Orders -> Row] /\ orders'[o] = row /\ \A p \in Orders \ {o} : orders'[p] = orders[p]
      BY <3>1, <3>2, <3>3
    <3> QED
      BY <3>2, <3>4 DEF Row
  <2>6. Exists(o)'
    BY <1>4, <2>5 DEF Exists, LegalStatuses
  <2>7. \A d \in Clients : client[d].pc \in Opening => client[d].order # o
    BY <1>3 DEF IInv, OpensAlone
  <2>8. OpensAlone' /\ Prepared'
    BY <1>3, <2>2, <2>3, <2>4, <2>5, <2>6, <2>7, OthersStep
  <2>9. /\ c \in Writing(o, "event")' /\ client'[c] = new
        /\ Writing(o, "created") # {} => Writing(o, "created")' # {}
    BY <1>2, <2>2, <2>3 DEF Writing, Becomes
  <2>10. Said(o)' = Said(o) /\ (events[o])' = events[o]
    BY <1>2 DEF Said
  <2>11. IsWritten(o) /\ IsOpened(o)
    BY <1>3 DEF IInv, HistoryIsWritten, OrderIsOpened
  <2>12. IsWritten(o)' /\ IsOpened(o)'
    BY <1>2, <1>3, <2>4, <2>5, <2>6, <2>9, <2>10, <2>11 DEF IsWritten, IsOpened
  <2>13. DraftsOK'
    <3>1. Inserted(new.pc) = Inserted(client[c].pc) /\ drafts' = drafts
      BY <1>2, <2>1, <2>2 DEF Inserted, Goto
    <3> QED
      BY <2>3, <3>1, DraftsStep
  <2>14. /\ client[c].pc \in Drafting => client[c].order = o
         /\ new.pc \in Drafting => new.order = o
         /\ events' \in [Orders -> Seq(Words)] /\ sold' \subseteq Orders /\ requests' \in Nat
    BY <1>1, <1>2, <1>3, <2>2 DEF TypeOK
  <2>15. \A p \in Orders \ {o} :
           orders'[p] = orders[p] /\ events'[p] = events[p] /\ (p \in sold' <=> p \in sold)
    BY <1>2, <2>5
  <2> QED
    BY <1>2, <2>3, <2>5, <2>8, <2>12, <2>13, <2>14, <2>15, WriteInv
<1>5. CASE status \notin LegalStatuses
  <2> DEFINE new == [client[c] EXCEPT !.pc = "rejected"]
  <2>1. Goto(c, "rejected") /\ UNCHANGED orders
    BY <1>3, <1>5 DEF UpdateWorkOrderStatus
  <2>2. new.pc = "rejected"
    BY <1>1 DEF ClientStates
  <2>3. Becomes(c, new) /\ PoolConserved' /\ free' \in 0..Connections
    BY <1>1, <1>2, <2>1, GotoStep
  <2>4. Ready(new)
    BY <2>2 DEF Ready
  <2> HIDE DEF new
  <2>5. TeamOK' /\ CountersOK' /\ booked' \in Nat
    BY <1>1, <1>2, <2>3 DEF TypeOK, TeamOK, CountersOK, team
  <2>6. DraftsOK'
    <3>1. Inserted(new.pc) = Inserted(client[c].pc) /\ drafts' = drafts
      BY <1>2, <2>1, <2>2 DEF Inserted, Goto
    <3> QED
      BY <2>3, <3>1, DraftsStep
  <2> QED
    BY <1>2, <2>1, <2>2, <2>3, <2>4, <2>5, <2>6, QuietInv
<1> QED
  BY <1>4, <1>5

LEMMA InsertEventInv ==
  ASSUME IInv, NEW c \in Clients, InsertEvent(c) PROVE IInv'
<1>1. TypeOK /\ PoolConserved
  BY DEF IInv
<1>2. /\ client[c].pc \in {"event", "created"} /\ Answer(c)
      /\ UNCHANGED <<orders, sold, team, booked, starved, requests, faults>>
      /\ events' = [events EXCEPT ![client[c].order] = Append(@, client[c].value)]
  BY DEF InsertEvent, Statement, At
<1>3. PICK o \in Orders, word \in {client[c].value} :
         /\ o = client[c].order /\ Exists(o)
         /\ \/ client[c].pc = "created" /\ word = "created"
            \/ /\ client[c].pc = "event" /\ word \in Statuses
               /\ ToDatabase(word) \in LegalStatuses
  BY <1>2 DEF IInv, Prepared
<1>4. word \in Words /\ word # "created_from_order" /\ (word = "created" => word \notin Statuses)
  BY <1>3 DEF Words, Statuses
<1>5. Becomes(c, Idle) /\ PoolConserved' /\ free' \in 0..Connections /\ Idle.pc = "idle"
  BY <1>1, <1>2, AnswerStep DEF Idle
<1>6. \A d \in Clients : client[d].pc \in Opening => client[d].order # o
  BY <1>3 DEF IInv, OpensAlone
<1>7. /\ events' \in [Orders -> Seq(Words)] /\ Said(o)' = Said(o) \cup {word}
      /\ (events[o])' # <<>> /\ (events[o] # <<>> => (events[o])'[1] = events[o][1])
      /\ \A p \in Orders \ {o} : (events[p])' = events[p]
  BY <1>1, <1>2, <1>3, <1>4, SaidStep
<1>8. Exists(o)'
  BY <1>2, <1>3 DEF Exists
<1>9. OpensAlone' /\ Prepared'
  BY <1>2, <1>3, <1>5, <1>6, <1>8, OthersStep
<1>10. IsWritten(o) /\ IsOpened(o)
  BY <1>3 DEF IInv, HistoryIsWritten, OrderIsOpened
<1>11. \A d \in Clients \ {c} :
         /\ d \in Writing(o, "created") => d \in Writing(o, "created")'
         /\ d \in Writing(o, "event") => d \in Writing(o, "event")' /\ client'[d] = client[d]
  BY <1>5 DEF Writing, Becomes
<1>12. /\ c \in Writing(o, "created") => word = "created"
       /\ c \in Writing(o, "event") => word \in Statuses /\ client[c].value = word
  BY <1>3 DEF Writing
<1>13. Writing(o, "created") \subseteq Clients /\ Writing(o, "event") \subseteq Clients
  BY DEF Writing
<1>14. IsWritten(o)'
  <2>1. \A w \in Said(o)' \cap Statuses : ToDatabase(w) \in LegalStatuses
    BY <1>3, <1>4, <1>7, <1>10 DEF IsWritten
  <2>2. ASSUME ~ starved, faults = 0
        PROVE  Said(o)' \cap {"created", "created_from_order"} # {} \/ Writing(o, "created")' # {}
    <3>1. Said(o) \cap {"created", "created_from_order"} # {} \/ \E d \in Clients : d \in Writing(o, "created")
      BY <1>3, <1>10, <1>13, <2>2 DEF IsWritten
    <3>2. c \in Writing(o, "created") => "created" \in Said(o)'
      BY <1>7, <1>12
    <3>3. \A d \in Clients \ {c} : d \in Writing(o, "created") => d \in Writing(o, "created")'
      BY <1>11
    <3> QED
      BY <1>7, <3>1, <3>2, <3>3
  <2>3. ASSUME ~ starved, faults = 0
        PROVE  \/ orders[o].status \in {"new", "assigned"}
               \/ \E w \in Said(o)' \cap Statuses : orders[o].status = ToDatabase(w)
               \/ \E d \in Writing(o, "event")' : orders[o].status = ToDatabase(client'[d].value)
    <3>1. \/ orders[o].status \in {"new", "assigned"}
          \/ \E w \in Said(o) \cap Statuses : orders[o].status = ToDatabase(w)
          \/ \E d \in Writing(o, "event") : orders[o].status = ToDatabase(client[d].value)
      BY <1>3, <1>10, <2>3 DEF IsWritten
    <3>2. ASSUME NEW d \in Writing(o, "event"), orders[o].status = ToDatabase(client[d].value)
          PROVE  \/ \E w \in Said(o)' \cap Statuses : orders[o].status = ToDatabase(w)
                 \/ \E e \in Writing(o, "event")' : orders[o].status = ToDatabase(client'[e].value)
      <4>1. CASE d = c
        BY <1>7, <1>12, <3>2, <4>1
      <4>2. CASE d # c
        BY <1>11, <1>13, <3>2, <4>2
      <4> QED
        BY <4>1, <4>2
    <3> QED
      BY <1>7, <3>1, <3>2
  <2> QED
    BY <1>2, <1>8, <2>1, <2>2, <2>3 DEF IsWritten
<1>15. \A p \in Orders \ {o} :
         orders'[p] = orders[p] /\ events'[p] = events[p] /\ (p \in sold' <=> p \in sold)
  BY <1>2, <1>7
<1>16. /\ client[c].pc \in Drafting => client[c].order = o
       /\ Idle.pc \in Drafting => Idle.order = o
       /\ requests' \in Nat
  BY <1>1, <1>2, <1>3, <1>5 DEF Drafting, Opening, TypeOK
<1>17. IsOpened(o)'
  BY <1>2, <1>4, <1>7, <1>8, <1>10 DEF IsOpened
<1>18. orders' \in [Orders -> [status: LegalStatuses \cup {"none"}, worker: Workers \cup {Nobody}]]
       /\ sold' \subseteq Orders
  BY <1>1, <1>2 DEF TypeOK
<1>19. DraftsOK'
  BY <1>2, <1>5, AnswerDrafts
<1> QED
  BY <1>2, <1>5, <1>7, <1>9, <1>14, <1>15, <1>16, <1>17, <1>18, <1>19, WriteInv

LEMMA InsertInv ==
  ASSUME IInv, NEW c \in Clients, OpenWorkOrder(c) \/ AuditOpening(c) \/ InsertOrder(c)
  PROVE  IInv'
<1>1. TypeOK /\ PoolConserved /\ client[c] \in ClientStates
  BY DEF IInv, TypeOK
<1>2. PICK pc \in Opening, next \in Opening, table \in Inserts :
         /\ Insert(c, pc, table, next) /\ Inserted(next) = Inserted(pc) \cup {table}
  <2>1. /\ Inserted("open") = {} /\ Inserted("audit") = {"work_orders"}
        /\ Inserted("order") = {"work_orders", "work_order_events"}
        /\ Inserted("commit") = {"work_orders", "work_order_events", "customer_orders"}
    BY DEF Inserted
  <2>2. {"open", "audit", "order", "commit"} = Opening
        /\ {"work_orders", "work_order_events", "customer_orders"} = Inserts
    BY DEF Opening, Inserts
  <2>3. CASE OpenWorkOrder(c)
    <3>1. Insert(c, "open", "work_orders", "audit") /\ Inserted("audit") = Inserted("open") \cup {"work_orders"}
      BY <2>1, <2>3 DEF OpenWorkOrder
    <3> QED
      BY <2>2, <3>1
  <2>4. CASE AuditOpening(c)
    <3>1. /\ Insert(c, "audit", "work_order_events", "order")
          /\ Inserted("order") = Inserted("audit") \cup {"work_order_events"}
      BY <2>1, <2>4 DEF AuditOpening
    <3> QED
      BY <2>2, <3>1
  <2>5. CASE InsertOrder(c)
    <3>1. /\ Insert(c, "order", "customer_orders", "commit")
          /\ Inserted("commit") = Inserted("order") \cup {"customer_orders"}
      BY <2>1, <2>5 DEF InsertOrder
    <3> QED
      BY <2>2, <3>1
  <2> QED
    BY <2>3, <2>4, <2>5
<1> DEFINE new == [client[c] EXCEPT !.pc = next]
<1>3. /\ client[c].pc = pc /\ client' = [client EXCEPT ![c] = new]
      /\ drafts' = [drafts EXCEPT ![c] = drafts[c] \cup {table}]
      /\ UNCHANGED <<orders, events, sold, team, booked, free, starved, requests, faults>>
  BY <1>2 DEF Insert, At, data
<1>4. next \in Opening /\ pc \in Opening
  BY <1>2
<1>5. new \in ClientStates /\ new.pc = next /\ new.order = client[c].order /\ new.value = client[c].value
  BY <1>1, <1>4 DEF ClientStates, Keeping
<1> HIDE DEF new
<1>6. Becomes(c, new)
  BY <1>1, <1>3, <1>5 DEF TypeOK, Becomes
<1>7. Continues(c, new)
  BY <1>3, <1>4, <1>5 DEF Continues
<1>8. DraftsOK'
  <2>1. drafts[c] = Inserted(pc)
    BY <1>3 DEF IInv, Drafted
  <2>2. drafts' = [drafts EXCEPT ![c] = Inserted(new.pc)]
    BY <1>2, <1>3, <1>5, <2>1
  <2> QED
    BY <1>6, <2>2, DraftsStep
<1>9. PoolConserved' /\ free' \in 0..Connections
  <2>1. client[c].pc \in Keeping /\ new.pc \in Keeping
    BY <1>3, <1>4, <1>5 DEF Keeping
  <2>2. Cardinality(Those(Keeping)') = Cardinality(Those(Keeping))
    BY <1>1, <1>6, <2>1, CountStep
  <2> QED
    BY <1>1, <1>3, <2>2 DEF PoolConserved, TypeOK, Those
<1>10. TeamOK' /\ CountersOK' /\ booked' \in Nat
  BY <1>1, <1>3, <1>9 DEF TypeOK, TeamOK, CountersOK, team
<1>11. client[c].pc \notin {"created", "event"}
  BY <1>3, <1>4 DEF Opening
<1> QED
  BY <1>3, <1>6, <1>7, <1>8, <1>9, <1>10, <1>11, QuietInv

LEMMA CommitInv ==
  ASSUME IInv, NEW c \in Clients, CommitOrder(c) PROVE IInv'
<1>1. TypeOK /\ PoolConserved
  BY DEF IInv
<1>2. /\ client[c].pc = "commit" /\ Answer(c) /\ Publish(c)
      /\ UNCHANGED <<team, booked, starved, requests, faults>>
  BY DEF CommitOrder, At, Publish
<1>3. PICK o \in Orders, w \in Workers \cup {Nobody} :
         /\ o = client[c].order /\ w = client[c].value /\ ~ Exists(o)
         /\ \A d \in Clients \ {c} : client[d].pc \in Opening => client[d].order # o
  BY <1>2, OpensOwn DEF Opening
<1>4. drafts[c] = {"work_orders", "work_order_events", "customer_orders"}
  BY <1>2 DEF IInv, Drafted, Inserted
<1>5. /\ orders' = [orders EXCEPT ![o] = [status |-> "assigned", worker |-> w]]
      /\ events' = [events EXCEPT ![o] = Append(@, "created_from_order")]
      /\ sold' = sold \cup {o}
  BY <1>2, <1>3, <1>4 DEF Publish
<1>6. Becomes(c, Idle) /\ PoolConserved' /\ free' \in 0..Connections /\ Idle.pc = "idle"
  BY <1>1, <1>2, AnswerStep DEF Idle
<1>7. /\ orders' \in [Orders -> [status: LegalStatuses \cup {"none"}, worker: Workers \cup {Nobody}]]
      /\ orders'[o].status = "assigned" /\ \A p \in Orders \ {o} : orders'[p] = orders[p]
  BY <1>1, <1>3, <1>5 DEF TypeOK, LegalStatuses
<1>8. "created_from_order" \in Words
  BY DEF Words
<1>9. events[o] = <<>>
  BY <1>3 DEF IInv, HistoryIsWritten, IsWritten
<1>10. /\ events' \in [Orders -> Seq(Words)] /\ Said(o)' = Said(o) \cup {"created_from_order"}
       /\ (events[o])' # <<>> /\ (events[o])'[1] = "created_from_order"
       /\ \A p \in Orders \ {o} : (events[p])' = events[p]
  BY <1>1, <1>5, <1>8, <1>9, SaidStep
<1>11. Exists(o)'
  BY <1>7 DEF Exists
<1>12. OpensAlone' /\ Prepared'
  BY <1>3, <1>6, <1>7, <1>11, OthersStep
<1>13. Said(o) = {}
  BY <1>9 DEF Said
<1>14. sold' \subseteq Orders /\ o \in sold' /\ \A p \in Orders \ {o} : p \in sold' <=> p \in sold
  BY <1>1, <1>5 DEF TypeOK
<1>15. IsWritten(o)' /\ IsOpened(o)'
  BY <1>7, <1>10, <1>11, <1>13, <1>14 DEF IsWritten, IsOpened, Statuses
<1>16. \A p \in Orders \ {o} :
         orders'[p] = orders[p] /\ events'[p] = events[p] /\ (p \in sold' <=> p \in sold)
  BY <1>7, <1>10, <1>14
<1>17. /\ client[c].pc \in Drafting => client[c].order = o
       /\ Idle.pc \in Drafting => Idle.order = o
       /\ requests' \in Nat
  BY <1>1, <1>2, <1>3, <1>6 DEF Drafting, Opening, TypeOK
<1>18. DraftsOK'
  BY <1>2, <1>6, AnswerDrafts
<1> QED
  BY <1>2, <1>6, <1>7, <1>10, <1>12, <1>14, <1>15, <1>16, <1>17, <1>18, WriteInv

LEMMA StepInv == ASSUME IInv, [Next]_vars PROVE IInv'
<1>1. ASSUME NEW c \in Clients, NEW o \in Orders, NEW w \in Workers, CreateWorkOrder(c, o, w) PROVE IInv'
  BY <1>1, CreateInv
<1>2. ASSUME NEW c \in Clients,
             \/ \E o \in Orders :
                  \/ \E s \in Statuses, u \in Workers \cup {"manager"} : PostStatus(c, o, s, u)
                  \/ \E w \in Workers \cup {Nobody} : Receive(c, o, w)
             \/ \E w \in Workers :
                  StartWork(c, w) \/ EndWork(c, w) \/ \E p \in {"working", "off_duty"} : PostPresence(c, w, p)
             \/ CreateTransaction(c)
      PROVE  IInv'
  BY <1>2, BeginningsInv
<1>3. ASSUME NEW c \in Clients, Proceed(c) \/ Disconnect(c) PROVE IInv'
  BY <1>3, UpdateInv, InsertEventInv, InsertInv, CommitInv, EndingsInv DEF Proceed
<1>4. CASE UNCHANGED vars
  <2>1. UNCHANGED <<orders, events, sold, presence, before, clocked, booked,
                    client, drafts, free, starved, requests, faults>>
    BY <1>4 DEF vars, data, team
  <2>2. TypeOK' /\ PoolConserved' /\ Drafted'
    BY <2>1 DEF IInv, TypeOK, PoolConserved, Drafted
  <2>3. OpensAlone' /\ Prepared'
    BY <2>1 DEF IInv, OpensAlone, Prepared, Exists, Writing
  <2>4. ASSUME NEW o \in Orders PROVE IsWritten(o)' /\ (Exists(o)' <=> Exists(o)) /\ Said(o)' = Said(o)
    <3>1. /\ Exists(o)' = Exists(o) /\ Said(o)' = Said(o)
          /\ Writing(o, "created")' = Writing(o, "created") /\ Writing(o, "event")' = Writing(o, "event")
      BY <2>1 DEF Exists, Said, Writing
    <3>2. IsWritten(o)
      BY DEF IInv, HistoryIsWritten
    <3> QED
      BY <2>1, <3>1, <3>2 DEF IsWritten
  <2>5. HistoryIsWritten' /\ OrderIsOpened'
    BY <2>1, <2>4 DEF IInv, HistoryIsWritten, OrderIsOpened, IsOpened
  <2> QED
    BY <2>2, <2>3, <2>5 DEF IInv
<1> QED
  BY <1>1, <1>2, <1>3, <1>4 DEF Next

-------------------------------------------------------------------------------
\* Every reachable state has the types of the model, no request opens what another
\* one opens, and what a history lacks is on its way.
THEOREM InvariantHolds == Spec => []IInv
<1>1. IInv /\ [Next]_vars => IInv'
  BY StepInv
<1> QED
  BY InitInv, <1>1, PTL DEF Spec

\* A customer order and its work order come into being together, and the work order's
\* history begins with its event: whatever breaks between the inserts of Receive, and
\* whoever updates the work order once it is visible.
THEOREM OrdersAreOpened == Spec => []OrderIsOpened
<1>1. IInv => OrderIsOpened
  BY DEF IInv
<1> QED
  BY InvariantHolds, <1>1, PTL

\* However requests end, their connections are in the pool again.
THEOREM PoolIsConserved == Spec => []PoolConserved
<1>1. IInv => PoolConserved
  BY DEF IInv
<1> QED
  BY InvariantHolds, <1>1, PTL

\* The history has the creation and the status of every work order that nobody
\* writes, unless a connection was missing or lost (UpdateWorkOrderStatus).
THEOREM HistoriesAreTrue == Spec => []HistoryIsTrue
<1>1. IInv => HistoryIsTrue
  <2> SUFFICES ASSUME IInv, NEW o \in Orders
               PROVE  /\ \A w \in Said(o) \cap Statuses : ToDatabase(w) \in LegalStatuses
                      /\ Exists(o) /\ ~ starved /\ faults = 0 /\ (\A c \in Clients : client[c].order # o) =>
                           /\ Said(o) \cap {"created", "created_from_order"} # {}
                           /\ orders[o].status \in {"new", "assigned"}
                                                   \cup {ToDatabase(w) : w \in Said(o) \cap Statuses}
    BY DEF HistoryIsTrue
  <2>1. IsWritten(o)
    BY DEF IInv, HistoryIsWritten
  <2>2. (\A c \in Clients : client[c].order # o) => Writing(o, "created") = {} /\ Writing(o, "event") = {}
    BY DEF Writing
  <2> QED
    BY <2>1, <2>2 DEF IsWritten
<1> QED
  BY InvariantHolds, <1>1, PTL
===============================================================================
