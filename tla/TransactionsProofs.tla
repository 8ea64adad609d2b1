------------------------- MODULE TransactionsProofs -------------------------
(***************************************************************************)
(* Proofs about the locks and the tickets of module Transactions, for any  *)
(* users.                                                                  *)
(***************************************************************************)
EXTENDS Transactions, TLAPS

Places ==
    {"idle", "commit", "grow", "view", "read", "req", "network",
     "scan", "get", "got", "push", "note", "delete"}

(* Where a thread may be, and where it is in a write transaction.          *)
PlacesOf(t) ==
    CASE t = "cleaner" -> {"idle", "view", "read", "req", "commit", "grow"}
      [] t = "handler" -> {"idle", "network", "commit", "grow", "view", "read", "req"}
      [] t = "visitor" -> {"idle", "read"}
      [] OTHER -> {"idle", "scan", "get", "got", "push", "note", "commit", "grow",
                   "delete"}

WritingOf(t) ==
    CASE t = "cleaner" -> {"view", "read", "req", "commit", "grow"}
      [] t = "handler" -> {"network", "commit", "grow"}
      [] t = "visitor" -> {}
      [] OTHER -> {"commit", "grow"}

(* Where they are says which locks they have.                              *)
LocksInv ==
    /\ pc \in [Threads -> Places]
    /\ \A t \in Threads :
         /\ pc[t] \in PlacesOf(t)
         /\ writer = t <=> pc[t] \in WritingOf(t)
         /\ t \in readers <=> pc[t] \in {"read", "got"}
         /\ growing = t <=> pc[t] = "grow"
         /\ mu = t <=> t = "syncer" /\ pc[t] = "scan"
    /\ writer \in Threads \cup {Nobody}
    /\ readers \subseteq Threads
    /\ growing \in Threads \cup {Nobody}
    /\ mu \in Threads \cup {Nobody}

(* How the writer's tickets differ from those committed.                   *)
DraftInv ==
    /\ bucket \in [Users -> TicketStates]
    /\ draft \in [Users -> TicketStates]
    /\ writer # Nobody => \A x \in Users :
         \/ draft[x] = bucket[x]
         \/ writer = "cleaner" /\ bucket[x] = "expired" /\ draft[x] = "gone"
         \/ writer = "handler" /\ draft[x] = "valid"

(* What the server has, or is about to have: unless a sync is wanted or    *)
(* about to read, it is what it should be, before and after the cleaner    *)
(* commits.                                                                *)
Upcoming == IF pc["syncer"] \in {"got", "push"} THEN passages ELSE installed

ServedInv ==
    /\ box \in BOOLEAN
    /\ passages \subseteq Users
    /\ installed \subseteq Users
    /\ pc["syncer"] = "scan" => box
    /\ ~box /\ pc["syncer"] # "get" =>
         /\ pc["handler"] \in {"view", "read", "req"} \/ Valid(bucket) \subseteq Upcoming
         /\ \A x \in Upcoming :
              /\ bucket[x] # "gone"
              /\ pc["cleaner"] \in {"commit", "grow"} => draft[x] # "gone"

TransactionsInv == LocksInv /\ DraftInv /\ ServedInv

USE DEF Threads, TicketStates

-----------------------------------------------------------------------------
LEMMA NobodyIsNone == Nobody \notin Threads
BY TransactionsAssumption DEF TransactionsAssumption

(* What stays where nobody moves.                                          *)
LEMMA OneGoes ==
    ASSUME LocksInv, NEW t \in Threads, NEW to \in PlacesOf(t), Goes(t, to)
    PROVE  /\ pc' \in [Threads -> Places]
           /\ pc'[t] = to
           /\ \A s \in Threads : s # t => pc'[s] = pc[s]
BY DEF LocksInv, Goes, Places, PlacesOf

(* One thread goes on, and with the locks it has as it should.             *)
LEMMA LocksKept ==
    ASSUME LocksInv, NEW t \in Threads, NEW to \in PlacesOf(t), Goes(t, to),
           writer' = IF to \in WritingOf(t) THEN t
                     ELSE IF writer = t THEN Nobody ELSE writer,
           to \in WritingOf(t) => writer \in {t, Nobody},
           readers' = IF to \in {"read", "got"} THEN readers \cup {t} ELSE readers \ {t},
           growing' = IF to = "grow" THEN t
                      ELSE IF growing = t THEN Nobody ELSE growing,
           to = "grow" => growing \in {t, Nobody},
           mu' = IF t = "syncer" /\ to = "scan" THEN t
                 ELSE IF mu = t THEN Nobody ELSE mu,
           t = "syncer" /\ to = "scan" => mu \in {t, Nobody}
    PROVE  LocksInv'
<1>1. /\ pc' \in [Threads -> Places] /\ pc'[t] = to
      /\ \A s \in Threads : s # t => pc'[s] = pc[s]
  BY OneGoes
<1>2. ASSUME NEW s \in Threads
      PROVE  /\ pc'[s] \in PlacesOf(s)
             /\ writer' = s <=> pc'[s] \in WritingOf(s)
             /\ s \in readers' <=> pc'[s] \in {"read", "got"}
             /\ growing' = s <=> pc'[s] = "grow"
             /\ mu' = s <=> s = "syncer" /\ pc'[s] = "scan"
  <2>1. CASE s = t
    BY <1>1, <2>1, NobodyIsNone DEF LocksInv
  <2>2. CASE s # t
    <3>1. /\ pc'[s] = pc[s]
          /\ pc[s] \in PlacesOf(s)
          /\ writer = s <=> pc[s] \in WritingOf(s)
          /\ s \in readers <=> pc[s] \in {"read", "got"}
          /\ growing = s <=> pc[s] = "grow"
          /\ mu = s <=> s = "syncer" /\ pc[s] = "scan"
      BY <1>1, <2>2 DEF LocksInv
    <3>2. writer' = s <=> writer = s
      BY <2>2, <3>1, NobodyIsNone
    <3>3. growing' = s <=> growing = s
      BY <2>2, <3>1, NobodyIsNone
    <3>4. mu' = s <=> mu = s
      BY <2>2, <3>1, NobodyIsNone
    <3>5. s \in readers' <=> s \in readers
      BY <2>2
    <3> QED
      BY <3>1, <3>2, <3>3, <3>4, <3>5
  <2> QED
    BY <2>1, <2>2
<1>3. /\ writer' \in Threads \cup {Nobody} /\ readers' \subseteq Threads
      /\ growing' \in Threads \cup {Nobody} /\ mu' \in Threads \cup {Nobody}
  BY DEF LocksInv
<1> QED
  BY <1>1, <1>2, <1>3 DEF LocksInv

-----------------------------------------------------------------------------
LEMMA TransactionsBegin == TransactionsInit => TransactionsInv
BY NobodyIsNone
   DEF TransactionsInit, TransactionsInv, LocksInv, DraftInv, ServedInv, Upcoming,
       Places, PlacesOf, WritingOf, Valid

LEMMA ExpireStep ==
    ASSUME TransactionsInv, NEW x \in Users, Expire(x)
    PROVE  TransactionsInv'
<1>1. LocksInv'
  BY DEF TransactionsInv, LocksInv, Expire, locks
<1>2. DraftInv'
  BY DEF TransactionsInv, DraftInv, Expire, locks
<1>3. /\ bucket' \in [Users -> TicketStates] /\ Valid(bucket)' \subseteq Valid(bucket)
      /\ \A y \in Users : /\ bucket'[y] = "gone" => bucket[y] = "gone"
                          /\ draft'[y] = "gone" => draft[y] = "gone"
  BY DEF TransactionsInv, DraftInv, Expire, Valid
<1>4. ServedInv'
  BY <1>3 DEF TransactionsInv, ServedInv, Upcoming, Expire
<1> QED
  BY <1>1, <1>2, <1>4 DEF TransactionsInv

(* A write transaction begins.                                             *)
LEMMA UpdateStep ==
    ASSUME TransactionsInv, NEW t \in Threads, NEW to \in WritingOf(t),
           pc[t] \notin WritingOf(t), to # "grow", to \notin {"read", "got"},
           pc[t] \notin {"read", "got"},
           t # "syncer" \/ pc[t] = "note",
           t = "handler" => pc[t] = "idle",
           NEW b \in [Users -> TicketStates],
           Update(t, b), Goes(t, to),
           \A x \in Users : \/ b[x] = bucket[x]
                            \/ t = "cleaner" /\ bucket[x] = "expired" /\ b[x] = "gone"
                                 /\ to # "commit"
                            \/ t = "handler" /\ b[x] = "valid"
    PROVE  TransactionsInv'
<1>1. to \in PlacesOf(t)
  BY DEF PlacesOf, WritingOf
<1>2. /\ pc' \in [Threads -> Places] /\ pc'[t] = to
      /\ \A s \in Threads : s # t => pc'[s] = pc[s]
  BY <1>1, OneGoes DEF TransactionsInv
<1>3. LocksInv'
  <2>1. growing # t
    BY DEF TransactionsInv, LocksInv, WritingOf
  <2>2. mu # t
    BY DEF TransactionsInv, LocksInv
  <2>3. to # "scan" /\ readers' = readers \ {t}
    BY DEF TransactionsInv, LocksInv, WritingOf, Update
  <2> QED
    BY <1>1, <2>1, <2>2, <2>3, LocksKept DEF TransactionsInv, Update
<1>4. DraftInv'
  BY DEF TransactionsInv, DraftInv, Update
<1>5. ServedInv'
  <2>1. /\ Upcoming' = Upcoming
        /\ pc'["syncer"] = "get" <=> pc["syncer"] = "get"
        /\ pc'["syncer"] = "scan" => pc["syncer"] = "scan"
    BY <1>2 DEF Upcoming, Update, WritingOf
  <2>2. UNCHANGED <<box, bucket, passages, installed>> /\ draft' = b
    BY DEF Update
  <2>3. Upcoming \subseteq Users
    BY DEF TransactionsInv, ServedInv, Upcoming
  <2> SUFFICES ASSUME ~box', pc'["syncer"] # "get"
               PROVE  /\ \/ pc'["handler"] \in {"view", "read", "req"}
                         \/ Valid(bucket) \subseteq Upcoming
                      /\ \A x \in Upcoming :
                           /\ bucket[x] # "gone"
                           /\ pc'["cleaner"] \in {"commit", "grow"} => b[x] # "gone"
    BY <2>1, <2>2 DEF TransactionsInv, ServedInv, Valid
  <2>4. /\ pc["handler"] \in {"view", "read", "req"} \/ Valid(bucket) \subseteq Upcoming
        /\ \A x \in Upcoming : bucket[x] # "gone"
    BY <2>1, <2>2 DEF TransactionsInv, ServedInv
  <2>5. pc'["handler"] \in {"view", "read", "req"} \/ Valid(bucket) \subseteq Upcoming
    BY <1>2, <2>4 
  <2>6. ASSUME NEW x \in Upcoming, pc'["cleaner"] \in {"commit", "grow"}
        PROVE  b[x] # "gone"
    <3>1. t = "cleaner"
      BY <1>2, <1>3, <2>6 DEF LocksInv, Update, WritingOf
    <3> QED
      BY <1>2, <2>3, <2>4, <2>6, <3>1
  <2> QED
    BY <2>4, <2>5, <2>6
<1> QED
  BY <1>3, <1>4, <1>5 DEF TransactionsInv

LEMMA CleanStep ==
    ASSUME TransactionsInv, Clean
    PROVE  TransactionsInv'
<1>1. PICK late \in SUBSET {x \in Users : bucket[x] = "expired"} :
         /\ Update("cleaner", [x \in Users |-> IF x \in late THEN "gone" ELSE bucket[x]])
         /\ \/ late = {} /\ Goes("cleaner", "commit")
            \/ Goes("cleaner", "view")
  BY DEF Clean
<1> DEFINE b == [x \in Users |-> IF x \in late THEN "gone" ELSE bucket[x]]
<1>2. b \in [Users -> TicketStates]
  BY DEF TransactionsInv, DraftInv
<1>3. pc["cleaner"] = "idle"
  BY DEF Clean
<1>4. CASE late = {} /\ Goes("cleaner", "commit")
  BY <1>1, <1>2, <1>3, <1>4, UpdateStep DEF WritingOf
<1>5. CASE Goes("cleaner", "view")
  BY <1>1, <1>2, <1>3, <1>5, UpdateStep DEF WritingOf
<1> QED
  BY <1>1, <1>4, <1>5

LEMMA SaveStep ==
    ASSUME TransactionsInv, Save
    PROVE  TransactionsInv'
<1>1. PICK x \in Users : Update("handler", [bucket EXCEPT ![x] = "valid"])
  BY DEF Save
<1>2. pc["handler"] = "idle" /\ Goes("handler", "commit")
  BY DEF Save
<1> DEFINE b == [bucket EXCEPT ![x] = "valid"]
<1>3. b \in [Users -> TicketStates] /\ \A y \in Users : b[y] = bucket[y] \/ b[y] = "valid"
  BY DEF TransactionsInv, DraftInv
<1> QED
  BY <1>1, <1>2, <1>3, UpdateStep DEF WritingOf

LEMMA RegisterStep ==
    ASSUME TransactionsInv, Register
    PROVE  TransactionsInv'
<1>1. PICK to \in {"network", "commit"} : Goes("handler", to)
  BY DEF Register
<1>2. pc["handler"] = "idle" /\ Update("handler", bucket)
  BY DEF Register
<1>3. bucket \in [Users -> TicketStates]
  BY DEF TransactionsInv, DraftInv
<1> QED
  BY <1>1, <1>2, <1>3, UpdateStep DEF WritingOf

(* A write transaction ends.                                               *)
LEMMA CommittedStep ==
    ASSUME TransactionsInv, NEW t \in Threads, Committed(t),
           pc[t] \in {"commit", "grow"},
           growing' = IF growing = t THEN Nobody ELSE growing
    PROVE  TransactionsInv'
<1>1. writer = t /\ t \in {"cleaner", "handler", "syncer"} /\ pc[t] \in WritingOf(t)
  BY DEF TransactionsInv, LocksInv, WritingOf, PlacesOf
<1>2. PICK to \in PlacesOf(t) :
         /\ Goes(t, to) /\ to \notin WritingOf(t)
         /\ to \in {"view", "delete", "idle"}
         /\ t = "handler" <=> to = "view"
         /\ t = "cleaner" <=> to = "idle"
  BY <1>1 DEF Committed, PlacesOf, WritingOf
<1>3. /\ pc' \in [Threads -> Places] /\ pc'[t] = to
      /\ \A s \in Threads : s # t => pc'[s] = pc[s]
  BY <1>2, OneGoes DEF TransactionsInv
<1>4. UNCHANGED <<readers, mu, box, draft, passages, installed>>
      /\ bucket' = draft /\ writer' = Nobody
  BY DEF Committed
<1>5. LocksInv'
  <2>1. readers' = readers \ {t} /\ mu # t
    BY <1>4 DEF TransactionsInv, LocksInv
  <2> QED
    BY <1>1, <1>2, <1>4, <2>1, LocksKept DEF TransactionsInv
<1>6. DraftInv'
  BY <1>4, NobodyIsNone DEF TransactionsInv, DraftInv
<1>7. ServedInv'
  <2>1. /\ Upcoming' = Upcoming /\ Upcoming \subseteq Users
        /\ pc'["syncer"] = "get" <=> pc["syncer"] = "get"
        /\ pc'["syncer"] = "scan" => pc["syncer"] = "scan"
    BY <1>1, <1>2, <1>3, <1>4 DEF TransactionsInv, ServedInv, Upcoming
  <2> SUFFICES ASSUME ~box', pc'["syncer"] # "get"
               PROVE  /\ \/ pc'["handler"] \in {"view", "read", "req"}
                         \/ Valid(draft) \subseteq Upcoming
                      /\ \A x \in Upcoming : draft[x] # "gone"
    BY <1>4, <2>1 DEF TransactionsInv, ServedInv, Valid
  <2>2. /\ pc["handler"] \in {"view", "read", "req"} \/ Valid(bucket) \subseteq Upcoming
        /\ \A x \in Upcoming :
              /\ bucket[x] # "gone"
              /\ pc["cleaner"] \in {"commit", "grow"} => draft[x] # "gone"
    BY <1>4, <2>1 DEF TransactionsInv, ServedInv
  <2>3. \A x \in Users :
           \/ draft[x] = bucket[x]
           \/ t = "cleaner" /\ bucket[x] = "expired" /\ draft[x] = "gone"
           \/ t = "handler" /\ draft[x] = "valid"
    BY <1>1, NobodyIsNone DEF TransactionsInv, DraftInv
  <2>4. CASE t = "handler"
    BY <1>2, <1>3, <2>1, <2>2, <2>3, <2>4
  <2>5. CASE t # "handler"
    <3>1. Valid(draft) \subseteq Valid(bucket) /\ pc'["handler"] = pc["handler"]
      BY <1>3, <2>3, <2>5 DEF Valid
    <3> QED
      BY <2>1, <2>2, <2>3, <2>5, <3>1
  <2> QED
    BY <2>4, <2>5
<1> QED
  BY <1>5, <1>6, <1>7 DEF TransactionsInv

(* A thread goes on without touching the tickets.                          *)
LEMMA DataKept ==
    ASSUME TransactionsInv, LocksInv', UNCHANGED data,
           writer' = writer,
           pc'["syncer"] = "get" <=> pc["syncer"] = "get",
           pc'["syncer"] = "scan" => box,
           pc'["syncer"] \in {"got", "push"} <=> pc["syncer"] \in {"got", "push"},
           pc["handler"] \in {"view", "read", "req"} =>
               pc'["handler"] \in {"view", "read", "req"} \/ box,
           pc'["cleaner"] \in {"commit", "grow"} => pc["cleaner"] \in {"commit", "grow"} \/ box
    PROVE  TransactionsInv'
<1>1. DraftInv'
  BY DEF TransactionsInv, DraftInv, data
<1>2. Upcoming' = Upcoming /\ Valid(bucket)' = Valid(bucket)
  BY DEF Upcoming, data, Valid
<1>3. ServedInv'
  BY <1>2 DEF TransactionsInv, ServedInv, data
<1> QED
  BY <1>1, <1>3 DEF TransactionsInv

LEMMA CommitStep ==
    ASSUME TransactionsInv, NEW t \in Threads, Commit(t) \/ Grow(t)
    PROVE  TransactionsInv'
<1>1. CASE Committed(t) /\ UNCHANGED growing /\ pc[t] = "commit"
  <2>1. growing # t
    BY <1>1 DEF TransactionsInv, LocksInv
  <2> QED
    BY <1>1, <2>1, CommittedStep
<1>2. CASE Grow(t)
  <2>1. growing = t /\ pc[t] = "grow"
    BY <1>2 DEF TransactionsInv, LocksInv, Grow
  <2> QED
    BY <1>2, <2>1, CommittedStep DEF Grow
<1>3. CASE /\ pc[t] = "commit"
           /\ growing' = t
           /\ Goes(t, "grow")
           /\ UNCHANGED <<writer, readers, mu, data>>
  <2>1. "grow" \in PlacesOf(t) /\ "grow" \in WritingOf(t) /\ writer = t
        /\ t \notin readers /\ mu # t /\ t \in {"cleaner", "handler", "syncer"}
    BY <1>3 DEF TransactionsInv, LocksInv, PlacesOf, WritingOf
  <2>2. growing \in {t, Nobody}
    <3>1. ASSUME NEW s \in Threads, growing = s PROVE s = t
      BY <2>1, <3>1 DEF TransactionsInv, LocksInv, PlacesOf, WritingOf
    <3> QED
      BY <3>1 DEF TransactionsInv, LocksInv
  <2>3. LocksInv'
    BY <1>3, <2>1, <2>2, LocksKept DEF TransactionsInv
  <2>4. /\ pc'[t] = "grow" /\ \A s \in Threads : s # t => pc'[s] = pc[s]
    BY <1>3, <2>1, OneGoes DEF TransactionsInv
  <2> QED
    BY <1>3, <2>1, <2>3, <2>4, DataKept DEF TransactionsInv, ServedInv
<1> QED
  BY <1>1, <1>2, <1>3 DEF Commit

LEMMA NetworkStep ==
    ASSUME TransactionsInv, NetworkEnds
    PROVE  TransactionsInv'
<1>1. "commit" \in PlacesOf("handler") /\ "commit" \in WritingOf("handler")
  BY DEF PlacesOf, WritingOf
<1>2. /\ pc["handler"] = "network" /\ writer = "handler" /\ "handler" \notin readers
      /\ growing # "handler" /\ mu # "handler"
  BY DEF TransactionsInv, LocksInv, NetworkEnds, WritingOf
<1>3. LocksInv'
  BY <1>1, <1>2, LocksKept DEF TransactionsInv, NetworkEnds, locks
<1>4. /\ pc'["handler"] = "commit"
      /\ \A s \in Threads : s # "handler" => pc'[s] = pc[s]
  BY <1>1, OneGoes DEF TransactionsInv, NetworkEnds
<1> QED
  BY <1>2, <1>3, <1>4, DataKept DEF TransactionsInv, ServedInv, NetworkEnds, locks

(* Transactions that read.                                                 *)
LEMMA ViewLocks ==
    ASSUME LocksInv, NEW t \in Threads, View(t),
           NEW to \in PlacesOf(t) \cap {"read", "got"}, Goes(t, to),
           writer = t <=> to \in WritingOf(t),
           pc[t] \notin {"grow", "scan"}
    PROVE  LocksInv'
<1>1. growing # t /\ mu # t
  BY DEF LocksInv
<1>2. writer' = IF to \in WritingOf(t) THEN t ELSE IF writer = t THEN Nobody ELSE writer
  BY DEF View
<1> QED
  BY <1>1, <1>2, LocksKept DEF View

LEMMA EndViewLocks ==
    ASSUME LocksInv, NEW t \in Threads, EndView(t),
           NEW to \in PlacesOf(t) \ {"read", "got", "grow", "scan"}, Goes(t, to),
           writer = t <=> to \in WritingOf(t),
           pc[t] \notin {"grow", "scan"}
    PROVE  LocksInv'
<1>1. growing # t /\ mu # t
  BY DEF LocksInv
<1>2. writer' = IF to \in WritingOf(t) THEN t ELSE IF writer = t THEN Nobody ELSE writer
  BY DEF EndView
<1> QED
  BY <1>1, <1>2, LocksKept DEF EndView

(* A thread goes on with the locks it has.                                 *)
LEMMA SameLocks ==
    ASSUME LocksInv, NEW t \in Threads, UNCHANGED locks,
           NEW to \in PlacesOf(t) \ {"read", "got", "grow", "scan"}, Goes(t, to),
           writer = t <=> to \in WritingOf(t),
           pc[t] \notin {"read", "got", "grow", "scan"}
    PROVE  LocksInv'
<1>1. growing # t /\ mu # t /\ t \notin readers
  BY DEF LocksInv
<1>2. /\ writer' = IF to \in WritingOf(t) THEN t
                   ELSE IF writer = t THEN Nobody ELSE writer
      /\ readers' = readers \ {t}
  BY <1>1 DEF locks
<1> QED
  BY <1>1, <1>2, LocksKept DEF locks

LEMMA VisitStep ==
    ASSUME TransactionsInv, Visit
    PROVE  TransactionsInv'
<1>1. "read" \in PlacesOf("visitor") /\ "read" \notin WritingOf("visitor")
  BY DEF PlacesOf, WritingOf
<1>2. writer # "visitor" /\ pc["visitor"] = "idle"
  BY DEF TransactionsInv, LocksInv, Visit, WritingOf
<1>3. LocksInv'
  BY <1>1, <1>2, ViewLocks DEF TransactionsInv, Visit
<1>4. \A s \in Threads : s # "visitor" => pc'[s] = pc[s]
  BY <1>1, OneGoes DEF TransactionsInv, Visit
<1> QED
  BY <1>3, <1>4, DataKept DEF TransactionsInv, ServedInv, Visit, View

LEMMA ReqSyncStep ==
    ASSUME TransactionsInv, NEW t \in Threads, ReqSyncPassagesByChatIdentifier(t)
    PROVE  TransactionsInv'
<1>1. /\ pc[t] \in {"view", "read", "req"} /\ pc[t] \in PlacesOf(t)
      /\ writer = t <=> pc[t] \in WritingOf(t)
  BY DEF TransactionsInv, LocksInv, ReqSyncPassagesByChatIdentifier
<1>2. t \in {"cleaner", "handler", "visitor"} /\ (writer = t <=> t = "cleaner")
  BY <1>1 DEF PlacesOf, WritingOf
<1>3. CASE /\ pc[t] = "view"
           /\ View(t) /\ Goes(t, "read") /\ UNCHANGED data
  <2>1. "read" \in PlacesOf(t) /\ ("read" \in WritingOf(t) <=> t = "cleaner")
    BY <1>2 DEF PlacesOf, WritingOf
  <2>2. LocksInv'
    BY <1>2, <1>3, <2>1, ViewLocks DEF TransactionsInv
  <2>3. pc'[t] = "read" /\ \A s \in Threads : s # t => pc'[s] = pc[s]
    BY <1>3, <2>1, OneGoes DEF TransactionsInv
  <2> QED
    BY <1>2, <1>3, <2>2, <2>3, DataKept DEF TransactionsInv, ServedInv, View
<1>4. CASE /\ pc[t] = "read"
           /\ EndView(t) /\ Goes(t, IF t = "visitor" THEN "idle" ELSE "req")
           /\ UNCHANGED data
  <2> DEFINE to == IF t = "visitor" THEN "idle" ELSE "req"
  <2>1. /\ to \in PlacesOf(t) /\ to \in {"idle", "req"}
        /\ to \in WritingOf(t) <=> t = "cleaner"
        /\ t # "visitor" => to = "req"
    BY <1>2 DEF PlacesOf, WritingOf
  <2> HIDE DEF to
  <2>2. Goes(t, to)
    BY <1>4 DEF to
  <2>3. LocksInv'
    BY <1>2, <1>4, <2>1, <2>2, EndViewLocks DEF TransactionsInv
  <2>4. pc'[t] = to /\ \A s \in Threads : s # t => pc'[s] = pc[s]
    BY <2>1, <2>2, OneGoes DEF TransactionsInv
  <2> QED
    BY <1>2, <1>4, <2>1, <2>3, <2>4, DataKept DEF TransactionsInv, ServedInv, EndView
<1>5. CASE /\ pc[t] = "req"
           /\ box' = TRUE
           /\ Goes(t, IF t = "cleaner" THEN "commit" ELSE "idle")
           /\ UNCHANGED <<locks, bucket, draft, passages, installed>>
  <2> DEFINE to == IF t = "cleaner" THEN "commit" ELSE "idle"
  <2>1. /\ to \in PlacesOf(t) /\ to \in {"idle", "commit"}
        /\ to \in WritingOf(t) <=> t = "cleaner"
    BY <1>2 DEF PlacesOf, WritingOf
  <2> HIDE DEF to
  <2>2. Goes(t, to)
    BY <1>5 DEF to
  <2>3. LocksInv'
    BY <1>2, <1>5, <2>1, <2>2, SameLocks DEF TransactionsInv
  <2>4. DraftInv'
    BY <1>5 DEF TransactionsInv, DraftInv, locks
  <2>5. ServedInv'
    BY <1>5 DEF TransactionsInv, ServedInv
  <2> QED
    BY <2>3, <2>4, <2>5 DEF TransactionsInv
<1> QED
  BY <1>3, <1>4, <1>5 DEF ReqSyncPassagesByChatIdentifier

-----------------------------------------------------------------------------
(* The sync.                                                               *)
LEMMA ScanStep ==
    ASSUME TransactionsInv, Scan \/ Scanned
    PROVE  TransactionsInv'
<1>1. writer # "syncer" /\ growing # "syncer" /\ "syncer" \notin readers
  BY DEF TransactionsInv, LocksInv, Scan, Scanned, WritingOf
<1>2. CASE Scan
  <2>1. "scan" \in PlacesOf("syncer") /\ "scan" \notin WritingOf("syncer")
    BY DEF PlacesOf, WritingOf
  <2>2. readers' = readers \ {"syncer"}
    BY <1>1, <1>2 DEF Scan
  <2>3. LocksInv'
    BY <1>1, <1>2, <2>1, <2>2, LocksKept DEF TransactionsInv, Scan
  <2>4. pc'["syncer"] = "scan" /\ \A s \in Threads : s # "syncer" => pc'[s] = pc[s]
    BY <1>2, <2>1, OneGoes DEF TransactionsInv, Scan
  <2> QED
    BY <1>2, <2>3, <2>4, DataKept DEF TransactionsInv, ServedInv, Scan
<1>3. CASE Scanned
  <2>1. "get" \in PlacesOf("syncer") /\ "get" \notin WritingOf("syncer")
    BY DEF PlacesOf, WritingOf
  <2>2. mu = "syncer" /\ readers' = readers \ {"syncer"}
    BY <1>1, <1>3 DEF TransactionsInv, LocksInv, Scanned
  <2>3. LocksInv'
    BY <1>1, <1>3, <2>1, <2>2, LocksKept DEF TransactionsInv, Scanned
  <2>4. DraftInv'
    BY <1>3 DEF TransactionsInv, DraftInv, Scanned
  <2>5. pc'["syncer"] = "get"
    BY <1>3, <2>1, OneGoes DEF TransactionsInv, Scanned
  <2>6. ServedInv'
    BY <1>3, <2>5 DEF TransactionsInv, ServedInv, Scanned
  <2> QED
    BY <2>3, <2>4, <2>6 DEF TransactionsInv
<1> QED
  BY <1>2, <1>3

LEMMA GetPassagesStep ==
    ASSUME TransactionsInv, GetPassagesByServer
    PROVE  TransactionsInv'
<1>1. /\ "got" \in PlacesOf("syncer") /\ "got" \notin WritingOf("syncer")
      /\ "push" \in PlacesOf("syncer") /\ "push" \notin WritingOf("syncer")
  BY DEF PlacesOf, WritingOf
<1>2. writer # "syncer" /\ pc["syncer"] \in {"get", "got"}
  BY DEF TransactionsInv, LocksInv, GetPassagesByServer, WritingOf
<1>3. CASE /\ pc["syncer"] = "get"
           /\ View("syncer") /\ Goes("syncer", "got")
           /\ passages' = Valid(bucket)
           /\ UNCHANGED <<box, bucket, draft, installed>>
  <2>1. LocksInv'
    BY <1>1, <1>2, <1>3, ViewLocks DEF TransactionsInv
  <2>2. pc'["syncer"] = "got" /\ \A s \in Threads : s # "syncer" => pc'[s] = pc[s]
    BY <1>1, <1>3, OneGoes DEF TransactionsInv
  <2>3. DraftInv'
    BY <1>3 DEF TransactionsInv, DraftInv, View
  <2>4. Upcoming' = Valid(bucket)
    BY <1>3, <2>2 DEF Upcoming
  <2>5. ASSUME NEW x \in Valid(bucket), pc["cleaner"] \in {"commit", "grow"}
        PROVE  draft[x] # "gone"
    <3>1. writer = "cleaner" /\ bucket[x] = "valid" /\ x \in Users
      BY <2>5 DEF TransactionsInv, LocksInv, WritingOf, Valid
    <3> QED
      BY <3>1, NobodyIsNone DEF TransactionsInv, DraftInv
  <2>6. ServedInv'
    BY <1>3, <2>2, <2>4, <2>5 DEF TransactionsInv, ServedInv, Valid
  <2> QED
    BY <2>1, <2>3, <2>6 DEF TransactionsInv
<1>4. CASE /\ pc["syncer"] = "got"
           /\ EndView("syncer") /\ Goes("syncer", "push") /\ UNCHANGED data
  <2>1. LocksInv'
    BY <1>1, <1>2, <1>4, EndViewLocks DEF TransactionsInv
  <2>2. pc'["syncer"] = "push" /\ \A s \in Threads : s # "syncer" => pc'[s] = pc[s]
    BY <1>1, <1>4, OneGoes DEF TransactionsInv
  <2> QED
    BY <1>4, <2>1, <2>2, DataKept DEF TransactionsInv, ServedInv, EndView
<1> QED
  BY <1>3, <1>4 DEF GetPassagesByServer

LEMMA PushStep ==
    ASSUME TransactionsInv, Push
    PROVE  TransactionsInv'
<1>1. "note" \in PlacesOf("syncer") /\ "note" \notin WritingOf("syncer")
  BY DEF PlacesOf, WritingOf
<1>2. writer # "syncer" /\ pc["syncer"] = "push"
  BY DEF TransactionsInv, LocksInv, Push, WritingOf
<1>3. LocksInv'
  BY <1>1, <1>2, SameLocks DEF TransactionsInv, Push
<1>4. DraftInv'
  BY DEF TransactionsInv, DraftInv, Push, locks
<1>5. pc'["syncer"] = "note" /\ \A s \in Threads : s # "syncer" => pc'[s] = pc[s]
  BY <1>1, OneGoes DEF TransactionsInv, Push
<1>6. ~box => Upcoming' = Upcoming
  BY <1>2, <1>5 DEF Upcoming, Push
<1>7. ServedInv'
  BY <1>2, <1>5, <1>6 DEF TransactionsInv, ServedInv, Push, Valid
<1> QED
  BY <1>3, <1>4, <1>7 DEF TransactionsInv

LEMMA NoteStep ==
    ASSUME TransactionsInv, Note
    PROVE  TransactionsInv'
<1>1. CASE /\ pc["syncer"] = "note"
           /\ Update("syncer", bucket) /\ Goes("syncer", "commit")
  <2>1. bucket \in [Users -> TicketStates]
    BY DEF TransactionsInv, DraftInv
  <2>2. "commit" \in WritingOf("syncer") /\ "note" \notin WritingOf("syncer")
    BY DEF WritingOf
  <2> QED
    BY <1>1, <2>1, <2>2, UpdateStep
<1>2. CASE /\ pc["syncer"] = "delete"
           /\ Goes("syncer", "idle")
           /\ UNCHANGED <<locks, data>>
  <2>1. "idle" \in PlacesOf("syncer") /\ "idle" \notin WritingOf("syncer")
    BY DEF PlacesOf, WritingOf
  <2>2. writer # "syncer"
    BY <1>2 DEF TransactionsInv, LocksInv, WritingOf
  <2>3. LocksInv'
    BY <1>2, <2>1, <2>2, SameLocks DEF TransactionsInv
  <2>4. pc'["syncer"] = "idle" /\ \A s \in Threads : s # "syncer" => pc'[s] = pc[s]
    BY <1>2, <2>1, OneGoes DEF TransactionsInv
  <2> QED
    BY <1>2, <2>3, <2>4, DataKept DEF TransactionsInv, ServedInv, locks
<1> QED
  BY <1>1, <1>2 DEF Note

LEMMA TransactionsStep ==
    TransactionsInv /\ [TransactionsNext]_transactionsVars => TransactionsInv'
<1> SUFFICES ASSUME TransactionsInv, [TransactionsNext]_transactionsVars
             PROVE  TransactionsInv'
  OBVIOUS
<1>1. CASE UNCHANGED transactionsVars
  <2>1. LocksInv'
    BY <1>1 DEF TransactionsInv, LocksInv, transactionsVars
  <2>2. DraftInv'
    BY <1>1 DEF TransactionsInv, DraftInv, transactionsVars
  <2>3. ServedInv'
    BY <1>1 DEF TransactionsInv, ServedInv, Upcoming, Valid, transactionsVars
  <2> QED
    BY <2>1, <2>2, <2>3 DEF TransactionsInv
<1>2. ASSUME NEW x \in Users, Expire(x) PROVE TransactionsInv'
  BY <1>2, ExpireStep
<1>3. CASE Clean \/ Save \/ Register \/ NetworkEnds \/ Visit
  BY <1>3, CleanStep, SaveStep, RegisterStep, NetworkStep, VisitStep
<1>4. ASSUME NEW t \in Threads, Step(t) PROVE TransactionsInv'
  BY <1>4, CommitStep, ReqSyncStep, ScanStep, GetPassagesStep, PushStep, NoteStep
     DEF Step
<1> QED
  BY <1>1, <1>2, <1>3, <1>4 DEF TransactionsNext

-----------------------------------------------------------------------------
(* The locks are always taken in an order: readers wait for nobody, a      *)
(* writer that wants the file mapped anew for readers, others for such a   *)
(* writer, for a scan of the mailbox, or for the writer.                   *)
LEMMA LocksAreOrdered == TransactionsInv => NoCircularWait
<1> SUFFICES ASSUME TransactionsInv,
                    NEW S \in (SUBSET Threads) \ {{}},
                    \A t \in S : WaitsFor(t) \cap S # {}
             PROVE  FALSE
  BY DEF NoCircularWait
<1>1. ASSUME NEW t \in S, pc[t] \notin {"view", "get", "grow", "req", "delete", "note"}
      PROVE  FALSE
  <2>1. WaitsFor(t) = {}
    BY <1>1 DEF WaitsFor
  <2> QED
    BY <2>1
<1>2. ASSUME NEW t \in S, pc[t] = "grow" PROVE FALSE
  <2>1. WaitsFor(t) = readers
    BY <1>2 DEF WaitsFor
  <2>2. PICK s \in S : s \in readers
    BY <2>1
  <2> QED
    BY <1>1, <2>2 DEF TransactionsInv, LocksInv
<1>3. ASSUME NEW t \in S, pc[t] \in {"view", "get"} PROVE FALSE
  <2>1. WaitsFor(t) = {growing} \ {Nobody}
    BY <1>3 DEF WaitsFor
  <2>2. growing \in S
    BY <2>1
  <2> QED
    BY <1>2, <2>2 DEF TransactionsInv, LocksInv
<1>4. ASSUME NEW t \in S, pc[t] \in {"req", "delete"} PROVE FALSE
  <2>1. WaitsFor(t) = {mu} \ {Nobody}
    BY <1>4 DEF WaitsFor
  <2>2. mu \in S
    BY <2>1
  <2> QED
    BY <1>1, <2>2 DEF TransactionsInv, LocksInv
<1>5. ASSUME NEW t \in S, pc[t] = "note" PROVE FALSE
  <2>1. WaitsFor(t) = {writer} \ {Nobody}
    BY <1>5 DEF WaitsFor
  <2>2. writer \in S
    BY <2>1
  <2>3. pc[writer] # "note" /\ writer \in Threads
    BY <2>2 DEF TransactionsInv, LocksInv, WritingOf
  <2> QED
    BY <1>1, <1>2, <1>3, <1>4, <2>2, <2>3
<1>6. PICK t \in S : TRUE
  OBVIOUS
<1> QED
  BY <1>1, <1>2, <1>3, <1>4, <1>5, <1>6

(* The cleaner looks at the database again and requests syncs from within  *)
(* its write transaction, and yet no threads ever wait for one another.    *)
THEOREM Ordered == TransactionsSpec => []NoCircularWait
BY TransactionsBegin, TransactionsStep, LocksAreOrdered, PTL DEF TransactionsSpec

(* Syncs that are requested before the cleaner commits may read what it is *)
(* about to delete; all the same, for any users, a server at rest has      *)
(* every ticket that is good and none that is gone.                        *)
THEOREM Current == TransactionsSpec => []SettledIsCurrent
<1>1. TransactionsInv => SettledIsCurrent
  BY DEF TransactionsInv, ServedInv, Upcoming, SettledIsCurrent
<1> QED
  BY TransactionsBegin, TransactionsStep, <1>1, PTL DEF TransactionsSpec

-----------------------------------------------------------------------------
(* The safety of WritersEnd.                                               *)

(* At most how many steps a thread t at p takes until it is idle.          *)
StepsLeft(t, p) ==
    CASE p = "scan" -> 12
      [] p = "get" -> 11
      [] p = "got" -> 10
      [] p = "push" -> 9
      [] p \in {"note", "network"} -> 8
      [] p = "commit" -> IF t = "cleaner" THEN 2 ELSE 7
      [] p = "grow" -> IF t = "cleaner" THEN 1 ELSE 6
      [] p = "view" -> 5
      [] p = "read" -> 4
      [] p = "req" -> 3
      [] p = "delete" -> 1
      [] OTHER -> 0

AllLeft ==
    StepsLeft("cleaner", pc["cleaner"]) + StepsLeft("handler", pc["handler"])
        + StepsLeft("visitor", pc["visitor"]) + StepsLeft("syncer", pc["syncer"])

Begins == \E t \in Threads : pc[t] = "idle" /\ pc'[t] # "idle"

LEMMA StepsAreCounted == \A t, p : StepsLeft(t, p) \in Nat
BY DEF StepsLeft

(* Where a thread may go from where it is.                                 *)
LEMMA ThreadGoesOn ==
    ASSUME LocksInv, NEW t \in Threads, Step(t), pc[t] # "idle"
    PROVE  \E to \in PlacesOf(t) :
             Goes(t, to) /\ StepsLeft(t, to) < StepsLeft(t, pc[t])
<1>1. pc[t] \in PlacesOf(t)
  BY DEF LocksInv
<1>2. CASE Commit(t) \/ Grow(t)
  <2>1. t \in {"cleaner", "handler", "syncer"} /\ pc[t] \in {"commit", "grow"}
    BY <1>1, <1>2 DEF Commit, Grow, PlacesOf
  <2>2. CASE Committed(t)
    <3> DEFINE to == CASE t = "handler" -> "view" [] t = "syncer" -> "delete"
                       [] OTHER -> "idle"
    <3>1. to \in PlacesOf(t) /\ StepsLeft(t, to) < StepsLeft(t, pc[t])
      BY <2>1 DEF PlacesOf, StepsLeft
    <3>2. Goes(t, to)
      BY <2>2 DEF Committed
    <3> QED
      BY <3>1, <3>2
  <2>3. CASE pc[t] = "commit" /\ Goes(t, "grow")
    BY <2>1, <2>3 DEF PlacesOf, StepsLeft
  <2> QED
    BY <1>2, <2>2, <2>3 DEF Commit, Grow
<1>3. CASE ReqSyncPassagesByChatIdentifier(t)
  <2>1. t \in {"cleaner", "handler", "visitor"} /\ pc[t] \in {"view", "read", "req"}
    BY <1>1, <1>3 DEF ReqSyncPassagesByChatIdentifier, PlacesOf
  <2>2. CASE pc[t] = "view" /\ Goes(t, "read")
    BY <2>1, <2>2 DEF PlacesOf, StepsLeft
  <2>3. CASE pc[t] = "read" /\ Goes(t, IF t = "visitor" THEN "idle" ELSE "req")
    <3> DEFINE to == IF t = "visitor" THEN "idle" ELSE "req"
    <3>1. to \in PlacesOf(t) /\ StepsLeft(t, to) < StepsLeft(t, pc[t])
      BY <2>1, <2>3 DEF PlacesOf, StepsLeft
    <3> QED
      BY <2>3, <3>1
  <2>4. CASE pc[t] = "req" /\ Goes(t, IF t = "cleaner" THEN "commit" ELSE "idle")
    <3> DEFINE to == IF t = "cleaner" THEN "commit" ELSE "idle"
    <3>1. to \in PlacesOf(t) /\ StepsLeft(t, to) < StepsLeft(t, pc[t])
      BY <2>1, <2>4 DEF PlacesOf, StepsLeft
    <3> QED
      BY <2>4, <3>1
  <2> QED
    BY <1>3, <2>2, <2>3, <2>4 DEF ReqSyncPassagesByChatIdentifier
<1>4. CASE t = "syncer" /\ (Scan \/ Scanned \/ GetPassagesByServer \/ Push \/ Note)
  BY <1>4 DEF Scan, Scanned, GetPassagesByServer, Push, Note, PlacesOf, StepsLeft
<1> QED
  BY <1>2, <1>3, <1>4 DEF Step

LEMMA FewerLeft ==
    ASSUME LocksInv, NEW t \in Threads, NEW to \in PlacesOf(t), Goes(t, to),
           StepsLeft(t, to) < StepsLeft(t, pc[t])
    PROVE  AllLeft' < AllLeft
<1>1. pc'[t] = to /\ \A s \in Threads : s # t => pc'[s] = pc[s]
  BY OneGoes
<1>2. /\ StepsLeft(t, pc'[t]) < StepsLeft(t, pc[t])
      /\ \A s \in Threads : s # t => StepsLeft(s, pc'[s]) = StepsLeft(s, pc[s])
  BY <1>1
<1> QED
  BY <1>2, StepsAreCounted DEF AllLeft

(* Whatever begins comes to its end after finitely many steps of the       *)
(* threads, however often a file grows or a request cancels a sync; only   *)
(* what begins anew keeps them busy.                                       *)
THEOREM ThreadsDrain ==
    TransactionsSpec =>
        [](AllLeft \in Nat) /\ [][pc' = pc \/ Begins \/ AllLeft' < AllLeft]_transactionsVars
<1>1. AllLeft \in Nat
  BY StepsAreCounted DEF AllLeft
<1>2. TransactionsInv /\ [TransactionsNext]_transactionsVars
        => [pc' = pc \/ Begins \/ AllLeft' < AllLeft]_transactionsVars
  <2> SUFFICES ASSUME TransactionsInv, TransactionsNext, ~Begins, pc' # pc
               PROVE  AllLeft' < AllLeft
    OBVIOUS
  <2>1. LocksInv
    BY DEF TransactionsInv
  <2>2. ASSUME NEW x \in Users, Expire(x) PROVE FALSE
    BY <2>2 DEF Expire
  <2>3. ~Clean /\ ~Save /\ ~Register /\ ~Visit
    <3>1. ASSUME NEW t \in Threads, pc[t] = "idle", NEW to \in PlacesOf(t) \ {"idle"},
                 Goes(t, to)
          PROVE  FALSE
      BY <2>1, <3>1, OneGoes DEF Begins
    <3>2. /\ {"view", "commit"} \subseteq PlacesOf("cleaner")
          /\ {"network", "commit"} \subseteq PlacesOf("handler")
          /\ "read" \in PlacesOf("visitor")
      BY DEF PlacesOf
    <3> QED
      BY <3>1, <3>2 DEF Clean, Save, Register, Visit
  <2>4. CASE NetworkEnds
    BY <2>1, <2>4, FewerLeft DEF NetworkEnds, PlacesOf, StepsLeft
  <2>5. ASSUME NEW t \in Threads, Step(t) PROVE AllLeft' < AllLeft
    <3>1. pc[t] # "idle"
      <4> SUFFICES ASSUME pc[t] = "idle" PROVE FALSE
        OBVIOUS
      <4>1. t = "syncer" /\ Goes(t, "scan") /\ "scan" \in PlacesOf("syncer")
        BY <2>5 DEF Step, Commit, Grow, ReqSyncPassagesByChatIdentifier, Scan, Scanned,
                    GetPassagesByServer, Push, Note, PlacesOf
      <4> QED
        BY <2>1, <4>1, OneGoes DEF Begins
    <3> QED
      BY <2>1, <2>5, <3>1, ThreadGoesOn, FewerLeft
  <2> QED
    BY <2>2, <2>3, <2>4, <2>5 DEF TransactionsNext
<1> QED
  BY <1>1, <1>2, TransactionsBegin, TransactionsStep, PTL DEF TransactionsSpec

(* The locks that t asks for next are free.                                *)
CanGoOn(t) ==
    /\ pc[t] \notin {"idle", "network"}
    /\ pc[t] \in {"view", "get"} => growing = Nobody
    /\ pc[t] = "grow" => readers = {}
    /\ pc[t] \in {"req", "delete"} => mu = Nobody
    /\ pc[t] = "note" => writer = Nobody

(* It has nothing to do, or Cloudflare to wait for.                        *)
AtRest(t) ==
    \/ pc[t] \in {"idle", "network"}
    \/ pc[t] = "note" /\ pc["handler"] = "network"

(* Until then someone can always go on: the locks never stop everyone, and *)
(* a call that hangs within a transaction stops only what wants to write.  *)
THEOREM SomeoneGoesOn ==
    TransactionsSpec =>
        []((\A t \in Threads : AtRest(t)) \/ \E t \in Threads : CanGoOn(t))
<1>1. TransactionsInv => (\A t \in Threads : AtRest(t)) \/ \E t \in Threads : CanGoOn(t)
  <2> SUFFICES ASSUME LocksInv, \A t \in Threads : ~CanGoOn(t), NEW t \in Threads
               PROVE  AtRest(t)
    BY DEF TransactionsInv
  <2>1. \A s \in Threads : pc[s] \in {"idle", "network", "view", "get", "grow", "req",
                                      "delete", "note"}
    BY DEF CanGoOn, LocksInv, Places
  <2>2. readers = {} /\ mu = Nobody
    BY <2>1 DEF LocksInv
  <2>3. \A s \in Threads : pc[s] \in {"idle", "network", "view", "get", "note"}
    BY <2>1, <2>2 DEF CanGoOn
  <2>4. growing = Nobody
    BY <2>3 DEF LocksInv
  <2>5. \A s \in Threads : pc[s] \in {"idle", "network", "note"}
    BY <2>3, <2>4 DEF CanGoOn
  <2>6. writer # Nobody => pc["handler"] = "network"
    BY <2>5 DEF LocksInv, WritingOf
  <2> QED
    BY <2>5, <2>6 DEF AtRest, CanGoOn
<1> QED
  BY <1>1, TransactionsBegin, TransactionsStep, PTL DEF TransactionsSpec

=============================================================================
