---------------------------- MODULE Transactions ----------------------------
(***************************************************************************)
(* Who waits for whom: the threads that use the database and the sync      *)
(* mailbox, and the locks between them.  The cleaner looks at the database *)
(* a second time, and requests syncs, from within its own write            *)
(* transaction; so a sync may read the tickets that are about to go.       *)
(*                                                                         *)
(* bolt lets one writer in at a time.  A reader works on the database as   *)
(* of its beginning and keeps it from being mapped anew, which a writer    *)
(* needs when the file has grown; a writer that waits for that lets no     *)
(* more readers in.                                                        *)
(***************************************************************************)
EXTENDS Integers

CONSTANTS
    Users,              \* user tickets of a chat with one server
    Nobody              \* holds no lock

Threads == {"cleaner", "handler", "visitor", "syncer"}

TransactionsAssumption == Nobody \notin Threads
ASSUME TransactionsAssumption

VARIABLES
    pc,
    writer,             \* DB.rwlock (external)
    readers, growing,   \* DB.mmaplock (external): who has it to read, who
                        \* has or wants it to write
    mu,                 \* ServerSyncBox.mu
    box,                \* the server's sync is requested
    bucket,             \* the tickets, as last committed
    draft,              \* and as the writer has them
    passages,           \* what the sync under way has read
    installed           \* what the server was last given

transactionsVars ==
    <<pc, writer, readers, growing, mu, box, bucket, draft, passages, installed>>
locks == <<writer, readers, growing, mu>>
data == <<box, bucket, draft, passages, installed>>

TicketStates == {"valid", "expired", "gone"}
Valid(b) == {x \in Users : b[x] = "valid"}

TransactionsInit ==
    /\ pc = [t \in Threads |-> "idle"]
    /\ writer = Nobody /\ readers = {} /\ growing = Nobody /\ mu = Nobody
    /\ box = FALSE
    /\ bucket = [x \in Users |-> "valid"]
    /\ draft = bucket
    /\ passages = {}
    /\ installed = Users

Goes(t, to) == pc' = [pc EXCEPT ![t] = to]

-----------------------------------------------------------------------------
(* bolt.                                                                   *)

(* View: a transaction that reads.                                         *)
View(t) ==
    /\ growing = Nobody
    /\ readers' = readers \cup {t}
    /\ UNCHANGED <<writer, growing, mu>>

EndView(t) ==
    /\ readers' = readers \ {t}
    /\ UNCHANGED <<writer, growing, mu>>

(* Update: one that writes.                                                *)
Update(t, b) ==
    /\ writer = Nobody
    /\ writer' = t
    /\ draft' = b
    /\ UNCHANGED <<readers, growing, mu, box, bucket, passages, installed>>

(* After it is committed, a handler has syncs to request, a sync its       *)
(* cancel function to take back.                                           *)
Committed(t) ==
    /\ bucket' = draft
    /\ writer' = Nobody
    /\ Goes(t, CASE t = "handler" -> "view" [] t = "syncer" -> "delete"
                 [] OTHER -> "idle")
    /\ UNCHANGED <<readers, mu, box, draft, passages, installed>>

Commit(t) ==
    /\ pc[t] = "commit"
    /\ \/ Committed(t) /\ UNCHANGED growing
       \/ /\ growing' = t
          /\ Goes(t, "grow")
          /\ UNCHANGED <<writer, readers, mu, data>>

Grow(t) ==
    /\ pc[t] = "grow"
    /\ readers = {}
    /\ growing' = Nobody
    /\ Committed(t)

-----------------------------------------------------------------------------
Expire(x) ==
    /\ bucket[x] = "valid"
    /\ bucket' = [bucket EXCEPT ![x] = "expired"]
    /\ draft' = [draft EXCEPT ![x] = IF @ = bucket[x] THEN "expired" ELSE @]
    /\ UNCHANGED <<pc, locks, box, passages, installed>>

(* The cleaner of tickets: what expired a week ago is deleted, and synced; *)
(* what expired a moment ago is synced; in between nothing is done.        *)
Clean ==
    /\ pc["cleaner"] = "idle"
    /\ \E late \in SUBSET {x \in Users : bucket[x] = "expired"} :
         /\ Update("cleaner", [x \in Users |-> IF x \in late THEN "gone" ELSE bucket[x]])
         /\ \/ late = {} /\ Goes("cleaner", "commit")
            \/ (\E x \in Users : bucket[x] = "expired") /\ Goes("cleaner", "view")

(* SaveTicket, for a new ticket or a renewal, and RegisterServer, which    *)
(* has DNS records removed from within its transaction.                    *)
Save ==
    /\ pc["handler"] = "idle"
    /\ \E x \in Users :
         /\ Update("handler", [bucket EXCEPT ![x] = "valid"])
         /\ Goes("handler", "commit")

Register ==
    /\ pc["handler"] = "idle"
    /\ Update("handler", bucket)
    /\ \E to \in {"network", "commit"} : Goes("handler", to)

NetworkEnds ==
    /\ pc["handler"] = "network"
    /\ Goes("handler", "commit")
    /\ UNCHANGED <<locks, data>>

Visit ==
    /\ pc["visitor"] = "idle"
    /\ View("visitor")
    /\ Goes("visitor", "read")
    /\ UNCHANGED data

(* Variant: a request is repeated for want of an answer.                   *)
ReqSyncAgain(t) ==
    \/ /\ pc[t] = "view"
       /\ View(t) /\ Goes(t, "read") /\ UNCHANGED data
    \/ /\ pc[t] = "read"
       /\ EndView(t) /\ Goes(t, IF t = "visitor" THEN "idle" ELSE "req") /\ UNCHANGED data
    \/ /\ pc[t] = "req"
       /\ mu = Nobody
       /\ box' = TRUE
       /\ Goes(t, "view")
       /\ UNCHANGED <<locks, bucket, draft, passages, installed>>

(* ReqSyncPassagesByChatIdentifier: a transaction of its own to find the   *)
(* servers, then the mailbox.  The cleaner is within its write transaction *)
(* all the while; a visitor has nothing to request.                        *)
ReqSyncPassagesByChatIdentifier(t) ==
    \/ /\ pc[t] = "view"
       /\ View(t) /\ Goes(t, "read") /\ UNCHANGED data
    \/ /\ pc[t] = "read"
       /\ EndView(t) /\ Goes(t, IF t = "visitor" THEN "idle" ELSE "req") /\ UNCHANGED data
    \/ /\ pc[t] = "req"
       /\ mu = Nobody
       /\ box' = TRUE
       /\ Goes(t, IF t = "cleaner" THEN "commit" ELSE "idle")
       /\ UNCHANGED <<locks, bucket, draft, passages, installed>>

-----------------------------------------------------------------------------
(* The sync of the server.                                                 *)
Scan ==
    /\ pc["syncer"] = "idle"
    /\ mu = Nobody
    /\ box
    /\ mu' = "syncer"
    /\ Goes("syncer", "scan")
    /\ UNCHANGED <<writer, readers, growing, data>>

(* Variant: the mailbox stays locked until its syncs are over.             *)
ScannedHolding ==
    /\ pc["syncer"] = "scan"
    /\ box' = FALSE
    /\ Goes("syncer", "get")
    /\ UNCHANGED <<locks, bucket, draft, passages, installed>>

Scanned ==
    /\ pc["syncer"] = "scan"
    /\ mu' = Nobody
    /\ box' = FALSE
    /\ Goes("syncer", "get")
    /\ UNCHANGED <<writer, readers, growing, bucket, draft, passages, installed>>

(* Variant: whoever is in the bucket.                                      *)
GetPassagesOfAll ==
    \/ /\ pc["syncer"] = "get"
       /\ View("syncer") /\ Goes("syncer", "got")
       /\ passages' = {x \in Users : bucket[x] # "gone"}
       /\ UNCHANGED <<box, bucket, draft, installed>>
    \/ /\ pc["syncer"] = "got"
       /\ EndView("syncer") /\ Goes("syncer", "push") /\ UNCHANGED data

(* GetPassagesByServer leaves out what has expired.                        *)
GetPassagesByServer ==
    \/ /\ pc["syncer"] = "get"
       /\ View("syncer") /\ Goes("syncer", "got")
       /\ passages' = Valid(bucket)
       /\ UNCHANGED <<box, bucket, draft, installed>>
    \/ /\ pc["syncer"] = "got"
       /\ EndView("syncer") /\ Goes("syncer", "push") /\ UNCHANGED data

(* The server takes them, or a new request has cancelled the sync.  (What  *)
(* comes of a failure is the matter of modules SyncBox and Fleet.)         *)
Push ==
    /\ pc["syncer"] = "push"
    /\ \/ installed' = passages
       \/ box /\ UNCHANGED installed
    /\ Goes("syncer", "note")
    /\ UNCHANGED <<locks, box, bucket, draft, passages>>

(* setSyncNextSeen in a transaction; then the cancel function is deleted.  *)
Note ==
    \/ /\ pc["syncer"] = "note"
       /\ Update("syncer", bucket) /\ Goes("syncer", "commit")
    \/ /\ pc["syncer"] = "delete"
       /\ mu = Nobody
       /\ Goes("syncer", "idle")
       /\ UNCHANGED <<locks, data>>

(* What a thread does once it has begun.                                   *)
Step(t) ==
    \/ Commit(t) \/ Grow(t) \/ ReqSyncPassagesByChatIdentifier(t)
    \/ t = "syncer" /\ (Scan \/ Scanned \/ GetPassagesByServer \/ Push \/ Note)

TransactionsNext ==
    \/ \E x \in Users : Expire(x)
    \/ Clean \/ Save \/ Register \/ NetworkEnds \/ Visit
    \/ \E t \in Threads : Step(t)

(* Threads run on and get the locks they wait for when these come free     *)
(* again and again (mutexes are fair).  The call to Cloudflare has no time *)
(* limit: that it ends is not assumed.                                     *)
TransactionsFairness == \A t \in Threads : SF_transactionsVars(Step(t))

TransactionsSpec ==
    TransactionsInit /\ [][TransactionsNext]_transactionsVars /\ TransactionsFairness

-----------------------------------------------------------------------------
(* The threads that t cannot go on without.                                *)
WaitsFor(t) ==
    CASE pc[t] \in {"view", "get"} -> {growing} \ {Nobody}
      [] pc[t] = "grow" -> readers
      [] pc[t] \in {"req", "delete"} -> {mu} \ {Nobody}
      [] pc[t] = "note" -> {writer} \ {Nobody}
      [] OTHER -> {}

(* No threads wait for one another, though the cleaner takes the other     *)
(* locks while it has the database's.                                      *)
NoCircularWait ==
    \A S \in (SUBSET Threads) \ {{}} : \E t \in S : WaitsFor(t) \cap S = {}

(* The cleaner requests its syncs before it commits; all the same, when no *)
(* sync is wanted or under way, the server has every ticket that is good   *)
(* and none that is gone.                                                  *)
SettledIsCurrent ==
    /\ ~box
    /\ pc["syncer"] = "idle"
    /\ pc["handler"] = "idle"
    => /\ Valid(bucket) \subseteq installed
       /\ \A x \in installed : bucket[x] # "gone"

(* Every transaction that writes comes to its end and lets the next one    *)
(* in, unless it waits for the network.                                    *)
WritersEnd ==
    writer # Nobody ~> writer = Nobody \/ pc["handler"] = "network"

=============================================================================
