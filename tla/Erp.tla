-------------------------------- MODULE Erp --------------------------------
(***************************************************************************)
(* The ERP and scheduling service (erp_service/api.py, models.py): request  *)
(* handlers over a database whose unique indexes decide.                    *)
(*                                                                          *)
(* The two tables behave alike and are one here: a row has a key, which is  *)
(* the customer of a service request or the slot of an appointment, and is  *)
(* live while its status is "open" or "booked".  A handler inserts its row  *)
(* at `flush`, where the index accepts or rejects it, makes it visible at   *)
(* `commit`, and answers; its worker may die, or its connection to the      *)
(* database break, before or after the commit.                              *)
(***************************************************************************)
EXTENDS Naturals

CONSTANTS
  Customers, Slots,
  Workers,    \* request handlers that may be in progress at the same time
  MaxId,      \* bound: rows ever inserted
  Engine      \* "sqlite" or "postgres", from ERP_DATABASE_URL

Keys == Customers \union Slots
Ids  == 1..MaxId

ASSUME ErpAssumption ==
  /\ MaxId \in Nat
  /\ Customers \intersect Slots = {}
  /\ Engine \in {"sqlite", "postgres"}

VARIABLES
  rows,     \* committed rows: a partial function from Ids to [key, live]
  session,  \* per worker, the open transaction
  reply,    \* the response sent in the last step, or Silence
  told      \* the lasting responses sent so far

vars == <<rows, session, reply, told>>

Row == [key : Keys, live : BOOLEAN]
Silence == <<"silence", 0>>

NoSession == [op |-> "none"]
Session ==
  {NoSession}
  \union [op : {"insert"}, id : Ids, key : Keys]
  \union [op : {"cancel"}, id : Ids]

Replies ==
  ({"accepted", "cancelled"} \X Ids)
  \union ({"refused", "refused_incomplete", "booked", "available"} \X Keys)
  \union {<<"invalid", 0>>, <<"missing", 0>>, <<"fault", 0>>}

(* Those that promise something about later states. *)
Lasting == ({"accepted", "cancelled"} \X Ids) \union ({"booked"} \X Slots)

TypeOK ==
  /\ DOMAIN rows \subseteq Ids
  /\ \A i \in DOMAIN rows : rows[i] \in Row
  /\ session \in [Workers -> Session]
  /\ reply \in Replies \union {Silence}
  /\ told \subseteq Lasting

Init ==
  /\ rows = <<>>
  /\ session = [w \in Workers |-> NoSession]
  /\ reply = Silence
  /\ told = {}

Free(w)     == session[w] = NoSession
Inserts(w)  == session[w].op = "insert"
Cancels(w)  == session[w].op = "cancel"

Answer(r) ==
  /\ reply' = r
  /\ told' = told \union ({r} \intersect Lasting)

Quietly ==
  /\ reply' = Silence
  /\ UNCHANGED told

(* Identifiers grow; one handed to a transaction that rolled back may or    *)
(* may not be handed out again.                                             *)
Fresh(i) ==
  /\ \A j \in DOMAIN rows : j < i
  /\ \A v \in Workers : Inserts(v) => session[v].id # i

-----------------------------------------------------------------------------
(* create_record(), create_appointment().                                   *)

(* Pre-validation fails: 422 before any session is opened. *)
CreateInvalid(w) ==
  /\ Free(w)
  /\ Answer(<<"invalid", 0>>)
  /\ UNCHANGED <<rows, session>>

(* The unique index.  `sqlite_where` makes it partial on SQLite only; any   *)
(* other engine builds it over all rows.                                    *)
Indexed(i) == rows[i].live \/ Engine # "sqlite"

\* Mutant: the rows are checked in memory, and the index is not asked.
ConflictIgnored(k) == FALSE

Conflict(k) == \E i \in DOMAIN rows : rows[i].key = k /\ Indexed(i)

(* SQLite has one writer at a time. *)
Locked(w) == Engine = "sqlite" /\ \E v \in Workers \ {w} : Inserts(v)

(* Elsewhere an insert waits for an uncommitted row with the same key. *)
Waits(w, k) ==
  Locked(w) \/ \E v \in Workers \ {w} : Inserts(v) /\ session[v].key = k

(* flush(): IntegrityError, rolled back and translated into a 422 that says *)
(* that there is a live row with this key.                                  *)
CreateRefused(w, k) ==
  /\ Free(w)
  /\ ~Waits(w, k)
  /\ Conflict(k)
  /\ Answer(<<"refused", k>>)
  /\ UNCHANGED <<rows, session>>

(* An appointment whose customer_id is null breaks NOT NULL, which is an    *)
(* IntegrityError too, and gets the same 422 whatever the key; told apart   *)
(* here by the request it answers.  A service request has no such field     *)
(* that pre-validation or a column default does not see to.                 *)
CreateIncomplete(w, k) ==
  /\ Free(w)
  /\ k \in Slots
  /\ ~Locked(w)
  /\ Answer(<<"refused_incomplete", k>>)
  /\ UNCHANGED <<rows, session>>

(* flush(): the row is in the transaction, nobody else sees it yet. *)
CreateFlush(w, k) ==
  /\ Free(w)
  /\ ~Waits(w, k)
  /\ ~Conflict(k)
  /\ \E i \in Ids :
       /\ Fresh(i)
       /\ session' = [session EXCEPT ![w] = [op |-> "insert", id |-> i, key |-> k]]
  /\ Quietly
  /\ UNCHANGED rows

\* Mutant: the row is inserted without a status.
VisibleNoStatus(i, k) ==
  [j \in DOMAIN rows \union {i} |-> IF j = i THEN [key |-> k] ELSE rows[j]]

Visible(i, k) ==
  [j \in DOMAIN rows \union {i} |->
     IF j = i THEN [key |-> k, live |-> TRUE] ELSE rows[j]]

\* Mutant: the response is sent before the transaction is committed.
AnswerBeforeCommit(w) ==
  /\ Inserts(w)
  /\ Answer(<<"accepted", session[w].id>>)
  /\ \/ rows' = Visible(session[w].id, session[w].key)
     \/ UNCHANGED rows
  /\ session' = [session EXCEPT ![w] = NoSession]

(* commit(), with the public id set in the same transaction. *)
CommitInsert(w) ==
  /\ Inserts(w)
  /\ rows' = Visible(session[w].id, session[w].key)
  /\ session' = [session EXCEPT ![w] = NoSession]

(* It is answered with a 200 ... *)
CreateCommit(w) ==
  /\ CommitInsert(w)
  /\ Answer(<<"accepted", session[w].id>>)

-----------------------------------------------------------------------------
(* cancel_record(): appointments have no such route.                        *)

CancelMissing(w) ==
  /\ Free(w)
  /\ Answer(<<"missing", 0>>)
  /\ UNCHANGED <<rows, session>>

CancelRead(w, i) ==
  /\ Free(w)
  /\ i \in DOMAIN rows
  /\ rows[i].key \in Customers
  /\ session' = [session EXCEPT ![w] = [op |-> "cancel", id |-> i]]
  /\ Quietly
  /\ UNCHANGED rows

\* Mutant: the row is deleted, not marked.
CancelDeletes(w) ==
  /\ Cancels(w)
  /\ rows' = [j \in DOMAIN rows \ {session[w].id} |-> rows[j]]
  /\ session' = [session EXCEPT ![w] = NoSession]
  /\ Answer(<<"cancelled", session[w].id>>)

(* The row is marked, never deleted; cancelling it again is accepted. *)
CommitCancel(w) ==
  /\ Cancels(w)
  /\ ~Locked(w)
  /\ rows' = [rows EXCEPT ![session[w].id].live = FALSE]
  /\ session' = [session EXCEPT ![w] = NoSession]

CancelCommit(w) ==
  /\ CommitCancel(w)
  /\ Answer(<<"cancelled", session[w].id>>)

(* ... or the worker dies between the commit and the answer, or commit()    *)
(* raises although the database has committed: what is done is not told.    *)
CommitUnanswered(w) ==
  /\ CommitInsert(w) \/ CommitCancel(w)
  /\ Quietly \/ Answer(<<"fault", 0>>)

-----------------------------------------------------------------------------
(* check_availability(): a read of its own, which sees committed rows.      *)

\* Mutant: the read also sees the rows of transactions in progress.
ReadsUncommitted(k) ==
  \/ \E i \in DOMAIN rows : rows[i].key = k /\ rows[i].live
  \/ \E v \in Workers : Inserts(v) /\ session[v].key = k

Taken(k) == \E i \in DOMAIN rows : rows[i].key = k /\ rows[i].live

CheckAvailability(w, k) ==
  /\ Free(w)
  /\ Answer(<<IF Taken(k) THEN "booked" ELSE "available", k>>)
  /\ UNCHANGED <<rows, session>>

-----------------------------------------------------------------------------
(* The database raises something no handler catches (the wait for another   *)
(* writer times out, the connection breaks): rolled back, a 500.            *)
Fault(w) ==
  /\ session' = [session EXCEPT ![w] = NoSession]
  /\ Answer(<<"fault", 0>>)
  /\ UNCHANGED rows

(* The worker dies: its transaction is rolled back, nobody is answered. *)
Crash(w) ==
  /\ ~Free(w)
  /\ session' = [session EXCEPT ![w] = NoSession]
  /\ Quietly
  /\ UNCHANGED rows

Next ==
  \E w \in Workers :
    \/ CreateInvalid(w)
    \/ \E k \in Keys : CreateRefused(w, k) \/ CreateIncomplete(w, k) \/ CreateFlush(w, k)
    \/ CreateCommit(w)
    \/ CancelMissing(w)
    \/ \E i \in Ids : CancelRead(w, i)
    \/ CancelCommit(w)
    \/ CommitUnanswered(w)
    \/ \E k \in Slots : CheckAvailability(w, k)
    \/ Fault(w)
    \/ Crash(w)

Spec == Init /\ [][Next]_vars
-----------------------------------------------------------------------------
Booked(k) == \E i \in DOMAIN rows : rows[i].key = k /\ rows[i].live

(* At most one open request per customer and one booking per slot, however  *)
(* the handlers interleave.                                                 *)
OneLivePerKey ==
  \A i, j \in DOMAIN rows :
    rows[i].live /\ rows[j].live /\ rows[i].key = rows[j].key => i = j

(* What a 200 said stays true, whatever happens to the workers: an accepted *)
(* row is there for good, and a cancelled one stays cancelled.              *)
AnswersHold ==
  /\ \A i \in Ids : <<"accepted", i>> \in told => i \in DOMAIN rows
  /\ \A i \in Ids :
       <<"cancelled", i>> \in told => i \in DOMAIN rows /\ ~rows[i].live

(* A slot once reported booked is booked for good: a client that saw it     *)
(* taken never sees it free again.                                          *)
BookedHolds ==
  \A k \in Slots : <<"booked", k>> \in told => Booked(k)

(* A complete request is only told of a conflict when the customer has an   *)
(* open request or the slot is booked.  Not so on Postgres, where the index *)
(* is not partial and a cancelled request still blocks a new one.           *)
RefusalJustified ==
  \A k \in Keys : reply' = <<"refused", k>> => Booked(k)

RefusalsJustified == [][RefusalJustified]_vars

(* On SQLite the service is a system of record: each handler takes effect   *)
(* at one instant, its commit.                                              *)
Contract == INSTANCE SystemOfRecord WITH Cancellable <- Customers

ImplementsContract == Contract!Spec
=============================================================================
