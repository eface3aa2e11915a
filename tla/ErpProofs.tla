----------------------------- MODULE ErpProofs -----------------------------
(***************************************************************************)
(* For any number of customers, slots, workers and rows, and for both       *)
(* engines: at most one live row per key, and every 200 holds for good.  On *)
(* SQLite the service implements the contract of a system of record.        *)
(***************************************************************************)
EXTENDS Erp, TLAPS

(* An insert in progress has passed the index, and what it passed stays     *)
(* true until it commits: no other insert of its key is in progress.        *)
InsertsClear ==
  \A w \in Workers : Inserts(w) =>
    /\ session[w].id \notin DOMAIN rows
    /\ ~Booked(session[w].key)

InsertsApart ==
  \A v, w \in Workers : v # w /\ Inserts(v) /\ Inserts(w) =>
    /\ session[v].id # session[w].id
    /\ session[v].key # session[w].key

CancelsKnown ==
  \A w \in Workers : Cancels(w) =>
    /\ session[w].id \in DOMAIN rows
    /\ rows[session[w].id].key \in Customers

IInv ==
  /\ TypeOK
  /\ InsertsClear
  /\ InsertsApart
  /\ CancelsKnown
  /\ OneLivePerKey
  /\ AnswersHold
  /\ BookedHolds

LEMMA InitIInv == Init => IInv
BY DEF Init, IInv, TypeOK, InsertsClear, InsertsApart, CancelsKnown, OneLivePerKey,
       AnswersHold, BookedHolds, Inserts, Cancels, NoSession, Session, Silence

(* A handler that ends without touching the database, having answered what  *)
(* is true now.                                                             *)
LEMMA Answered ==
  ASSUME IInv, NEW w \in Workers, NEW r \in Replies, Answer(r),
         UNCHANGED rows,
         session' = session \/ session' = [session EXCEPT ![w] = NoSession],
         r \notin {"accepted", "cancelled"} \X Ids,
         \A k \in Slots : r = <<"booked", k>> => Booked(k)
  PROVE  IInv'
<1> USE DEF IInv, Answer, Inserts, Cancels, Booked
<1>1. \A v \in Workers : session'[v] = session[v] \/ session'[v] = NoSession
  BY DEF TypeOK
<1>2. session' \in [Workers -> Session]
  BY DEF TypeOK, Session
<1>3. \A v \in Workers :
        session'[v].op \in {"insert", "cancel"} => session'[v] = session[v]
  BY <1>1 DEF NoSession
<1>4. TypeOK'
  BY <1>2 DEF TypeOK, Lasting
<1>5. InsertsClear' /\ InsertsApart' /\ CancelsKnown'
  BY <1>3 DEF InsertsClear, InsertsApart, CancelsKnown
<1>6. OneLivePerKey' /\ AnswersHold' /\ BookedHolds'
  BY DEF OneLivePerKey, AnswersHold, BookedHolds
<1> QED BY <1>4, <1>5, <1>6

LEMMA NextIInv == IInv /\ [Next]_vars => IInv'
<1> SUFFICES ASSUME IInv, [Next]_vars PROVE IInv'
  OBVIOUS
<1> USE ErpAssumption
<1>1. CASE UNCHANGED vars
  BY <1>1 DEF vars, IInv, TypeOK, InsertsClear, InsertsApart, CancelsKnown, OneLivePerKey,
              AnswersHold, BookedHolds, Inserts, Cancels, Booked
<1>2. CASE Next
  <2> PICK w \in Workers :
        \/ CreateInvalid(w)
        \/ \E k \in Keys : CreateRefused(w, k) \/ CreateIncomplete(w, k) \/ CreateFlush(w, k)
        \/ CreateCommit(w)
        \/ CancelMissing(w)
        \/ \E i \in Ids : CancelRead(w, i)
        \/ CancelCommit(w)
        \/ CommitUnanswered(w)
        \/ \E k \in Slots : CheckAvailability(w, k)
        \/ Fault(w)
        \/ Crash(w)
    BY <1>2 DEF Next
  <2>1. CASE CreateInvalid(w)
    BY <2>1, Answered DEF CreateInvalid, Replies
  <2>2. ASSUME NEW k \in Keys, CreateRefused(w, k) PROVE IInv'
    <3>1. <<"refused", k>> \in Replies
      BY DEF Replies
    <3> QED BY <2>2, <3>1, Answered DEF CreateRefused
  <2>3. ASSUME NEW k \in Keys, CreateFlush(w, k) PROVE IInv'
    <3>1. PICK i \in Ids :
            /\ Fresh(i)
            /\ session' = [session EXCEPT ![w] = [op |-> "insert", id |-> i, key |-> k]]
      BY <2>3 DEF CreateFlush
    <3>2. /\ session'[w] = [op |-> "insert", id |-> i, key |-> k]
          /\ \A v \in Workers : v # w => session'[v] = session[v]
      BY <3>1 DEF IInv, TypeOK
    <3>3. i \notin DOMAIN rows /\ ~Booked(k)
      BY <2>3, <3>1 DEF CreateFlush, Conflict, Indexed, Booked, Fresh, Ids
    <3>4. \A v \in Workers : v # w /\ Inserts(v) => session[v].id # i /\ session[v].key # k
      BY <2>3, <3>1 DEF CreateFlush, Waits, Fresh
    <3>5. UNCHANGED <<rows, told>> /\ reply' = Silence
      BY <2>3 DEF CreateFlush, Quietly
    <3>6. TypeOK'
      BY <3>1, <3>5 DEF IInv, TypeOK, Session
    <3>7. InsertsClear'
      BY <3>2, <3>3, <3>5 DEF IInv, InsertsClear, Inserts, Booked
    <3>8. InsertsApart'
      BY <3>2, <3>4 DEF IInv, InsertsApart, Inserts
    <3>9. CancelsKnown'
      BY <3>2, <3>5 DEF IInv, CancelsKnown, Cancels
    <3>10. OneLivePerKey' /\ AnswersHold' /\ BookedHolds'
      BY <3>5 DEF IInv, OneLivePerKey, AnswersHold, BookedHolds, Booked
    <3> QED BY <3>6, <3>7, <3>8, <3>9, <3>10 DEF IInv
  <2>i. ASSUME NEW k \in Keys, CreateIncomplete(w, k) PROVE IInv'
    <3>1. <<"refused_incomplete", k>> \in Replies
      BY DEF Replies
    <3> QED BY <2>i, <3>1, Answered DEF CreateIncomplete
  <2>f. <<"fault", 0>> \in Replies /\ <<"fault", 0>> \notin Lasting
    BY DEF Replies, Lasting
  <2>4. ASSUME CommitInsert(w),
               \/ Answer(<<"accepted", session[w].id>>)
               \/ Quietly
               \/ Answer(<<"fault", 0>>)
        PROVE  IInv'
    <3> DEFINE i == session[w].id
               k == session[w].key
    <3>1. /\ Inserts(w) /\ i \in Ids /\ k \in Keys
          /\ i \notin DOMAIN rows /\ ~Booked(k)
      BY <2>4 DEF CommitInsert, IInv, TypeOK, Session, NoSession, Inserts, InsertsClear
    <3>2. /\ rows' = Visible(i, k)
          /\ session' = [session EXCEPT ![w] = NoSession]
          /\ reply' \in {<<"accepted", i>>, <<"fault", 0>>, Silence}
          /\ told' \in {told, told \union {<<"accepted", i>>}}
      <4>1. <<"accepted", i>> \in Lasting
        BY <3>1 DEF Lasting
      <4> QED BY <2>4, <2>f, <4>1 DEF CommitInsert, Answer, Quietly
    <3> HIDE DEF i, k
    <3>3. /\ DOMAIN rows' = DOMAIN rows \union {i}
          /\ rows'[i] = [key |-> k, live |-> TRUE]
          /\ \A j \in DOMAIN rows : rows'[j] = rows[j]
      BY <3>1, <3>2 DEF Visible
    <3>4. /\ session'[w] = NoSession
          /\ \A v \in Workers : v # w => session'[v] = session[v]
      BY <3>2 DEF IInv, TypeOK
    <3>5. <<"accepted", i>> \in Lasting /\ <<"accepted", i>> \in Replies
      BY <3>1 DEF Lasting, Replies
    <3>6. TypeOK'
      <4>1. session' \in [Workers -> Session]
        BY <3>2 DEF IInv, TypeOK, Session
      <4>2. \A j \in DOMAIN rows' : rows'[j] \in Row
        <5>1. rows'[i] \in Row
          BY <3>1, <3>3 DEF Row
        <5>2. \A j \in DOMAIN rows : rows'[j] \in Row
          BY <3>3 DEF IInv, TypeOK
        <5> QED BY <5>1, <5>2, <3>3
      <4> QED BY <4>1, <4>2, <2>f, <3>1, <3>2, <3>3, <3>5 DEF IInv, TypeOK
    <3>7. \A v \in Workers : v # w /\ Inserts(v) => session[v].id # i /\ session[v].key # k
      BY <3>1 DEF IInv, InsertsApart, i, k
    <3>8. InsertsClear'
      <4> SUFFICES ASSUME NEW v \in Workers, Inserts(v)'
                   PROVE  /\ session'[v].id \notin DOMAIN rows'
                          /\ ~\E j \in DOMAIN rows' :
                                rows'[j].key = session'[v].key /\ rows'[j].live
        BY DEF InsertsClear, Booked
      <4>1. v # w /\ session'[v] = session[v] /\ Inserts(v)
        BY <3>4 DEF Inserts, NoSession
      <4>2. session[v].id \notin DOMAIN rows /\ ~Booked(session[v].key)
        BY <4>1 DEF IInv, InsertsClear
      <4> QED BY <4>1, <4>2, <3>3, <3>7 DEF Booked
    <3>9. InsertsApart'
      BY <3>4 DEF IInv, InsertsApart, Inserts, NoSession
    <3>10. CancelsKnown'
      BY <3>3, <3>4 DEF IInv, CancelsKnown, Cancels, NoSession
    <3>11. OneLivePerKey'
      BY <3>1, <3>3 DEF IInv, OneLivePerKey, Booked
    <3>12. AnswersHold'
      BY <3>1, <3>2, <3>3 DEF IInv, AnswersHold
    <3>13. BookedHolds'
      BY <3>2, <3>3 DEF IInv, BookedHolds, Booked
    <3> QED BY <3>6, <3>8, <3>9, <3>10, <3>11, <3>12, <3>13 DEF IInv
  <2>5. CASE CancelMissing(w)
    BY <2>5, Answered DEF CancelMissing, Replies
  <2>6. ASSUME NEW i \in Ids, CancelRead(w, i) PROVE IInv'
    <3>1. /\ session'[w] = [op |-> "cancel", id |-> i]
          /\ \A v \in Workers : v # w => session'[v] = session[v]
          /\ i \in DOMAIN rows /\ rows[i].key \in Customers
          /\ UNCHANGED <<rows, told>> /\ reply' = Silence
      BY <2>6 DEF CancelRead, Quietly, IInv, TypeOK
    <3>2. TypeOK'
      BY <2>6, <3>1 DEF CancelRead, IInv, TypeOK, Session
    <3>3. InsertsClear' /\ InsertsApart'
      BY <3>1 DEF IInv, InsertsClear, InsertsApart, Inserts, Booked
    <3>4. CancelsKnown'
      BY <3>1 DEF IInv, CancelsKnown, Cancels
    <3>5. OneLivePerKey' /\ AnswersHold' /\ BookedHolds'
      BY <3>1 DEF IInv, OneLivePerKey, AnswersHold, BookedHolds, Booked
    <3> QED BY <3>2, <3>3, <3>4, <3>5 DEF IInv
  <2>7. ASSUME CommitCancel(w),
               \/ Answer(<<"cancelled", session[w].id>>)
               \/ Quietly
               \/ Answer(<<"fault", 0>>)
        PROVE  IInv'
    <3> DEFINE i == session[w].id
    <3>1. /\ Cancels(w)
          /\ i \in DOMAIN rows /\ i \in Ids /\ rows[i].key \in Customers
      BY <2>7 DEF CommitCancel, IInv, CancelsKnown, TypeOK
    <3>2. /\ rows' = [rows EXCEPT ![i].live = FALSE]
          /\ session' = [session EXCEPT ![w] = NoSession]
          /\ reply' \in {<<"cancelled", i>>, <<"fault", 0>>, Silence}
          /\ told' \in {told, told \union {<<"cancelled", i>>}}
      <4>1. <<"cancelled", i>> \in Lasting
        BY <3>1 DEF Lasting
      <4> QED BY <2>7, <2>f, <4>1 DEF CommitCancel, Answer, Quietly
    <3> HIDE DEF i
    <3>3. /\ DOMAIN rows' = DOMAIN rows
          /\ rows'[i] = [rows[i] EXCEPT !.live = FALSE]
          /\ \A j \in DOMAIN rows : j # i => rows'[j] = rows[j]
      BY <3>1, <3>2
    <3>4. rows[i] \in Row
      BY <3>1 DEF IInv, TypeOK
    <3>5. rows'[i] = [key |-> rows[i].key, live |-> FALSE]
      BY <3>3, <3>4 DEF Row
    <3>6. /\ session'[w] = NoSession
          /\ \A v \in Workers : v # w => session'[v] = session[v]
      BY <3>2 DEF IInv, TypeOK
    <3>7. TypeOK'
      <4>1. session' \in [Workers -> Session]
        BY <3>2 DEF IInv, TypeOK, Session
      <4>2. \A j \in DOMAIN rows' : rows'[j] \in Row
        BY <3>3, <3>4, <3>5 DEF IInv, TypeOK, Row
      <4>3. <<"cancelled", i>> \in Lasting /\ <<"cancelled", i>> \in Replies
        BY <3>1 DEF Lasting, Replies
      <4> QED BY <4>1, <4>2, <4>3, <2>f, <3>2, <3>3 DEF IInv, TypeOK
    <3>8. \A key \in Keys : Booked(key)' => Booked(key)
      BY <3>3, <3>5 DEF Booked
    <3>9. InsertsClear'
      <4> SUFFICES ASSUME NEW v \in Workers, Inserts(v)'
                   PROVE  /\ session'[v].id \notin DOMAIN rows'
                          /\ ~\E j \in DOMAIN rows' :
                                rows'[j].key = session'[v].key /\ rows'[j].live
        BY DEF InsertsClear, Booked
      <4>1. v # w /\ session'[v] = session[v] /\ Inserts(v)
        BY <3>6 DEF Inserts, NoSession
      <4>2. session[v].id \notin DOMAIN rows /\ ~Booked(session[v].key)
        BY <4>1 DEF IInv, InsertsClear
      <4> QED BY <4>1, <4>2, <3>3, <3>5 DEF Booked
    <3>10. InsertsApart'
      BY <3>6 DEF IInv, InsertsApart, Inserts, NoSession
    <3>11. CancelsKnown'
      BY <3>3, <3>5, <3>6 DEF IInv, CancelsKnown, Cancels, NoSession
    <3>12. OneLivePerKey'
      BY <3>3, <3>5 DEF IInv, OneLivePerKey
    <3>13. AnswersHold'
      BY <3>1, <3>2, <3>3, <3>5 DEF IInv, AnswersHold
    <3>14. BookedHolds'
      <4> SUFFICES ASSUME NEW k \in Slots, <<"booked", k>> \in told' PROVE Booked(k)'
        BY DEF BookedHolds
      <4>1. <<"booked", k>> \in told
        BY <3>2
      <4>2. PICK j \in DOMAIN rows : rows[j].key = k /\ rows[j].live
        BY <4>1 DEF IInv, BookedHolds, Booked
      <4>3. j # i
        BY <4>2, <3>1
      <4> QED BY <4>2, <4>3, <3>3 DEF Booked
    <3> QED BY <3>7, <3>9, <3>10, <3>11, <3>12, <3>13, <3>14 DEF IInv
  <2>8. ASSUME NEW k \in Slots, CheckAvailability(w, k) PROVE IInv'
    <3> DEFINE r == <<IF Taken(k) THEN "booked" ELSE "available", k>>
    <3>1. r \in Replies /\ r \notin {"accepted", "cancelled"} \X Ids
      BY DEF Replies, Keys
    <3>2. \A s \in Slots : r = <<"booked", s>> => Booked(s)
      BY DEF Taken, Booked
    <3>3. Answer(r) /\ UNCHANGED rows /\ session' = session
      BY <2>8 DEF CheckAvailability
    <3> HIDE DEF r
    <3> QED BY <3>1, <3>2, <3>3, Answered
  <2>9. CASE Fault(w)
    <3>1. <<"fault", 0>> \in Replies
      BY DEF Replies
    <3> QED BY <2>9, <3>1, Answered DEF Fault
  <2>10. CASE Crash(w)
    <3>1. /\ session'[w] = NoSession
          /\ \A v \in Workers : v # w => session'[v] = session[v]
          /\ UNCHANGED <<rows, told>> /\ reply' = Silence
      BY <2>10 DEF Crash, Quietly, IInv, TypeOK
    <3>2. TypeOK'
      BY <2>10, <3>1 DEF Crash, IInv, TypeOK, Session
    <3>3. InsertsClear' /\ InsertsApart' /\ CancelsKnown'
      BY <3>1 DEF IInv, InsertsClear, InsertsApart, CancelsKnown, Inserts, Cancels,
                  Booked, NoSession
    <3>4. OneLivePerKey' /\ AnswersHold' /\ BookedHolds'
      BY <3>1 DEF IInv, OneLivePerKey, AnswersHold, BookedHolds, Booked
    <3> QED BY <3>2, <3>3, <3>4 DEF IInv
  <2>11. CASE CreateCommit(w)
    BY <2>11, <2>4 DEF CreateCommit
  <2>12. CASE CancelCommit(w)
    BY <2>12, <2>7 DEF CancelCommit
  <2>13. CASE CommitUnanswered(w)
    BY <2>13, <2>4, <2>7 DEF CommitUnanswered
  <2> QED BY <2>1, <2>2, <2>i, <2>3, <2>5, <2>6, <2>8, <2>9, <2>10, <2>11, <2>12, <2>13
<1> QED BY <1>1, <1>2 DEF vars

(* The inductive invariant, from which the others follow. *)
THEOREM Invariance == Spec => []IInv
BY InitIInv, NextIInv, PTL DEF Spec

(* The service stays in well-formed states. *)
THEOREM TypeInvariant == Spec => []TypeOK
<1>1. IInv => TypeOK
  BY DEF IInv
<1> QED BY <1>1, Invariance, PTL

(* On either engine, and however many handlers interleave: at most one open *)
(* request per customer, at most one booking per slot.                      *)
THEOREM UniqueLive == Spec => []OneLivePerKey
<1>1. IInv => OneLivePerKey
  BY DEF IInv
<1> QED BY <1>1, Invariance, PTL

(* A 200 is never taken back, by a crash or by another handler. *)
THEOREM DurableAnswers == Spec => []AnswersHold
<1>1. IInv => AnswersHold
  BY DEF IInv
<1> QED BY <1>1, Invariance, PTL

(* A slot that was reported booked is never free again. *)
THEOREM DurableBookings == Spec => []BookedHolds
<1>1. IInv => BookedHolds
  BY DEF IInv
<1> QED BY <1>1, Invariance, PTL

-----------------------------------------------------------------------------
(* The contract.                                                            *)

LEMMA InitContract == Init => Contract!Init
BY DEF Init, Contract!Init, Silence, Contract!Silence

LEMMA NextContract ==
  ASSUME Engine = "sqlite", IInv, [Next]_vars
  PROVE  [Contract!Next]_(Contract!vars)
<1> USE DEF Contract!vars, Contract!Silence, Silence
<1>1. CASE UNCHANGED vars
  BY <1>1 DEF vars
<1>2. CASE Next
  <2> PICK w \in Workers :
        \/ CreateInvalid(w)
        \/ \E k \in Keys : CreateRefused(w, k) \/ CreateIncomplete(w, k) \/ CreateFlush(w, k)
        \/ CreateCommit(w)
        \/ CancelMissing(w)
        \/ \E i \in Ids : CancelRead(w, i)
        \/ CancelCommit(w)
        \/ CommitUnanswered(w)
        \/ \E k \in Slots : CheckAvailability(w, k)
        \/ Fault(w)
        \/ Crash(w)
    BY <1>2 DEF Next
  <2>1. CASE CreateInvalid(w) \/ CancelMissing(w) \/ Fault(w)
    <3>1. Contract!Decline
      BY <2>1 DEF CreateInvalid, CancelMissing, Fault, Answer, Contract!Decline
    <3> QED BY <3>1 DEF Contract!Next
  <2>2. CASE \/ \E k \in Keys : CreateFlush(w, k)
             \/ \E i \in Ids : CancelRead(w, i)
             \/ Crash(w)
    <3>1. Contract!Work
      BY <2>2 DEF CreateFlush, CancelRead, Crash, Quietly, Contract!Work
    <3> QED BY <3>1 DEF Contract!Next
  <2>3. ASSUME NEW k \in Keys, CreateRefused(w, k) PROVE Contract!Next
    <3>1. Contract!Refuse(k)
      BY <2>3 DEF CreateRefused, Conflict, Indexed, Answer, Contract!Refuse, Contract!Live
    <3> QED BY <3>1 DEF Contract!Next
  <2>4. ASSUME CommitInsert(w),
               reply' \in {<<"accepted", session[w].id>>} \union Contract!Lost
        PROVE  Contract!Next
    <3>1. /\ Inserts(w) /\ session[w].id \in Ids /\ session[w].key \in Keys
          /\ session[w].id \notin DOMAIN rows /\ ~Booked(session[w].key)
      BY <2>4 DEF CommitInsert, IInv, TypeOK, Session, NoSession, Inserts, InsertsClear
    <3>2. Contract!Accept(session[w].key)
      BY <2>4, <3>1 DEF CommitInsert, Visible, Booked, Contract!Accept, Contract!Live
    <3> QED BY <3>1, <3>2 DEF Contract!Next
  <2>5. ASSUME CommitCancel(w),
               reply' \in {<<"cancelled", session[w].id>>} \union Contract!Lost
        PROVE  Contract!Next
    <3>1. /\ session[w].id \in DOMAIN rows /\ session[w].id \in Ids
          /\ rows[session[w].id].key \in Customers
      BY <2>5 DEF CommitCancel, IInv, CancelsKnown, TypeOK
    <3>2. Contract!Cancel(session[w].id)
      BY <2>5, <3>1 DEF CommitCancel, Contract!Cancel
    <3> QED BY <3>1, <3>2 DEF Contract!Next
  <2>6. ASSUME NEW k \in Slots, CheckAvailability(w, k) PROVE Contract!Next
    <3>1. Contract!Available(k)
      BY <2>6 DEF CheckAvailability, Answer, Taken, Contract!Available, Contract!Live
    <3> QED BY <3>1 DEF Contract!Next, Keys
  <2>7. ASSUME NEW k \in Keys, CreateIncomplete(w, k) PROVE Contract!Next
    <3>1. Contract!Decline
      BY <2>7 DEF CreateIncomplete, Answer, Contract!Decline
    <3> QED BY <3>1 DEF Contract!Next
  <2>8. CASE CreateCommit(w)
    BY <2>8, <2>4 DEF CreateCommit, Answer
  <2>9. CASE CancelCommit(w)
    BY <2>9, <2>5 DEF CancelCommit, Answer
  <2>10. CASE CommitUnanswered(w)
    <3>1. reply' \in Contract!Lost
      BY <2>10 DEF CommitUnanswered, Quietly, Answer, Contract!Lost
    <3> QED BY <2>10, <3>1, <2>4, <2>5 DEF CommitUnanswered
  <2> QED BY <2>1, <2>2, <2>3, <2>6, <2>7, <2>8, <2>9, <2>10
<1> QED BY <1>1, <1>2

(* On SQLite every handler takes effect at one instant, answered or not,    *)
(* and a complete request is refused only for a live row; Postgres lacks    *)
(* the partial index this needs.                                            *)
THEOREM KeepsContract ==
  ASSUME Engine = "sqlite"
  PROVE  Spec => ImplementsContract
<1>1. IInv /\ [Next]_vars => [Contract!Next]_(Contract!vars)
  BY NextContract
<1> QED BY <1>1, InitContract, Invariance, PTL DEF Spec, ImplementsContract, Contract!Spec
=============================================================================
