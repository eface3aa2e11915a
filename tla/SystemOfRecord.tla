--------------------------- MODULE SystemOfRecord ---------------------------
(***************************************************************************)
(* What the platform may rely on from a system of record: every request     *)
(* takes effect at one instant or not at all, which a lost answer or a      *)
(* fault leaves open; a registration takes effect only if the key has no    *)
(* live entry, and a complete one is refused only if it has; and nothing is *)
(* ever forgotten.  An incomplete one may be refused in the same words      *)
(* although the key is free: that refusal says nothing of the key.          *)
(***************************************************************************)
EXTENDS Naturals

CONSTANTS
  Keys,          \* customers (of service requests) and slots (of appointments)
  Ids,           \* identifiers of rows
  Cancellable    \* the keys whose entries may be cancelled: the customers

VARIABLES
  rows,    \* the entries: a partial function from Ids to [key, live]
  reply    \* the answer given in the last step, or Silence

vars == <<rows, reply>>

Row == [key : Keys, live : BOOLEAN]
Silence == <<"silence", 0>>

Live(k) == \E i \in DOMAIN rows : rows[i].key = k /\ rows[i].live

Init ==
  /\ rows = <<>>
  /\ reply = Silence

(* What may come in place of the answer to a request that took effect. *)
Lost == {Silence, <<"fault", 0>>}

Accept(k) ==
  /\ ~Live(k)
  /\ \E i \in Ids \ DOMAIN rows :
       /\ rows' = [j \in DOMAIN rows \union {i} |->
                     IF j = i THEN [key |-> k, live |-> TRUE] ELSE rows[j]]
       /\ reply' \in {<<"accepted", i>>} \union Lost

Refuse(k) ==
  /\ Live(k)
  /\ reply' = <<"refused", k>>
  /\ UNCHANGED rows

Cancel(i) ==
  /\ i \in DOMAIN rows
  /\ rows[i].key \in Cancellable
  /\ rows' = [rows EXCEPT ![i].live = FALSE]
  /\ reply' \in {<<"cancelled", i>>} \union Lost

Available(k) ==
  /\ reply' = <<IF Live(k) THEN "booked" ELSE "available", k>>
  /\ UNCHANGED rows

(* A malformed request, one that lacks a field, an identifier it does not   *)
(* know, a fault of its own.                                                *)
Decline ==
  /\ reply' \in {<<"invalid", 0>>, <<"missing", 0>>, <<"fault", 0>>}
                \union ({"refused_incomplete"} \X Keys)
  /\ UNCHANGED rows

Work ==
  /\ reply' = Silence
  /\ UNCHANGED rows

Next ==
  \/ \E k \in Keys : Accept(k) \/ Refuse(k) \/ Available(k)
  \/ \E i \in Ids : Cancel(i)
  \/ Decline
  \/ Work

Spec == Init /\ [][Next]_vars
=============================================================================
