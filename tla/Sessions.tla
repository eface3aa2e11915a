------------------------------ MODULE Sessions ------------------------------
(***************************************************************************)
(* The short-term memory of one session: the three stores of                *)
(* session_store.py, written and read by several processes, and the context *)
(* that ContextBuilder makes of its turns.                                  *)
(*                                                                          *)
(* A turn is [id, turn, tokens]: id numbers the appends, turn is the name   *)
(* the caller may give it ("none" for the runtime's turns), tokens what it  *)
(* adds to a context.                                                       *)
(***************************************************************************)
EXTENDS Integers, FiniteSets, Sequences, SequencesExt, FiniteSetsExt

CONSTANTS
  Writers,    \* processes with a platform of their own
  TurnIds,    \* names of turns
  Tokens,     \* sizes of turns
  Ttl,        \* ttl_seconds, in units of the clock
  LastN,      \* session_last_n_turns
  HeadTokens, \* tokens of the instructions, the knowledge and the payload
  Budget,     \* token_budget
  MaxAppends, \* bound on the number of appends
  MaxTime     \* bound on the clock

ASSUME SessionsAssumption ==
  /\ {Ttl, LastN, HeadTokens, Budget, MaxAppends, MaxTime} \subseteq Nat
  /\ Tokens \subseteq Nat /\ "none" \notin TurnIds

VARIABLES
  env,      \* the URLs that are defined: "postgres", "redis" or "none"
  uses,     \* the store each process has built, "none" if it does not run
  now,      \* the clock
  local,    \* InMemorySessionStore of each process: [turns, created, seen]
  redis,    \* the session's key: [turns, deadline]
  seen,     \* _seen_turn_ids of each process's RedisSessionStore
  rows,     \* the session's rows: [index, turn, created, expires]
  pending,  \* the append a process is in
  appends   \* appends so far

stores == <<local, redis, seen, rows>>
vars == <<env, uses, now, stores, pending, appends>>

Never == MaxTime + Ttl + 1
NoSession == [turns |-> <<>>, created |-> Never, seen |-> {}]
NoKey == [turns |-> <<>>, deadline |-> Never]
Free == [at |-> "free"]
Raised == [at |-> "raised"]   \* SessionRewriteError of the primary key

Init ==
  /\ env \in {"postgres", "redis", "none"}
  /\ uses = [w \in Writers |-> "none"] /\ now = 0
  /\ local = [w \in Writers |-> NoSession]
  /\ redis = NoKey /\ seen = [w \in Writers |-> {}] /\ rows = {}
  /\ pending = [w \in Writers |-> Free]
  /\ appends = 0

-----------------------------------------------------------------------------
(* What history() returns.                                                  *)

Alive(session) == IF session.created + Ttl < now THEN NoSession ELSE session
LiveKey == IF redis.deadline <= now THEN NoKey ELSE redis
Visible == {r \in rows : r.expires > now}

\* Mutant: history() orders by created_at.
ByTime(some) ==
  LET upto(r) == {q \in some : \/ q.created < r.created
                               \/ q.created = r.created /\ q.index <= r.index}
  IN  [n \in 1..Cardinality(some) |-> CHOOSE r \in some : Cardinality(upto(r)) = n]

Rank(some, r) == Cardinality({q \in some : q.index <= r.index})

ByIndex(some) ==
  [n \in 1..Cardinality(some) |-> CHOOSE r \in some : Rank(some, r) = n]

TurnsOf(some) == [i \in DOMAIN some |-> some[i].turn]

History(w) ==
  CASE uses[w] = "memory"   -> Alive(local[w]).turns
    [] uses[w] = "redis"    -> LiveKey.turns
    [] uses[w] = "postgres" -> TurnsOf(ByIndex(Visible))
    [] OTHER -> <<>>

-----------------------------------------------------------------------------
(* build_platform and build_session_store: Redis that does not answer when  *)
(* the process starts is replaced by memory, for this process only.         *)
Open(w) ==
  /\ uses[w] = "none"
  /\ uses' = [uses EXCEPT ![w] = IF env = "none" THEN "memory" ELSE env]
  /\ UNCHANGED <<env, now, stores, pending, appends>>

OpenWithoutRedis(w) ==
  /\ uses[w] = "none" /\ env = "redis"
  /\ uses' = [uses EXCEPT ![w] = "memory"]
  /\ UNCHANGED <<env, now, stores, pending, appends>>

(* The process ends, also within an append, and what it held in memory is   *)
(* gone.                                                                    *)
Exit(w) ==
  /\ uses[w] # "none"
  /\ uses' = [uses EXCEPT ![w] = "none"]
  /\ local' = [local EXCEPT ![w] = NoSession]
  /\ seen' = [seen EXCEPT ![w] = {}]
  /\ pending' = [pending EXCEPT ![w] = Free]
  /\ UNCHANGED <<env, now, redis, rows, appends>>

Tick ==
  /\ now < MaxTime /\ now' = now + 1
  /\ UNCHANGED <<env, uses, stores, pending, appends>>

-----------------------------------------------------------------------------
(* append() *)
Starts(w, store, entry) ==
  /\ uses[w] = store /\ pending[w].at \in {"free", "raised"} /\ appends < MaxAppends
  /\ entry \in [id : {appends + 1}, turn : TurnIds \union {"none"}, tokens : Tokens]
  /\ appends' = appends + 1
  /\ UNCHANGED <<env, uses, now>>

Named(entry) == {entry.turn} \ {"none"}

Leaves(w, outcome) == pending' = [pending EXCEPT ![w] = outcome]

(* An expired session is forgotten, with the turns it has seen; a turn that *)
(* was seen raises.                                                         *)
MemoryAppend(w) ==
  \E entry \in [id : {appends + 1}, turn : TurnIds \union {"none"}, tokens : Tokens] :
    /\ Starts(w, "memory", entry)
    /\ LET session == Alive(local[w])
       IN  IF entry.turn \in session.seen
           THEN local' = [local EXCEPT ![w] = session] /\ Leaves(w, Free)
           ELSE /\ local' = [local EXCEPT ![w] =
                     [turns |-> Append(session.turns, entry),
                      created |-> IF session = NoSession THEN now ELSE session.created,
                      seen |-> session.seen \union Named(entry)]]
                /\ Leaves(w, Free)
    /\ UNCHANGED <<redis, seen, rows>>

(* The process remembers the turn, then RPUSH, which may fail; a key that   *)
(* has expired is made anew, without a deadline.                            *)
RedisPush(w) ==
  \E entry \in [id : {appends + 1}, turn : TurnIds \union {"none"}, tokens : Tokens] :
    /\ Starts(w, "redis", entry)
    /\ IF entry.turn \in seen[w]
       THEN Leaves(w, Free) /\ UNCHANGED <<redis, seen>>
       ELSE /\ seen' = [seen EXCEPT ![w] = @ \union Named(entry)]
            /\ \/ /\ redis' = [LiveKey EXCEPT !.turns = Append(@, entry)]
                  /\ Leaves(w, [at |-> "pushed"])
               \/ Leaves(w, Free) /\ UNCHANGED redis
    /\ UNCHANGED <<local, rows>>

(* EXPIRE: nothing if the key has expired in between; it may fail, too.     *)
RedisExpire(w) ==
  /\ pending[w].at = "pushed"
  /\ \/ /\ redis' = IF LiveKey = NoKey THEN NoKey ELSE [LiveKey EXCEPT !.deadline = now + Ttl]
        /\ Leaves(w, Free)
     \/ Leaves(w, Free) /\ UNCHANGED redis
  /\ UNCHANGED <<env, uses, now, local, seen, rows, appends>>

\* Mutant: the next index is computed from the turns that are still visible.
NextIndexVisible == IF Visible = {} THEN 0 ELSE Max({r.index : r \in Visible}) + 1

(* MAX(turn_index) + 1 over all rows of the session, expired or not.        *)
NextIndex == IF rows = {} THEN 0 ELSE Max({r.index : r \in rows}) + 1

(* The time of the turn is taken before the index is looked up.              *)
PostgresStart(w) ==
  \E entry \in [id : {appends + 1}, turn : {"none"}, tokens : Tokens] :
    /\ Starts(w, "postgres", entry)
    /\ Leaves(w, [at |-> "timed", turn |-> entry, created |-> now])
    /\ UNCHANGED stores

PostgresRead(w) ==
  /\ pending[w].at = "timed"
  /\ Leaves(w, [at |-> "computed", known |-> Cardinality(rows),
                row |-> [index |-> NextIndex, turn |-> pending[w].turn,
                         created |-> pending[w].created, expires |-> pending[w].created + Ttl]])
  /\ UNCHANGED <<env, uses, now, stores, appends>>

(* The primary key admits one row per index; a lost connection raises too,  *)
(* with the row committed or not.                                           *)
PostgresCommit(w) ==
  /\ pending[w].at = "computed"
  /\ LET row == pending[w].row
         taken == \E r \in rows : r.index = row.index
     IN  \/ taken /\ Leaves(w, Raised) /\ UNCHANGED rows
         \/ ~taken /\ rows' = rows \union {row} /\ Leaves(w, Free)
  /\ UNCHANGED <<env, uses, now, local, redis, seen, appends>>

PostgresDisconnects(w) ==
  /\ pending[w].at \in {"timed", "computed"}
  /\ \/ UNCHANGED rows
     \/ /\ pending[w].at = "computed"
        /\ \A r \in rows : r.index # pending[w].row.index
        /\ rows' = rows \union {pending[w].row}
  /\ Leaves(w, Free)
  /\ UNCHANGED <<env, uses, now, local, redis, seen, appends>>

-----------------------------------------------------------------------------
(* ContextBuilder.build: the last N turns of the history, the oldest of     *)
(* them dropped while the estimate exceeds the budget.                      *)

TokensOf(turns) ==
  LET upto[n \in 0..Len(turns)] ==
        IF n = 0 THEN HeadTokens ELSE upto[n - 1] + turns[n].tokens
  IN  upto[Len(turns)]

\* Mutant: the newest turns are dropped first.
DroppedNewest(turns, k) == SubSeq(turns, 1, Len(turns) - k)

Dropped(turns, k) == SubSeq(turns, k + 1, Len(turns))

Compact(turns) ==
  LET pops[k \in 0..Len(turns)] ==
        IF k < Len(turns) /\ TokensOf(Dropped(turns, k)) > Budget THEN pops[k + 1] ELSE k
  IN  Dropped(turns, pops[0])

Recent(turns) == IF LastN = 0 THEN <<>> ELSE Dropped(turns, Max({0, Len(turns) - LastN}))

Context(w) == Compact(Recent(History(w)))

-----------------------------------------------------------------------------
Next ==
  \/ Tick
  \/ \E w \in Writers :
       \/ Open(w) \/ OpenWithoutRedis(w) \/ Exit(w) \/ MemoryAppend(w)
       \/ RedisPush(w) \/ RedisExpire(w) \/ PostgresStart(w) \/ PostgresRead(w)
       \/ PostgresCommit(w) \/ PostgresDisconnects(w)

Spec == Init /\ [][Next]_vars

-----------------------------------------------------------------------------
(* A session is append-only for whoever reads it: from one moment to the    *)
(* next turns may expire and one may be added at the end, but none changes  *)
(* its place, also when two processes append at once.                       *)
Extends(new, old) ==
  \A j \in DOMAIN new : new[j] \in ToSet(old) =>
    \A i \in 1..(j - 1) :
      \E m, n \in DOMAIN old : m < n /\ old[m] = new[i] /\ old[n] = new[j]

NeverRewritten ==
  [][\A w \in Writers : uses'[w] = uses[w] => Extends(History(w)', History(w))]_vars

(* On Postgres an append is refused as a rewrite only when another process  *)
(* has committed a turn since it looked: alone, it succeeds, also when      *)
(* every earlier turn of the session has expired.                           *)
LoneAppendSucceeds ==
  [][\A w \in Writers :
       pending[w].at = "computed" /\ pending'[w] = Raised
         => Cardinality(rows) > pending[w].known]_vars

(* The context of an agent has the newest turns of the session, without a   *)
(* gap, as many as the budget and the policy allow; when even the newest    *)
(* does not fit it has none.                                                *)
NewestInContext ==
  \A w \in Writers :
    LET turns == Context(w)
        all == History(w)
        newest(n) == SubSeq(all, Len(all) - n + 1, Len(all))
    IN  /\ turns = newest(Len(turns))
        /\ turns # <<>> => TokensOf(turns) <= Budget
        /\ Len(turns) < Len(all) =>
             Len(turns) = LastN \/ TokensOf(newest(Len(turns) + 1)) > Budget
=============================================================================
