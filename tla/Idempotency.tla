---------------------------- MODULE Idempotency ----------------------------
(***************************************************************************)
(* pkg/middleware/idempotency.go over pkg/idempotency's DualStore: a       *)
(* request of a service account acquires its scope key in Redis, or in     *)
(* Postgres when the call to Redis fails, runs its handler and records the *)
(* response; the next request with the key is refused while the record     *)
(* says processing, and then given the recorded response.                  *)
(*                                                                         *)
(* Each store call is a step of its own.  It may fail before or after it   *)
(* took effect, an instance may die anywhere, and Redis may lose a record. *)
(***************************************************************************)
EXTENDS Naturals, FiniteSets

CONSTANTS
    Requests,  \* requests for handlers behind the middleware
    Callers,   \* caller ids
    Endpoints,    \* a method and a URL path
    IdemKeys,  \* values of the Idempotency-Key header
    Call       \* Call[r]: who sends r, where to, and with which key

Calls == [caller : Callers, kind : {"service", "human"}, route : Endpoints,
          safe : BOOLEAN, key : IdemKeys \cup {"none"}]

ASSUME IdempotencyAssumption ==
    /\ "none" \notin Requests
    /\ Call \in [Requests -> Calls]

VARIABLES
    cache,    \* cache[s]: the record of scope s in Redis
    table,    \* table[s]: its row of idempotency_requests
    pc,       \* where the middleware stands with request r
    holder,   \* holder[r]: the store that let r run its handler, if any
    result,   \* result[r]: how the handler ended for a guarded request r
    reply,    \* reply[r]: what r's caller received
    pending,  \* the requests whose background write to Postgres is on its way
    trouble   \* trouble[s]: what went wrong around scope s so far

guardVars == <<cache, table, pc, holder, result, reply, pending, trouble>>

\* Mutation of ScopeKey: the key alone.
ScopeKeyOfHeader(r) == Call[r].key

\* scopeKey: a collision-free digest of caller, method, path and key.
ScopeKey(r) == <<Call[r].caller, Call[r].route, Call[r].key>>

\* The middleware guards mutating calls of service accounts.
Guarded(r) == Call[r].kind = "service" /\ ~Call[r].safe

Scopes == {ScopeKey(r) : r \in Requests}

NoRec == [status |-> "none", of |-> "none"]

Processing == [status |-> "processing", of |-> "none"]

\* A stored response: completed or failed, and the request whose handler produced it.
Responses == [status : {"completed", "failed"}, of : Requests]

\* A call to Redis failed, a record lapsed, or something else: an error of Postgres, a response
\* that was not stored, the death of an instance.
Troubles == {"redis", "lapse", "other"}

\* What a caller receives: an answer of the handler or the middleware, or a stored response.
Replies ==
    [kind : {"none", "own", "in flight", "rejected", "error"}, rec : {NoRec}]
    \cup [kind : {"replay"}, rec : Responses]

GuardTypeOK ==
    /\ cache \in [Scopes -> {NoRec, Processing} \cup Responses]
    /\ table \in [Scopes -> {NoRec, Processing} \cup Responses]
    /\ pc \in [Requests -> {"idle", "redis", "select", "insert", "run", "pass",
                            "complete", "done"}]
    /\ holder \in [Requests -> {"none", "redis", "postgres"}]
    /\ result \in [Requests -> {"none", "completed", "failed", "panicked"}]
    /\ reply \in [Requests -> Replies]
    /\ pending \subseteq Requests
    /\ trouble \in [Scopes -> SUBSET Troubles]

GuardInit ==
    /\ cache = [s \in Scopes |-> NoRec]
    /\ table = [s \in Scopes |-> NoRec]
    /\ pc = [r \in Requests |-> "idle"]
    /\ holder = [r \in Requests |-> "none"]
    /\ result = [r \in Requests |-> "none"]
    /\ reply = [r \in Requests |-> [kind |-> "none", rec |-> NoRec]]
    /\ pending = {}
    /\ trouble = [s \in Scopes |-> {}]

-----------------------------------------------------------------------------
Goto(r, where) ==
    /\ pc' = [pc EXCEPT ![r] = where]
    /\ UNCHANGED <<holder, reply>>

\* The store lets r execute.
Acquired(r, store) ==
    /\ pc' = [pc EXCEPT ![r] = "run"]
    /\ holder' = [holder EXCEPT ![r] = store]
    /\ UNCHANGED reply

Respond(r, kind, rec) ==
    /\ pc' = [pc EXCEPT ![r] = "done"]
    /\ reply' = [reply EXCEPT ![r] = [kind |-> kind, rec |-> rec]]
    /\ UNCHANGED holder

\* A record that exists: 409 while it says processing, else its response once more.
Answered(r, rec) ==
    \/ rec = Processing /\ Respond(r, "in flight", NoRec)
    \/ rec \in Responses /\ Respond(r, "replay", rec)

Blame(s, what) == trouble' = [trouble EXCEPT ![s] = @ \cup {what}]

\* The record r leaves behind.
Outcome(r) == [status |-> result[r], of |-> r]

\* Idempotency, up to the call of acquire.  A request that is not guarded is served at once.
Arrive(r) ==
    /\ pc[r] = "idle"
    /\ \/ ~Guarded(r) /\ Respond(r, "own", NoRec)
       \/ Guarded(r) /\ Call[r].key = "none" /\ Respond(r, "rejected", NoRec)
       \/ Guarded(r) /\ Call[r].key # "none" /\ Goto(r, "redis")
    /\ UNCHANGED <<cache, table, result, pending, trouble>>

\* Mutation of RedisAcquire: a GET and a SET that another caller gets between.
RedisAcquireTwice(r) ==
    /\ pc[r] = "redis"
    /\ LET s == ScopeKey(r)
       IN  \/ /\ cache[s] \in {NoRec, Processing}
              /\ cache' = [cache EXCEPT ![s] = Processing]
              /\ Acquired(r, "redis")
           \/ /\ Answered(r, cache[s])
              /\ UNCHANGED cache
    /\ UNCHANGED <<table, result, pending, trouble>>

\* The Lua script finds no record and sets one, in one step, or returns what it finds.
RedisAcquire(r) ==
    /\ pc[r] = "redis"
    /\ LET s == ScopeKey(r)
       IN  \/ /\ cache[s] = NoRec
              /\ cache' = [cache EXCEPT ![s] = Processing]
              /\ Acquired(r, "redis")
           \/ /\ Answered(r, cache[s])
              /\ UNCHANGED cache
    /\ UNCHANGED <<table, result, pending, trouble>>

\* The call to Redis fails, perhaps after the script has set its record: on to Postgres.
RedisAcquireFails(r) ==
    /\ pc[r] = "redis"
    /\ LET s == ScopeKey(r)
       IN  /\ \/ cache[s] = NoRec /\ cache' = [cache EXCEPT ![s] = Processing]
              \/ UNCHANGED cache
           /\ Blame(s, "redis")
    /\ Goto(r, "select")
    /\ UNCHANGED <<table, result, pending>>

\* The client library repeats a call whose reply was lost, and finds its own record.
RedisAcquireRepeats(r) ==
    /\ pc[r] = "redis"
    /\ LET s == ScopeKey(r)
       IN  /\ cache[s] = NoRec
           /\ cache' = [cache EXCEPT ![s] = Processing]
           /\ Answered(r, Processing)
           /\ Blame(s, "redis")
    /\ UNCHANGED <<table, result, pending>>

\* FirstOrCreate, the SELECT.
PostgresSelect(r) ==
    /\ pc[r] = "select"
    /\ LET s == ScopeKey(r)
       IN  \/ table[s] = NoRec /\ Goto(r, "insert")
           \/ Answered(r, table[s])
    /\ UNCHANGED <<cache, table, result, pending, trouble>>

\* Mutation of PostgresInsert: no unique index on scope_key.
PostgresInsertAnyway(r) ==
    /\ pc[r] = "insert"
    /\ LET s == ScopeKey(r)
       IN  \/ /\ \A q \in Scopes \ {s} : table[q] = NoRec
              /\ table' = [table EXCEPT ![s] = Processing]
              /\ Acquired(r, "postgres")
              /\ UNCHANGED trouble
           \/ /\ \E q \in Scopes \ {s} : table[q] # NoRec
              /\ Goto(r, "pass")
              /\ Blame(s, "other")
              /\ UNCHANGED table
    /\ UNCHANGED <<cache, result, pending>>

\* FirstOrCreate, the INSERT.  It fails on the unique index of scope_key, and also when the
\* table has any other row: nothing sets the ID, which is the primary key, so each row has
\* the empty one.  After an error the handler runs without protection.
PostgresInsert(r) ==
    /\ pc[r] = "insert"
    /\ LET s == ScopeKey(r)
       IN  \/ /\ \A q \in Scopes : table[q] = NoRec
              /\ table' = [table EXCEPT ![s] = Processing]
              /\ Acquired(r, "postgres")
              /\ UNCHANGED trouble
           \/ /\ \E q \in Scopes : table[q] # NoRec
              /\ Goto(r, "pass")
              /\ Blame(s, "other")
              /\ UNCHANGED table
    /\ UNCHANGED <<cache, result, pending>>

\* The SELECT or the INSERT fails for another reason, the latter perhaps after its commit.
PostgresAcquireFails(r) ==
    /\ pc[r] \in {"select", "insert"}
    /\ LET s == ScopeKey(r)
       IN  /\ \/ /\ pc[r] = "insert"
                 /\ \A q \in Scopes : table[q] = NoRec
                 /\ table' = [table EXCEPT ![s] = Processing]
              \/ UNCHANGED table
           /\ Blame(s, "other")
    /\ Goto(r, "pass")
    /\ UNCHANGED <<cache, result, pending>>

\* The handler of a guarded request that could not be protected.
PassThrough(r) ==
    /\ pc[r] = "pass"
    /\ \E how \in {"completed", "failed"} : result' = [result EXCEPT ![r] = how]
    /\ Respond(r, "own", NoRec)
    /\ UNCHANGED <<cache, table, pending, trouble>>

\* captureAndExecute: the handler runs, its caller gets the response, and the record is
\* about to be stored.
Execute(r) ==
    /\ pc[r] = "run"
    /\ \E how \in {"completed", "failed"} : result' = [result EXCEPT ![r] = how]
    /\ pc' = [pc EXCEPT ![r] = "complete"]
    /\ reply' = [reply EXCEPT ![r] = [kind |-> "own", rec |-> NoRec]]
    /\ UNCHANGED <<cache, table, holder, pending, trouble>>

\* Mutation of ExecuteUnstored: what a panic left in the recorder is stored.
ExecutePanicStored(r) ==
    /\ pc[r] = "run"
    /\ result' = [result EXCEPT ![r] = "panicked"]
    /\ pc' = [pc EXCEPT ![r] = "complete"]
    /\ reply' = [reply EXCEPT ![r] = [kind |-> "error", rec |-> NoRec]]
    /\ UNCHANGED <<cache, table, holder, pending, trouble>>

\* The same when nothing is stored: the response is too large, or the handler panics.
ExecuteUnstored(r) ==
    /\ pc[r] = "run"
    /\ \/ /\ \E how \in {"completed", "failed"} : result' = [result EXCEPT ![r] = how]
          /\ Respond(r, "own", NoRec)
       \/ /\ result' = [result EXCEPT ![r] = "panicked"]
          /\ Respond(r, "error", NoRec)
    /\ Blame(ScopeKey(r), "other")
    /\ UNCHANGED <<cache, table, pending>>

\* Mutation of RedisComplete: a failed handler frees its key.
RedisCompleteFreesFailed(r) ==
    /\ pc[r] = "complete"
    /\ cache' = [cache EXCEPT ![ScopeKey(r)] =
                    IF result[r] = "failed" THEN NoRec ELSE Outcome(r)]
    /\ Goto(r, "done")
    /\ pending' = pending \cup {r}
    /\ UNCHANGED <<table, result, trouble>>

\* Mutation of RedisComplete: only a success is recorded.
RedisCompleteSuccess(r) ==
    /\ pc[r] = "complete"
    /\ \/ result[r] = "failed" /\ UNCHANGED cache
       \/ result[r] # "failed" /\ cache' = [cache EXCEPT ![ScopeKey(r)] = Outcome(r)]
    /\ Goto(r, "done")
    /\ pending' = pending \cup {r}
    /\ UNCHANGED <<table, result, trouble>>

\* DualStore.Complete: the record goes to Redis, and a goroutine takes it to Postgres.
RedisComplete(r) ==
    /\ pc[r] = "complete"
    /\ cache' = [cache EXCEPT ![ScopeKey(r)] = Outcome(r)]
    /\ Goto(r, "done")
    /\ pending' = pending \cup {r}
    /\ UNCHANGED <<table, result, trouble>>

\* An error of Redis is only logged; the record may be there all the same.
RedisCompleteFails(r) ==
    /\ pc[r] = "complete"
    /\ \/ cache' = [cache EXCEPT ![ScopeKey(r)] = Outcome(r)]
       \/ UNCHANGED cache
    /\ Goto(r, "done")
    /\ pending' = pending \cup {r}
    /\ Blame(ScopeKey(r), "redis")
    /\ UNCHANGED <<table, result>>

\* The goroutine: an UPDATE of the row of the scope, if there is one.
PostgresComplete(r) ==
    /\ r \in pending
    /\ LET s == ScopeKey(r)
       IN  \/ table[s] # NoRec /\ table' = [table EXCEPT ![s] = Outcome(r)]
           \/ table[s] = NoRec /\ UNCHANGED table
    /\ pending' = pending \ {r}
    /\ UNCHANGED <<cache, pc, holder, result, reply, trouble>>

PostgresCompleteFails(r) ==
    /\ r \in pending
    /\ pending' = pending \ {r}
    /\ Blame(ScopeKey(r), "other")
    /\ UNCHANGED <<cache, table, pc, holder, result, reply>>

\* The instance dies: the request ends without a response, its goroutine with it.
Dies(r) ==
    /\ \/ /\ pc[r] \notin {"idle", "done"}
          /\ pc' = [pc EXCEPT ![r] = "done"]
          /\ UNCHANGED pending
       \/ /\ r \in pending
          /\ pending' = pending \ {r}
          /\ UNCHANGED pc
    /\ Blame(ScopeKey(r), "other")
    /\ UNCHANGED <<cache, table, holder, result, reply>>

\* No request of the scope is being served.
Quiet(s) ==
    \A r \in Requests :
        ScopeKey(r) = s => pc[r] \in {"idle", "done"} /\ r \notin pending

\* A record's TTL ends, or Redis loses it.
RecordLapses(s) ==
    /\ cache[s] # NoRec
    /\ cache' = [cache EXCEPT ![s] = NoRec]
    /\ Blame(s, "lapse")
    /\ UNCHANGED <<table, pc, holder, result, reply, pending>>

\* DeleteExpired: a row goes a day after its insert, which no request outlasts.
DeleteExpired(s) ==
    /\ table[s] # NoRec
    /\ Quiet(s)
    /\ table' = [table EXCEPT ![s] = NoRec]
    /\ Blame(s, "lapse")
    /\ UNCHANGED <<cache, pc, holder, result, reply, pending>>

Serve(r) ==
    \/ Arrive(r)
    \/ RedisAcquire(r)
    \/ RedisAcquireFails(r)
    \/ RedisAcquireRepeats(r)
    \/ PostgresSelect(r)
    \/ PostgresInsert(r)
    \/ PostgresAcquireFails(r)
    \/ PassThrough(r)
    \/ Execute(r)
    \/ ExecuteUnstored(r)
    \/ RedisComplete(r)
    \/ RedisCompleteFails(r)

Background(r) ==
    \/ PostgresComplete(r)
    \/ PostgresCompleteFails(r)

GuardNext ==
    \/ \E r \in Requests : Serve(r) \/ Background(r) \/ Dies(r)
    \/ \E s \in Scopes : RecordLapses(s) \/ DeleteExpired(s)

GuardSpec == GuardInit /\ [][GuardNext]_guardVars

-----------------------------------------------------------------------------
Executed(r) == result[r] # "none"

\* Two different requests for the same thing under the same key.
Twins(r, q) ==
    /\ r # q
    /\ Guarded(r)
    /\ Guarded(q)
    /\ ScopeKey(r) = ScopeKey(q)

\* Safety: while Redis answers and keeps its records, a handler runs once per caller, route
\* and key, whatever the handlers do (fail, panic, answer at length) and whoever dies.
ExecutedOnce ==
    \A r, q \in Requests :
        Twins(r, q) /\ Executed(r) /\ Executed(q) =>
            trouble[ScopeKey(r)] \cap {"redis", "lapse"} # {}

\* Safety: each store by itself is a mutex, whatever fails: it lets two requests of a scope
\* run only when a record of the scope lapsed.
StoreIsMutex ==
    \A r, q \in Requests :
        Twins(r, q) /\ holder[r] # "none" /\ holder[r] = holder[q] =>
            "lapse" \in trouble[ScopeKey(r)]

\* Safety: a replayed response is what the handler answered to a request of the same caller,
\* for the same route, under the same key, whatever was lost, repeated or overtaken.
ReplayIsOwn ==
    \A r \in Requests :
        reply[r].kind = "replay" =>
            LET q == reply[r].rec.of
            IN  /\ Twins(r, q)
                /\ Call[q].caller = Call[r].caller
                /\ Call[q].route = Call[r].route
                /\ Call[q].key = Call[r].key
                /\ holder[q] # "none"
                /\ result[q] = reply[r].rec.status

\* What a step says: a request is refused as in flight only while a twin of it is, unless a
\* store failed, a record lapsed or was never stored, or an instance died.
InFlightIsTrue ==
    [][\A r \in Requests :
          reply'[r].kind = "in flight" /\ reply[r].kind # "in flight" =>
              \/ trouble'[ScopeKey(r)] # {}
              \/ \E q \in Requests : Twins(r, q) /\ pc[q] \in {"run", "complete"}]_guardVars

\* Safety: an answer that was stored is the one a retry will get: once the request is done,
\* and nothing went wrong around its scope, its response is what Redis holds.
AnswerIsKept ==
    \A r \in Requests :
        holder[r] # "none" /\ pc[r] = "done" /\ trouble[ScopeKey(r)] = {} =>
            cache[ScopeKey(r)] = Outcome(r)
============================================================================
