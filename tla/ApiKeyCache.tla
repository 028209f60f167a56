---------------------------- MODULE ApiKeyCache ----------------------------
(***************************************************************************)
(* API keys of service accounts.  auth-svc keeps accounts and keys in      *)
(* Postgres and answers what a key stands for; it and account-svc put such *)
(* answers into one Redis entry per key, for TTL at most.  Revoking a key  *)
(* deletes the entry, deactivating its account does not.                   *)
(*                                                                         *)
(* Time is counted in ticks; a lookup is over within Delay ticks, as the   *)
(* timeouts of both services see to.                                       *)
(***************************************************************************)
EXTENDS Naturals, FiniteSets

CONSTANTS
    Accounts,   \* service accounts that may be created
    Keys,       \* API keys that may be created
    AccountOf,  \* AccountOf[k]: the account that k is created for
    Expiries,   \* values of expires_at
    Lookups,    \* lookups under way at a time
    Calls,      \* calls of RevokeAPIKey and UpdateServiceAccount
    Op,         \* Op[c]: what call c asks for
    TTL,        \* apiKeyCacheTTL
    Delay,      \* bound on the life of a lookup
    Horizon,    \* bound: the last tick
    Never,      \* NULL; no entry
    Forever     \* the lapse of an entry with no time to live

ASSUME ApiKeyAssumption ==
    /\ AccountOf \in [Keys -> Accounts]
    /\ Expiries \subseteq Nat \cup {Never}
    /\ \A c \in Calls :
        \/ Op[c].kind = "revoke" /\ Op[c].key \in Keys
        \/ Op[c].kind = "update" /\ Op[c].account \in Accounts
           /\ Op[c].is_active \in {"active", "inactive", "as it was"}
    /\ IsFiniteSet(Calls)
    /\ TTL \in Nat /\ Delay \in Nat /\ Horizon \in Nat
    /\ Delay < TTL
    /\ Never \notin Keys /\ Never \notin Nat /\ Forever \notin Nat /\ Never # Forever

VARIABLES
    clock,      \* the current tick
    cached,     \* the services that were started with a Redis
    accounts,   \* accounts[a]: is_active of the row of a
    keys,       \* keys[k]: the row of k
    cache,      \* cache[k]: when the entry of k lapses
    lpc,        \* lpc[l]: where a lookup stands; "ok" once it has let its key in
    job,        \* job[l]: at which service it came in, with which key and when
    cpc,        \* where a call stands
    seen,       \* seen[c]: is_active as UpdateServiceAccount read it
    died,       \* died[k]: the last tick at which k was good
    flaky,      \* keys whose entry Redis lost or failed to hand out
    raced       \* keys whose entry a revocation could not get rid of

rows == <<accounts, keys, died>>
calls == <<cpc, seen>>
vars == <<clock, cached, rows, cache, lpc, job, calls, flaky, raced>>

Services == {"auth", "account"}
InFlight == {"get", "find", "query", "fill", "store"}
NoKey == [state |-> "none", expires |-> Never]
NoJob == [at |-> "account", key |-> Never, born |-> 0]

\* Type invariant; Redis has no entry that has lapsed.
TypeOK ==
    /\ clock \in 0..Horizon
    /\ cached \subseteq Services
    /\ accounts \in [Accounts -> {"none", "active", "inactive"}]
    /\ keys \in [Keys -> [state : {"none", "good", "revoked"}, expires : Nat \cup {Never}]]
    /\ cache \in [Keys -> Nat \cup {Never, Forever}]
    /\ lpc \in [Lookups -> {"idle", "ok"} \cup InFlight]
    /\ job \in [Lookups -> [at : Services, key : Keys \cup {Never}, born : Nat]]
    /\ cpc \in [Calls -> {"idle", "delete", "write", "ok", "error"}]
    /\ seen \in [Calls -> {"none", "active", "inactive"}]
    /\ died \in [Keys -> Nat]
    /\ flaky \subseteq Keys /\ raced \subseteq Keys
    /\ \A l \in Lookups : lpc[l] \in InFlight <=> job[l].key \in Keys
    /\ \A k \in Keys : cache[k] \in Nat => clock < cache[k]

Init ==
    /\ clock = 0
    /\ cached \in SUBSET Services
    /\ accounts = [a \in Accounts |-> "none"]
    /\ keys = [k \in Keys |-> NoKey]
    /\ cache = [k \in Keys |-> Never]
    /\ lpc = [l \in Lookups |-> "idle"]
    /\ job = [l \in Lookups |-> NoJob]
    /\ cpc = [c \in Calls |-> "idle"]
    /\ seen = [c \in Calls |-> "none"]
    /\ died = [k \in Keys |-> 0]
    /\ flaky = {} /\ raced = {}

\* A tick: no lookup outlives its Delay, and Redis drops what lapses.
Tick ==
    /\ clock < Horizon
    /\ \A l \in Lookups : lpc[l] \in InFlight => clock < job[l].born + Delay
    /\ clock' = clock + 1
    /\ cache' = [k \in Keys |-> IF cache[k] = clock + 1 THEN Never ELSE cache[k]]
    /\ UNCHANGED <<cached, rows, lpc, job, calls, flaky, raced>>

-----------------------------------------------------------------------------
(* Administrators. *)

\* What FindActiveByHash selects, its expiry aside.
Good(k, as, ks) == ks[k].state = "good" /\ as[AccountOf[k]] = "active"

\* New rows; a key that was good and no longer is died now.
Rows(as, ks) ==
    /\ accounts' = as
    /\ keys' = ks
    /\ died' = [k \in Keys |->
                    IF Good(k, accounts, keys) /\ ~Good(k, as, ks) THEN clock ELSE died[k]]

NewServiceAccount == "active"

CreateServiceAccount(a) ==
    /\ accounts[a] = "none"
    /\ Rows([accounts EXCEPT ![a] = NewServiceAccount], keys)
    /\ UNCHANGED <<clock, cached, cache, lpc, job, calls, flaky, raced>>

NewKey(e) == [state |-> "good", expires |-> e]

\* CreateAPIKey: the account must exist, active or not.
CreateAPIKey(k) ==
    /\ keys[k] = NoKey
    /\ accounts[AccountOf[k]] # "none"
    /\ \E e \in Expiries :
        Rows(accounts, [keys EXCEPT ![k] = NewKey(e)])
    /\ UNCHANGED <<clock, cached, cache, lpc, job, calls, flaky, raced>>

Proceed(c, where) == cpc' = [cpc EXCEPT ![c] = where]

\* Mutation of RevokeUpdates: the entry is left to its TTL.
RevokeUpdatesOnly(c) ==
    /\ cpc[c] = "idle" /\ Op[c].kind = "revoke"
    /\ keys[Op[c].key] # NoKey
    /\ Rows(accounts, [keys EXCEPT ![Op[c].key].state = "revoked"])
    /\ Proceed(c, "ok")
    /\ UNCHANGED <<clock, cached, cache, lpc, job, seen, flaky, raced>>

\* RevokeAPIKey: the key is found among those of its account, and Postgres has it revoked.
RevokeUpdates(c) ==
    /\ cpc[c] = "idle" /\ Op[c].kind = "revoke"
    /\ keys[Op[c].key] # NoKey
    /\ Rows(accounts, [keys EXCEPT ![Op[c].key].state = "revoked"])
    /\ Proceed(c, IF "auth" \in cached THEN "delete" ELSE "ok")
    /\ UNCHANGED <<clock, cached, cache, lpc, job, seen, flaky, raced>>

\* Lookups that were told what k stands for and have yet to put it into Redis.
Carriers(k) == {l \in Lookups : lpc[l] \in {"fill", "store"} /\ job[l].key = k}

\* The entry is deleted, or it is not and the call succeeds just the same.
RevokeDeletes(c) ==
    /\ cpc[c] = "delete"
    /\ LET k == Op[c].key
       IN  \/ /\ cache' = [cache EXCEPT ![k] = Never]
              /\ raced' = IF Carriers(k) # {} THEN raced \cup {k} ELSE raced
           \/ raced' = raced \cup {k} /\ UNCHANGED cache
    /\ Proceed(c, "ok")
    /\ UNCHANGED <<clock, cached, rows, lpc, job, seen, flaky>>

\* UpdateServiceAccount, FindByID.
UpdateReads(c) ==
    /\ cpc[c] = "idle" /\ Op[c].kind = "update"
    /\ accounts[Op[c].account] # "none"
    /\ seen' = [seen EXCEPT ![c] = accounts[Op[c].account]]
    /\ Proceed(c, "write")
    /\ UNCHANGED <<clock, cached, rows, cache, lpc, job, flaky, raced>>

\* Save writes the whole row, with what was read where the request says nothing.
UpdateWrites(c) ==
    /\ cpc[c] = "write"
    /\ LET new == IF Op[c].is_active = "as it was" THEN seen[c] ELSE Op[c].is_active
       IN  Rows([accounts EXCEPT ![Op[c].account] = new], keys)
    /\ Proceed(c, "ok")
    /\ UNCHANGED <<clock, cached, cache, lpc, job, seen, flaky, raced>>

\* A statement fails, or the instance dies before it.
CallFails(c) ==
    /\ cpc[c] \in {"delete", "write"}
    /\ Proceed(c, "error")
    /\ UNCHANGED <<clock, cached, rows, cache, lpc, job, seen, flaky, raced>>

-----------------------------------------------------------------------------
(* Lookups. *)

\* A lookup goes on, or ends and makes room for another.
Goto(l, where) ==
    /\ lpc' = [lpc EXCEPT ![l] = where]
    /\ job' = IF where \in InFlight THEN job ELSE [job EXCEPT ![l] = NoJob]

\* A request with a key comes in at account-svc, or an introspection at auth-svc whoever asks.
Arrive(l) ==
    /\ lpc[l] \in {"idle", "ok"}
    /\ \E at \in Services, k \in Keys :
        /\ job' = [job EXCEPT ![l] = [at |-> at, key |-> k, born |-> clock]]
        /\ lpc' = [lpc EXCEPT ![l] = IF at = "account" /\ "account" \in cached
                                     THEN "get" ELSE "find"]
    /\ UNCHANGED <<clock, cached, rows, cache, calls, flaky, raced>>

Expired(k) == keys[k].expires # Never /\ keys[k].expires < clock

\* GET: an entry of a key that has not expired is the answer; one of a key that has is deleted.
\* If Redis fails, the lookup goes on as if there were none.
Get(l, hit, miss) ==
    LET k == job[l].key
    IN  \/ /\ cache[k] # Never
           /\ IF Expired(k)
              THEN /\ cache' = [cache EXCEPT ![k] = Never]
                   /\ Goto(l, miss)
              ELSE Goto(l, hit) /\ UNCHANGED cache
           /\ UNCHANGED flaky
        \/ /\ cache[k] = Never
           /\ Goto(l, miss)
           /\ UNCHANGED <<cache, flaky>>
        \/ /\ cache[k] # Never
           /\ Goto(l, miss)
           /\ flaky' = flaky \cup {k}
           /\ UNCHANGED cache

\* account-svc, redisGet.
AccountGets(l) ==
    /\ lpc[l] = "get"
    /\ Get(l, "ok", "find")
    /\ UNCHANGED <<clock, cached, rows, calls, raced>>

\* Where a lookup goes once auth-svc knows the identity.
Known(l) == IF job[l].at = "account" /\ "account" \in cached THEN "store" ELSE "ok"

\* auth-svc, the cache of its store.
AuthGets(l) ==
    /\ lpc[l] = "find"
    /\ IF "auth" \in cached
       THEN Get(l, Known(l), "query")
       ELSE Goto(l, "query") /\ UNCHANGED <<cache, flaky>>
    /\ UNCHANGED <<clock, cached, rows, calls, raced>>

\* auth-svc, FindActiveByHash in Postgres.
Query(l) ==
    /\ lpc[l] = "query"
    /\ LET k == job[l].key
       IN  Goto(l, IF ~Good(k, accounts, keys) \/ Expired(k) THEN "idle"
                   ELSE IF "auth" \in cached THEN "fill" ELSE Known(l))
    /\ UNCHANGED <<clock, cached, rows, cache, calls, flaky, raced>>

\* Mutation of Until: no time to live.
UntilDeleted(k) == Forever

\* The time to live is TTL or what is left of the key's life; Redis takes one that is not
\* positive for none at all.
Until(k) ==
    LET e == keys[k].expires
    IN  IF e = Never \/ e >= clock + TTL THEN clock + TTL
        ELSE IF e > clock THEN e ELSE Forever

\* SET, which may fail.
Set(l) ==
    \/ cache' = [cache EXCEPT ![job[l].key] = Until(job[l].key)]
    \/ UNCHANGED cache

AuthSets(l) ==
    /\ lpc[l] = "fill"
    /\ Set(l)
    /\ Goto(l, Known(l))
    /\ UNCHANGED <<clock, cached, rows, calls, flaky, raced>>

\* account-svc, redisSet.
AccountSets(l) ==
    /\ lpc[l] = "store"
    /\ Set(l)
    /\ Goto(l, "ok")
    /\ UNCHANGED <<clock, cached, rows, calls, flaky, raced>>

\* Whatever fails on the way, the caller is refused.
LookupFails(l) ==
    /\ lpc[l] \in InFlight
    /\ Goto(l, "idle")
    /\ UNCHANGED <<clock, cached, rows, cache, calls, flaky, raced>>

\* Redis loses an entry before its time.
Evict(k) ==
    /\ cache[k] # Never
    /\ cache' = [cache EXCEPT ![k] = Never]
    /\ flaky' = flaky \cup {k}
    /\ UNCHANGED <<clock, cached, rows, lpc, job, calls, raced>>

-----------------------------------------------------------------------------

Next ==
    \/ Tick
    \/ \E a \in Accounts : CreateServiceAccount(a)
    \/ \E k \in Keys : CreateAPIKey(k) \/ Evict(k)
    \/ \E c \in Calls :
        RevokeUpdates(c) \/ RevokeDeletes(c) \/ UpdateReads(c) \/ UpdateWrites(c) \/ CallFails(c)
    \/ \E l \in Lookups :
        \/ Arrive(l) \/ AccountGets(l) \/ AuthGets(l) \/ Query(l)
        \/ AuthSets(l) \/ AccountSets(l) \/ LookupFails(l)

Spec == Init /\ [][Next]_vars

-----------------------------------------------------------------------------
(* Properties. *)

\* How long a key may outlive its revocation, or its account's deactivation.  A lookup that
\* read the row just before fills the cache within Delay; one that missed the cache before
\* that finds it filled at auth-svc and fills it again within another; a deletion in between
\* opens it to one more; then TTL runs.
Bound(k) ==
    TTL + (2 + Cardinality({c \in Calls : Op[c].kind = "revoke" /\ Op[c].key = k})) * Delay

\* A key is accepted only while it is good or within Bound of the last tick it was, by
\* whichever service and through however many rounds of the cache, and never more than Delay
\* after it expired; unless Redis failed to hand out an entry it had, for then account-svc
\* takes what auth-svc found in the cache for news and starts its TTL again.
BoundedStaleness ==
    [][\A l \in Lookups :
        LET k == job[l].key
        IN  lpc[l] \in InFlight /\ lpc'[l] = "ok" =>
                /\ Good(k, accounts, keys) \/ clock < died[k] + Bound(k) \/ k \in flaky
                /\ keys[k].expires # Never => clock <= keys[k].expires + Delay]_vars

\* Once a revocation has been answered its key has no entry and nobody is about to write one,
\* so nobody is let in with it again; unless the entry could not be deleted, a lookup was on
\* its way to write it, or auth-svc runs without the Redis of account-svc.
RevokedIsGone ==
    \A c \in Calls :
        Op[c].kind = "revoke" /\ cpc[c] = "ok" /\ "auth" \in cached /\ Op[c].key \notin raced =>
            cache[Op[c].key] = Never /\ Carriers(Op[c].key) = {}
=============================================================================
