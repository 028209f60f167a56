--------------------------- MODULE ApiKeyCache_proofs ---------------------------
(***************************************************************************)
(* What a revocation of ApiKeyCache achieves, and for how long a key that  *)
(* is no longer good is taken, for any keys, calls, lookups and times.     *)
(***************************************************************************)
EXTENDS ApiKeyCache, FiniteSetTheorems, TLAPS

\* Nobody has the answer for k in Redis or is about to put it there.
Silent(k) == cache[k] = Never /\ Carriers(k) = {}

Revoked(k) == keys[k].state = "revoked"

\* What holds of a key as soon as a revocation is past the database.
Gone ==
    \A c \in Calls : Op[c].kind = "revoke" /\ cpc[c] \in {"delete", "ok", "error"} =>
        /\ Revoked(Op[c].key)
        /\ cpc[c] = "ok" /\ "auth" \in cached /\ Op[c].key \notin raced => Silent(Op[c].key)

\* A call stops where its kind does.
Kinded ==
    \A c \in Calls : /\ cpc[c] = "delete" => Op[c].kind = "revoke"
                     /\ cpc[c] = "write" => Op[c].kind = "update"

IInv == TypeOK /\ Kinded /\ Gone

-----------------------------------------------------------------------------
(* Shapes.                                                                 *)

KeyRows == [state : {"none", "good", "revoked"}, expires : Nat \cup {Never}]
LookupJobs == [at : Services, key : Keys \cup {Never}, born : Nat]

LEMMA Constants ==
    /\ TTL \in Nat /\ Delay \in Nat /\ Horizon \in Nat /\ Delay < TTL /\ TTL > 0
    /\ Never \notin Keys /\ Never \notin Nat /\ Forever \notin Nat /\ Never # Forever
<1>1. /\ TTL \in Nat /\ Delay \in Nat /\ Horizon \in Nat /\ Delay < TTL
      /\ Never \notin Keys /\ Never \notin Nat /\ Forever \notin Nat /\ Never # Forever
  BY ApiKeyAssumption, Zenon
<1>2. TTL > 0
  BY <1>1, SMT
<1> QED BY <1>1, <1>2

LEMMA Shapes ==
    ASSUME TypeOK
    PROVE  /\ keys \in [Keys -> KeyRows] /\ job \in [Lookups -> LookupJobs]
           /\ lpc \in [Lookups -> {"idle", "ok"} \cup InFlight]
           /\ cache \in [Keys -> Nat \cup {Never, Forever}]
           /\ cpc \in [Calls -> {"idle", "delete", "write", "ok", "error"}]
           /\ clock \in Nat /\ raced \subseteq Keys
<1>1. clock \in 0..Horizon
  BY DEF TypeOK
<1>2. clock \in Nat
  BY <1>1, Constants
<1> QED BY <1>2 DEF TypeOK, KeyRows, LookupJobs

LEMMA KeyRowShape ==
    \A row \in KeyRows :
        /\ row.state \in {"none", "good", "revoked"} /\ row.expires \in Nat \cup {Never}
        /\ [row EXCEPT !.state = "revoked"] \in KeyRows
        /\ [row EXCEPT !.state = "revoked"].state = "revoked"
BY DEF KeyRows

LEMMA NewKeyShape ==
    ASSUME NEW e \in Nat \cup {Never}
    PROVE  NewKey(e) \in KeyRows /\ NewKey(e).state = "good"
BY DEF KeyRows, NewKey

LEMMA NoKeyShape == NoKey.state = "none"
BY DEF NoKey

LEMMA LookupJobShape ==
    \A j \in LookupJobs : j.at \in Services /\ j.key \in Keys \cup {Never} /\ j.born \in Nat
BY DEF LookupJobs

LEMMA NoJobShape == NoJob \in LookupJobs /\ NoJob.key \notin Keys
BY Constants DEF LookupJobs, NoJob, Services

LEMMA NewJobShape ==
    ASSUME NEW at \in Services, NEW k \in Keys, clock \in Nat
    PROVE  LET j == [at |-> at, key |-> k, born |-> clock] IN j \in LookupJobs /\ j.key = k
BY DEF LookupJobs

\* The end of an entry that is written now lies ahead.
LEMMA UntilShape ==
    ASSUME TypeOK, NEW k \in Keys
    PROVE  /\ Until(k) \in Nat \cup {Forever}
           /\ Until(k) \in Nat => clock < Until(k)
<1>1. clock \in Nat /\ TTL \in Nat /\ TTL > 0 /\ Never \notin Nat /\ Forever \notin Nat
  BY Shapes, Constants
<1>2. keys[k].expires \in Nat \cup {Never}
  BY Shapes, KeyRowShape
<1> QED BY <1>1, <1>2 DEF Until

-----------------------------------------------------------------------------
(* Rows: administrators and their calls.                                   *)

\* A step that writes rows keeps the types and undoes no revocation.
LEMMA RowsType ==
    ASSUME TypeOK, NEW as \in [Accounts -> {"none", "active", "inactive"}],
           NEW ks \in [Keys -> KeyRows], Rows(as, ks)
    PROVE  /\ accounts' \in [Accounts -> {"none", "active", "inactive"}]
           /\ keys' \in [Keys -> [state : {"none", "good", "revoked"}, expires : Nat \cup {Never}]]
           /\ died' \in [Keys -> Nat]
BY Shapes DEF Rows, KeyRows, TypeOK

\* The parts of TypeOK that a step on the rows and the calls leaves alone.
LEMMA CallsType ==
    ASSUME TypeOK, UNCHANGED <<clock, cached, lpc, job, flaky>>,
           accounts' \in [Accounts -> {"none", "active", "inactive"}],
           keys' \in [Keys -> [state : {"none", "good", "revoked"}, expires : Nat \cup {Never}]],
           died' \in [Keys -> Nat],
           cpc' \in [Calls -> {"idle", "delete", "write", "ok", "error"}],
           seen' \in [Calls -> {"none", "active", "inactive"}],
           raced' \subseteq Keys,
           cache' \in [Keys -> Nat \cup {Never, Forever}],
           \A k \in Keys : cache'[k] \in {cache[k], Never}
    PROVE  TypeOK'
<1>1. \A k \in Keys : cache'[k] \in Nat => clock < cache'[k]
  BY Constants DEF TypeOK
<1> QED BY <1>1 DEF TypeOK

\* So does a step of a lookup.
LEMMA LookupType ==
    ASSUME TypeOK, UNCHANGED <<clock, cached, rows, calls, raced>>,
           cache' \in [Keys -> Nat \cup {Never, Forever}],
           \A k \in Keys : cache'[k] \in Nat => clock < cache'[k],
           lpc' \in [Lookups -> {"idle", "ok"} \cup InFlight],
           job' \in [Lookups -> LookupJobs],
           \A l \in Lookups : lpc'[l] \in InFlight <=> job'[l].key \in Keys,
           flaky' \subseteq Keys
    PROVE  TypeOK'
BY DEF TypeOK, LookupJobs, rows, calls

\* Going on keeps the types of a lookup.
LEMMA GotoType ==
    ASSUME TypeOK, NEW l \in Lookups, lpc[l] \in InFlight, NEW w \in {"idle", "ok"} \cup InFlight,
           Goto(l, w)
    PROVE  /\ lpc' \in [Lookups -> {"idle", "ok"} \cup InFlight]
           /\ job' \in [Lookups -> LookupJobs]
           /\ \A m \in Lookups : lpc'[m] \in InFlight <=> job'[m].key \in Keys
           /\ lpc' = [lpc EXCEPT ![l] = w] /\ job[l].key \in Keys
           /\ \A m \in Lookups : lpc'[m] \in InFlight => job'[m] = job[m]
<1>0. lpc \in [Lookups -> {"idle", "ok"} \cup InFlight] /\ job \in [Lookups -> LookupJobs]
      /\ \A m \in Lookups : lpc[m] \in InFlight <=> job[m].key \in Keys
  BY Shapes DEF TypeOK
<1>1. lpc' = [lpc EXCEPT ![l] = w] /\ lpc' \in [Lookups -> {"idle", "ok"} \cup InFlight]
  BY <1>0 DEF Goto
<1>2. CASE w \in InFlight
  BY <1>0, <1>1, <1>2 DEF Goto
<1>3. CASE w \notin InFlight
  <2>1. job' = [job EXCEPT ![l] = NoJob]
    BY <1>3 DEF Goto
  <2>2. job' \in [Lookups -> LookupJobs] /\ job'[l] = NoJob /\ lpc'[l] = w
        /\ \A m \in Lookups \ {l} : job'[m] = job[m] /\ lpc'[m] = lpc[m]
    BY <1>0, <1>1, <2>1, NoJobShape
  <2> QED BY <1>0, <1>1, <1>3, <2>2, NoJobShape
<1> QED BY <1>2, <1>3

-----------------------------------------------------------------------------
(* What a step does to a key that is revoked and of which nobody knows.    *)

\* A revoked key stays revoked.
LEMMA RevokedStays ==
    ASSUME TypeOK, [Next]_vars, NEW k \in Keys, Revoked(k)
    PROVE  Revoked(k)'
<1>0. keys \in [Keys -> KeyRows]
  BY Shapes
<1>1. ASSUME keys' = keys PROVE Revoked(k)'
  BY <1>1 DEF Revoked
<1>2. ASSUME NEW j \in Keys, CreateAPIKey(j) PROVE Revoked(k)'
  <2>1. j # k
    BY <1>2, NoKeyShape DEF CreateAPIKey, Revoked
  <2>2. keys'[k] = keys[k]
    BY <1>0, <1>2, <2>1 DEF CreateAPIKey, Rows
  <2> QED BY <2>2 DEF Revoked
<1>3. ASSUME NEW c \in Calls, RevokeUpdates(c) PROVE Revoked(k)'
  <2>1. Op[c].key \in Keys
    BY <1>3, ApiKeyAssumption DEF RevokeUpdates
  <2>2. keys' = [keys EXCEPT ![Op[c].key].state = "revoked"]
    BY <1>3 DEF RevokeUpdates, Rows
  <2>3. keys'[k] = keys[k] \/ keys'[k] = [keys[k] EXCEPT !.state = "revoked"]
    BY <1>0, <2>1, <2>2
  <2> QED BY <1>0, <2>3, KeyRowShape DEF Revoked
<1>4. ASSUME NEW c \in Calls, RevokeDeletes(c) \/ UpdateReads(c) \/ UpdateWrites(c) \/ CallFails(c)
      PROVE  keys' = keys
  BY <1>4 DEF RevokeDeletes, UpdateReads, UpdateWrites, CallFails, Rows, rows
<1>5. ASSUME NEW l \in Lookups, \/ Arrive(l) \/ AccountGets(l) \/ AuthGets(l) \/ Query(l)
                                \/ AuthSets(l) \/ AccountSets(l) \/ LookupFails(l)
      PROVE  keys' = keys
  BY <1>5 DEF Arrive, AccountGets, AuthGets, Query, AuthSets, AccountSets, LookupFails, rows
<1>6. ASSUME NEW a \in Accounts, CreateServiceAccount(a) PROVE keys' = keys
  BY <1>6 DEF CreateServiceAccount, Rows
<1>7. ASSUME Tick \/ (\E j \in Keys : Evict(j)) \/ UNCHANGED vars PROVE keys' = keys
  BY <1>7 DEF Tick, Evict, vars, rows
<1> QED BY <1>1, <1>2, <1>3, <1>4, <1>5, <1>6, <1>7 DEF Next

LEMMA Carrying ==
    ASSUME NEW k, NEW l
    PROVE  l \in Carriers(k) <=> /\ l \in Lookups /\ lpc[l] \in {"fill", "store"}
                                 /\ job[l].key = k
BY DEF Carriers

LEMMA SameCarriers ==
    ASSUME NEW k \in Keys, Silent(k), cache'[k] = Never, UNCHANGED <<lpc, job>>
    PROVE  Silent(k)'
BY DEF Silent, Carriers

LEMMA GotoSilent ==
    ASSUME TypeOK, NEW k \in Keys, Silent(k), cache'[k] = Never,
           NEW l \in Lookups, lpc[l] \in InFlight, NEW w \in {"idle", "ok"} \cup InFlight,
           Goto(l, w), w \in {"fill", "store"} => job[l].key # k
    PROVE  Silent(k)'
<1>0. lpc' = [lpc EXCEPT ![l] = w] /\ lpc \in [Lookups -> {"idle", "ok"} \cup InFlight]
  BY GotoType, Shapes
<1>1. \A m \in Lookups : lpc'[m] \in InFlight => job'[m] = job[m]
  BY GotoType
<1>2. \A m \in Lookups : ~(lpc'[m] \in {"fill", "store"} /\ job'[m].key = k)
  <2> SUFFICES ASSUME NEW m \in Lookups, lpc'[m] \in {"fill", "store"}, job'[m].key = k
               PROVE  FALSE
    OBVIOUS
  <2>1. job'[m] = job[m]
    BY <1>1 DEF InFlight
  <2>2. m # l
    BY <1>0, <2>1
  <2>3. m \in Carriers(k)
    BY <1>0, <2>1, <2>2, Carrying
  <2> QED BY <2>3 DEF Silent
<1> QED BY <1>2 DEF Silent, Carriers

\* What Get does: the entry is served, dropped or passed over.
LEMMA GetCases ==
    ASSUME NEW l, NEW hit, NEW miss, Get(l, hit, miss)
    PROVE  /\ cache' \in {cache, [cache EXCEPT ![job[l].key] = Never]}
           /\ flaky' \in {flaky, flaky \cup {job[l].key}}
           /\ \/ Goto(l, miss)
              \/ Goto(l, hit) /\ cache[job[l].key] # Never
BY DEF Get

LEMMA KnownShape ==
    ASSUME NEW l PROVE Known(l) \in {"store", "ok"} /\ Known(l) \in {"idle", "ok"} \cup InFlight
BY DEF Known, InFlight

\* Nobody learns of a key that is not good.
LEMMA SilentStays ==
    ASSUME TypeOK, [Next]_vars, NEW k \in Keys, keys[k].state # "good", Silent(k)
    PROVE  Silent(k)'
<1>0. cache \in [Keys -> Nat \cup {Never, Forever}] /\ cache[k] = Never
  BY Shapes DEF Silent
<1>1. CASE Tick
  <2>1. cache'[k] = Never /\ UNCHANGED <<lpc, job>>
    BY <1>0, <1>1 DEF Tick
  <2> QED BY <2>1, SameCarriers
<1>2. ASSUME NEW a \in Accounts, CreateServiceAccount(a) PROVE Silent(k)'
  BY <1>0, <1>2, SameCarriers DEF CreateServiceAccount
<1>3. ASSUME NEW j \in Keys, CreateAPIKey(j) \/ Evict(j) PROVE Silent(k)'
  <2>1. cache'[k] = Never /\ UNCHANGED <<lpc, job>>
    BY <1>0, <1>3 DEF CreateAPIKey, Evict
  <2> QED BY <2>1, SameCarriers
<1>4. ASSUME NEW c \in Calls, RevokeUpdates(c) \/ UpdateReads(c) \/ UpdateWrites(c) \/ CallFails(c)
      PROVE  Silent(k)'
  <2>1. cache'[k] = Never /\ UNCHANGED <<lpc, job>>
    BY <1>0, <1>4 DEF RevokeUpdates, UpdateReads, UpdateWrites, CallFails
  <2> QED BY <2>1, SameCarriers
<1>5. ASSUME NEW c \in Calls, RevokeDeletes(c) PROVE Silent(k)'
  <2>1. cache' \in {cache, [cache EXCEPT ![Op[c].key] = Never]} /\ UNCHANGED <<lpc, job>>
    BY <1>5 DEF RevokeDeletes
  <2>2. cache'[k] = Never
    BY <1>0, <2>1
  <2> QED BY <2>1, <2>2, SameCarriers
<1>6. ASSUME NEW l \in Lookups, Arrive(l) PROVE Silent(k)'
  <2>1. lpc[l] \in {"idle", "ok"} /\ cache' = cache
    BY <1>6 DEF Arrive
  <2>2. PICK w \in {"get", "find"} : lpc' = [lpc EXCEPT ![l] = w]
    BY <1>6 DEF Arrive
  <2>3. PICK j \in LookupJobs : job' = [job EXCEPT ![l] = j]
    BY <1>6, NewJobShape, Shapes DEF Arrive
  <2>4. lpc \in [Lookups -> {"idle", "ok"} \cup InFlight] /\ job \in [Lookups -> LookupJobs]
    BY Shapes
  <2>5. \A m \in Lookups : ~(lpc'[m] \in {"fill", "store"} /\ job'[m].key = k)
    <3>1. lpc'[l] = w
      BY <2>2, <2>4
    <3>2. \A m \in Lookups \ {l} : lpc'[m] = lpc[m] /\ job'[m] = job[m]
      BY <2>2, <2>3, <2>4
    <3>3. \A m \in Lookups : ~(lpc[m] \in {"fill", "store"} /\ job[m].key = k)
      BY Carrying DEF Silent
    <3> QED BY <3>1, <3>2, <3>3
  <2> QED BY <1>0, <2>1, <2>5 DEF Silent, Carriers
<1>7. ASSUME NEW l \in Lookups, AccountGets(l) PROVE Silent(k)'
  <2>1. lpc[l] = "get" /\ Get(l, "ok", "find")
    BY <1>7 DEF AccountGets
  <2>2. cache'[k] = Never
    BY <1>0, <2>1, GetCases
  <2>3. Goto(l, "ok") \/ Goto(l, "find")
    BY <2>1, GetCases
  <2> QED BY <2>1, <2>2, <2>3, GotoSilent DEF InFlight
<1>8. ASSUME NEW l \in Lookups, AuthGets(l) PROVE Silent(k)'
  <2>1. lpc[l] = "find" /\ lpc[l] \in InFlight
    BY <1>8 DEF AuthGets, InFlight
  <2>2. CASE "auth" \in cached
    <3>1. Get(l, Known(l), "query")
      BY <1>8, <2>2 DEF AuthGets
    <3>2. cache'[k] = Never
      BY <1>0, <3>1, GetCases
    <3>3. Goto(l, "query") \/ (Goto(l, Known(l)) /\ cache[job[l].key] # Never)
      BY <3>1, GetCases
    <3>4. CASE Goto(l, "query")
      BY <2>1, <3>2, <3>4, GotoSilent DEF InFlight
    <3>5. CASE Goto(l, Known(l)) /\ cache[job[l].key] # Never
      BY <1>0, <2>1, <3>2, <3>5, GotoSilent, KnownShape
    <3> QED BY <3>3, <3>4, <3>5
  <2>3. CASE "auth" \notin cached
    <3>1. Goto(l, "query") /\ cache' = cache
      BY <1>8, <2>3 DEF AuthGets
    <3> QED BY <1>0, <2>1, <3>1, GotoSilent DEF InFlight
  <2> QED BY <2>2, <2>3
<1>9. ASSUME NEW l \in Lookups, Query(l) PROVE Silent(k)'
  <2>1. lpc[l] = "query" /\ lpc[l] \in InFlight /\ cache' = cache
    BY <1>9 DEF Query, InFlight
  <2>2. PICK w \in {"idle", "fill", "store", "ok"} :
          Goto(l, w) /\ (w # "idle" => Good(job[l].key, accounts, keys))
    BY <1>9, KnownShape DEF Query
  <2>3. w # "idle" => job[l].key # k
    BY <2>2 DEF Good
  <2> QED BY <1>0, <2>1, <2>2, <2>3, GotoSilent DEF InFlight
<1>10. ASSUME NEW l \in Lookups, AuthSets(l) \/ AccountSets(l) PROVE Silent(k)'
  <2>1. lpc[l] \in {"fill", "store"} /\ lpc[l] \in InFlight /\ Set(l)
    BY <1>10 DEF AuthSets, AccountSets, InFlight
  <2>2. job[l].key # k
    BY <2>1, Carrying DEF Silent
  <2>3. cache'[k] = Never
    BY <1>0, <2>1, <2>2 DEF Set
  <2>4. PICK w \in {"store", "ok"} : Goto(l, w)
    BY <1>10, KnownShape DEF AuthSets, AccountSets
  <2> QED BY <2>1, <2>2, <2>3, <2>4, GotoSilent DEF InFlight
<1>11. ASSUME NEW l \in Lookups, LookupFails(l) PROVE Silent(k)'
  <2>1. lpc[l] \in InFlight /\ Goto(l, "idle") /\ cache' = cache
    BY <1>11 DEF LookupFails
  <2> QED BY <1>0, <2>1, GotoSilent
<1>12. CASE UNCHANGED vars
  BY <1>0, <1>12, SameCarriers DEF vars
<1> QED
  BY <1>1, <1>2, <1>3, <1>4, <1>5, <1>6, <1>7, <1>8, <1>9, <1>10, <1>11, <1>12 DEF Next

-----------------------------------------------------------------------------
(* Calls: a revocation that was answered.                                  *)

LEMMA OpShape ==
    ASSUME NEW c \in Calls
    PROVE  /\ Op[c].kind = "revoke" => Op[c].key \in Keys
           /\ Op[c].kind = "update" => /\ Op[c].account \in Accounts
                                       /\ Op[c].is_active \in {"active", "inactive", "as it was"}
BY ApiKeyAssumption

LEMMA StepKeepsKinded ==
    ASSUME TypeOK, Kinded, [Next]_vars
    PROVE  Kinded'
<1>0. cpc \in [Calls -> {"idle", "delete", "write", "ok", "error"}]
  BY Shapes
<1>1. ASSUME NEW c \in Calls, NEW w, cpc' = [cpc EXCEPT ![c] = w],
             w = "delete" => Op[c].kind = "revoke", w = "write" => Op[c].kind = "update"
      PROVE  Kinded'
  BY <1>0, <1>1 DEF Kinded
<1>2. ASSUME NEW c \in Calls, RevokeUpdates(c) PROVE Kinded'
  BY <1>1, <1>2 DEF RevokeUpdates, Proceed
<1>3. ASSUME NEW c \in Calls, UpdateReads(c) PROVE Kinded'
  BY <1>1, <1>3 DEF UpdateReads, Proceed
<1>4. ASSUME NEW c \in Calls, RevokeDeletes(c) \/ UpdateWrites(c) \/ CallFails(c) PROVE Kinded'
  BY <1>1, <1>4 DEF RevokeDeletes, UpdateWrites, CallFails, Proceed
<1>5. ASSUME NEW l \in Lookups, \/ Arrive(l) \/ AccountGets(l) \/ AuthGets(l) \/ Query(l)
                                \/ AuthSets(l) \/ AccountSets(l) \/ LookupFails(l)
      PROVE  cpc' = cpc
  BY <1>5 DEF Arrive, AccountGets, AuthGets, Query, AuthSets, AccountSets, LookupFails, calls
<1>6. ASSUME \/ \E a \in Accounts : CreateServiceAccount(a)
             \/ \E k \in Keys : CreateAPIKey(k) \/ Evict(k)
             \/ Tick \/ UNCHANGED vars
      PROVE  cpc' = cpc
  BY <1>6 DEF CreateServiceAccount, CreateAPIKey, Evict, Tick, vars, calls
<1>7. cpc' = cpc => Kinded'
  BY DEF Kinded
<1> QED BY <1>2, <1>3, <1>4, <1>5, <1>6, <1>7 DEF Next

\* A revocation moves by its own steps only.
LEMMA CallMoves ==
    ASSUME TypeOK, Kinded, [Next]_vars, NEW c \in Calls, Op[c].kind = "revoke",
           cpc'[c] \in {"delete", "ok", "error"}
    PROVE  /\ Op[c].key \in Keys /\ cached' = cached /\ raced \subseteq raced'
           /\ \/ cpc'[c] = cpc[c]
              \/ RevokeUpdates(c)
              \/ RevokeDeletes(c)
              \/ cpc[c] = "delete" /\ cpc'[c] = "error"
<1>0. cpc \in [Calls -> {"idle", "delete", "write", "ok", "error"}] /\ Op[c].key \in Keys
  BY Shapes, ApiKeyAssumption
<1>1. ASSUME NEW d \in Calls, RevokeUpdates(d) \/ RevokeDeletes(d)
      PROVE  cached' = cached /\ raced \subseteq raced' /\ (d # c => cpc'[c] = cpc[c])
  BY <1>0, <1>1 DEF RevokeUpdates, RevokeDeletes, Proceed
<1>2. ASSUME NEW d \in Calls, UpdateReads(d)
      PROVE  cached' = cached /\ raced' = raced /\ cpc'[c] = cpc[c]
  BY <1>0, <1>2 DEF UpdateReads, Proceed
<1>3. ASSUME NEW d \in Calls, UpdateWrites(d) \/ CallFails(d)
      PROVE  /\ cached' = cached /\ raced' = raced
             /\ cpc'[c] = cpc[c] \/ (d = c /\ cpc[c] \in {"delete", "write"})
             /\ CallFails(d) /\ d = c => cpc'[c] = "error"
             /\ UpdateWrites(d) /\ d = c => cpc[c] = "write"
  BY <1>0, <1>3 DEF UpdateWrites, CallFails, Proceed
<1>4. ASSUME NEW l \in Lookups, \/ Arrive(l) \/ AccountGets(l) \/ AuthGets(l) \/ Query(l)
                                \/ AuthSets(l) \/ AccountSets(l) \/ LookupFails(l)
      PROVE  cached' = cached /\ raced' = raced /\ cpc' = cpc
  BY <1>4 DEF Arrive, AccountGets, AuthGets, Query, AuthSets, AccountSets, LookupFails, calls
<1>5. ASSUME \/ \E a \in Accounts : CreateServiceAccount(a)
             \/ \E k \in Keys : CreateAPIKey(k) \/ Evict(k)
             \/ Tick \/ UNCHANGED vars
      PROVE  cached' = cached /\ raced' = raced /\ cpc' = cpc
  BY <1>5 DEF CreateServiceAccount, CreateAPIKey, Evict, Tick, vars, calls
<1> QED BY <1>0, <1>1, <1>2, <1>3, <1>4, <1>5 DEF Next, Kinded

LEMMA StepKeepsGone ==
    ASSUME IInv, [Next]_vars
    PROVE  Gone'
<1>0. TypeOK /\ keys \in [Keys -> KeyRows] /\ cache \in [Keys -> Nat \cup {Never, Forever}]
  BY Shapes DEF IInv
<1> SUFFICES ASSUME NEW c \in Calls, Op[c].kind = "revoke", cpc'[c] \in {"delete", "ok", "error"}
             PROVE  /\ Revoked(Op[c].key)'
                    /\ cpc'[c] = "ok" /\ "auth" \in cached' /\ Op[c].key \notin raced'
                          => Silent(Op[c].key)'
  BY DEF Gone, Revoked, Silent, Carriers
<1> DEFINE k == Op[c].key
<1>1. /\ k \in Keys /\ cached' = cached /\ raced \subseteq raced'
      /\ \/ cpc'[c] = cpc[c]
         \/ RevokeUpdates(c)
         \/ RevokeDeletes(c)
         \/ cpc[c] = "delete" /\ cpc'[c] = "error"
  BY <1>0, CallMoves DEF IInv
<1>2. CASE cpc'[c] = cpc[c]
  <2>1. Revoked(k)
    BY <1>2 DEF IInv, Gone
  <2>2. cpc'[c] = "ok" /\ "auth" \in cached' /\ k \notin raced' => Silent(k)
    BY <1>1, <1>2 DEF IInv, Gone
  <2> QED BY <1>0, <1>1, <2>1, <2>2, RevokedStays, SilentStays DEF Revoked
<1>3. CASE RevokeUpdates(c)
  <2>1. keys' = [keys EXCEPT ![k].state = "revoked"]
    BY <1>3 DEF RevokeUpdates, Rows
  <2>2. keys'[k] = [keys[k] EXCEPT !.state = "revoked"]
    BY <1>0, <1>1, <2>1
  <2>3. Revoked(k)'
    BY <1>0, <1>1, <2>2, KeyRowShape DEF Revoked
  <2>4. "auth" \in cached => cpc'[c] = "delete"
    BY <1>0, <1>3, Shapes DEF RevokeUpdates, Proceed
  <2> QED BY <1>1, <2>3, <2>4
<1>4. CASE RevokeDeletes(c)
  <2>1. Revoked(k)
    BY <1>4 DEF IInv, Gone, RevokeDeletes
  <2>2. Revoked(k)'
    BY <1>0, <1>1, <2>1, RevokedStays
  <2>3. ASSUME k \notin raced' PROVE Silent(k)'
    <3>1. cache' = [cache EXCEPT ![k] = Never] /\ Carriers(k) = {} /\ UNCHANGED <<lpc, job>>
      BY <1>4, <2>3 DEF RevokeDeletes
    <3>2. cache'[k] = Never
      BY <1>0, <1>1, <3>1
    <3> QED BY <3>1, <3>2 DEF Silent, Carriers
  <2> QED BY <2>2, <2>3
<1>5. CASE cpc[c] = "delete" /\ cpc'[c] = "error"
  <2>1. Revoked(k)
    BY <1>5 DEF IInv, Gone
  <2> QED BY <1>0, <1>1, <1>5, <2>1, RevokedStays
<1> QED BY <1>1, <1>2, <1>3, <1>4, <1>5

-----------------------------------------------------------------------------
(* Types.                                                                  *)

LEMMA StepKeepsTypes ==
    ASSUME TypeOK, Kinded, [Next]_vars
    PROVE  TypeOK'
<1>0. /\ keys \in [Keys -> KeyRows] /\ job \in [Lookups -> LookupJobs]
      /\ lpc \in [Lookups -> {"idle", "ok"} \cup InFlight]
      /\ cache \in [Keys -> Nat \cup {Never, Forever}]
      /\ cpc \in [Calls -> {"idle", "delete", "write", "ok", "error"}]
      /\ clock \in Nat /\ raced \subseteq Keys /\ flaky \subseteq Keys
      /\ seen \in [Calls -> {"none", "active", "inactive"}]
      /\ accounts \in [Accounts -> {"none", "active", "inactive"}]
      /\ keys \in [Keys -> [state : {"none", "good", "revoked"}, expires : Nat \cup {Never}]]
      /\ died \in [Keys -> Nat]
      /\ \A k \in Keys : cache[k] \in Nat => clock < cache[k]
      /\ \A l \in Lookups : lpc[l] \in InFlight <=> job[l].key \in Keys
  BY Shapes DEF TypeOK
<1>1. CASE Tick
  <2>1. /\ clock' = clock + 1 /\ clock' \in 0..Horizon
        /\ cache' = [k \in Keys |-> IF cache[k] = clock + 1 THEN Never ELSE cache[k]]
    BY <1>0, <1>1, Constants DEF Tick
  <2>2. cache' \in [Keys -> Nat \cup {Never, Forever}]
    BY <1>0, <2>1
  <2>3. \A k \in Keys : cache'[k] \in Nat => clock' < cache'[k]
    BY <1>0, <2>1, Constants
  <2> QED BY <1>1, <2>1, <2>2, <2>3 DEF Tick, TypeOK, rows, calls
<1>2. ASSUME NEW a \in Accounts, CreateServiceAccount(a) PROVE TypeOK'
  <2>1. [accounts EXCEPT ![a] = NewServiceAccount] \in [Accounts -> {"none", "active", "inactive"}]
    BY <1>0 DEF NewServiceAccount
  <2>2. Rows([accounts EXCEPT ![a] = NewServiceAccount], keys)
    BY <1>2 DEF CreateServiceAccount
  <2> QED BY <1>0, <1>2, <2>1, <2>2, RowsType, CallsType DEF CreateServiceAccount, calls
<1>3. ASSUME NEW k \in Keys, CreateAPIKey(k) PROVE TypeOK'
  <2>1. PICK e \in Expiries : Rows(accounts, [keys EXCEPT ![k] = NewKey(e)])
    BY <1>3 DEF CreateAPIKey
  <2>2. NewKey(e) \in KeyRows
    BY NewKeyShape, ApiKeyAssumption
  <2>3. [keys EXCEPT ![k] = NewKey(e)] \in [Keys -> KeyRows]
    BY <1>0, <2>2
  <2> QED BY <1>0, <1>3, <2>1, <2>3, RowsType, CallsType DEF CreateAPIKey, calls
<1>4. ASSUME NEW k \in Keys, Evict(k) PROVE TypeOK'
  <2>1. cache' = [cache EXCEPT ![k] = Never] /\ UNCHANGED <<lpc, job>>
        /\ flaky' = flaky \cup {k} /\ UNCHANGED <<clock, cached, rows, calls, raced>>
    BY <1>4 DEF Evict
  <2>2. cache' \in [Keys -> Nat \cup {Never, Forever}]
        /\ \A j \in Keys : cache'[j] \in Nat => clock < cache'[j]
    BY <1>0, <2>1, Constants
  <2> QED BY <1>0, <2>1, <2>2, LookupType
<1>5. ASSUME NEW c \in Calls, RevokeUpdates(c) PROVE TypeOK'
  <2>1. Op[c].key \in Keys
    BY <1>5, ApiKeyAssumption DEF RevokeUpdates
  <2> DEFINE ks == [keys EXCEPT ![Op[c].key].state = "revoked"]
  <2>2. Rows(accounts, ks)
    BY <1>5 DEF RevokeUpdates
  <2>3. ks \in [Keys -> KeyRows]
    BY <1>0, <2>1, KeyRowShape
  <2>4. cpc' \in [Calls -> {"idle", "delete", "write", "ok", "error"}]
    BY <1>0, <1>5 DEF RevokeUpdates, Proceed
  <2> QED BY <1>0, <1>5, <2>2, <2>3, <2>4, RowsType, CallsType DEF RevokeUpdates
<1>6. ASSUME NEW c \in Calls, RevokeDeletes(c) PROVE TypeOK'
  <2>1. Op[c].key \in Keys
    BY <1>6, OpShape DEF RevokeDeletes, Kinded
  <2>2. cache' \in {cache, [cache EXCEPT ![Op[c].key] = Never]}
        /\ raced' \in {raced, raced \cup {Op[c].key}}
        /\ cpc' = [cpc EXCEPT ![c] = "ok"]
        /\ UNCHANGED <<clock, cached, rows, lpc, job, seen, flaky>>
    BY <1>6 DEF RevokeDeletes, Proceed
  <2> QED BY <1>0, <2>1, <2>2, CallsType DEF rows
<1>7. ASSUME NEW c \in Calls, UpdateReads(c) PROVE TypeOK'
  <2>1. Op[c].account \in Accounts
    BY <1>7, ApiKeyAssumption DEF UpdateReads
  <2>2. cpc' \in [Calls -> {"idle", "delete", "write", "ok", "error"}]
        /\ seen' \in [Calls -> {"none", "active", "inactive"}]
    BY <1>0, <1>7, <2>1 DEF UpdateReads, Proceed
  <2> QED BY <1>0, <1>7, <2>2, CallsType DEF UpdateReads, rows
<1>8. ASSUME NEW c \in Calls, UpdateWrites(c) PROVE TypeOK'
  <2> DEFINE new == IF Op[c].is_active = "as it was" THEN seen[c] ELSE Op[c].is_active
             as == [accounts EXCEPT ![Op[c].account] = new]
  <2>1. new \in {"none", "active", "inactive"}
    BY <1>0, <1>8, OpShape DEF UpdateWrites, Kinded
  <2>2. as \in [Accounts -> {"none", "active", "inactive"}]
    BY <1>0, <2>1
  <2>3. Rows(as, keys)
    BY <1>8 DEF UpdateWrites
  <2>4. cpc' \in [Calls -> {"idle", "delete", "write", "ok", "error"}]
    BY <1>0, <1>8 DEF UpdateWrites, Proceed
  <2> QED BY <1>0, <1>8, <2>2, <2>3, <2>4, RowsType, CallsType DEF UpdateWrites
<1>9. ASSUME NEW c \in Calls, CallFails(c) PROVE TypeOK'
  <2>1. cpc' \in [Calls -> {"idle", "delete", "write", "ok", "error"}]
    BY <1>0, <1>9 DEF CallFails, Proceed
  <2> QED BY <1>0, <1>9, <2>1, CallsType DEF CallFails, rows
<1>10. ASSUME NEW l \in Lookups, lpc[l] \in InFlight, NEW w \in {"idle", "ok"} \cup InFlight,
              Goto(l, w), UNCHANGED <<clock, cached, rows, calls, raced>>,
              cache' \in [Keys -> Nat \cup {Never, Forever}],
              \A k \in Keys : cache'[k] \in Nat => clock < cache'[k], flaky' \subseteq Keys
       PROVE  TypeOK'
  <2>1. /\ lpc' \in [Lookups -> {"idle", "ok"} \cup InFlight]
        /\ job' \in [Lookups -> LookupJobs]
        /\ \A m \in Lookups : lpc'[m] \in InFlight <=> job'[m].key \in Keys
    BY <1>10, GotoType
  <2> QED BY <1>10, <2>1, LookupType
<1>11. ASSUME NEW l \in Lookups, Arrive(l) PROVE TypeOK'
  <2>1. PICK at \in Services, k \in Keys :
          /\ job' = [job EXCEPT ![l] = [at |-> at, key |-> k, born |-> clock]]
          /\ lpc' = [lpc EXCEPT ![l] = IF at = "account" /\ "account" \in cached
                                       THEN "get" ELSE "find"]
    BY <1>11 DEF Arrive
  <2> DEFINE j == [at |-> at, key |-> k, born |-> clock]
  <2>2. j \in LookupJobs /\ j.key = k
    BY <1>0, NewJobShape
  <2>3. /\ job' = [job EXCEPT ![l] = j]
        /\ lpc' = [lpc EXCEPT ![l] = "get"] \/ lpc' = [lpc EXCEPT ![l] = "find"]
    BY <2>1
  <2> HIDE DEF j
  <2>4. lpc'[l] \in {"get", "find"} /\ job'[l] = j
        /\ \A m \in Lookups \ {l} : lpc'[m] = lpc[m] /\ job'[m] = job[m]
    BY <1>0, <2>3
  <2>5. lpc' \in [Lookups -> {"idle", "ok"} \cup InFlight] /\ job' \in [Lookups -> LookupJobs]
    BY <1>0, <2>2, <2>3 DEF InFlight
  <2>6. \A m \in Lookups : lpc'[m] \in InFlight <=> job'[m].key \in Keys
    BY <1>0, <2>2, <2>4 DEF InFlight
  <2> QED BY <1>0, <1>11, <2>5, <2>6, LookupType DEF Arrive
<1>12. ASSUME NEW l \in Lookups, lpc[l] \in InFlight, NEW hit \in {"ok", "store"},
              NEW miss \in {"find", "query"}, Get(l, hit, miss),
              UNCHANGED <<clock, cached, rows, calls, raced>>
       PROVE  TypeOK'
  <2>1. job[l].key \in Keys
    BY <1>0, <1>12
  <2>2. cache' \in [Keys -> Nat \cup {Never, Forever}] /\ flaky' \subseteq Keys
    BY <1>0, <1>12, <2>1, GetCases
  <2>3. \A k \in Keys : cache'[k] \in Nat => clock < cache'[k]
    BY <1>0, <1>12, GetCases, Constants
  <2>4. PICK w \in {"idle", "ok"} \cup InFlight : Goto(l, w)
    BY <1>12, GetCases DEF InFlight
  <2> QED BY <1>10, <1>12, <2>2, <2>3, <2>4
<1>13. ASSUME NEW l \in Lookups, AccountGets(l) PROVE TypeOK'
  <2>1. lpc[l] \in InFlight /\ Get(l, "ok", "find")
    BY <1>13 DEF AccountGets, InFlight
  <2> QED BY <1>12, <1>13, <2>1 DEF AccountGets
<1>14. ASSUME NEW l \in Lookups, AuthGets(l) PROVE TypeOK'
  <2>1. lpc[l] \in InFlight /\ UNCHANGED <<clock, cached, rows, calls, raced>>
    BY <1>14 DEF AuthGets, InFlight
  <2>2. CASE "auth" \in cached
    <3>1. Get(l, Known(l), "query")
      BY <1>14, <2>2 DEF AuthGets
    <3> QED BY <1>12, <2>1, <3>1, KnownShape
  <2>3. CASE "auth" \notin cached
    <3>1. Goto(l, "query") /\ UNCHANGED <<cache, flaky>>
      BY <1>14, <2>3 DEF AuthGets
    <3> QED BY <1>0, <1>10, <2>1, <3>1 DEF InFlight
  <2> QED BY <2>2, <2>3
<1>15. ASSUME NEW l \in Lookups, Query(l) PROVE TypeOK'
  <2>1. lpc[l] \in InFlight /\ UNCHANGED <<clock, cached, rows, cache, calls, flaky, raced>>
    BY <1>15 DEF Query, InFlight
  <2>2. PICK w \in {"idle", "ok"} \cup InFlight : Goto(l, w)
    BY <1>15, KnownShape DEF Query, InFlight
  <2> QED BY <1>0, <1>10, <2>1, <2>2
<1>16. ASSUME NEW l \in Lookups, AuthSets(l) \/ AccountSets(l) PROVE TypeOK'
  <2>1. lpc[l] \in InFlight /\ Set(l) /\ UNCHANGED <<clock, cached, rows, calls, flaky, raced>>
    BY <1>16 DEF AuthSets, AccountSets, InFlight
  <2>2. PICK w \in {"idle", "ok"} \cup InFlight : Goto(l, w)
    BY <1>16, KnownShape DEF AuthSets, AccountSets
  <2>3. job[l].key \in Keys
    BY <1>0, <2>1
  <2>4. cache' \in [Keys -> Nat \cup {Never, Forever}]
        /\ \A k \in Keys : cache'[k] \in Nat => clock < cache'[k]
    <3> DEFINE u == Until(job[l].key)
    <3>1. u \in Nat \cup {Forever} /\ (u \in Nat => clock < u)
      BY <2>3, UntilShape
    <3>2. cache' = cache \/ cache' = [cache EXCEPT ![job[l].key] = u]
      BY <2>1 DEF Set
    <3> HIDE DEF u
    <3> QED BY <1>0, <2>3, <3>1, <3>2
  <2> QED BY <1>0, <1>10, <2>1, <2>2, <2>4
<1>17. ASSUME NEW l \in Lookups, LookupFails(l) PROVE TypeOK'
  BY <1>0, <1>10, <1>17 DEF LookupFails
<1>18. CASE UNCHANGED vars
  BY <1>18 DEF vars, rows, calls, TypeOK
<1> QED
  BY <1>1, <1>2, <1>3, <1>4, <1>5, <1>6, <1>7, <1>8, <1>9, <1>11, <1>13, <1>14, <1>15, <1>16,
     <1>17, <1>18 DEF Next

LEMMA InitIInv == Init => IInv
<1> SUFFICES ASSUME Init PROVE IInv
  OBVIOUS
<1>1. job \in [Lookups -> [at : Services, key : Keys \cup {Never}, born : Nat]]
  BY NoJobShape DEF Init, LookupJobs
<1>2. keys \in [Keys -> [state : {"none", "good", "revoked"}, expires : Nat \cup {Never}]]
  BY DEF Init, NoKey
<1>3. \A l \in Lookups : lpc[l] \in InFlight <=> job[l].key \in Keys
  BY NoJobShape DEF Init, InFlight
<1>4. \A k \in Keys : cache[k] \in Nat => clock < cache[k]
  BY Constants DEF Init
<1>5. clock \in 0..Horizon
  BY Constants DEF Init
<1>6. TypeOK
  BY <1>1, <1>2, <1>3, <1>4, <1>5 DEF Init, TypeOK
<1>7. Kinded /\ Gone
  BY DEF Init, Kinded, Gone
<1> QED BY <1>6, <1>7 DEF IInv

LEMMA StepKeepsIInv == IInv /\ [Next]_vars => IInv'
BY StepKeepsTypes, StepKeepsKinded, StepKeepsGone DEF IInv

-----------------------------------------------------------------------------
(* Staleness.  A key that is no longer good lives on in its entry, in the   *)
(* lookups that carry its identity there, and in those that came to         *)
(* auth-svc from a Redis that had no entry.                                 *)

Carries(l, k) == lpc[l] \in {"fill", "store"} /\ job[l].key = k

\* l missed the entry of k at account-svc, and takes what auth-svc finds in it for news.
Missed(l, k) ==
    lpc[l] = "find" /\ job[l].key = k /\ job[l].at = "account" /\ "account" \in cached

Early(k) == keys[k].expires = Never \/ clock < keys[k].expires

Dead(k) == k \notin flaky /\ ~Good(k, accounts, keys)

\* The time that the answered revocations of k add.
Answered(k) == {c \in Calls : Op[c].kind = "revoke" /\ Op[c].key = k /\ cpc[c] = "ok"}
Slack(k) == Cardinality(Answered(k)) * Delay

\* Every lookup is within its Delay.
InTime ==
    \A l \in Lookups : lpc[l] \in InFlight =>
        job[l].born <= clock /\ clock <= job[l].born + Delay

\* An entry ends within TTL and with its key; one without an end is of a key that has expired.
Lapsing(k) ==
    /\ cache[k] \in Nat => /\ cache[k] <= clock + TTL
                           /\ keys[k].expires # Never => cache[k] <= keys[k].expires
    /\ cache[k] = Forever => ~Early(k)
    /\ keys[k].expires # Never =>
           \A l \in Lookups : Carries(l, k) => job[l].born <= keys[k].expires

\* Without an entry, those that carry the identity set out before the key died, or before the
\* last deletion.
Gap(k) ==
    Dead(k) /\ Early(k) /\ cache[k] = Never =>
        \A l \in Lookups : Carries(l, k) => job[l].born <= died[k] + Slack(k)

\* With one, so did those that will write it next; or they set out before it was written.
Filled(k) ==
    Dead(k) /\ Early(k) /\ cache[k] # Never =>
        /\ cache[k] <= died[k] + Slack(k) + Delay + Delay + TTL
        /\ \A l \in Lookups : Carries(l, k) \/ Missed(l, k) =>
              \/ job[l].born <= died[k]
              \/ /\ job[l].born <= died[k] + Slack(k) + Delay
                 /\ job[l].born + TTL <= cache[k] \/ cache[k] = keys[k].expires

\* After the key expired nothing is left unless it expired soon after it died.
Late(k) ==
    Dead(k) /\ ~Early(k) /\ (cache[k] # Never \/ \E l \in Lookups : Carries(l, k)) =>
        keys[k].expires <= died[k] + Slack(k) + Delay + Delay

Stale(k) == Lapsing(k) /\ Gap(k) /\ Filled(k) /\ Late(k)

\* Nobody knows of a key that was not created.
Unborn == \A k \in Keys : keys[k].state = "none" => Silent(k)

SInv == IInv /\ InTime /\ Unborn /\ \A k \in Keys : Stale(k)

-----------------------------------------------------------------------------
\* The times of a state are numbers.
LEMMA Ticks ==
    ASSUME TypeOK
    PROVE  /\ clock \in Nat
           /\ \A k \in Keys : /\ cache[k] \in Nat \cup {Never, Forever}
                              /\ cache[k] \in Nat => clock < cache[k]
                              /\ died[k] \in Nat /\ keys[k].expires \in Nat \cup {Never}
           /\ \A l \in Lookups : /\ job[l].born \in Nat
                                 /\ lpc[l] \in InFlight <=> job[l].key \in Keys
BY Shapes, KeyRowShape, LookupJobShape DEF TypeOK

\* An answered revocation adds one Delay, and there are no more than Bound counts.
LEMMA SlackShape ==
    ASSUME TypeOK, NEW k \in Keys
    PROVE  /\ Slack(k) \in Nat
           /\ Bound(k) \in Nat /\ TTL + Delay + Delay + Slack(k) <= Bound(k)
<1> DEFINE R == {c \in Calls : Op[c].kind = "revoke" /\ Op[c].key = k}
           n == Cardinality(Answered(k))
           m == Cardinality(R)
<1>1. IsFiniteSet(R) /\ Answered(k) \subseteq R
  <2>1. R \subseteq Calls /\ Answered(k) \subseteq R
    BY DEF Answered
  <2> QED BY <2>1, ApiKeyAssumption, FS_Subset
<1>2. n \in Nat /\ m \in Nat /\ n <= m
  BY <1>1, FS_Subset, FS_CardinalityType
<1>3. \A i, j \in Nat : i <= j => i * Delay \in Nat /\ i * Delay <= j * Delay
                                  /\ (2 + j) * Delay = Delay + Delay + j * Delay
  BY Constants, SMT
<1>4. n * Delay \in Nat /\ n * Delay <= m * Delay /\ (2 + m) * Delay = Delay + Delay + m * Delay
      /\ m * Delay \in Nat
  BY <1>2, <1>3
<1>5. Bound(k) = TTL + (2 + m) * Delay
  BY DEF Bound
<1>6. Slack(k) = n * Delay
  BY DEF Slack
<1> QED BY <1>4, <1>5, <1>6, Constants

\* More answers, more time.
LEMMA SlackGrows ==
    ASSUME TypeOK, TypeOK', NEW k \in Keys, Answered(k) \subseteq Answered(k)'
    PROVE  Slack(k)' \in Nat /\ Slack(k) <= Slack(k)'
<1>1. IsFiniteSet(Answered(k)') /\ IsFiniteSet(Answered(k))
  <2>1. Answered(k)' \subseteq Calls
    BY DEF Answered
  <2> QED BY <2>1, ApiKeyAssumption, FS_Subset
<1>2. Cardinality(Answered(k)) \in Nat /\ Cardinality(Answered(k)') \in Nat
      /\ Cardinality(Answered(k)) <= Cardinality(Answered(k)')
  BY <1>1, FS_Subset, FS_CardinalityType
<1>3. \A i, j \in Nat : i <= j => j * Delay \in Nat /\ i * Delay <= j * Delay
  BY Constants, SMT
<1> QED BY <1>2, <1>3 DEF Slack

\* An answer after a deletion adds one Delay.
LEMMA SlackJumps ==
    ASSUME TypeOK, TypeOK', Kinded, NEW c \in Calls, RevokeDeletes(c)
    PROVE  Slack(Op[c].key)' = Slack(Op[c].key) + Delay
<1> DEFINE k == Op[c].key
           A == Answered(k)
<1>1. /\ cpc[c] = "delete" /\ Op[c].kind = "revoke"
      /\ cpc \in [Calls -> {"idle", "delete", "write", "ok", "error"}]
      /\ cpc' = [cpc EXCEPT ![c] = "ok"]
  BY Shapes DEF RevokeDeletes, Kinded, Proceed
<1>2. Answered(k)' = A \cup {c} /\ c \notin A
  BY <1>1 DEF Answered
<1>3. IsFiniteSet(A)
  <2>1. A \subseteq Calls
    BY DEF Answered
  <2> QED BY <2>1, ApiKeyAssumption, FS_Subset
<1>4. Cardinality(A \cup {c}) = Cardinality(A) + 1 /\ Cardinality(A) \in Nat
  BY <1>2, <1>3, FS_AddElement, FS_CardinalityType
<1>5. \A i \in Nat : (i + 1) * Delay = i * Delay + Delay
  BY Constants, SMT
<1>6. (Cardinality(A) + 1) * Delay = Cardinality(A) * Delay + Delay
  BY <1>4, <1>5
<1>7. Cardinality(Answered(k)') = Cardinality(A) + 1
  BY <1>2, <1>4
<1> QED BY <1>6, <1>7 DEF Slack

\* An answer to a revocation stands.
LEMMA AnswersKept ==
    ASSUME TypeOK, Kinded, [Next]_vars, NEW k \in Keys
    PROVE  Answered(k) \subseteq Answered(k)'
<1>0. cpc \in [Calls -> {"idle", "delete", "write", "ok", "error"}]
  BY Shapes
<1> SUFFICES ASSUME NEW c \in Calls, cpc[c] = "ok" PROVE cpc'[c] = "ok"
  BY DEF Answered
<1>1. ASSUME NEW d \in Calls,
             \/ RevokeUpdates(d) \/ RevokeDeletes(d) \/ UpdateReads(d)
             \/ UpdateWrites(d) \/ CallFails(d)
      PROVE  cpc'[c] = "ok"
  BY <1>0, <1>1 DEF RevokeUpdates, RevokeDeletes, UpdateReads, UpdateWrites, CallFails, Proceed
<1>2. ASSUME NEW l \in Lookups, \/ Arrive(l) \/ AccountGets(l) \/ AuthGets(l) \/ Query(l)
                                \/ AuthSets(l) \/ AccountSets(l) \/ LookupFails(l)
      PROVE  cpc' = cpc
  BY <1>2 DEF Arrive, AccountGets, AuthGets, Query, AuthSets, AccountSets, LookupFails, calls
<1>3. ASSUME \/ \E a \in Accounts : CreateServiceAccount(a)
             \/ \E j \in Keys : CreateAPIKey(j) \/ Evict(j)
             \/ Tick \/ UNCHANGED vars
      PROVE  cpc' = cpc
  BY <1>3 DEF CreateServiceAccount, CreateAPIKey, Evict, Tick, vars, calls
<1> QED BY <1>1, <1>2, <1>3 DEF Next

\* No step takes back what was added.
LEMMA SlackStands ==
    ASSUME TypeOK, TypeOK', Kinded, [Next]_vars, NEW k \in Keys
    PROVE  Slack(k) \in Nat /\ Slack(k)' \in Nat /\ Slack(k) <= Slack(k)'
BY SlackGrows, AnswersKept, SlackShape

-----------------------------------------------------------------------------
(* What each kind of step leaves of Stale.                                  *)

\* A tick: what carries the identity when an entry lapses set out while the key was good.
LEMMA TickKeepsStale ==
    ASSUME TypeOK, TypeOK', Kinded, InTime, Tick, NEW k \in Keys, Stale(k)
    PROVE  Stale(k)'
<1>1. /\ clock' = clock + 1
      /\ \A l \in Lookups : lpc[l] \in InFlight => clock < job[l].born + Delay
      /\ cache'[k] = IF cache[k] = clock + 1 THEN Never ELSE cache[k]
      /\ UNCHANGED <<cached, accounts, keys, died, lpc, job, flaky, cpc>>
  BY DEF Tick, rows, calls
<1>2. Slack(k)' = Slack(k) /\ Slack(k) \in Nat
  <2>1. Answered(k)' = Answered(k)
    BY <1>1 DEF Answered
  <2> QED BY <2>1, SlackShape DEF Slack
<1>3. \A l \in Lookups : /\ Carries(l, k)' <=> Carries(l, k)
                         /\ Missed(l, k)' <=> Missed(l, k)
                         /\ Carries(l, k) => clock + 1 <= job[l].born + Delay
  BY <1>1, Ticks, Constants DEF Carries, Missed, InFlight
<1>4. Dead(k)' <=> Dead(k)
  BY <1>1 DEF Dead, Good
<1>5. Early(k)' => Early(k)
  BY <1>1, Ticks DEF Early
<1>6. Lapsing(k)'
  BY <1>1, <1>3, Ticks, Constants DEF Stale, Lapsing, Early
<1>7. Filled(k)'
  BY <1>1, <1>2, <1>3, <1>4, <1>5, Ticks, Constants DEF Stale, Filled
<1>8. Gap(k)'
  BY <1>1, <1>2, <1>3, <1>4, <1>5, Ticks, Constants DEF Stale, Filled, Gap, Lapsing, Early
<1>9. Late(k)'
  <2>1. CASE Early(k)
    <3>1. ASSUME ~Early(k)' PROVE cache'[k] = Never /\ keys[k].expires = clock + 1
      BY <1>1, <2>1, <3>1, Ticks, Constants DEF Stale, Lapsing, Early
    <3>2. ASSUME Dead(k), NEW l \in Lookups, Carries(l, k)
          PROVE  job[l].born <= died[k] + Slack(k) + Delay
      BY <1>2, <2>1, <3>2, Ticks, Constants DEF Stale, Filled, Gap
    <3> QED BY <1>1, <1>2, <1>3, <1>4, <3>1, <3>2, Ticks, Constants DEF Late
  <2>2. CASE ~Early(k)
    BY <1>1, <1>2, <1>3, <1>4, <2>2, Ticks, Constants DEF Stale, Late
  <2> QED BY <2>1, <2>2
<1> QED BY <1>6, <1>7, <1>8, <1>9 DEF Stale

\* A step on the rows or the calls, caches and lookups aside: a key that dies, dies now.
LEMMA RowsKeepStale ==
    ASSUME TypeOK, TypeOK', InTime, NEW k \in Keys, Stale(k),
           UNCHANGED <<clock, cached, lpc, job, flaky>>, cache'[k] = cache[k],
           Slack(k) \in Nat, Slack(k)' \in Nat, Slack(k) <= Slack(k)',
           died'[k] = (IF Good(k, accounts, keys) /\ ~Good(k, accounts', keys')
                       THEN clock ELSE died[k]),
           keys'[k].expires = keys[k].expires \/ Silent(k)
    PROVE  Stale(k)'
<1>1. \A l \in Lookups : /\ Carries(l, k)' <=> Carries(l, k)
                         /\ Missed(l, k)' <=> Missed(l, k)
                         /\ Carries(l, k) \/ Missed(l, k) => job[l].born <= clock
  BY Ticks DEF Carries, Missed, InTime
<1>2. Silent(k) => cache[k] = Never /\ \A l \in Lookups : ~Carries(l, k)
  BY Carrying DEF Silent, Carries
<1>3. keys'[k].expires \in Nat \cup {Never} /\ died'[k] \in Nat
  BY DEF TypeOK
<1>4. CASE Silent(k)
  BY <1>1, <1>2, <1>4, Constants DEF Stale, Lapsing, Gap, Filled, Late
<1>5. CASE keys'[k].expires = keys[k].expires
  <2>1. Early(k)' <=> Early(k)
    BY <1>5 DEF Early
  <2>2. Lapsing(k)'
    BY <1>1, <1>5, <2>1 DEF Stale, Lapsing
  <2>3. CASE Good(k, accounts, keys) /\ ~Good(k, accounts', keys')
    <3>1. died'[k] = clock
      BY <2>3
    <3>2. Gap(k)'
      BY <1>1, <3>1, Ticks DEF Gap
    <3>3. Filled(k)'
      BY <1>1, <2>1, <3>1, Ticks, Constants DEF Stale, Lapsing, Filled
    <3>4. Late(k)'
      BY <1>5, <2>1, <3>1, Ticks, Constants DEF Late, Early
    <3> QED BY <2>2, <3>2, <3>3, <3>4 DEF Stale
  <2>4. CASE ~(Good(k, accounts, keys) /\ ~Good(k, accounts', keys'))
    <3>1. died'[k] = died[k] /\ (Dead(k)' => Dead(k))
      BY <2>4 DEF Dead
    <3>2. Gap(k)'
      BY <1>1, <2>1, <3>1, Ticks DEF Stale, Gap
    <3>3. Filled(k)'
      BY <1>1, <1>5, <2>1, <3>1, Ticks, Constants DEF Stale, Lapsing, Filled
    <3>4. Late(k)'
      BY <1>1, <1>5, <2>1, <3>1, Ticks, Constants DEF Stale, Late, Early
    <3> QED BY <2>2, <3>2, <3>3, <3>4 DEF Stale
  <2> QED BY <2>3, <2>4
<1> QED BY <1>4, <1>5

\* A deletion: whatever set out before it may still be written, for one more Delay.
LEMMA DeletionKeepsStale ==
    ASSUME TypeOK, TypeOK', NEW k \in Keys, Stale(k),
           UNCHANGED <<clock, cached, accounts, keys, died, lpc, job, flaky>>,
           Slack(k) \in Nat, Slack(k)' = Slack(k) + Delay, cache'[k] \in {cache[k], Never}
    PROVE  Stale(k)'
<1>1. \A l \in Lookups : /\ Carries(l, k)' <=> Carries(l, k)
                         /\ Missed(l, k)' <=> Missed(l, k)
  BY DEF Carries, Missed
<1>2. (Early(k)' <=> Early(k)) /\ (Dead(k)' <=> Dead(k))
  BY DEF Early, Dead, Good
<1>3. Lapsing(k)'
  BY <1>1, <1>2, Constants DEF Stale, Lapsing
<1>4. Gap(k)'
  BY <1>1, <1>2, Ticks, Constants DEF Stale, Gap, Filled
<1>5. Filled(k)'
  BY <1>1, <1>2, Ticks, Constants DEF Stale, Lapsing, Filled
<1>6. Late(k)'
  BY <1>1, <1>2, Ticks, Constants DEF Stale, Late, Early
<1> QED BY <1>3, <1>4, <1>5, <1>6 DEF Stale

\* A step of a lookup, or of Redis.  Whoever carries the identity now did before, or found it in
\* an entry that it had missed, or read it from a row that was good; an entry is written by one
\* that carried it.
LEMMA LookupKeepsStale ==
    ASSUME TypeOK, TypeOK', InTime, NEW k \in Keys, Stale(k),
           UNCHANGED <<clock, cached, rows, calls>>, flaky \subseteq flaky',
           \A l \in Lookups : Carries(l, k)' =>
               /\ job'[l] = job[l] /\ lpc[l] \in InFlight
               /\ \/ Carries(l, k)
                  \/ Missed(l, k) /\ cache[k] # Never /\ ~Expired(k)
                  \/ Good(k, accounts, keys) /\ ~Expired(k),
           \A l \in Lookups : Missed(l, k)' =>
               \/ job'[l] = job[l] /\ Missed(l, k)
               \/ cache'[k] = Never \/ k \in flaky',
           \/ cache'[k] = cache[k]
           \/ cache'[k] = Never /\ (Expired(k) \/ k \in flaky')
           \/ cache'[k] = Until(k) /\ \E l \in Lookups : Carries(l, k)
    PROVE  Stale(k)'
<1>1. /\ Slack(k)' = Slack(k) /\ Slack(k) \in Nat
      /\ keys' = keys /\ died' = died /\ accounts' = accounts /\ clock' = clock
  <2>1. Answered(k)' = Answered(k)
    BY DEF Answered, calls
  <2> QED BY <2>1, SlackShape DEF Slack, rows
<1>2. (Early(k)' <=> Early(k)) /\ (Dead(k)' => Dead(k) /\ k \notin flaky')
  BY <1>1 DEF Early, Dead, Good
<1>3. /\ Expired(k) => ~Early(k)
      /\ ~Early(k) => keys[k].expires \in Nat /\ keys[k].expires <= clock
  BY Ticks, Constants DEF Early, Expired
<1>4. \A l \in Lookups :
          Carries(l, k) \/ Missed(l, k) => job[l].born <= clock /\ clock <= job[l].born + Delay
  BY Ticks DEF Carries, Missed, InTime
<1>5. \A l \in Lookups : lpc[l] \in InFlight => job[l].born <= clock
  BY DEF InTime
<1>6. Lapsing(k)'
  <2>1. cache'[k] \in Nat => /\ cache'[k] <= clock + TTL
                             /\ keys[k].expires # Never => cache'[k] <= keys[k].expires
    BY Ticks, Constants DEF Stale, Lapsing, Until
  <2>2. cache'[k] = Forever => ~Early(k)
    BY <1>1, Ticks, Constants DEF Stale, Lapsing, Until, Early
  <2>3. ASSUME keys[k].expires # Never, NEW l \in Lookups, Carries(l, k)'
        PROVE  job'[l].born <= keys[k].expires
    <3>1. CASE Carries(l, k)
      BY <2>3, <3>1 DEF Stale, Lapsing
    <3>2. CASE ~Expired(k)
      BY <1>5, <2>3, <3>2, Ticks DEF Expired
    <3> QED BY <2>3, <3>1, <3>2
  <2> QED BY <1>1, <1>2, <2>1, <2>2, <2>3 DEF Lapsing
<1>7. Gap(k)'
  <2> SUFFICES ASSUME Dead(k)', Early(k)', cache'[k] = Never,
                      NEW l \in Lookups, Carries(l, k)'
               PROVE  job'[l].born <= died[k] + Slack(k)
    BY <1>1 DEF Gap
  <2>1. cache[k] = Never
    BY <1>2, <1>3, Ticks, Constants DEF Until
  <2>2. Carries(l, k)
    BY <1>2, <2>1 DEF Dead
  <2> QED BY <1>2, <2>1, <2>2 DEF Stale, Gap
<1>8. Filled(k)'
  <2> SUFFICES ASSUME Dead(k)', Early(k)', cache'[k] # Never
               PROVE  /\ cache'[k] <= died[k] + Slack(k) + Delay + Delay + TTL
                      /\ \A l \in Lookups : Carries(l, k)' \/ Missed(l, k)' =>
                            \/ job'[l].born <= died[k]
                            \/ /\ job'[l].born <= died[k] + Slack(k) + Delay
                               /\ job'[l].born + TTL <= cache'[k] \/ cache'[k] = keys[k].expires
    BY <1>1 DEF Filled
  <2>1. Dead(k) /\ Early(k) /\ ~Good(k, accounts, keys)
    BY <1>2 DEF Dead
  <2>2. \A l \in Lookups : Carries(l, k)' \/ Missed(l, k)' =>
            /\ job'[l] = job[l]
            /\ Carries(l, k) \/ Missed(l, k)
    BY <1>2, <2>1
  <2>3. CASE cache'[k] = cache[k]
    BY <2>1, <2>2, <2>3 DEF Stale, Filled
  <2>4. CASE cache'[k] = Until(k) /\ \E l \in Lookups : Carries(l, k)
    <3>1. /\ cache'[k] = clock + TTL \/ cache'[k] = keys[k].expires
          /\ cache'[k] \in Nat /\ cache'[k] <= clock + TTL
      BY <2>1, <2>4, Ticks, Constants DEF Until, Early
    <3>2. PICK c \in Lookups : Carries(c, k)
      BY <2>4
    <3>3. CASE cache[k] = Never
      <4>1. job[c].born <= died[k] + Slack(k)
        BY <2>1, <3>2, <3>3 DEF Stale, Gap
      <4>2. clock <= died[k] + Slack(k) + Delay
        BY <1>1, <1>4, <3>2, <4>1, Ticks, Constants
      <4> QED BY <1>1, <1>4, <2>2, <3>1, <4>2, Ticks, Constants
    <3>4. CASE cache[k] # Never
      <4>1. \A l \in Lookups : Carries(l, k) \/ Missed(l, k) =>
                job[l].born <= died[k] \/ job[l].born <= died[k] + Slack(k) + Delay
        BY <2>1, <3>4 DEF Stale, Filled
      <4>2. \A l \in Lookups : Carries(l, k) \/ Missed(l, k) =>
                job[l].born <= died[k] + Slack(k) + Delay
        BY <1>1, <4>1, Ticks, Constants
      <4>3. clock <= died[k] + Slack(k) + Delay + Delay
        BY <1>1, <1>4, <3>2, <4>2, Ticks, Constants
      <4> QED BY <1>1, <1>4, <2>2, <3>1, <4>2, <4>3, Ticks, Constants
    <3> QED BY <3>3, <3>4
  <2> QED BY <1>2, <1>3, <2>3, <2>4
<1>9. Late(k)'
  <2> SUFFICES ASSUME Dead(k)', ~Early(k)', cache'[k] # Never \/ \E l \in Lookups : Carries(l, k)'
               PROVE  keys[k].expires <= died[k] + Slack(k) + Delay + Delay
    BY <1>1 DEF Late
  <2>1. Dead(k) /\ ~Early(k) /\ ~Good(k, accounts, keys)
    BY <1>2 DEF Dead
  <2>2. cache[k] # Never \/ \E l \in Lookups : Carries(l, k)
    BY <2>1
  <2> QED BY <2>1, <2>2 DEF Stale, Late
<1> QED BY <1>6, <1>7, <1>8, <1>9 DEF Stale

-----------------------------------------------------------------------------
(* Every step keeps the invariant.                                          *)

\* A key comes to be by CreateAPIKey, which finds nobody who knows of it.
LEMMA StepKeepsUnborn ==
    ASSUME TypeOK, [Next]_vars, Unborn
    PROVE  Unborn'
<1>0. keys \in [Keys -> KeyRows]
  BY Shapes
<1> SUFFICES ASSUME NEW k \in Keys, keys'[k].state = "none" PROVE Silent(k)'
  BY DEF Unborn, Silent, Carriers
<1>1. ASSUME NEW j \in Keys, CreateAPIKey(j) PROVE keys[k].state = "none"
  <2>1. PICK e \in Expiries : keys' = [keys EXCEPT ![j] = NewKey(e)]
    BY <1>1 DEF CreateAPIKey, Rows
  <2>2. NewKey(e).state = "good"
    BY NewKeyShape, ApiKeyAssumption
  <2>3. j # k
    BY <1>0, <2>1, <2>2
  <2> QED BY <1>0, <2>1, <2>3
<1>2. ASSUME NEW c \in Calls, RevokeUpdates(c) PROVE keys[k].state = "none"
  <2>1. Op[c].key \in Keys
    BY <1>2, ApiKeyAssumption DEF RevokeUpdates
  <2>2. keys' = [keys EXCEPT ![Op[c].key].state = "revoked"]
    BY <1>2 DEF RevokeUpdates, Rows
  <2>3. keys'[k] = keys[k] \/ keys'[k] = [keys[k] EXCEPT !.state = "revoked"]
    BY <1>0, <2>1, <2>2
  <2> QED BY <1>0, <2>3, KeyRowShape
<1>3. ASSUME NEW c \in Calls, RevokeDeletes(c) \/ UpdateReads(c) \/ UpdateWrites(c) \/ CallFails(c)
      PROVE  keys' = keys
  BY <1>3 DEF RevokeDeletes, UpdateReads, UpdateWrites, CallFails, Rows, rows
<1>4. ASSUME NEW l \in Lookups, \/ Arrive(l) \/ AccountGets(l) \/ AuthGets(l) \/ Query(l)
                                \/ AuthSets(l) \/ AccountSets(l) \/ LookupFails(l)
      PROVE  keys' = keys
  BY <1>4 DEF Arrive, AccountGets, AuthGets, Query, AuthSets, AccountSets, LookupFails, rows
<1>5. ASSUME \/ \E a \in Accounts : CreateServiceAccount(a)
             \/ \E j \in Keys : Evict(j)
             \/ Tick \/ UNCHANGED vars
      PROVE  keys' = keys
  BY <1>5 DEF CreateServiceAccount, Evict, Tick, Rows, vars, rows
<1>6. keys[k].state = "none"
  BY <1>1, <1>2, <1>3, <1>4, <1>5 DEF Next
<1> QED BY <1>6, SilentStays DEF Unborn

\* A lookup comes in with the tick of its arrival, and no tick leaves it behind its Delay.
LEMMA StepKeepsInTime ==
    ASSUME TypeOK, TypeOK', [Next]_vars, InTime
    PROVE  InTime'
<1>0. /\ job \in [Lookups -> LookupJobs] /\ clock \in Nat
      /\ lpc \in [Lookups -> {"idle", "ok"} \cup InFlight]
      /\ \A l \in Lookups : job[l].born \in Nat
  BY Shapes, Ticks
<1>1. CASE Tick
  <2>1. /\ clock' = clock + 1 /\ lpc' = lpc /\ job' = job
        /\ \A l \in Lookups : lpc[l] \in InFlight => clock < job[l].born + Delay
    BY <1>1 DEF Tick
  <2> QED BY <1>0, <2>1, Constants DEF InTime
<1>2. ASSUME UNCHANGED <<clock, lpc, job>> PROVE InTime'
  BY <1>2 DEF InTime
<1>3. ASSUME NEW l \in Lookups, Arrive(l) PROVE InTime'
  <2>1. PICK at \in Services, k \in Keys :
          job' = [job EXCEPT ![l] = [at |-> at, key |-> k, born |-> clock]]
    BY <1>3 DEF Arrive
  <2>2. job'[l].born = clock /\ clock' = clock
    BY <1>0, <1>3, <2>1 DEF Arrive
  <2>3. \A m \in Lookups \ {l} : lpc'[m] = lpc[m] /\ job'[m] = job[m]
    BY <1>0, <1>3, <2>1 DEF Arrive
  <2> QED BY <1>0, <2>2, <2>3, Constants DEF InTime
<1>4. ASSUME NEW l \in Lookups, lpc[l] \in InFlight, NEW w \in {"idle", "ok"} \cup InFlight,
             Goto(l, w), clock' = clock
      PROVE  InTime'
  <2>1. lpc' = [lpc EXCEPT ![l] = w]
        /\ \A m \in Lookups : lpc'[m] \in InFlight => job'[m] = job[m]
    BY <1>4, GotoType
  <2>2. \A m \in Lookups : lpc'[m] \in InFlight => lpc[m] \in InFlight
    BY <1>0, <1>4, <2>1
  <2> QED BY <1>4, <2>1, <2>2 DEF InTime
<1>5. ASSUME NEW l \in Lookups, AccountGets(l) \/ AuthGets(l) \/ Query(l)
                                \/ AuthSets(l) \/ AccountSets(l) \/ LookupFails(l)
      PROVE  InTime'
  <2>1. lpc[l] \in InFlight /\ clock' = clock
    BY <1>5 DEF AccountGets, AuthGets, Query, AuthSets, AccountSets, LookupFails, InFlight
  <2>2. \E w \in {"idle", "ok"} \cup InFlight : Goto(l, w)
    BY <1>5, GetCases, KnownShape
       DEF AccountGets, AuthGets, Query, AuthSets, AccountSets, LookupFails, InFlight
  <2> QED BY <1>4, <2>1, <2>2
<1>6. ASSUME \/ \E a \in Accounts : CreateServiceAccount(a)
             \/ \E k \in Keys : CreateAPIKey(k) \/ Evict(k)
             \/ \E c \in Calls : \/ RevokeUpdates(c) \/ RevokeDeletes(c) \/ UpdateReads(c)
                                 \/ UpdateWrites(c) \/ CallFails(c)
             \/ UNCHANGED vars
      PROVE  InTime'
  BY <1>2, <1>6 DEF CreateServiceAccount, CreateAPIKey, Evict, RevokeUpdates, RevokeDeletes,
                    UpdateReads, UpdateWrites, CallFails, vars
<1> QED BY <1>1, <1>3, <1>5, <1>6 DEF Next

\* Who carries an identity, or has missed one, after a lookup went on.
LEMMA GotoCarries ==
    ASSUME TypeOK, NEW l \in Lookups, lpc[l] \in InFlight, NEW w \in {"idle", "ok"} \cup InFlight,
           Goto(l, w), cached' = cached, NEW k \in Keys, NEW m \in Lookups
    PROVE  /\ Carries(m, k)' => /\ job'[m] = job[m] /\ lpc[m] \in InFlight
                                /\ \/ Carries(m, k)
                                   \/ m = l /\ w \in {"fill", "store"} /\ job[l].key = k
           /\ Missed(m, k)' => /\ job'[m] = job[m]
                               /\ \/ Missed(m, k)
                                  \/ m = l /\ w = "find" /\ job[l].key = k
<1>1. lpc' = [lpc EXCEPT ![l] = w] /\ lpc \in [Lookups -> {"idle", "ok"} \cup InFlight]
      /\ \A j \in Lookups : lpc'[j] \in InFlight => job'[j] = job[j]
  BY GotoType, Shapes
<1>2. m # l => lpc'[m] = lpc[m]
  BY <1>1
<1>3. lpc'[l] = w
  BY <1>1
<1>4. lpc'[m] \in InFlight => job'[m] = job[m] /\ lpc[m] \in InFlight
  BY <1>1, <1>2
<1> QED BY <1>2, <1>3, <1>4 DEF Carries, Missed, InFlight

\* When a step on the rows ends a key's life.
LEMMA RowsDie ==
    ASSUME NEW as, NEW ks, Rows(as, ks), NEW k \in Keys
    PROVE  died'[k] = (IF Good(k, accounts, keys) /\ ~Good(k, accounts', keys')
                       THEN clock ELSE died[k])
BY DEF Rows

\* Each action is one of the kinds above.
LEMMA StepKeepsStale ==
    ASSUME SInv, TypeOK', [Next]_vars, NEW k \in Keys
    PROVE  Stale(k)'
<1>0. TypeOK /\ Kinded /\ InTime /\ Stale(k)
  BY DEF SInv, IInv
<1>a. /\ keys \in [Keys -> KeyRows] /\ died \in [Keys -> Nat]
      /\ cache \in [Keys -> Nat \cup {Never, Forever}]
  BY <1>0, Shapes DEF TypeOK
<1>b. Slack(k) \in Nat /\ Slack(k)' \in Nat /\ Slack(k) <= Slack(k)'
  BY <1>0, SlackStands
<1>1. CASE Tick
  BY <1>0, <1>1, TickKeepsStale
<1>2. ASSUME NEW a \in Accounts, CreateServiceAccount(a) PROVE Stale(k)'
  <2>1. Rows([accounts EXCEPT ![a] = NewServiceAccount], keys) /\ keys' = keys
        /\ UNCHANGED <<clock, cached, cache, lpc, job, flaky>>
    BY <1>2 DEF CreateServiceAccount, Rows
  <2> QED BY <1>0, <1>b, <2>1, RowsDie, RowsKeepStale
<1>3. ASSUME NEW j \in Keys, CreateAPIKey(j) PROVE Stale(k)'
  <2>1. PICK e \in Expiries : Rows(accounts, [keys EXCEPT ![j] = NewKey(e)])
    BY <1>3 DEF CreateAPIKey
  <2>2. UNCHANGED <<clock, cached, cache, lpc, job, flaky>> /\ keys[j].state = "none"
    BY <1>3, NoKeyShape DEF CreateAPIKey
  <2>3. Silent(j)
    BY <2>2 DEF SInv, Unborn
  <2>4. keys'[k] = keys[k] \/ j = k
    BY <1>a, <2>1 DEF Rows
  <2> QED BY <1>0, <1>b, <2>1, <2>2, <2>3, <2>4, RowsDie, RowsKeepStale
<1>4. ASSUME NEW c \in Calls, RevokeUpdates(c) PROVE Stale(k)'
  <2>1. Rows(accounts, [keys EXCEPT ![Op[c].key].state = "revoked"])
        /\ UNCHANGED <<clock, cached, cache, lpc, job, flaky>>
    BY <1>4 DEF RevokeUpdates
  <2>2. keys' = [keys EXCEPT ![Op[c].key].state = "revoked"]
    BY <2>1 DEF Rows
  <2>3. keys'[k] = keys[k] \/ keys'[k] = [keys[k] EXCEPT !.state = "revoked"]
    BY <1>a, <2>2
  <2>4. keys'[k].expires = keys[k].expires
    BY <1>a, <2>3 DEF KeyRows
  <2> QED BY <1>0, <1>b, <2>1, <2>4, RowsDie, RowsKeepStale
<1>5. ASSUME NEW c \in Calls, UpdateWrites(c) PROVE Stale(k)'
  <2>1. UNCHANGED <<clock, cached, cache, lpc, job, flaky>> /\ \E as : Rows(as, keys)
    BY <1>5 DEF UpdateWrites
  <2>2. keys' = keys
    BY <2>1 DEF Rows
  <2> QED BY <1>0, <1>b, <2>1, <2>2, RowsDie, RowsKeepStale
<1>6. ASSUME UNCHANGED <<clock, cached, rows, cache, lpc, job, flaky>> PROVE Stale(k)'
  <2>1. died'[k] = (IF Good(k, accounts, keys) /\ ~Good(k, accounts', keys')
                    THEN clock ELSE died[k]) /\ keys' = keys
    BY <1>6 DEF rows
  <2> QED BY <1>0, <1>6, <1>b, <2>1, RowsKeepStale
<1>7. ASSUME NEW c \in Calls, RevokeDeletes(c) PROVE Stale(k)'
  <2>1. UNCHANGED <<clock, cached, accounts, keys, died, lpc, job, flaky>>
        /\ cache' \in {cache, [cache EXCEPT ![Op[c].key] = Never]}
    BY <1>7 DEF RevokeDeletes, rows
  <2>2. CASE Op[c].key = k
    <3>1. cache'[k] \in {cache[k], Never}
      BY <1>a, <2>1
    <3>2. Slack(k)' = Slack(k) + Delay
      BY <1>0, <1>7, <2>2, SlackJumps
    <3> QED BY <1>0, <1>b, <2>1, <3>1, <3>2, DeletionKeepsStale
  <2>3. CASE Op[c].key # k
    <3>1. cache'[k] = cache[k]
      BY <1>a, <2>1, <2>3
    <3>2. died'[k] = (IF Good(k, accounts, keys) /\ ~Good(k, accounts', keys')
                      THEN clock ELSE died[k])
      BY <2>1
    <3> QED BY <1>0, <1>b, <2>1, <3>1, <3>2, RowsKeepStale
  <2> QED BY <2>2, <2>3
<1>8. ASSUME NEW l \in Lookups, Arrive(l) PROVE Stale(k)'
  <2>1. PICK at \in Services, j \in Keys :
          /\ job' = [job EXCEPT ![l] = [at |-> at, key |-> j, born |-> clock]]
          /\ lpc' = [lpc EXCEPT ![l] = IF at = "account" /\ "account" \in cached
                                       THEN "get" ELSE "find"]
    BY <1>8 DEF Arrive
  <2>2. job'[l].at = at /\ \A m \in Lookups \ {l} : lpc'[m] = lpc[m] /\ job'[m] = job[m]
    BY <1>0, <2>1, Shapes
  <2>3. lpc'[l] = IF at = "account" /\ "account" \in cached THEN "get" ELSE "find"
    BY <1>0, <2>1, Shapes
  <2>4. UNCHANGED <<clock, cached, rows, cache, calls, flaky>>
    BY <1>8 DEF Arrive
  <2>5. \A m \in Lookups : /\ Carries(m, k)' => m # l /\ Carries(m, k)
                           /\ Missed(m, k)' => m # l /\ Missed(m, k)
    BY <2>2, <2>3, <2>4 DEF Carries, Missed
  <2>6. \A m \in Lookups : Carries(m, k)' => /\ job'[m] = job[m] /\ lpc[m] \in InFlight
                                             /\ Carries(m, k)
    BY <2>2, <2>5 DEF Carries, InFlight
  <2> QED BY <1>0, <2>2, <2>4, <2>5, <2>6, LookupKeepsStale
<1>9. ASSUME NEW j \in Keys, Evict(j) PROVE Stale(k)'
  <2>1. /\ UNCHANGED <<clock, cached, rows, lpc, job, calls>> /\ flaky' = flaky \cup {j}
        /\ cache'[k] = cache[k] \/ (j = k /\ cache'[k] = Never)
    BY <1>9, <1>a DEF Evict
  <2>2. \A m \in Lookups : /\ Carries(m, k)' => job'[m] = job[m] /\ lpc[m] \in InFlight
                                                /\ Carries(m, k)
                           /\ Missed(m, k)' => job'[m] = job[m] /\ Missed(m, k)
    BY <2>1 DEF Carries, Missed, InFlight
  <2> QED BY <1>0, <2>1, <2>2, LookupKeepsStale
<1>10. ASSUME NEW l \in Lookups, lpc[l] = "get", Get(l, "ok", "find"),
              UNCHANGED <<clock, cached, rows, calls>>
       PROVE  Stale(k)'
  <2>1. lpc[l] \in InFlight /\ "ok" \in {"idle", "ok"} \cup InFlight
        /\ "find" \in {"idle", "ok"} \cup InFlight
    BY <1>10 DEF InFlight
  <2>2. \A m \in Lookups : Carries(m, k)' => /\ job'[m] = job[m] /\ lpc[m] \in InFlight
                                             /\ Carries(m, k)
    BY <1>0, <1>10, <2>1, GetCases, GotoCarries
  <2>3. \/ cache'[k] = cache[k]
        \/ cache'[k] = Never /\ Expired(k)
    BY <1>a, <1>10 DEF Get
  <2>4. \A m \in Lookups : Missed(m, k)' =>
            \/ job'[m] = job[m] /\ Missed(m, k)
            \/ job[l].key = k /\ Goto(l, "find")
    BY <1>0, <1>10, <2>1, GetCases, GotoCarries
  <2>5. job[l].key = k /\ Goto(l, "find") => cache'[k] = Never \/ k \in flaky'
    <3> SUFFICES ASSUME job[l].key = k, Goto(l, "find") PROVE cache'[k] = Never \/ k \in flaky'
      OBVIOUS
    <3>1. ~Goto(l, "ok")
      BY <1>0, Shapes DEF Goto
    <3> QED BY <1>a, <1>10, <3>1 DEF Get
  <2>6. flaky \subseteq flaky'
    BY <1>10, GetCases
  <2> QED BY <1>0, <1>10, <2>2, <2>3, <2>4, <2>5, <2>6, LookupKeepsStale
<1>11. ASSUME NEW l \in Lookups, lpc[l] = "find", Get(l, Known(l), "query"),
              UNCHANGED <<clock, cached, rows, calls>>
       PROVE  Stale(k)'
  <2>1. lpc[l] \in InFlight /\ Known(l) \in {"store", "ok"} /\ Known(l) # "find"
        /\ Known(l) \in {"idle", "ok"} \cup InFlight /\ "query" \in {"idle", "ok"} \cup InFlight
    BY <1>11, KnownShape DEF InFlight
  <2>2. \A m \in Lookups : Carries(m, k)' =>
            /\ job'[m] = job[m] /\ lpc[m] \in InFlight
            /\ \/ Carries(m, k)
               \/ /\ m = l /\ job[l].key = k /\ Known(l) = "store"
                  /\ cache[k] # Never /\ ~Expired(k)
    <3>1. CASE Goto(l, "query")
      BY <1>0, <1>11, <2>1, <3>1, GotoCarries
    <3>2. CASE Goto(l, Known(l)) /\ ~Goto(l, "query")
      <4>1. cache[job[l].key] # Never /\ ~Expired(job[l].key)
        BY <1>11, <3>2 DEF Get
      <4> QED BY <1>0, <1>11, <2>1, <3>2, <4>1, GotoCarries
    <3> QED BY <1>11, <3>1, <3>2, GetCases
  <2>3. \A m \in Lookups : Missed(m, k)' => job'[m] = job[m] /\ Missed(m, k)
    BY <1>0, <1>11, <2>1, GetCases, GotoCarries
  <2>4. job[l].key = k /\ Known(l) = "store" => Missed(l, k)
    BY <1>11 DEF Known, Missed
  <2>5. \/ cache'[k] = cache[k]
        \/ cache'[k] = Never /\ Expired(k)
    BY <1>a, <1>11 DEF Get
  <2>6. flaky \subseteq flaky'
    BY <1>11, GetCases
  <2> QED BY <1>0, <1>11, <2>2, <2>3, <2>4, <2>5, <2>6, LookupKeepsStale
<1>12. ASSUME NEW l \in Lookups, lpc[l] \in InFlight,
              NEW w \in {"idle", "ok", "fill", "store", "query"}, Goto(l, w),
              UNCHANGED <<clock, cached, rows, calls, flaky>>,
              \/ w \notin {"fill", "store"} \/ Carries(l, job[l].key)
              \/ Good(job[l].key, accounts, keys) /\ ~Expired(job[l].key),
              \/ cache'[k] = cache[k]
              \/ cache'[k] = Until(k) /\ Carries(l, k)
       PROVE  Stale(k)'
  <2>1. w \in {"idle", "ok"} \cup InFlight /\ w # "find"
    BY <1>12 DEF InFlight
  <2>2. \A m \in Lookups : Carries(m, k)' =>
            /\ job'[m] = job[m] /\ lpc[m] \in InFlight
            /\ Carries(m, k) \/ (Good(k, accounts, keys) /\ ~Expired(k))
    BY <1>0, <1>12, <2>1, GotoCarries
  <2>3. \A m \in Lookups : Missed(m, k)' => job'[m] = job[m] /\ Missed(m, k)
    BY <1>0, <1>12, <2>1, GotoCarries
  <2> QED BY <1>0, <1>12, <2>2, <2>3, LookupKeepsStale
<1>13. ASSUME NEW l \in Lookups, AccountGets(l) PROVE Stale(k)'
  BY <1>10, <1>13 DEF AccountGets
<1>14. ASSUME NEW l \in Lookups, AuthGets(l) PROVE Stale(k)'
  <2>1. CASE "auth" \in cached
    BY <1>11, <1>14, <2>1 DEF AuthGets
  <2>2. CASE "auth" \notin cached
    BY <1>12, <1>14, <2>2 DEF AuthGets, InFlight
  <2> QED BY <2>1, <2>2
<1>15. ASSUME NEW l \in Lookups, Query(l) PROVE Stale(k)'
  <2>1. lpc[l] \in InFlight /\ UNCHANGED <<clock, cached, rows, cache, calls, flaky>>
    BY <1>15 DEF Query, InFlight
  <2>2. PICK w \in {"idle", "ok", "fill", "store"} :
          /\ Goto(l, w)
          /\ w = "idle" \/ (Good(job[l].key, accounts, keys) /\ ~Expired(job[l].key))
    BY <1>15, KnownShape DEF Query
  <2> QED BY <1>12, <2>1, <2>2
<1>16. ASSUME NEW l \in Lookups, AuthSets(l) \/ AccountSets(l) PROVE Stale(k)'
  <2>1. /\ lpc[l] \in {"fill", "store"} /\ lpc[l] \in InFlight /\ Set(l)
        /\ UNCHANGED <<clock, cached, rows, calls, flaky>>
    BY <1>16 DEF AuthSets, AccountSets, InFlight
  <2>2. Carries(l, job[l].key)
    BY <2>1 DEF Carries
  <2>3. PICK w \in {"store", "ok"} : Goto(l, w)
    BY <1>16, KnownShape DEF AuthSets, AccountSets
  <2>4. \/ cache'[k] = cache[k]
        \/ cache'[k] = Until(k) /\ Carries(l, k)
    BY <1>a, <2>1, <2>2 DEF Set
  <2> QED BY <1>12, <2>1, <2>2, <2>3, <2>4
<1>17. ASSUME NEW l \in Lookups, LookupFails(l) PROVE Stale(k)'
  BY <1>12, <1>17 DEF LookupFails
<1>18. ASSUME NEW c \in Calls, UpdateReads(c) \/ CallFails(c) PROVE Stale(k)'
  BY <1>6, <1>18 DEF UpdateReads, CallFails
<1>19. CASE UNCHANGED vars
  BY <1>6, <1>19 DEF vars
<1> QED
  BY <1>1, <1>2, <1>3, <1>4, <1>5, <1>7, <1>8, <1>9, <1>13, <1>14, <1>15, <1>16, <1>17, <1>18,
     <1>19 DEF Next

LEMMA InitSInv == Init => SInv
<1> SUFFICES ASSUME Init PROVE SInv
  OBVIOUS
<1>1. IInv /\ InTime /\ Unborn
  BY InitIInv DEF Init, InTime, InFlight, Unborn, Silent, Carriers
<1>2. ASSUME NEW k \in Keys PROVE Stale(k)
  <2>1. cache[k] = Never /\ \A l \in Lookups : ~Carries(l, k)
    BY DEF Init, Carries
  <2> QED BY <2>1, Constants DEF Stale, Lapsing, Gap, Filled, Late
<1> QED BY <1>1, <1>2 DEF SInv

LEMMA StepKeepsSInv == SInv /\ [Next]_vars => SInv'
<1> SUFFICES ASSUME SInv, [Next]_vars PROVE SInv'
  OBVIOUS
<1>1. IInv' /\ TypeOK /\ TypeOK'
  BY StepKeepsIInv DEF SInv, IInv
<1>2. InTime' /\ Unborn'
  BY <1>1, StepKeepsInTime, StepKeepsUnborn DEF SInv
<1>3. \A k \in Keys : Stale(k)'
  BY <1>1, StepKeepsStale
<1> QED BY <1>1, <1>2, <1>3 DEF SInv

\* What is accepted: an entry, a row, or an identity on its way to an entry.
LEMMA Acceptance ==
    ASSUME TypeOK, [Next]_vars, NEW l \in Lookups, lpc[l] \in InFlight, lpc'[l] = "ok"
    PROVE  LET k == job[l].key
           IN  \/ Carries(l, k)
               \/ cache[k] # Never /\ ~Expired(k)
               \/ Good(k, accounts, keys) /\ ~Expired(k)
<1>0. lpc \in [Lookups -> {"idle", "ok"} \cup InFlight]
  BY Shapes
<1> DEFINE k == job[l].key
<1>1. ASSUME NEW m \in Lookups, \/ Arrive(m) \/ AccountGets(m) \/ AuthGets(m) \/ Query(m)
                                \/ AuthSets(m) \/ AccountSets(m) \/ LookupFails(m)
      PROVE  m = l /\ ~Arrive(l)
  <2>1. lpc' = lpc \/ \E w : lpc' = [lpc EXCEPT ![m] = w]
    BY <1>1 DEF Arrive, AccountGets, AuthGets, Query, AuthSets, AccountSets, LookupFails, Get, Goto
  <2>2. lpc[l] # "ok" /\ (m # l => lpc'[l] = lpc[l])
    BY <1>0, <2>1 DEF InFlight
  <2> QED BY <2>2 DEF Arrive, InFlight
<1>2. ASSUME AccountGets(l) PROVE cache[k] # Never /\ ~Expired(k)
  <2>1. ~Goto(l, "find")
    BY <1>0 DEF Goto
  <2> QED BY <1>2, <2>1 DEF AccountGets, Get
<1>3. ASSUME AuthGets(l) PROVE cache[k] # Never /\ ~Expired(k)
  <2>1. ~Goto(l, "query")
    BY <1>0 DEF Goto
  <2> QED BY <1>3, <2>1 DEF AuthGets, Get
<1>4. ASSUME Query(l) PROVE Good(k, accounts, keys) /\ ~Expired(k)
  <2>1. ~Goto(l, "idle")
    BY <1>0 DEF Goto
  <2> QED BY <1>4, <2>1 DEF Query
<1>5. ASSUME AuthSets(l) \/ AccountSets(l) PROVE Carries(l, k)
  BY <1>5 DEF AuthSets, AccountSets, Carries
<1>6. ~LookupFails(l)
  BY <1>0 DEF LookupFails, Goto
<1>7. ~(\/ Tick \/ UNCHANGED vars
        \/ \E a \in Accounts : CreateServiceAccount(a)
        \/ \E j \in Keys : CreateAPIKey(j) \/ Evict(j)
        \/ \E c \in Calls : \/ RevokeUpdates(c) \/ RevokeDeletes(c) \/ UpdateReads(c)
                            \/ UpdateWrites(c) \/ CallFails(c))
  <2>1. lpc' # lpc
    BY <1>0 DEF InFlight
  <2> QED BY <2>1 DEF Tick, vars, CreateServiceAccount, CreateAPIKey, Evict, RevokeUpdates,
                      RevokeDeletes, UpdateReads, UpdateWrites, CallFails
<1> QED BY <1>1, <1>2, <1>3, <1>4, <1>5, <1>6, <1>7 DEF Next

-----------------------------------------------------------------------------
(* The theorems.                                                           *)

\* Every variable keeps its type, and Redis holds no entry that has lapsed.
THEOREM TypeCorrect == Spec => []TypeOK
<1>1. IInv => TypeOK
  BY DEF IInv
<1> QED BY <1>1, InitIInv, StepKeepsIInv, PTL DEF Spec

\* Once a revocation was answered the key's entry is gone and does not come back, however many
\* lookups and calls run, unless the revocation could not delete it or raced with one.
THEOREM RevocationHolds == Spec => []RevokedIsGone
<1>1. IInv => RevokedIsGone
  BY DEF IInv, Gone, RevokedIsGone, Silent
<1> QED BY <1>1, InitIInv, StepKeepsIInv, PTL DEF Spec

\* However the caches of the two services hand a key's identity on to each other, it is accepted
\* for Bound after the key or its account was taken back at most, and for Delay after it expired.
THEOREM StalenessIsBounded == Spec => BoundedStaleness
<1>1. ASSUME SInv, [Next]_vars, NEW l \in Lookups, lpc[l] \in InFlight, lpc'[l] = "ok"
      PROVE  LET k == job[l].key
             IN  /\ Good(k, accounts, keys) \/ clock < died[k] + Bound(k) \/ k \in flaky
                 /\ keys[k].expires # Never => clock <= keys[k].expires + Delay
  <2> DEFINE k == job[l].key
  <2>1. /\ TypeOK /\ k \in Keys /\ Stale(k)
        /\ job[l].born <= clock /\ clock <= job[l].born + Delay
    BY <1>1, Ticks DEF SInv, IInv, InTime
  <2>2. /\ Slack(k) \in Nat /\ Bound(k) \in Nat
        /\ TTL + Delay + Delay + Slack(k) <= Bound(k)
    BY <2>1, SlackShape
  <2>3. \/ Carries(l, k)
        \/ cache[k] # Never /\ ~Expired(k)
        \/ Good(k, accounts, keys) /\ ~Expired(k)
    BY <1>1, <2>1, Acceptance
  <2>4. /\ clock \in Nat /\ died[k] \in Nat /\ job[l].born \in Nat
        /\ keys[k].expires \in Nat \cup {Never} /\ cache[k] \in Nat \cup {Never, Forever}
        /\ cache[k] \in Nat => clock < cache[k]
    BY <2>1, Ticks
  <2> HIDE DEF k
  <2>5. keys[k].expires # Never => clock <= keys[k].expires + Delay
    <3>1. CASE Carries(l, k)
      BY <2>1, <2>4, <3>1, Constants DEF Stale, Lapsing
    <3>2. CASE ~Expired(k)
      BY <2>4, <3>2, Constants DEF Expired
    <3> QED BY <2>3, <3>1, <3>2
  <2>6. ASSUME Dead(k) PROVE clock < died[k] + Bound(k)
    <3>1. CASE Early(k) /\ Carries(l, k)
      <4>1. job[l].born <= died[k] + Slack(k) + Delay
        BY <2>1, <2>2, <2>4, <2>6, <3>1, Constants DEF Stale, Gap, Filled
      <4> QED BY <2>1, <2>2, <2>4, <4>1, Constants
    <3>2. CASE Early(k) /\ cache[k] # Never
      <4>1. cache[k] <= died[k] + Slack(k) + Delay + Delay + TTL /\ cache[k] \in Nat
        BY <2>1, <2>4, <2>6, <3>2 DEF Stale, Filled, Lapsing
      <4> QED BY <2>2, <2>4, <4>1, Constants
    <3>3. CASE ~Early(k)
      <4>1. Carries(l, k) \/ (cache[k] # Never /\ ~Expired(k))
        BY <2>3, <2>6 DEF Dead
      <4>2. keys[k].expires \in Nat /\ keys[k].expires <= died[k] + Slack(k) + Delay + Delay
        BY <2>1, <2>4, <2>6, <3>3, <4>1 DEF Stale, Late, Early
      <4>3. clock <= keys[k].expires + Delay
        BY <2>5, <4>2, Constants
      <4> QED BY <2>2, <2>4, <4>2, <4>3, Constants
    <3>4. Carries(l, k) \/ cache[k] # Never
      BY <2>3, <2>6 DEF Dead
    <3> QED BY <3>1, <3>2, <3>3, <3>4
  <2> QED BY <2>5, <2>6 DEF Dead, k
<1>2. SInv /\ [Next]_vars =>
        [\A l \in Lookups :
            LET k == job[l].key
            IN  lpc[l] \in InFlight /\ lpc'[l] = "ok" =>
                    /\ Good(k, accounts, keys) \/ clock < died[k] + Bound(k) \/ k \in flaky
                    /\ keys[k].expires # Never => clock <= keys[k].expires + Delay]_vars
  BY <1>1
<1> QED BY <1>2, InitSInv, StepKeepsSInv, PTL DEF Spec, BoundedStaleness

=============================================================================
