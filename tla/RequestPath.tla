------------------------------ MODULE RequestPath ------------------------------
(***************************************************************************)
(* The way of a request through the middleware of one of the five HTTP     *)
(* services (pkg/middleware and each service's NewRouter): the token       *)
(* bucket of its address, the bearer token or API key, the role the route   *)
(* asks for, and, for account-svc's Credit and Debit, the operation hours. *)
(* Tokens come from auth-svc, which copies the roles of a user row it has  *)
(* read; the row may change or be deactivated while the token lives.       *)
(*                                                                         *)
(* Time is discrete.  A bucket holds whole tokens: one tick refills Rate   *)
(* of them.  The refresh tokens are in AuthSessions, the lookup behind an  *)
(* API key in ApiKeyCache.                                                 *)
(***************************************************************************)
EXTENDS Integers, FiniteSets

CONSTANTS
    Users,          \* the users of auth-svc
    Addresses,      \* what a connection comes from, or a header says it does
    NoHeader,       \* a request with neither X-Forwarded-For nor X-Real-IP
    NoOne,          \* no request was served by the last step
    ApiKeyCaller,   \* a service account, known by its API key
    NoBucket, NoIssue,
    Rate, Burst,    \* RATE_LIMIT_RPS per tick, RATE_LIMIT_BURST
    CleanupAge,     \* RateLimiter.cleanupAge: 5 minutes
    AccessTTL,      \* life of an access token: 15 minutes
    WriteTimeout,   \* of auth-svc's http.Server: a later answer is lost
    Windows,        \* operation hours the flag may give: <<from, to>> in a Day
    Day,            \* ticks of a day
    Production,     \* whether ENVIRONMENT is production
    MaxTokens,      \* bound: access tokens alive at a time
    MaxTime         \* bound: the clock

ASSUME LimiterAssumption ==
    /\ Rate \in Nat \ {0} /\ Burst \in Nat \ {0} /\ CleanupAge \in Nat
    /\ Burst <= Rate * CleanupAge       \* 2000 <= 1000 * 300
    /\ NoBucket \notin [tokens : 0..Burst, last : Nat]

ASSUME TokenAssumption ==
    /\ AccessTTL \in Nat /\ WriteTimeout \in Nat /\ Day \in Nat \ {0}
    /\ MaxTokens \in Nat /\ MaxTime \in Nat /\ Production \in BOOLEAN
    /\ NoOne # ApiKeyCaller /\ NoOne \notin Users /\ ApiKeyCaller \notin Users

Roles == {"ADMIN", "TELLER"}

VARIABLES
    service,        \* the service the requests are made to
    now,
    users,          \* user -> roles of its row; {} = inactive
    held,           \* ghost: user -> role -> when the row last had it
    issue,          \* user -> the row a Login or Refresh has read
    tokens,         \* the access tokens clients have
    buckets, lastCleanup,
    meter,          \* ghost: address -> a meter that drains by Rate a tick
    served          \* the caller and the route of the request just served

limiter == <<buckets, lastCleanup, meter>>
vars == <<service, now, users, held, issue, tokens, limiter, served>>

Issues == [roles : SUBSET Roles, since : Nat]
Tokens == [user : Users, roles : SUBSET Roles, exp : Nat]
Buckets == [tokens : 0..Burst, last : Nat]

-----------------------------------------------------------------------------
(* The routers: a handler and the roles of which its caller needs one.     *)

Needing(roles, handlers) == [handler : handlers, needs : {roles}]

AccountRoutes ==
    Needing({"ADMIN"}, {"ListAccounts", "CreateAccount"})
        \cup Needing({"TELLER", "ADMIN"},
                     {"GetAccount", "GetBalance", "Credit", "Debit"})

AuthRoutes ==
    Needing({"ADMIN"},
            {"ListServiceAccounts", "CreateServiceAccount", "GetServiceAccount",
             "UpdateServiceAccount", "ListAPIKeys", "CreateAPIKey", "RevokeAPIKey"})

NotificationRoutes ==
    Needing({"ADMIN"},
            {"ListNotifications", "RetryNotification", "CreateTemplate",
             "UpdateTemplate", "DeleteTemplate", "CreateSchedule", "ListSchedules",
             "GetSchedule", "UpdateSchedule", "DeleteSchedule", "EnableSchedule",
             "DisableSchedule"})
        \cup Needing({"ADMIN", "TELLER"},
                     {"SendNotification", "GetNotification", "CancelNotification",
                      "ListTemplates", "GetTemplate", "PreviewTemplate"})

AuditRoutes ==
    Needing({"ADMIN", "TELLER"}, {"IngestEvent"})
        \cup Needing({"ADMIN"}, {"ListEvents", "GetEvent", "ListActorEvents",
                                 "ListResourceEvents"})

PaymentRoutes ==
    Needing({"ADMIN"}, {"RegisterMerchant", "Fee"})
        \cup Needing({"TELLER", "ADMIN"},
                     {"GetMerchant", "Transfer", "MerchantPayment", "Refund",
                      "Generate", "Decode", "Pay", "ListPayments", "GetPayment",
                      "Reverse", "Cancel", "Retry"})

Services == {"account", "auth", "notification", "audit", "payment"}

Routes == CASE service = "account"      -> AccountRoutes
            [] service = "auth"         -> AuthRoutes
            [] service = "notification" -> NotificationRoutes
            [] service = "audit"        -> AuditRoutes
            [] service = "payment"      -> PaymentRoutes

Init ==
    /\ service \in Services
    /\ now = 0
    /\ users \in [Users -> SUBSET Roles]
    /\ held = [u \in Users |-> [r \in Roles |-> 0]]
    /\ issue = [u \in Users |-> NoIssue]
    /\ tokens = {}
    /\ buckets = [k \in Addresses |-> NoBucket] /\ lastCleanup = 0
    /\ meter = [k \in Addresses |-> 0]
    /\ served = NoOne

-----------------------------------------------------------------------------
(* The rate limiter.                                                       *)

\* remoteIP: what a header says, which nobody verifies, or else the peer.  A
\* caller that names another address each time has a full bucket each time.
RemoteIP(peer, header) == IF header = NoHeader THEN peer ELSE header

\* The keys under which requests may come.
LimiterKeys ==
    {RemoteIP(peer, header) : peer \in Addresses, header \in Addresses \cup {NoHeader}}

Lesser(a, b) == IF a <= b THEN a ELSE b

\* tokenBucket.allow: what the bucket holds after the refill.
Refilled(b) == Lesser(Burst, b.tokens + Rate * (now - b.last))

\* MUTANT: the sweep takes every bucket.
IdleAlways(b) == b # NoBucket /\ now >= b.last

Idle(b) == b # NoBucket /\ now - b.last > CleanupAge

CleanupDue == now - lastCleanup > CleanupAge

\* RateLimiter.cleanup, at most once in CleanupAge.
Swept == [k \in Addresses |-> IF CleanupDue /\ Idle(buckets[k])
                            THEN NoBucket ELSE buckets[k]]

\* NewRateLimiter and Allow: an address without a bucket gets a full one.
BucketOf(k) == IF Swept[k] = NoBucket THEN [tokens |-> Burst, last |-> now]
                                      ELSE Swept[k]

Leave(k, n) ==
    /\ buckets' = [Swept EXCEPT ![k] = [tokens |-> n, last |-> now]]
    /\ lastCleanup' = IF CleanupDue THEN now ELSE lastCleanup

Admitted(k) ==
    /\ Refilled(BucketOf(k)) >= 1
    /\ Leave(k, Refilled(BucketOf(k)) - 1)
    /\ meter' = [meter EXCEPT ![k] = @ + 1]

\* RateLimit, in front of every route of /v1; auth-svc has none.
Passes(k) == IF service = "auth" THEN UNCHANGED limiter ELSE Admitted(k)

TooManyRequests(k) ==
    /\ service # "auth"
    /\ Refilled(BucketOf(k)) < 1
    /\ Leave(k, Refilled(BucketOf(k)))
    /\ served' = NoOne
    /\ UNCHANGED <<service, now, users, held, issue, tokens, meter>>

-----------------------------------------------------------------------------
(* The feature flags: a flag that cannot be read has its default.          *)

FlagReplies == {"on", "off", "error"}

Enabled(reply, default) == IF reply = "error" THEN default ELSE reply = "on"

\* GetString and the parse: <<from, to>>, or <<>> for a flag that cannot be
\* read, is empty or is malformed.
Hours == Windows \cup {<<>>}

\* IsWithinOperationHours; checkOperationHours lets a malformed window pass.
WithinHours(window) ==
    window # <<>> => now % Day >= window[1] /\ now % Day < window[2]

\* checkOperationHours, the first thing Credit and Debit do.
Open(handler, window) ==
    service = "account" /\ handler \in {"Credit", "Debit"} => WithinHours(window)

-----------------------------------------------------------------------------
(* auth-svc: a user row is read, then a token with its roles is issued.    *)

Active(u) == users[u] # {}

ReadsUser(u) ==
    /\ issue[u] = NoIssue /\ Active(u)
    /\ issue' = [issue EXCEPT ![u] = [roles |-> users[u], since |-> now]]
    /\ served' = NoOne
    /\ UNCHANGED <<service, now, users, held, tokens, limiter>>

\* AuthHandler.Login is closed in maintenance; a flag that cannot be read is off.
Login(u) == \E reply \in FlagReplies : ~Enabled(reply, FALSE) /\ ReadsUser(u)

\* AuthHandler.Refresh does not read the flag.
Refresh(u) == ReadsUser(u)

Expiry == now + AccessTTL

\* issueTokenPair; the client hears of it only before the write deadline.
IssueTokenPair(u) ==
    /\ issue[u] # NoIssue
    /\ now <= issue[u].since + WriteTimeout
    /\ Cardinality(tokens) < MaxTokens
    /\ tokens' = tokens \cup {[user |-> u, roles |-> issue[u].roles, exp |-> Expiry]}
    /\ issue' = [issue EXCEPT ![u] = NoIssue]
    /\ served' = NoOne
    /\ UNCHANGED <<service, now, users, held, limiter>>

\* Signing or Save fails, or the answer is late or lost.
IssueFails(u) ==
    /\ issue[u] # NoIssue
    /\ issue' = [issue EXCEPT ![u] = NoIssue]
    /\ served' = NoOne
    /\ UNCHANGED <<service, now, users, held, tokens, limiter>>

\* A client drops a token it has; it may do so before or after it expires.
Forget ==
    /\ \E t \in tokens : tokens' = tokens \ {t}
    /\ served' = NoOne
    /\ UNCHANGED <<service, now, users, held, issue, limiter>>

HeldFrom(roles, u, at) ==
    [held EXCEPT ![u] = [r \in Roles |-> IF r \in roles[u] THEN at ELSE held[u][r]]]

\* An operator edits the row: no service has an operation for it.
SetRoles(u) ==
    /\ \E roles \in SUBSET Roles : users' = [users EXCEPT ![u] = roles]
    /\ held' = HeldFrom(users', u, now)
    /\ served' = NoOne
    /\ UNCHANGED <<service, now, issue, tokens, limiter>>

-----------------------------------------------------------------------------
(* The checks behind the limiter.                                          *)

\* MUTANT: the expiry is not looked at.
ValidAlways(t) == t.roles # {}

\* Authenticate, jwt.WithExpirationRequired.
Valid(t) == now < t.exp

\* RequireRole.
HasRole(roles, needs) == roles \cap needs # {}

\* validKeyPrefix.
KeyPrefixes == {"bp_live_", "bp_test_"}
ValidKeyPrefix(prefix) == prefix = (IF Production THEN "bp_live_" ELSE "bp_test_")

\* Only account-svc's container gives AuthenticateAny a Lookup; auth-svc has
\* Authenticate alone.
HasLookup == service = "account"
TakesKeys == service # "auth"

\* A bearer token: AuthenticateAny or Authenticate, RequireRole, the handler.
ServeUser(k) ==
    /\ Passes(k)
    /\ \E t \in tokens, route \in Routes, window \in Hours :
          /\ Valid(t) /\ HasRole(t.roles, route.needs) /\ Open(route.handler, window)
          /\ served' = [who |-> t.user, needs |-> route.needs]
    /\ UNCHANGED <<service, now, users, held, issue, tokens>>

\* An API key whose lookup answers some roles.
ServeKey(k) ==
    /\ TakesKeys /\ HasLookup
    /\ Passes(k)
    /\ \E roles \in SUBSET Roles, route \in Routes, prefix \in KeyPrefixes,
          window \in Hours :
          /\ ValidKeyPrefix(prefix)
          /\ HasRole(roles, route.needs) /\ Open(route.handler, window)
          /\ served' = [who |-> ApiKeyCaller, needs |-> route.needs]
    /\ UNCHANGED <<service, now, users, held, issue, tokens>>

\* 401, 403 or the operation hours: the request has been counted all the same.
Rejected(k) ==
    /\ Passes(k)
    /\ served' = NoOne
    /\ UNCHANGED <<service, now, users, held, issue, tokens>>

Restarts ==
    /\ buckets' = [k \in Addresses |-> NoBucket] /\ lastCleanup' = now
    /\ meter' = [k \in Addresses |-> 0]
    /\ served' = NoOne
    /\ UNCHANGED <<service, now, users, held, issue, tokens>>

\* AuthenticateAPIKey calls a nil Lookup in the goroutine of Timeout, where
\* Recovery cannot see the panic: the process ends.
NilLookup ==
    /\ TakesKeys /\ ~HasLookup
    /\ \E prefix \in KeyPrefixes : ValidKeyPrefix(prefix)
    /\ Restarts

Restart == Restarts

Tick ==
    /\ now < MaxTime
    /\ now' = now + 1
    /\ held' = [u \in Users |-> [r \in Roles |-> IF r \in users[u] THEN now + 1
                                                                  ELSE held[u][r]]]
    /\ meter' = [k \in Addresses |-> IF meter[k] <= Rate THEN 0 ELSE meter[k] - Rate]
    /\ served' = NoOne
    /\ UNCHANGED <<service, users, issue, tokens, buckets, lastCleanup>>

Next ==
    \/ \E u \in Users : Login(u) \/ Refresh(u) \/ IssueTokenPair(u)
                        \/ IssueFails(u) \/ SetRoles(u)
    \/ \E k \in LimiterKeys : TooManyRequests(k) \/ ServeUser(k) \/ ServeKey(k) \/ Rejected(k)
    \/ Forget \/ NilLookup \/ Restart \/ Tick

Spec == Init /\ [][Next]_vars

-----------------------------------------------------------------------------
Served == {NoOne} \cup [who : Users \cup {ApiKeyCaller}, needs : SUBSET Roles]

\* Types of the variables.
TypeOK ==
    /\ service \in Services /\ now \in Nat /\ lastCleanup \in Nat
    /\ users \in [Users -> SUBSET Roles]
    /\ held \in [Users -> [Roles -> Nat]]
    /\ issue \in [Users -> Issues \cup {NoIssue}]
    /\ tokens \subseteq Tokens
    /\ buckets \in [Addresses -> Buckets \cup {NoBucket}]
    /\ meter \in [Addresses -> Nat]
    /\ served \in Served

(***************************************************************************)
(* Where there is a limiter (auth-svc has none) it bounds every window,    *)
(* not only the burst at its start: between any two moments of one run of  *)
(* the process the requests booked under one address are at most Burst     *)
(* and Rate more for every tick in between, whatever idle buckets have     *)
(* been thrown away on a request of another address.  It does not bound a  *)
(* caller, who chooses the address in a header (RemoteIP).                 *)
(***************************************************************************)
RateBounded == service # "auth" => \A k \in Addresses : meter[k] <= Burst

(***************************************************************************)
(* Roles outlive their row, but not for long: a request by bearer token is *)
(* served on a route only when the user's row had one of the route's roles *)
(* less than AccessTTL + WriteTimeout ago (Login or Refresh against a      *)
(* deactivation, pkg/middleware/auth.go and auth_service.go).              *)
(***************************************************************************)
AccessBounded ==
    served # NoOne /\ served.who \in Users =>
        \E r \in served.needs : now < held[served.who][r] + AccessTTL + WriteTimeout

=============================================================================
