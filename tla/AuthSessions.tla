---------------------------- MODULE AuthSessions ----------------------------
(***************************************************************************)
(* auth-svc, users: Login hands out a refresh token, Refresh replaces it   *)
(* by a new one and Logout revokes it, each statement by statement against *)
(* the token store that the configuration names.  A token is known by the  *)
(* request that issued it.                                                 *)
(***************************************************************************)
EXTENDS Naturals, FiniteSets

CONSTANTS
    Requests,  \* requests; a request issues at most one token
    Users,     \* users with an account
    Stores,    \* the values of TOKEN_STORE
    NoToken,   \* a Login presents no token
    NoJob      \* a request that has not come in asks for nothing

Kinds == {"login", "refresh", "logout"}

\* What a request asks for.
Jobs == [kind : Kinds, token : Requests \cup {NoToken}, user : Users,
         session : Requests, late : BOOLEAN]

ASSUME AuthAssumption ==
    /\ IsFiniteSet(Requests)
    /\ Stores \subseteq {"postgres", "redis", "memory"}
    /\ NoToken \notin Requests
    /\ NoJob \notin Jobs

Waiting == {"find", "revoke", "set", "user", "save"}
Answered == {"ok", "refused", "error"}

VARIABLES
    store,    \* where the tokens are
    active,   \* the users whose is_active is true
    tokens,   \* tokens[t]: the token that request t saved
    pc,       \* the statement a request is at, or its answer
    job,      \* job[r]: what r asks for, presenting which token, for which user, in which
              \* session (the Login it goes back to), and whether it came too late
    over,     \* sessions that a Logout or a deactivation closed
    broken    \* sessions with a failure, a lost token or a token two requests held

vars == <<store, active, tokens, pc, job, over, broken>>


\* Type invariant; a request past Arrive has a job and a token was saved by a request.
TypeOK ==
    /\ store \in Stores
    /\ active \subseteq Users
    /\ tokens \in [Requests -> {"none", "live", "revoked", "expired"}]
    /\ pc \in [Requests -> {"idle"} \cup Waiting \cup Answered]
    /\ job \in [Requests -> Jobs \cup {NoJob}]
    /\ over \subseteq Requests
    /\ broken \subseteq Requests
    /\ \A r \in Requests : pc[r] = "idle" <=> job[r] = NoJob
    /\ \A r \in Requests : tokens[r] # "none" => pc[r] \in {"ok", "error"}

Init ==
    /\ store \in Stores
    /\ active = Users
    /\ tokens = [r \in Requests |-> "none"]
    /\ pc = [r \in Requests |-> "idle"]
    /\ job = [r \in Requests |-> NoJob]
    /\ over = {} /\ broken = {}

\* The requests of a kind that are at one of some statements.
At(kind, where) ==
    {r \in Requests : pc[r] \in where /\ job[r].kind = kind}

-----------------------------------------------------------------------------
(* A request comes in. *)

\* The tokens clients hold.
HandedOut == {t \in Requests : pc[t] = "ok" /\ job[t].kind # "logout"}

\* A token that a Refresh or a Logout was answered for: nothing it can be used for is left.
Spent(t) == \E r \in Requests : pc[r] = "ok" /\ job[r].token = t

Arrives(r, kind, token, user, session, late) ==
    /\ pc[r] = "idle"
    /\ job' = [job EXCEPT ![r] = [kind |-> kind, token |-> token, user |-> user,
                                  session |-> session, late |-> late]]
    /\ pc' = [pc EXCEPT ![r] = IF kind = "logout" THEN "revoke" ELSE "find"]
    /\ UNCHANGED <<store, active, tokens, over, broken>>

Login(r) == \E u \in Users : Arrives(r, "login", NoToken, u, r, u \notin active)

Present(r, kind) ==
    \E t \in HandedOut :
        LET late == Spent(t) \/ job[t].user \notin active
        IN  Arrives(r, kind, t, job[t].user, job[t].session, late)

-----------------------------------------------------------------------------
(* Login, Refresh and Logout. *)

Goto(r, where) == pc' = [pc EXCEPT ![r] = where]

\* FindByUsername; the password may be wrong and logins may be off for maintenance.
LoginFinds(r) ==
    /\ r \in At("login", {"find"})
    /\ \/ job[r].user \in active /\ Goto(r, "save")
       \/ Goto(r, "refused")
    /\ UNCHANGED <<store, active, tokens, job, over, broken>>

\* Mutation of RefreshFinds: the column revoked is not looked at.
RefreshFindsRevoked(r) ==
    /\ r \in At("refresh", {"find"})
    /\ Goto(r, IF tokens[job[r].token] \in {"live", "revoked"} THEN "revoke" ELSE "refused")
    /\ UNCHANGED <<store, active, tokens, job, over, broken>>

\* FindByHash: a token that is unknown, revoked or expired is refused.
RefreshFinds(r) ==
    /\ r \in At("refresh", {"find"})
    /\ Goto(r, IF tokens[job[r].token] = "live" THEN "revoke" ELSE "refused")
    /\ UNCHANGED <<store, active, tokens, job, over, broken>>

\* What comes after Revoke.
AfterRevoke(r) == IF job[r].kind = "refresh" THEN "user" ELSE "ok"

\* Refreshes that found t and have not revoked it.
Holders(t) == {r \in At("refresh", {"revoke", "set"}) : job[r].token = t}

\* Mutation of Revoked: only a Logout revokes.
RevokedByLogout(r) ==
    LET t == job[r].token
        s == job[r].session
        logout == job[r].kind = "logout" /\ tokens[t] = "live"
    IN  /\ tokens' = [tokens EXCEPT ![t] = IF logout THEN "revoked" ELSE @]
        /\ over' = IF logout THEN over \cup {s} ELSE over
        /\ broken' = IF Holders(t) \ {r} # {} THEN broken \cup {s} ELSE broken

\* The token is revoked, whoever else is about to use it.
Revoked(r) ==
    LET t == job[r].token
        s == job[r].session
    IN  /\ tokens' = [tokens EXCEPT ![t] = IF @ = "live" THEN "revoked" ELSE @]
        /\ over' = IF job[r].kind = "logout" /\ tokens[t] = "live" THEN over \cup {s} ELSE over
        /\ broken' = IF Holders(t) \ {r} # {} THEN broken \cup {s} ELSE broken

\* Revoke in Postgres or in memory: one statement, or one critical section.
Revoke(r) ==
    /\ store # "redis"
    /\ pc[r] = "revoke"
    /\ Revoked(r)
    /\ Goto(r, AfterRevoke(r))
    /\ UNCHANGED <<store, active, job>>

\* Revoke in Redis, GET: a token that is gone counts as revoked.
RevokeGets(r) ==
    /\ store = "redis"
    /\ pc[r] = "revoke"
    /\ Goto(r, IF tokens[job[r].token] = "none" THEN AfterRevoke(r) ELSE "set")
    /\ UNCHANGED <<store, active, tokens, job, over, broken>>

\* SET with revoked = true.
RevokeSets(r) ==
    /\ pc[r] = "set"
    /\ Revoked(r)
    /\ Goto(r, AfterRevoke(r))
    /\ UNCHANGED <<store, active, job>>

\* Refresh, FindByID: the user may have been deactivated, and the token is revoked by now.
FindUser(r) ==
    /\ pc[r] = "user"
    /\ IF job[r].user \in active
       THEN Goto(r, "save") /\ UNCHANGED over
       ELSE Goto(r, "refused") /\ over' = over \cup {job[r].session}
    /\ UNCHANGED <<store, active, tokens, job, broken>>

\* issueTokenPair, Save and the answer.
Save(r) ==
    /\ pc[r] = "save"
    /\ tokens' = [tokens EXCEPT ![r] = "live"]
    /\ Goto(r, "ok")
    /\ UNCHANGED <<store, active, job, over, broken>>

-----------------------------------------------------------------------------
(* What goes wrong. *)

\* A Refresh that stops after FindByHash leaves its session with no token, perhaps.
Breaks(r) == IF pc[r] \in Waiting \ {"find"} THEN {job[r].session} ELSE {}

\* A statement fails, or the instance dies at it, with no effect.
Fails(r) ==
    /\ pc[r] \in Waiting
    /\ Goto(r, "error")
    /\ broken' = broken \cup Breaks(r)
    /\ UNCHANGED <<store, active, tokens, job, over>>

\* A Save takes effect and nobody hears of it.
SaveUnanswered(r) ==
    /\ pc[r] = "save"
    /\ tokens' = [tokens EXCEPT ![r] = "live"]
    /\ Goto(r, "error")
    /\ broken' = broken \cup Breaks(r)
    /\ UNCHANGED <<store, active, job, over>>

\* So does a Revoke.
RevokeUnanswered(r) ==
    /\ pc[r] = "set" \/ (pc[r] = "revoke" /\ store # "redis")
    /\ tokens' = [tokens EXCEPT ![job[r].token] = IF @ = "live" THEN "revoked" ELSE @]
    /\ Goto(r, "error")
    /\ broken' = broken \cup Breaks(r)
    /\ UNCHANGED <<store, active, job, over>>

\* Redis loses a token.
Forget(t) ==
    /\ store = "redis"
    /\ tokens[t] # "none"
    /\ tokens' = [tokens EXCEPT ![t] = "none"]
    /\ broken' = broken \cup {job[t].session}
    /\ UNCHANGED <<store, active, pc, job, over>>

\* The service restarts with its tokens in memory.
Restart ==
    /\ store = "memory"
    /\ tokens' = [t \in Requests |-> "none"]
    /\ pc' = [r \in Requests |-> IF pc[r] \in Waiting THEN "error" ELSE pc[r]]
    /\ broken' = Requests
    /\ UNCHANGED <<store, active, job, over>>

\* RefreshTokenTTL has passed.
Expire(t) ==
    /\ tokens[t] = "live"
    /\ tokens' = [tokens EXCEPT ![t] = "expired"]
    /\ broken' = broken \cup {job[t].session}
    /\ UNCHANGED <<store, active, pc, job, over>>

\* An administrator sets is_active to false in the database.
Deactivate(u) ==
    /\ u \in active
    /\ active' = active \ {u}
    /\ UNCHANGED <<store, tokens, pc, job, over, broken>>

-----------------------------------------------------------------------------

Next ==
    \/ \E r \in Requests :
        \/ Login(r) \/ Present(r, "refresh") \/ Present(r, "logout")
        \/ LoginFinds(r) \/ RefreshFinds(r)
        \/ Revoke(r) \/ RevokeGets(r) \/ RevokeSets(r)
        \/ FindUser(r) \/ Save(r)
        \/ Fails(r) \/ SaveUnanswered(r) \/ RevokeUnanswered(r)
        \/ Forget(r) \/ Expire(r)
    \/ Restart
    \/ \E u \in Users : Deactivate(u)

Spec == Init /\ [][Next]_vars

-----------------------------------------------------------------------------
(* Properties. *)

\* A Refresh with a token that a Refresh or a Logout has been answered for, or of a user who
\* was deactivated before it came in, is never answered with a token, whatever the token store
\* and whatever failed on the way; nor is a Login of a deactivated user.
LateRefused ==
    \A r \in Requests :
        pc[r] = "ok" /\ job[r].kind # "logout" => ~job[r].late

\* The tokens of a session that can be used, and the refreshes that have used one up and
\* have not saved the next.
Worth(s) ==
    {t \in Requests : tokens[t] = "live" /\ job[t].session = s}
    \cup {r \in At("refresh", {"user", "save"}) : job[r].session = s}

\* A session that nothing failed in, and no token of which two requests held at a time, is
\* worth exactly one token, in the store or on its way from one refresh to the next, however
\* many refreshes it went through; one that was closed is worth none.
OneToken ==
    \A s \in At("login", {"ok"}) \ broken :
        Cardinality(Worth(s)) = IF s \in over THEN 0 ELSE 1
=============================================================================
