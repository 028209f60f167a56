-------------------------- MODULE AuthSessions_proofs --------------------------
(***************************************************************************)
(* The sessions of AuthSessions, for any requests and users, any number of *)
(* failures and each of the three token stores.                            *)
(***************************************************************************)
EXTENDS AuthSessions, FiniteSetTheorems, TLAPS

-----------------------------------------------------------------------------
(* The invariant.                                                          *)

\* A request other than a Login presents a token that was handed out and goes on
\* with its session; a Login opens one.
Linked ==
    \A r \in Requests : pc[r] # "idle" =>
        /\ job[r].kind = "login" => /\ job[r].session = r /\ job[r].token = NoToken
                                    /\ pc[r] \notin {"revoke", "set", "user"}
        /\ job[r].kind = "logout" => pc[r] \notin {"find", "user", "save"}
        /\ job[r].kind # "login" =>
            /\ job[r].token \in Requests /\ pc[job[r].token] = "ok"
            /\ job[job[r].token].session = job[r].session
            /\ pc[job[r].session] = "ok" /\ job[job[r].session].kind = "login"

\* A token that was given up is not live, and never will be.
Used ==
    \A r \in Requests :
        pc[r] \in {"user", "save", "ok"} /\ job[r].kind # "login" => tokens[job[r].token] # "live"

\* A request that came too late has not got far, and what stops it stays.
Late ==
    \A r \in Requests : pc[r] # "idle" /\ job[r].kind # "logout" /\ job[r].late =>
        /\ pc[r] \notin {"save", "ok"}
        /\ \/ job[r].user \notin active
           \/ /\ job[r].kind = "refresh" /\ pc[r] \notin {"revoke", "set", "user"}
              /\ tokens[job[r].token] # "live"

\* Two requests do not hold one token unless that is on record.
Kept ==
    \A r \in Requests :
        pc[r] \in {"revoke", "set"} /\ job[r].kind = "refresh" /\ job[r].session \notin broken =>
            tokens[job[r].token] = "live"

Closed == \A s \in over : pc[s] = "ok"

One(s) == IF s \in over THEN Worth(s) = {} ELSE \E x \in Requests : Worth(s) = {x}

Single ==
    \A s \in Requests : pc[s] = "ok" /\ job[s].kind = "login" /\ s \notin broken => One(s)

IInv == TypeOK /\ Linked /\ Used /\ Late /\ Kept /\ Closed /\ Single

-----------------------------------------------------------------------------
(* Shapes.                                                                 *)

LEMMA JobShape ==
    \A j \in Jobs : /\ j.kind \in Kinds /\ j.token \in Requests \cup {NoToken} /\ j.user \in Users
                    /\ j.session \in Requests /\ j.late \in BOOLEAN
BY DEF Jobs

LEMMA NewJob ==
    ASSUME NEW kind \in Kinds, NEW token \in Requests \cup {NoToken}, NEW user \in Users,
           NEW session \in Requests, NEW late \in BOOLEAN
    PROVE  LET j == [kind |-> kind, token |-> token, user |-> user, session |-> session,
                     late |-> late]
           IN  /\ j \in Jobs /\ j # NoJob /\ j.kind = kind /\ j.token = token /\ j.user = user
               /\ j.session = session /\ j.late = late
BY AuthAssumption DEF Jobs

\* A request that came in has a job.
LEMMA HasJob ==
    ASSUME TypeOK, NEW r \in Requests, pc[r] # "idle"
    PROVE  /\ job[r] \in Jobs /\ job[r].kind \in Kinds /\ job[r].session \in Requests
           /\ job[r].user \in Users
<1>1. job[r] \in Jobs
  BY DEF TypeOK
<1> QED BY <1>1, JobShape

LEMMA WorthShape ==
    ASSUME NEW s, NEW q
    PROVE  q \in Worth(s) <=> /\ q \in Requests /\ job[q].session = s
                              /\ \/ tokens[q] = "live"
                                 \/ pc[q] \in {"user", "save"} /\ job[q].kind = "refresh"
BY DEF Worth, At

-----------------------------------------------------------------------------
(* What a step of a request that came in may do.                           *)

\* How r may go on.
Goes(r) ==
    \/ pc'[r] = pc[r]
    \/ pc[r] \in Waiting /\ pc'[r] \in {"refused", "error"}
    \/ pc[r] = "find" /\ pc'[r] = "save" /\ job[r].kind = "login" /\ job[r].user \in active
    \/ /\ pc[r] = "find" /\ pc'[r] = "revoke" /\ job[r].kind = "refresh"
       /\ tokens[job[r].token] = "live" /\ tokens' = tokens
    \/ pc[r] = "revoke" /\ pc'[r] = "set" /\ tokens' = tokens
    \/ /\ pc[r] \in {"revoke", "set"} /\ tokens'[job[r].token] # "live"
       /\ pc'[r] = AfterRevoke(r)
    \/ pc[r] = "user" /\ pc'[r] = "save" /\ job[r].user \in active
    \/ pc[r] = "save" /\ pc'[r] = "ok"

\* The steps that are not arrivals.
Goings ==
    \/ \E r \in Requests :
        \/ LoginFinds(r) \/ RefreshFinds(r) \/ Revoke(r) \/ RevokeGets(r) \/ RevokeSets(r)
        \/ FindUser(r) \/ Save(r) \/ Fails(r) \/ SaveUnanswered(r) \/ RevokeUnanswered(r)
        \/ Forget(r) \/ Expire(r)
    \/ Restart
    \/ \E u \in Users : Deactivate(u)
    \/ UNCHANGED vars

\* What every one of them keeps.
Contract ==
    /\ job' = job /\ store' = store /\ active' \subseteq active /\ broken \subseteq broken'
    /\ pc' \in [Requests -> {"idle"} \cup Waiting \cup Answered]
    /\ tokens' \in [Requests -> {"none", "live", "revoked", "expired"}]
    /\ over' \subseteq Requests /\ broken' \subseteq Requests
    /\ \A r \in Requests : Goes(r)
    /\ \A t \in Requests : tokens[t] # "live" => tokens'[t] # "live" \/ pc[t] = "save"
    /\ \A t \in Requests : tokens'[t] # "none" => tokens[t] # "none" \/ pc'[t] \in {"ok", "error"}

\* A token that stops being live was revoked by the one request that had it, or else its
\* session is on record as broken.
Losses ==
    \A t \in Requests : tokens[t] = "live" /\ tokens'[t] # "live" =>
        \/ job[t].session \in broken'
        \/ \E r \in Requests : /\ pc[r] \in {"revoke", "set"} /\ pc'[r] \notin {"revoke", "set"}
                               /\ job[r].token = t /\ Holders(t) \ {r} = {}

LEMMA RevokedGoes ==
    ASSUME IInv, NEW r \in Requests, pc[r] \in {"revoke", "set"}, Revoked(r),
           Goto(r, AfterRevoke(r)), UNCHANGED <<store, active, job>>
    PROVE  /\ Contract /\ Losses
           /\ tokens' = [tokens EXCEPT ![job[r].token] = IF @ = "live" THEN "revoked" ELSE @]
           /\ job[r].token \in Requests /\ pc[job[r].token] = "ok"
           /\ job[job[r].token].session = job[r].session
           /\ job[r].kind # "login" /\ job[r].session \in Requests
<1> DEFINE t == job[r].token
           s == job[r].session
<1>0. /\ TypeOK /\ pc \in [Requests -> {"idle"} \cup Waiting \cup Answered]
      /\ tokens \in [Requests -> {"none", "live", "revoked", "expired"}]
      /\ over \subseteq Requests /\ broken \subseteq Requests
  BY DEF IInv, TypeOK
<1>1. job[r].kind \in Kinds /\ s \in Requests
  BY <1>0, HasJob
<1>2. job[r].kind # "login" /\ t \in Requests /\ pc[t] = "ok" /\ job[t].session = s
  BY DEF IInv, Linked
<1>3. /\ tokens' = [tokens EXCEPT ![t] = IF @ = "live" THEN "revoked" ELSE @]
      /\ over' \in {over, over \cup {s}}
      /\ broken' = IF Holders(t) \ {r} # {} THEN broken \cup {s} ELSE broken
  BY DEF Revoked
<1>4. tokens'[t] # "live" /\ \A q \in Requests \ {t} : tokens'[q] = tokens[q]
  BY <1>0, <1>2, <1>3
<1>5. /\ pc' = [pc EXCEPT ![r] = AfterRevoke(r)] /\ AfterRevoke(r) \in {"user", "ok"}
      /\ pc'[r] = AfterRevoke(r) /\ \A q \in Requests \ {r} : pc'[q] = pc[q]
  BY <1>0 DEF Goto, AfterRevoke
<1>6. \A q \in Requests : Goes(q)
  BY <1>4, <1>5 DEF Goes
<1>7. Losses
  BY <1>2, <1>3, <1>4, <1>5 DEF Losses
<1>8. /\ pc' \in [Requests -> {"idle"} \cup Waiting \cup Answered]
      /\ tokens' \in [Requests -> {"none", "live", "revoked", "expired"}]
      /\ over' \subseteq Requests /\ broken' \subseteq Requests /\ broken \subseteq broken'
  BY <1>0, <1>1, <1>3, <1>5 DEF Waiting, Answered
<1>9. \A q \in Requests : /\ tokens[q] # "live" => tokens'[q] # "live"
                          /\ tokens'[q] # "none" => tokens[q] # "none"
  BY <1>0, <1>2, <1>3
<1>10. Contract
  BY <1>6, <1>8, <1>9 DEF Contract
<1> QED BY <1>1, <1>2, <1>3, <1>7, <1>10

\* A step that moves r alone and leaves the tokens alone.
LEMMA OneGoes ==
    ASSUME IInv, NEW r \in Requests, NEW w \in Waiting \cup Answered,
           pc' = [pc EXCEPT ![r] = w], Goes(r),
           UNCHANGED <<store, active, tokens, job>>,
           over' \subseteq Requests, broken' \subseteq Requests, broken \subseteq broken'
    PROVE  Contract /\ Losses
<1>0. /\ pc \in [Requests -> {"idle"} \cup Waiting \cup Answered]
      /\ tokens \in [Requests -> {"none", "live", "revoked", "expired"}]
  BY DEF IInv, TypeOK
<1>1. \A q \in Requests \ {r} : pc'[q] = pc[q]
  BY <1>0
<1>2. \A q \in Requests : Goes(q)
  BY <1>1 DEF Goes
<1>3. pc' \in [Requests -> {"idle"} \cup Waiting \cup Answered]
  BY <1>0
<1>4. Losses
  BY DEF Losses
<1>5. Contract
  BY <1>0, <1>2, <1>3 DEF Contract
<1> QED BY <1>4, <1>5

\* A step that changes one token and moves r, with its session broken or the token saved.
LEMMA TokenGoes ==
    ASSUME IInv, NEW r \in Requests, NEW t \in Requests,
           NEW v \in {"none", "live", "revoked", "expired"}, NEW w \in Waiting \cup Answered,
           tokens' = [tokens EXCEPT ![t] = v], pc' = [pc EXCEPT ![r] = w], Goes(r),
           v = "live" => t = r /\ pc[r] = "save" /\ w \in {"ok", "error"},
           v = "live" \/ job[t].session \in broken',
           v # "live" => tokens[t] # "none",
           UNCHANGED <<store, active, job>>,
           over' \subseteq Requests, broken' \subseteq Requests, broken \subseteq broken'
    PROVE  Contract /\ Losses
<1>0. /\ pc \in [Requests -> {"idle"} \cup Waiting \cup Answered]
      /\ tokens \in [Requests -> {"none", "live", "revoked", "expired"}]
  BY DEF IInv, TypeOK
<1>1. /\ tokens'[t] = v /\ \A q \in Requests \ {t} : tokens'[q] = tokens[q]
      /\ pc'[r] = w /\ \A q \in Requests \ {r} : pc'[q] = pc[q]
  BY <1>0
<1>2. \A q \in Requests : Goes(q)
  BY <1>1 DEF Goes
<1>3. Losses
  BY <1>1 DEF Losses
<1>4. /\ pc' \in [Requests -> {"idle"} \cup Waiting \cup Answered]
      /\ tokens' \in [Requests -> {"none", "live", "revoked", "expired"}]
  BY <1>0
<1>5. \A q \in Requests : /\ tokens[q] # "live" => tokens'[q] # "live" \/ pc[q] = "save"
                          /\ tokens'[q] # "none" => tokens[q] # "none" \/ pc'[q] \in {"ok", "error"}
  BY <1>1
<1>6. Contract
  BY <1>2, <1>4, <1>5 DEF Contract
<1> QED BY <1>3, <1>6


\* Redis loses a token, or it expires.
LEMMA TokenGone ==
    ASSUME IInv, NEW t \in Requests, NEW v \in {"none", "expired"}, tokens[t] # "none",
           tokens' = [tokens EXCEPT ![t] = v], broken' = broken \cup {job[t].session},
           UNCHANGED <<store, active, pc, job, over>>
    PROVE  Contract /\ Losses
<1>0. /\ pc \in [Requests -> {"idle"} \cup Waiting \cup Answered] /\ TypeOK
      /\ tokens \in [Requests -> {"none", "live", "revoked", "expired"}]
      /\ over \subseteq Requests /\ broken \subseteq Requests
  BY DEF IInv, TypeOK
<1>1. tokens'[t] = v /\ \A q \in Requests \ {t} : tokens'[q] = tokens[q]
  BY <1>0
<1>2. pc[t] # "idle"
  BY <1>0 DEF TypeOK
<1>3. job[t].session \in Requests
  BY <1>0, <1>2, HasJob
<1>4. Losses
  BY <1>1 DEF Losses
<1>5. tokens' \in [Requests -> {"none", "live", "revoked", "expired"}]
  BY <1>0
<1>6. Contract
  BY <1>0, <1>1, <1>3, <1>5 DEF Contract, Goes
<1> QED BY <1>4, <1>6

LEMMA GoingsContract ==
    ASSUME IInv, Goings
    PROVE  Contract /\ Losses
<1>0. /\ TypeOK /\ pc \in [Requests -> {"idle"} \cup Waiting \cup Answered]
      /\ tokens \in [Requests -> {"none", "live", "revoked", "expired"}]
      /\ over \subseteq Requests /\ broken \subseteq Requests /\ active \subseteq Users
  BY DEF IInv, TypeOK
<1>1. ASSUME NEW r \in Requests, LoginFinds(r) PROVE Contract /\ Losses
  <2>1. pc[r] = "find" /\ job[r].kind = "login" /\ UNCHANGED <<store, active, tokens, job, over, broken>>
    BY <1>1 DEF LoginFinds, At
  <2>2. PICK w \in {"save", "refused"} : /\ pc' = [pc EXCEPT ![r] = w]
                                         /\ w = "save" => job[r].user \in active
    BY <1>1 DEF LoginFinds, Goto
  <2>3. Goes(r)
    BY <1>0, <2>1, <2>2 DEF Goes, Waiting
  <2>4. w \in Waiting \cup Answered
    BY <2>2 DEF Waiting, Answered
  <2> QED BY <1>0, <2>1, <2>2, <2>3, <2>4, OneGoes
<1>2. ASSUME NEW r \in Requests, RefreshFinds(r) PROVE Contract /\ Losses
  <2>1. pc[r] = "find" /\ job[r].kind = "refresh" /\ UNCHANGED <<store, active, tokens, job, over, broken>>
    BY <1>2 DEF RefreshFinds, At
  <2>2. PICK w \in {"revoke", "refused"} : /\ pc' = [pc EXCEPT ![r] = w]
                                           /\ w = "revoke" => tokens[job[r].token] = "live"
    BY <1>2 DEF RefreshFinds, Goto
  <2>3. Goes(r)
    BY <1>0, <2>1, <2>2 DEF Goes, Waiting
  <2>4. w \in Waiting \cup Answered
    BY <2>2 DEF Waiting, Answered
  <2> QED BY <1>0, <2>1, <2>2, <2>3, <2>4, OneGoes
<1>3. ASSUME NEW r \in Requests, Revoke(r) \/ RevokeSets(r) PROVE Contract /\ Losses
  BY <1>3, RevokedGoes DEF Revoke, RevokeSets
<1>4. ASSUME NEW r \in Requests, RevokeGets(r) PROVE Contract /\ Losses
  <2>1. pc[r] = "revoke" /\ UNCHANGED <<store, active, tokens, job, over, broken>>
    BY <1>4 DEF RevokeGets
  <2>2. PICK w \in {"user", "ok", "set"} :
          /\ pc' = [pc EXCEPT ![r] = w]
          /\ w = "set" \/ (tokens[job[r].token] = "none" /\ w = AfterRevoke(r))
    BY <1>4 DEF RevokeGets, Goto, AfterRevoke
  <2>3. Goes(r)
    BY <1>0, <2>1, <2>2 DEF Goes, Waiting
  <2>4. w \in Waiting \cup Answered
    BY <2>2 DEF Waiting, Answered
  <2> QED BY <1>0, <2>1, <2>2, <2>3, <2>4, OneGoes
<1>5. ASSUME NEW r \in Requests, FindUser(r) PROVE Contract /\ Losses
  <2>1. pc[r] = "user" /\ UNCHANGED <<store, active, tokens, job, broken>>
    BY <1>5 DEF FindUser
  <2>2. PICK w \in {"save", "refused"} : /\ pc' = [pc EXCEPT ![r] = w]
                                         /\ w = "save" => job[r].user \in active
    BY <1>5 DEF FindUser, Goto
  <2>3. over' \in {over, over \cup {job[r].session}} /\ job[r].session \in Requests
    BY <1>0, <1>5, <2>1, HasJob DEF FindUser
  <2>4. Goes(r)
    BY <1>0, <2>1, <2>2 DEF Goes, Waiting
  <2>5. w \in Waiting \cup Answered
    BY <2>2 DEF Waiting, Answered
  <2> QED BY <1>0, <2>1, <2>2, <2>3, <2>4, <2>5, OneGoes
<1>6. ASSUME NEW r \in Requests, Save(r) PROVE Contract /\ Losses
  <2>1. /\ pc[r] = "save" /\ pc' = [pc EXCEPT ![r] = "ok"] /\ tokens' = [tokens EXCEPT ![r] = "live"]
        /\ UNCHANGED <<store, active, job, over, broken>>
    BY <1>6 DEF Save, Goto
  <2>2. Goes(r)
    BY <1>0, <2>1 DEF Goes
  <2>3. "ok" \in Waiting \cup Answered
    BY DEF Answered
  <2> QED BY <1>0, <2>1, <2>2, <2>3, TokenGoes
<1>7. ASSUME NEW r \in Requests, Fails(r) PROVE Contract /\ Losses
  <2>1. /\ pc[r] \in Waiting /\ pc' = [pc EXCEPT ![r] = "error"]
        /\ UNCHANGED <<store, active, tokens, job, over>>
    BY <1>7 DEF Fails, Goto
  <2>2. Goes(r)
    BY <1>0, <2>1 DEF Goes
  <2>3. Breaks(r) \subseteq Requests
    BY <1>0, <2>1, HasJob DEF Breaks, Waiting
  <2>4. broken' \subseteq Requests /\ broken \subseteq broken'
    BY <1>0, <1>7, <2>3 DEF Fails
  <2>5. "error" \in Waiting \cup Answered
    BY DEF Answered
  <2> QED BY <1>0, <2>1, <2>2, <2>4, <2>5, OneGoes
<1>8. ASSUME NEW r \in Requests, SaveUnanswered(r) PROVE Contract /\ Losses
  <2>1. /\ pc[r] = "save" /\ pc' = [pc EXCEPT ![r] = "error"] /\ tokens' = [tokens EXCEPT ![r] = "live"]
        /\ UNCHANGED <<store, active, job, over>> /\ broken' = broken \cup Breaks(r)
    BY <1>8 DEF SaveUnanswered, Goto
  <2>2. Goes(r)
    BY <1>0, <2>1 DEF Goes, Waiting
  <2>3. Breaks(r) \subseteq Requests
    BY <1>0, <2>1, HasJob DEF Breaks
  <2>4. broken' \subseteq Requests /\ broken \subseteq broken'
    BY <1>0, <2>1, <2>3
  <2>5. "error" \in Waiting \cup Answered
    BY DEF Answered
  <2> QED BY <1>0, <2>1, <2>2, <2>4, <2>5, TokenGoes
<1>9. ASSUME NEW r \in Requests, RevokeUnanswered(r) PROVE Contract /\ Losses
  <2> DEFINE t == job[r].token
             v == IF tokens[t] = "live" THEN "revoked" ELSE tokens[t]
  <2>1. /\ pc[r] \in {"set", "revoke"} /\ pc' = [pc EXCEPT ![r] = "error"]
        /\ UNCHANGED <<store, active, job, over>> /\ broken' = broken \cup Breaks(r)
    BY <1>9 DEF RevokeUnanswered, Goto
  <2>2. Breaks(r) = {job[r].session} /\ pc[r] \in Waiting
    BY <2>1 DEF Breaks, Waiting
  <2>3. job[r].session \in Requests /\ job[r].kind \in Kinds
    BY <1>0, <2>1, HasJob
  <2>4. job[r].kind # "login" /\ t \in Requests /\ job[t].session = job[r].session
    BY <2>1 DEF IInv, Linked
  <2>5. tokens' = [tokens EXCEPT ![t] = v] /\ v \in {"none", "live", "revoked", "expired"} /\ v # "live"
    BY <1>0, <1>9, <2>4 DEF RevokeUnanswered
  <2>6. Goes(r)
    BY <1>0, <2>1, <2>2 DEF Goes
  <2>7. broken' \subseteq Requests /\ broken \subseteq broken' /\ job[t].session \in broken'
    BY <1>0, <2>1, <2>2, <2>3, <2>4
  <2>8. "error" \in Waiting \cup Answered
    BY DEF Answered
  <2>9. CASE tokens[t] = "none"
    <3>1. tokens' = tokens
      BY <1>0, <2>4, <2>5, <2>9
    <3> QED BY <1>0, <2>1, <2>6, <2>7, <2>8, <3>1, OneGoes
  <2>10. CASE tokens[t] # "none"
    BY <1>0, <2>1, <2>4, <2>5, <2>6, <2>7, <2>8, <2>10, TokenGoes
  <2> QED BY <2>9, <2>10
<1>10. ASSUME NEW t \in Requests, Forget(t) \/ Expire(t) PROVE Contract /\ Losses
  <2>1. CASE Forget(t)
    BY <2>1, TokenGone DEF Forget
  <2>2. CASE Expire(t)
    BY <2>2, TokenGone DEF Expire
  <2> QED BY <1>10, <2>1, <2>2
<1>11. CASE Restart
  <2>1. /\ tokens' = [t \in Requests |-> "none"] /\ broken' = Requests
        /\ pc' = [r \in Requests |-> IF pc[r] \in Waiting THEN "error" ELSE pc[r]]
        /\ UNCHANGED <<store, active, job, over>>
    BY <1>11 DEF Restart
  <2>2. \A r \in Requests : Goes(r)
    BY <2>1 DEF Goes
  <2>3. pc' \in [Requests -> {"idle"} \cup Waiting \cup Answered]
    BY <1>0, <2>1 DEF Answered
  <2>4. Losses
    <3>1. \A t \in Requests : tokens[t] = "live" => job[t].session \in Requests
      BY <1>0, HasJob DEF TypeOK
    <3> QED BY <2>1, <3>1 DEF Losses
  <2> QED BY <1>0, <2>1, <2>2, <2>3, <2>4 DEF Contract
<1>12. ASSUME NEW u \in Users, Deactivate(u) PROVE Contract /\ Losses
  BY <1>0, <1>12 DEF Deactivate, Contract, Losses, Goes
<1>13. CASE UNCHANGED vars
  BY <1>0, <1>13 DEF vars, Contract, Losses, Goes
<1> QED
  BY <1>1, <1>2, <1>3, <1>4, <1>5, <1>6, <1>7, <1>8, <1>9, <1>10, <1>11, <1>12, <1>13 DEF Goings

-----------------------------------------------------------------------------
(* What the contract preserves.                                            *)

\* A request that was answered stays answered, one that came in stays in.
LEMMA Stays ==
    ASSUME IInv, Contract, NEW r \in Requests
    PROVE  /\ pc[r] = "idle" <=> pc'[r] = "idle"
           /\ pc[r] \in Answered => pc'[r] = pc[r]
           /\ pc[r] = "ok" /\ tokens[r] # "live" => tokens'[r] # "live"
BY DEF Contract, Goes, Waiting, Answered, AfterRevoke

LEMMA GoingsType ==
    ASSUME IInv, Contract
    PROVE  TypeOK'
<1>0. TypeOK /\ Contract
  BY DEF IInv
<1>1. \A r \in Requests : pc'[r] = "idle" <=> job'[r] = NoJob
  BY <1>0, Stays DEF TypeOK, Contract
<1>2. ASSUME NEW r \in Requests, tokens'[r] # "none" PROVE pc'[r] \in {"ok", "error"}
  <2>1. tokens[r] # "none" => pc[r] \in {"ok", "error"}
    BY <1>0 DEF TypeOK
  <2> QED BY <1>0, <1>2, <2>1, Stays DEF Contract, Answered
<1> QED BY <1>0, <1>1, <1>2 DEF TypeOK, Contract

LEMMA GoingsLinked ==
    ASSUME IInv, Contract
    PROVE  Linked'
<1> SUFFICES ASSUME NEW r \in Requests, pc'[r] # "idle"
             PROVE  /\ job[r].kind = "login" => /\ job[r].session = r /\ job[r].token = NoToken
                                                /\ pc'[r] \notin {"revoke", "set", "user"}
                    /\ job[r].kind = "logout" => pc'[r] \notin {"find", "user", "save"}
                    /\ job[r].kind # "login" =>
                        /\ job[r].token \in Requests /\ pc'[job[r].token] = "ok"
                        /\ job[job[r].token].session = job[r].session
                        /\ pc'[job[r].session] = "ok" /\ job[job[r].session].kind = "login"
  BY DEF Linked, Contract
<1>0. pc[r] # "idle" /\ TypeOK /\ Goes(r)
  BY Stays DEF IInv, Contract
<1>1. job[r].kind \in Kinds /\ job[r].session \in Requests
  BY <1>0, HasJob
<1>2. /\ job[r].kind = "login" => /\ job[r].session = r /\ job[r].token = NoToken
                                  /\ pc[r] \notin {"revoke", "set", "user"}
      /\ job[r].kind = "logout" => pc[r] \notin {"find", "user", "save"}
      /\ job[r].kind # "login" =>
            /\ job[r].token \in Requests /\ pc[job[r].token] = "ok"
            /\ job[job[r].token].session = job[r].session
            /\ pc[job[r].session] = "ok" /\ job[job[r].session].kind = "login"
  BY <1>0 DEF IInv, Linked
<1>3. job[r].kind = "login" => pc'[r] \notin {"revoke", "set", "user"}
  BY <1>0, <1>2 DEF Goes, AfterRevoke
<1>4. job[r].kind = "logout" => pc'[r] \notin {"find", "user", "save"}
  BY <1>0, <1>2 DEF Goes, AfterRevoke
<1>5. job[r].kind # "login" => pc'[job[r].token] = "ok" /\ pc'[job[r].session] = "ok"
  BY <1>1, <1>2, Stays DEF Answered
<1> QED BY <1>2, <1>3, <1>4, <1>5

LEMMA GoingsUsed ==
    ASSUME IInv, Contract
    PROVE  Used'
<1> SUFFICES ASSUME NEW r \in Requests, pc'[r] \in {"user", "save", "ok"}, job[r].kind # "login"
             PROVE  tokens'[job[r].token] # "live"
  BY DEF Used, Contract
<1>0. pc[r] # "idle" /\ TypeOK /\ Goes(r)
  BY Stays DEF IInv, Contract
<1>1. job[r].token \in Requests /\ pc[job[r].token] = "ok"
  BY <1>0 DEF IInv, Linked
<1>2. CASE tokens[job[r].token] # "live"
  BY <1>1, <1>2, Stays
<1>3. CASE pc[r] \in {"user", "save", "ok"}
  <2>1. tokens[job[r].token] # "live"
    BY <1>3 DEF IInv, Used
  <2> QED BY <1>1, <2>1, Stays
<1>4. CASE pc[r] \notin {"user", "save", "ok"}
  BY <1>0, <1>4 DEF Goes
<1> QED BY <1>3, <1>4

LEMMA GoingsLate ==
    ASSUME IInv, Contract
    PROVE  Late'
<1> SUFFICES ASSUME NEW r \in Requests, pc'[r] # "idle", job[r].kind # "logout", job[r].late
             PROVE  /\ pc'[r] \notin {"save", "ok"}
                    /\ \/ job[r].user \notin active'
                       \/ /\ job[r].kind = "refresh" /\ pc'[r] \notin {"revoke", "set", "user"}
                          /\ tokens'[job[r].token] # "live"
  BY DEF Late, Contract
<1>0. pc[r] # "idle" /\ TypeOK /\ Goes(r) /\ active' \subseteq active
  BY Stays DEF IInv, Contract
<1>1. job[r].kind \in {"login", "refresh"}
  BY <1>0, HasJob DEF Kinds
<1>2. /\ pc[r] \notin {"save", "ok"}
      /\ \/ job[r].user \notin active
         \/ /\ job[r].kind = "refresh" /\ pc[r] \notin {"revoke", "set", "user"}
            /\ tokens[job[r].token] # "live"
  BY <1>0 DEF IInv, Late
<1>3. CASE job[r].user \notin active
  <2>1. pc'[r] \notin {"save", "ok"}
    BY <1>0, <1>1, <1>2, <1>3 DEF Goes, AfterRevoke, IInv, Linked
  <2> QED BY <1>0, <1>3, <2>1
<1>4. CASE /\ job[r].kind = "refresh" /\ pc[r] \notin {"revoke", "set", "user"}
           /\ tokens[job[r].token] # "live"
  <2>1. job[r].token \in Requests /\ pc[job[r].token] = "ok"
    BY <1>0, <1>4 DEF IInv, Linked
  <2>2. tokens'[job[r].token] # "live"
    BY <1>4, <2>1, Stays
  <2>3. pc'[r] \notin {"save", "ok", "revoke", "set", "user"}
    BY <1>0, <1>2, <1>4 DEF Goes
  <2> QED BY <1>4, <2>2, <2>3
<1> QED BY <1>2, <1>3, <1>4

LEMMA GoingsKept ==
    ASSUME IInv, Contract, Losses
    PROVE  Kept'
<1> SUFFICES ASSUME NEW r \in Requests, pc'[r] \in {"revoke", "set"}, job[r].kind = "refresh",
                    job[r].session \notin broken'
             PROVE  tokens'[job[r].token] = "live"
  BY DEF Kept, Contract
<1> DEFINE t == job[r].token
<1>0. pc[r] # "idle" /\ TypeOK /\ Goes(r) /\ broken \subseteq broken'
  BY Stays DEF IInv, Contract
<1>1. t \in Requests /\ job[t].session = job[r].session
  BY <1>0 DEF IInv, Linked
<1>2. pc[r] \in {"revoke", "set"} \/ (tokens[t] = "live" /\ tokens' = tokens)
  BY <1>0 DEF Goes, AfterRevoke
<1>3. CASE pc[r] \in {"revoke", "set"}
  <2>1. tokens[t] = "live"
    BY <1>0, <1>3 DEF IInv, Kept
  <2>2. ASSUME tokens'[t] # "live" PROVE FALSE
    <3>1. PICK q \in Requests : /\ pc[q] \in {"revoke", "set"} /\ pc'[q] \notin {"revoke", "set"}
                                /\ job[q].token = t /\ Holders(t) \ {q} = {}
      BY <1>1, <2>1, <2>2 DEF Losses
    <3>2. r \in Holders(t)
      BY <1>3 DEF Holders, At
    <3> QED BY <3>1, <3>2
  <2> QED BY <2>2
<1> QED BY <1>2, <1>3

-----------------------------------------------------------------------------
(* What a session is worth.                                                *)

\* Nothing that counts for s changes.
Quiet(s) ==
    /\ s \in over' <=> s \in over
    /\ \A q \in Requests : job[q].session = s =>
        /\ tokens'[q] = "live" <=> tokens[q] = "live"
        /\ job[q].kind = "refresh" => (pc'[q] \in {"user", "save"} <=> pc[q] \in {"user", "save"})

LEMMA QuietOne ==
    ASSUME Contract, NEW s \in Requests, Quiet(s), One(s)
    PROVE  One(s)'
<1>1. Worth(s)' = Worth(s)
  BY DEF Worth, At, Quiet, Contract
<1> QED BY <1>1 DEF One, Quiet

\* A step of r that touches r and tokens of its session is quiet for the other sessions.
LEMMA Elsewhere ==
    ASSUME IInv, Contract, NEW r \in Requests, NEW t \in Requests, job[t].session = job[r].session,
           \A q \in Requests \ {r} : pc'[q] = pc[q],
           \A q \in Requests \ {t} : tokens'[q] = tokens[q],
           over' \in {over, over \cup {job[r].session}},
           NEW s \in Requests, s # job[r].session
    PROVE  Quiet(s)
BY DEF Quiet

\* An open session with a token in use has that one only.
LEMMA Only ==
    ASSUME NEW s, One(s), NEW x \in Worth(s)
    PROVE  s \notin over /\ Worth(s) = {x}
BY DEF One

LEMMA RevokedSingle ==
    ASSUME IInv, Contract, NEW r \in Requests, pc[r] \in {"revoke", "set"}, Revoked(r),
           Goto(r, AfterRevoke(r)), UNCHANGED <<store, active, job>>,
           NEW s \in Requests, s \notin broken', job[s].kind = "login", pc'[s] = "ok"
    PROVE  One(s)'
<1> DEFINE t == job[r].token
<1>0. /\ TypeOK /\ pc \in [Requests -> {"idle"} \cup Waiting \cup Answered]
      /\ tokens \in [Requests -> {"none", "live", "revoked", "expired"}]
      /\ broken \subseteq broken'
  BY DEF IInv, TypeOK, Contract
<1>1. /\ tokens' = [tokens EXCEPT ![t] = IF @ = "live" THEN "revoked" ELSE @]
      /\ t \in Requests /\ pc[t] = "ok" /\ job[t].session = job[r].session
      /\ job[r].kind # "login" /\ job[r].session \in Requests
  BY RevokedGoes
<1>2. /\ tokens'[t] # "live" /\ \A q \in Requests \ {t} : tokens'[q] = tokens[q]
      /\ pc'[r] = AfterRevoke(r) /\ \A q \in Requests \ {r} : pc'[q] = pc[q]
  BY <1>0, <1>1 DEF Goto
<1>3. over' = IF job[r].kind = "logout" /\ tokens[t] = "live" THEN over \cup {job[r].session} ELSE over
  BY DEF Revoked
<1>4. s # r /\ pc[s] = "ok"
  BY <1>1, <1>2
<1>5. One(s)
  BY <1>0, <1>4 DEF IInv, Single
<1>6. CASE s # job[r].session
  BY <1>1, <1>2, <1>3, <1>5, <1>6, Elsewhere, QuietOne
<1>7. CASE s = job[r].session /\ tokens[t] = "live"
  <2>1. t \in Worth(s)
    BY <1>1, <1>7, WorthShape
  <2>2. s \notin over /\ Worth(s) = {t}
    BY <1>5, <2>1, Only
  <2>3. \A q \in Requests : job[q].session = s /\ q # t =>
            /\ tokens[q] # "live"
            /\ ~(pc[q] \in {"user", "save"} /\ job[q].kind = "refresh")
    BY <2>2, WorthShape
  <2>4. CASE job[r].kind = "logout"
    <3>1. pc'[r] = "ok" /\ s \in over'
      BY <1>2, <1>3, <1>7, <2>4 DEF AfterRevoke
    <3>2. \A q \in Requests : job[q].session = s =>
              /\ tokens'[q] # "live"
              /\ ~(pc'[q] \in {"user", "save"} /\ job[q].kind = "refresh")
      BY <1>1, <1>2, <2>3, <2>4
    <3>3. Worth(s)' = {}
      BY <3>2 DEF Worth, At, Contract
    <3> QED BY <3>1, <3>3 DEF One
  <2>5. CASE job[r].kind # "logout"
    <3>1. job[r].kind = "refresh"
      BY <1>0, <1>1, <2>5, HasJob DEF Kinds
    <3>2. pc'[r] = "user" /\ s \notin over' /\ r # t
      BY <1>1, <1>2, <1>3, <2>2, <2>5, <3>1 DEF AfterRevoke
    <3>3. \A q \in Requests : job[q].session = s =>
              /\ tokens'[q] # "live"
              /\ (pc'[q] \in {"user", "save"} /\ job[q].kind = "refresh") <=> q = r
      BY <1>1, <1>2, <2>3, <3>1, <3>2
    <3>4. Worth(s)' = {r}
      BY <1>7, <3>1, <3>2, <3>3 DEF Worth, At, Contract
    <3> QED BY <3>2, <3>4 DEF One
  <2> QED BY <2>4, <2>5
<1>8. CASE s = job[r].session /\ tokens[t] # "live"
  <2>1. job[r].kind # "refresh"
    BY <1>0, <1>8 DEF IInv, Kept
  <2>2. Quiet(s)
    BY <1>1, <1>2, <1>3, <1>8, <2>1 DEF Quiet
  <2> QED BY <1>5, <2>2, QuietOne
<1> QED BY <1>6, <1>7, <1>8

LEMMA SaveSingle ==
    ASSUME IInv, Contract, NEW r \in Requests, Save(r),
           NEW s \in Requests, s \notin broken', job[s].kind = "login", pc'[s] = "ok"
    PROVE  One(s)'
<1>0. /\ TypeOK /\ pc \in [Requests -> {"idle"} \cup Waiting \cup Answered]
      /\ tokens \in [Requests -> {"none", "live", "revoked", "expired"}]
      /\ broken \subseteq broken'
  BY DEF IInv, TypeOK, Contract
<1>1. /\ pc[r] = "save" /\ pc' = [pc EXCEPT ![r] = "ok"] /\ tokens' = [tokens EXCEPT ![r] = "live"]
      /\ UNCHANGED <<store, active, job, over, broken>>
  BY DEF Save, Goto
<1>2. /\ pc'[r] = "ok" /\ tokens'[r] = "live"
      /\ \A q \in Requests \ {r} : pc'[q] = pc[q] /\ tokens'[q] = tokens[q]
  BY <1>0, <1>1
<1>3. job[r].kind \in Kinds /\ job[r].session \in Requests
  BY <1>0, <1>1, HasJob
<1>4. CASE job[r].kind = "login" /\ s = r
  <2>1. ASSUME NEW q \in Requests, q # r, job[q].session = r, pc[q] # "idle" PROVE FALSE
    <3>1. job[q].kind # "login"
      BY <2>1 DEF IInv, Linked
    <3>2. pc[r] = "ok"
      BY <2>1, <3>1 DEF IInv, Linked
    <3> QED BY <1>1, <3>2
  <2>2. job[r].session = r
    BY <1>1, <1>4 DEF IInv, Linked
  <2>3. \A q \in Requests : job[q].session = r /\ q # r => tokens'[q] # "live"
    BY <1>0, <1>2, <2>1 DEF TypeOK
  <2>4. \A q \in Requests : job[q].session = r /\ pc'[q] \in {"user", "save"} => FALSE
    BY <1>2, <2>1
  <2>5. Worth(s)' = {r}
    BY <1>1, <1>2, <1>4, <2>2, <2>3, <2>4 DEF Worth, At
  <2>6. s \notin over'
    BY <1>1, <1>4 DEF IInv, Closed
  <2> QED BY <2>5, <2>6 DEF One
<1>5. CASE ~(job[r].kind = "login" /\ s = r)
  <2>1. s # r /\ pc[s] = "ok"
    BY <1>2, <1>5
  <2>2. One(s)
    BY <1>0, <2>1 DEF IInv, Single
  <2>3. CASE s # job[r].session
    <3>1. Quiet(s)
      BY <1>1, <1>2, <2>3 DEF Quiet
    <3> QED BY <2>2, <3>1, QuietOne
  <2>4. CASE s = job[r].session
    <3>1. job[r].kind = "refresh"
      BY <1>1, <1>3, <2>1, <2>4 DEF IInv, Linked, Kinds
    <3>2. r \in Worth(s)
      BY <1>1, <2>4, <3>1, WorthShape
    <3>3. s \notin over /\ Worth(s) = {r}
      BY <2>2, <3>2, Only
    <3>4. \A q \in Requests : job[q].session = s /\ q # r =>
            /\ tokens[q] # "live"
            /\ ~(pc[q] \in {"user", "save"} /\ job[q].kind = "refresh")
      BY <3>3, WorthShape
    <3>5. Worth(s)' = {r}
      BY <1>1, <1>2, <2>4, <3>4 DEF Worth, At
    <3> QED BY <1>1, <3>3, <3>5 DEF One
  <2> QED BY <2>3, <2>4
<1> QED BY <1>4, <1>5

LEMMA FindUserSingle ==
    ASSUME IInv, Contract, NEW r \in Requests, FindUser(r),
           NEW s \in Requests, s \notin broken, One(s)
    PROVE  One(s)'
<1>0. TypeOK /\ pc \in [Requests -> {"idle"} \cup Waiting \cup Answered]
  BY DEF IInv, TypeOK
<1>1. pc[r] = "user" /\ UNCHANGED <<store, active, tokens, job, broken>>
  BY DEF FindUser
<1>2. job[r].kind = "refresh"
  BY <1>0, <1>1, HasJob DEF IInv, Linked, Kinds
<1>3. CASE job[r].user \in active
  <2>1. pc' = [pc EXCEPT ![r] = "save"] /\ over' = over
    BY <1>3 DEF FindUser, Goto
  <2>2. Quiet(s)
    BY <1>0, <1>1, <2>1 DEF Quiet
  <2> QED BY <2>2, QuietOne
<1>4. CASE job[r].user \notin active
  <2>1. pc' = [pc EXCEPT ![r] = "refused"] /\ over' = over \cup {job[r].session}
    BY <1>4 DEF FindUser, Goto
  <2>2. pc'[r] = "refused" /\ \A q \in Requests \ {r} : pc'[q] = pc[q]
    BY <1>0, <2>1
  <2>3. CASE s # job[r].session
    <3>1. Quiet(s)
      BY <1>1, <2>1, <2>2, <2>3 DEF Quiet
    <3> QED BY <3>1, QuietOne
  <2>4. CASE s = job[r].session
    <3>1. r \in Worth(s)
      BY <1>1, <1>2, <2>4, WorthShape
    <3>2. Worth(s) = {r}
      BY <3>1, Only
    <3>3. \A q \in Requests : job[q].session = s /\ q # r =>
            /\ tokens[q] # "live"
            /\ ~(pc[q] \in {"user", "save"} /\ job[q].kind = "refresh")
      BY <3>2, WorthShape
    <3>4. tokens[r] # "live"
      BY <1>0, <1>1 DEF TypeOK
    <3>5. Worth(s)' = {}
      BY <1>1, <2>2, <3>3, <3>4 DEF Worth, At
    <3> QED BY <2>1, <2>4, <3>5 DEF One
  <2> QED BY <2>3, <2>4
<1> QED BY <1>3, <1>4

\* The steps that break a session are quiet for the others, and those of a request that has
\* only looked at its token for all.
LEMMA OthersQuiet ==
    ASSUME IInv, Contract, NEW s \in Requests, s \notin broken',
           \/ \E r \in Requests : \/ LoginFinds(r) \/ RefreshFinds(r) \/ RevokeGets(r)
                                  \/ Fails(r) \/ SaveUnanswered(r) \/ RevokeUnanswered(r)
                                  \/ Forget(r) \/ Expire(r)
           \/ Restart
           \/ \E u \in Users : Deactivate(u)
           \/ UNCHANGED vars
    PROVE  Quiet(s)
<1>0. /\ TypeOK /\ pc \in [Requests -> {"idle"} \cup Waiting \cup Answered]
      /\ tokens \in [Requests -> {"none", "live", "revoked", "expired"}]
      /\ s \notin broken
  BY DEF IInv, TypeOK, Contract
<1>1. ASSUME NEW r \in Requests, LoginFinds(r) \/ RefreshFinds(r) PROVE Quiet(s)
  <2>1. pc[r] = "find" /\ UNCHANGED <<tokens, over>>
    BY <1>1 DEF LoginFinds, RefreshFinds, At
  <2>2. /\ \A q \in Requests \ {r} : pc'[q] = pc[q]
        /\ job[r].kind = "refresh" => pc'[r] \notin {"user", "save"}
    BY <1>0, <1>1 DEF LoginFinds, RefreshFinds, At, Goto
  <2> QED BY <2>1, <2>2 DEF Quiet
<1>2. ASSUME NEW r \in Requests, RevokeGets(r) PROVE Quiet(s)
  <2>1. pc[r] = "revoke" /\ UNCHANGED <<tokens, over>>
    BY <1>2 DEF RevokeGets
  <2>2. \A q \in Requests \ {r} : pc'[q] = pc[q]
    BY <1>0, <1>2 DEF RevokeGets, Goto
  <2>3. CASE job[r].kind = "refresh" /\ job[r].session = s
    <3>1. tokens[job[r].token] = "live"
      BY <1>0, <2>1, <2>3 DEF IInv, Kept
    <3>2. pc'[r] = "set"
      BY <1>0, <1>2, <3>1 DEF RevokeGets, Goto
    <3> QED BY <2>1, <2>2, <3>2 DEF Quiet
  <2>4. CASE ~(job[r].kind = "refresh" /\ job[r].session = s)
    BY <2>1, <2>2, <2>4 DEF Quiet
  <2> QED BY <2>3, <2>4
<1>3. ASSUME NEW r \in Requests, Fails(r) PROVE Quiet(s)
  <2>1. /\ \A q \in Requests \ {r} : pc'[q] = pc[q]
        /\ pc[r] \in Waiting /\ pc'[r] = "error" /\ UNCHANGED <<tokens, over>>
        /\ broken' = broken \cup Breaks(r)
    BY <1>0, <1>3 DEF Fails, Goto
  <2>2. CASE pc[r] = "find"
    BY <2>1, <2>2 DEF Quiet
  <2>3. CASE pc[r] # "find"
    <3>1. s # job[r].session
      BY <2>1, <2>3 DEF Breaks
    <3> QED BY <2>1, <3>1 DEF Quiet
  <2> QED BY <2>2, <2>3
<1>4. ASSUME NEW r \in Requests, SaveUnanswered(r) PROVE Quiet(s)
  <2>1. /\ \A q \in Requests \ {r} : pc'[q] = pc[q] /\ tokens'[q] = tokens[q]
        /\ pc[r] = "save" /\ UNCHANGED over /\ broken' = broken \cup Breaks(r)
    BY <1>0, <1>4 DEF SaveUnanswered, Goto
  <2>2. s # job[r].session
    BY <2>1 DEF Breaks, Waiting
  <2> QED BY <2>1, <2>2 DEF Quiet
<1>5. ASSUME NEW r \in Requests, RevokeUnanswered(r) PROVE Quiet(s)
  <2>1. /\ pc[r] \in {"set", "revoke"} /\ UNCHANGED over /\ broken' = broken \cup Breaks(r)
        /\ \A q \in Requests \ {r} : pc'[q] = pc[q]
    BY <1>0, <1>5 DEF RevokeUnanswered, Goto
  <2>2. s # job[r].session
    BY <2>1 DEF Breaks, Waiting
  <2>3. job[r].token \in Requests /\ job[job[r].token].session = job[r].session
    BY <1>0, <2>1, HasJob DEF IInv, Linked
  <2>4. \A q \in Requests \ {job[r].token} : tokens'[q] = tokens[q]
    BY <1>0, <1>5 DEF RevokeUnanswered
  <2> QED BY <2>1, <2>2, <2>3, <2>4, Elsewhere
<1>6. ASSUME NEW t \in Requests, Forget(t) \/ Expire(t) PROVE Quiet(s)
  <2>1. /\ UNCHANGED <<pc, over>> /\ broken' = broken \cup {job[t].session}
        /\ \A q \in Requests \ {t} : tokens'[q] = tokens[q]
    BY <1>0, <1>6 DEF Forget, Expire
  <2> QED BY <2>1 DEF Quiet
<1>7. CASE Restart
  BY <1>7 DEF Restart
<1>8. ASSUME (\E u \in Users : Deactivate(u)) \/ UNCHANGED vars PROVE Quiet(s)
  BY <1>8 DEF Deactivate, vars, Quiet
<1> QED BY <1>1, <1>2, <1>3, <1>4, <1>5, <1>6, <1>7, <1>8

LEMMA GoingsSingle ==
    ASSUME IInv, Goings, Contract
    PROVE  Single'
<1> SUFFICES ASSUME NEW s \in Requests, pc'[s] = "ok", job[s].kind = "login", s \notin broken'
             PROVE  One(s)'
  BY DEF Single, Contract
<1>0. /\ s \notin broken /\ TypeOK /\ pc \in [Requests -> {"idle"} \cup Waiting \cup Answered]
  BY DEF Contract, IInv, TypeOK
<1>1. ASSUME NEW r \in Requests, Revoke(r) \/ RevokeSets(r) PROVE One(s)'
  BY <1>1, RevokedSingle DEF Revoke, RevokeSets
<1>2. ASSUME NEW r \in Requests, Save(r) PROVE One(s)'
  BY <1>2, SaveSingle
<1>3. ASSUME NEW r \in Requests, FindUser(r) PROVE One(s)'
  <2>1. pc[s] = "ok"
    BY <1>0, <1>3 DEF FindUser, Goto
  <2>2. One(s)
    BY <1>0, <2>1 DEF IInv, Single
  <2> QED BY <1>0, <1>3, <2>2, FindUserSingle
<1>4. ASSUME \/ \E r \in Requests : \/ LoginFinds(r) \/ RefreshFinds(r) \/ RevokeGets(r)
                                    \/ Fails(r) \/ SaveUnanswered(r) \/ RevokeUnanswered(r)
                                    \/ Forget(r) \/ Expire(r)
             \/ Restart
             \/ \E u \in Users : Deactivate(u)
             \/ UNCHANGED vars
      PROVE  One(s)'
  <2>1. pc[s] = "ok"
    <3>1. pc[s] # "idle" /\ pc[s] \notin {"revoke", "set", "user"}
      BY <1>0, Stays DEF IInv, Linked
    <3>2. ASSUME NEW r \in Requests, LoginFinds(r) \/ RefreshFinds(r) \/ Fails(r) \/ SaveUnanswered(r)
                                     \/ RevokeUnanswered(r) \/ Forget(r) \/ Expire(r)
          PROVE  pc[s] = "ok"
      BY <1>0, <3>2 DEF LoginFinds, RefreshFinds, Fails, SaveUnanswered, RevokeUnanswered,
                        Forget, Expire, Goto
    <3>3. ASSUME NEW r \in Requests, RevokeGets(r) PROVE pc[s] = "ok"
      BY <1>0, <3>1, <3>3 DEF RevokeGets, Goto
    <3>4. CASE Restart
      BY <1>0, <3>4 DEF Restart
    <3>5. ASSUME (\E u \in Users : Deactivate(u)) \/ UNCHANGED vars PROVE pc[s] = "ok"
      BY <3>5 DEF Deactivate, vars
    <3> QED BY <1>4, <3>2, <3>3, <3>4, <3>5
  <2>2. One(s)
    BY <1>0, <2>1 DEF IInv, Single
  <2>3. Quiet(s)
    BY <1>4, OthersQuiet
  <2> QED BY <2>2, <2>3, QuietOne
<1> QED BY <1>1, <1>2, <1>3, <1>4 DEF Goings

LEMMA GoingsClosed ==
    ASSUME IInv, Goings, Contract
    PROVE  Closed'
<1>0. TypeOK /\ \A s \in Requests : pc[s] = "ok" => pc'[s] = "ok"
  BY Stays DEF IInv, Answered
<1>1. over \subseteq Requests
  BY <1>0 DEF TypeOK
<1>2. CASE over' \subseteq over
  BY <1>0, <1>1, <1>2 DEF IInv, Closed
<1>3. ASSUME NEW r \in Requests, pc[r] \in {"revoke", "set", "user"},
             over' \in {over, over \cup {job[r].session}}
      PROVE  Closed'
  <2>1. job[r].kind # "login" /\ job[r].session \in Requests
    BY <1>0, <1>3, HasJob DEF IInv, Linked
  <2>2. pc[job[r].session] = "ok"
    BY <1>3, <2>1 DEF IInv, Linked
  <2> QED BY <1>0, <1>1, <1>3, <2>1, <2>2 DEF IInv, Closed
<1>4. ASSUME NEW r \in Requests, Revoke(r) \/ RevokeSets(r) \/ FindUser(r) PROVE Closed'
  <2>1. pc[r] \in {"revoke", "set", "user"} /\ over' \in {over, over \cup {job[r].session}}
    BY <1>4 DEF Revoke, RevokeSets, FindUser, Revoked
  <2> QED BY <1>3, <2>1
<1>5. ASSUME NEW r \in Requests, \/ LoginFinds(r) \/ RefreshFinds(r) \/ RevokeGets(r) \/ Save(r)
                                 \/ Fails(r) \/ SaveUnanswered(r) \/ RevokeUnanswered(r)
                                 \/ Forget(r) \/ Expire(r)
      PROVE  over' = over
  BY <1>5 DEF LoginFinds, RefreshFinds, RevokeGets, Save, Fails, SaveUnanswered,
              RevokeUnanswered, Forget, Expire
<1>6. ASSUME Restart \/ (\E u \in Users : Deactivate(u)) \/ UNCHANGED vars PROVE over' = over
  BY <1>6 DEF Restart, Deactivate, vars
<1> QED BY <1>2, <1>4, <1>5, <1>6 DEF Goings

LEMMA GoingsIInv == ASSUME IInv, Goings PROVE IInv'
BY GoingsContract, GoingsType, GoingsLinked, GoingsUsed, GoingsLate, GoingsKept, GoingsClosed,
   GoingsSingle DEF IInv

-----------------------------------------------------------------------------
(* Arrivals.                                                               *)

LEMMA ArrivalIInv ==
    ASSUME IInv, NEW r \in Requests, NEW kind \in Kinds, NEW token \in Requests \cup {NoToken},
           NEW user \in Users, NEW session \in Requests, NEW late \in BOOLEAN,
           Arrives(r, kind, token, user, session, late),
           kind = "login" => session = r /\ token = NoToken /\ (late => user \notin active),
           kind # "login" =>
               /\ token \in Requests /\ pc[token] = "ok" /\ job[token].session = session
               /\ pc[session] = "ok" /\ job[session].kind = "login"
               /\ late => user \notin active \/ tokens[token] # "live"
    PROVE  IInv'
<1> DEFINE j == [kind |-> kind, token |-> token, user |-> user, session |-> session,
                 late |-> late]
           w == IF kind = "logout" THEN "revoke" ELSE "find"
<1>0. /\ TypeOK /\ pc \in [Requests -> {"idle"} \cup Waiting \cup Answered]
      /\ tokens \in [Requests -> {"none", "live", "revoked", "expired"}]
      /\ job \in [Requests -> Jobs \cup {NoJob}] /\ over \subseteq Requests
  BY DEF IInv, TypeOK
<1>1. /\ pc[r] = "idle" /\ job' = [job EXCEPT ![r] = j] /\ pc' = [pc EXCEPT ![r] = w]
      /\ UNCHANGED <<store, active, tokens, over, broken>>
  BY DEF Arrives
<1>2. /\ j \in Jobs /\ j # NoJob /\ j.kind = kind /\ j.token = token /\ j.user = user
      /\ j.session = session /\ j.late = late
  BY NewJob
<1>3. /\ job'[r] = j /\ pc'[r] = w /\ w \in {"find", "revoke"}
      /\ \A q \in Requests \ {r} : job'[q] = job[q] /\ pc'[q] = pc[q]
  BY <1>0, <1>1
<1>4. tokens[r] = "none"
  BY <1>0, <1>1 DEF TypeOK
<1>5. TypeOK'
  <2>1. job' \in [Requests -> Jobs \cup {NoJob}]
    BY <1>0, <1>1, <1>2
  <2>2. pc' \in [Requests -> {"idle"} \cup Waiting \cup Answered]
    BY <1>0, <1>1 DEF Waiting
  <2>3. \A q \in Requests : pc'[q] = "idle" <=> job'[q] = NoJob
    BY <1>0, <1>2, <1>3 DEF TypeOK
  <2>4. \A q \in Requests : tokens'[q] # "none" => pc'[q] \in {"ok", "error"}
    BY <1>0, <1>1, <1>3, <1>4 DEF TypeOK
  <2> QED BY <1>0, <1>1, <2>1, <2>2, <2>3, <2>4 DEF TypeOK
<1>6. Linked'
  <2> SUFFICES ASSUME NEW q \in Requests, pc'[q] # "idle"
               PROVE  /\ job'[q].kind = "login" =>
                          /\ job'[q].session = q /\ job'[q].token = NoToken
                          /\ pc'[q] \notin {"revoke", "set", "user"}
                      /\ job'[q].kind = "logout" => pc'[q] \notin {"find", "user", "save"}
                      /\ job'[q].kind # "login" =>
                          /\ job'[q].token \in Requests /\ pc'[job'[q].token] = "ok"
                          /\ job'[job'[q].token].session = job'[q].session
                          /\ pc'[job'[q].session] = "ok" /\ job'[job'[q].session].kind = "login"
    BY DEF Linked
  <2>1. CASE q = r
    <3>1. kind # "login" => token # r /\ session # r
      BY <1>1
    <3> QED BY <1>2, <1>3, <2>1, <3>1
  <2>2. CASE q # r
    <3>1. job'[q] = job[q] /\ pc'[q] = pc[q]
      BY <1>3, <2>2
    <3>2. /\ job[q].kind = "login" => /\ job[q].session = q /\ job[q].token = NoToken
                                      /\ pc[q] \notin {"revoke", "set", "user"}
          /\ job[q].kind = "logout" => pc[q] \notin {"find", "user", "save"}
          /\ job[q].kind # "login" =>
                /\ job[q].token \in Requests /\ pc[job[q].token] = "ok"
                /\ job[job[q].token].session = job[q].session
                /\ pc[job[q].session] = "ok" /\ job[job[q].session].kind = "login"
      BY <2>2, <3>1 DEF IInv, Linked
    <3>3. job[q].session \in Requests
      BY <1>0, <2>2, <3>1, HasJob
    <3>4. job[q].kind # "login" => job[q].token # r /\ job[q].session # r
      BY <1>1, <3>2
    <3> QED BY <1>3, <3>1, <3>2, <3>3, <3>4
  <2> QED BY <2>1, <2>2
<1>7. Used' /\ Kept'
  <2>1. \A q \in Requests : pc'[q] \in {"user", "save", "ok", "set"} => q # r
    BY <1>3
  <2>2. kind = "logout" \/ pc'[r] # "revoke"
    BY <1>3
  <2>3. Used'
    BY <1>1, <1>3, <2>1 DEF Used, IInv
  <2>4. Kept'
    BY <1>1, <1>2, <1>3, <2>1, <2>2 DEF Kept, IInv
  <2> QED BY <2>3, <2>4
<1>8. Late'
  <2> SUFFICES ASSUME NEW q \in Requests, pc'[q] # "idle", job'[q].kind # "logout", job'[q].late
               PROVE  /\ pc'[q] \notin {"save", "ok"}
                      /\ \/ job'[q].user \notin active
                         \/ /\ job'[q].kind = "refresh" /\ pc'[q] \notin {"revoke", "set", "user"}
                            /\ tokens[job'[q].token] # "live"
    BY <1>1 DEF Late
  <2>1. CASE q = r
    BY <1>2, <1>3, <2>1 DEF Kinds
  <2>2. CASE q # r
    BY <1>3, <2>2 DEF IInv, Late
  <2> QED BY <2>1, <2>2
<1>9. Closed'
  BY <1>0, <1>1, <1>3 DEF IInv, Closed
<1>10. Single'
  <2> SUFFICES ASSUME NEW s \in Requests, pc'[s] = "ok", job'[s].kind = "login", s \notin broken
               PROVE  One(s)'
    BY <1>1 DEF Single
  <2>1. s # r /\ One(s)
    BY <1>3 DEF IInv, Single
  <2>2. \A q \in Requests : q \in Worth(s)' <=> q \in Worth(s)
    <3>1. r \notin Worth(s)'
      BY <1>1, <1>3, <1>4 DEF Worth, At
    <3>2. r \notin Worth(s)
      BY <1>1, <1>4 DEF Worth, At
    <3>3. \A q \in Requests \ {r} : q \in Worth(s)' <=> q \in Worth(s)
      BY <1>1, <1>3 DEF Worth, At
    <3> QED BY <3>1, <3>2, <3>3
  <2>3. Worth(s)' = Worth(s)
    <3>1. Worth(s) \subseteq Requests /\ Worth(s)' \subseteq Requests
      BY DEF Worth, At
    <3> QED BY <2>2, <3>1
  <2> QED BY <1>1, <2>1, <2>3 DEF One
<1> QED BY <1>5, <1>6, <1>7, <1>8, <1>9, <1>10 DEF IInv

LEMMA PresentIInv ==
    ASSUME IInv, NEW r \in Requests, NEW kind \in {"refresh", "logout"}, Present(r, kind)
    PROVE  IInv'
<1>0. TypeOK
  BY DEF IInv
<1>1. PICK t \in HandedOut :
        Arrives(r, kind, t, job[t].user, job[t].session, Spent(t) \/ job[t].user \notin active)
  BY DEF Present
<1> DEFINE late == Spent(t) \/ job[t].user \notin active
<1>2. t \in Requests /\ pc[t] = "ok" /\ job[t].kind # "logout"
  BY <1>1 DEF HandedOut
<1>3. job[t].user \in Users /\ job[t].session \in Requests /\ job[t].kind \in Kinds
  BY <1>0, <1>2, HasJob
<1>4. pc[job[t].session] = "ok" /\ job[job[t].session].kind = "login"
  <2>1. CASE job[t].kind = "login"
    BY <1>2, <2>1 DEF IInv, Linked
  <2>2. CASE job[t].kind # "login"
    BY <1>2, <2>2 DEF IInv, Linked
  <2> QED BY <2>1, <2>2
<1>5. ASSUME Spent(t) PROVE tokens[t] # "live"
  <2>1. PICK q \in Requests : pc[q] = "ok" /\ job[q].token = t
    BY <1>5 DEF Spent
  <2>2. CASE job[q].kind # "login"
    BY <2>1, <2>2 DEF IInv, Used
  <2>3. CASE job[q].kind = "login"
    <3>1. job[q].token = NoToken
      BY <2>1, <2>3 DEF IInv, Linked
    <3> QED BY <1>2, <2>1, <3>1, AuthAssumption
  <2> QED BY <2>2, <2>3
<1>6. late \in BOOLEAN /\ kind \in Kinds /\ kind # "login"
      /\ (late => job[t].user \notin active \/ tokens[t] # "live")
  BY <1>5 DEF Kinds, Spent
<1>7. Arrives(r, kind, t, job[t].user, job[t].session, late)
  BY <1>1
<1> HIDE DEF late
<1> QED BY <1>2, <1>3, <1>4, <1>6, <1>7, ArrivalIInv

LEMMA StepKeepsIInv ==
    ASSUME IInv, [Next]_vars
    PROVE  IInv'
<1>1. ASSUME NEW r \in Requests, Login(r) PROVE IInv'
  <2>1. PICK u \in Users : Arrives(r, "login", NoToken, u, r, u \notin active)
    BY <1>1 DEF Login
  <2>2. (u \notin active) \in BOOLEAN /\ "login" \in Kinds /\ NoToken \in Requests \cup {NoToken}
    BY DEF Kinds
  <2> QED BY <2>1, <2>2, ArrivalIInv
<1>2. ASSUME NEW r \in Requests, Present(r, "refresh") \/ Present(r, "logout") PROVE IInv'
  BY <1>2, PresentIInv
<1>3. CASE Goings
  BY <1>3, GoingsIInv
<1> QED BY <1>1, <1>2, <1>3 DEF Next, Goings

LEMMA InitIInv == Init => IInv
<1> SUFFICES ASSUME Init PROVE IInv
  OBVIOUS
<1>1. TypeOK
  BY DEF Init, TypeOK
<1>2. \A r \in Requests : pc[r] = "idle"
  BY DEF Init
<1>3. Linked /\ Used /\ Late /\ Kept /\ Closed /\ Single
  BY <1>2 DEF Linked, Used, Late, Kept, Closed, Single, Init
<1> QED BY <1>1, <1>3 DEF IInv

LEMMA SpecIInv == Spec => []IInv
BY InitIInv, StepKeepsIInv, PTL DEF Spec

-----------------------------------------------------------------------------
(* The theorems.                                                           *)

\* Every variable keeps its type, and only a request that came in has saved a token.
THEOREM TypeCorrect == Spec => []TypeOK
<1>1. IInv => TypeOK
  BY DEF IInv
<1> QED BY <1>1, SpecIInv, PTL

\* A refresh token that a Refresh or a Logout was answered for is never good for another
\* token, and a user who was deactivated gets none, whatever the store and the failures.
THEOREM LateIsRefused == Spec => []LateRefused
<1>1. IInv => LateRefused
  <2> SUFFICES ASSUME IInv, NEW r \in Requests, pc[r] = "ok", job[r].kind # "logout", job[r].late
               PROVE  FALSE
    <3>1. ASSUME IInv, NEW r \in Requests, pc[r] = "ok" PROVE job[r].late \in BOOLEAN
      BY <3>1, HasJob, JobShape DEF IInv
    <3> QED BY <3>1 DEF LateRefused
  <2> QED BY DEF IInv, Late
<1> QED BY <1>1, SpecIInv, PTL

\* A session nothing went wrong in is worth one token, or none once it is closed, however many
\* times it was refreshed and however its requests and those of other sessions interleave.
THEOREM SessionHasOneToken == Spec => []OneToken
<1>1. IInv => OneToken
  <2> SUFFICES ASSUME IInv, NEW s \in At("login", {"ok"}) \ broken
               PROVE  Cardinality(Worth(s)) = IF s \in over THEN 0 ELSE 1
    BY DEF OneToken
  <2>1. One(s)
    BY DEF IInv, Single, At
  <2> QED BY <2>1, FS_EmptySet, FS_Singleton DEF One
<1> QED BY <1>1, SpecIInv, PTL

=============================================================================
