------------------------ MODULE NotificationDispatch ------------------------
(***************************************************************************)
(* notification-svc, from a request to its delivery: the API writes rows   *)
(* of the notifications table, each instance's dispatcher claims the rows  *)
(* that are due in batches, and its workers render, send and record.       *)
(*                                                                         *)
(* A worker holds the row it claimed in memory until it records; Retry and *)
(* Cancel check the row they read and then write whatever is there.  An    *)
(* instance may stop (its context dies, main does not wait for the         *)
(* workers) or die at any step.                                            *)
(***************************************************************************)
EXTENDS Naturals, FiniteSets

CONSTANTS
    Notifications,  \* the Send requests, each the id of the row it may create
    Key,            \* Key[n]: the idempotency key of n, or "none"
    MaxRetries,     \* MaxRetries[n]: max_retries of n
    Templates,      \* templates that may be created
    TemplatesOf,    \* TemplatesOf[n]: those with the template_code of n; {}: n has none
    Changes,        \* calls of Retry and Cancel
    Asked,          \* Asked[c]: what call c asks for
    Dispatchers,    \* instances of the service, each with a dispatcher
    Workers,        \* workers of an instance (WORKER_COUNT)
    BatchSize       \* rows of a claim (WORKER_BATCH_SIZE)

ASSUME DispatchAssumption ==
    /\ Notifications \cap Changes = {}
    /\ MaxRetries \in [Notifications -> Nat \ {0}]
    /\ TemplatesOf \in [Notifications -> SUBSET Templates]
    /\ Asked \in [Changes -> [kind : {"retry", "cancel"}, id : Notifications]]
    /\ Workers \in Nat \ {0}
    /\ BatchSize \in Nat \ {0}

Statuses == {"PENDING", "PROCESSING", "SENT", "FAILED", "RETRYING", "CANCELLED"}

Claimable == {"PENDING", "RETRYING"}

Absent == [status |-> "none", retries |-> 0]

TableRows == {Absent} \cup [status : Statuses, retries : Nat]

\* A claimed row on its way: queued for a worker, being rendered, perhaps for ever, or delivered,
\* or delivered or not and about to be recorded.  no tells the claims of a notification apart.
Steps == {"queued", "render", "hung", "deliver", "sent", "failed", "unrendered"}

WorkerJobs == [id : Notifications, no : Nat, retries : Nat, inst : Dispatchers, step : Steps]

VARIABLES
    table,       \* the notifications table
    templates,   \* templates[t]: the row of t, with a body that parses or one that does not
    phase,       \* where a Send, Retry or Cancel stands
    jobs,        \* what the dispatchers have claimed and not recorded
    up,          \* up[i]: is instance i up, stopping or down
    claims,      \* claims[n]: how often n was claimed
    deliveries,  \* deliveries[n]: how often n reached its recipient
    misreports,  \* misreports[n]: how many of these were reported as failures
    resets,      \* resets[n]: how often a Retry queued n again
    lost         \* the notifications whose claim or outcome got lost

history == <<claims, deliveries, misreports, resets>>

dispatchVars == <<table, templates, phase, jobs, up, history, lost>>

\* A Send comes by HTTP or as a message from NATS; a message that is delivered again because
\* its Send failed is another Send.
Requests == Notifications \cup Changes

\* Type invariant; no row counts more attempts than it is allowed.
DispatchTypeOK ==
    /\ table \in [Notifications -> TableRows]
    /\ \A n \in Notifications : table[n].retries <= MaxRetries[n]
    /\ templates \in [Templates -> {"none", "sound", "broken", "deleted"}]
    /\ phase \in [Requests -> {"idle", "lookup", "insert", "read", "write", "done"}]
    /\ jobs \subseteq WorkerJobs
    /\ up \in [Dispatchers -> {"up", "stopping", "down"}]
    /\ claims \in [Notifications -> Nat]
    /\ deliveries \in [Notifications -> Nat]
    /\ misreports \in [Notifications -> Nat]
    /\ resets \in [Notifications -> Nat]
    /\ lost \subseteq Notifications

DispatchInit ==
    /\ table = [n \in Notifications |-> Absent]
    /\ templates = [t \in Templates |-> "none"]
    /\ phase = [r \in Requests |-> "idle"]
    /\ jobs = {}
    /\ up = [i \in Dispatchers |-> "up"]
    /\ claims = [n \in Notifications |-> 0]
    /\ deliveries = [n \in Notifications |-> 0]
    /\ misreports = [n \in Notifications |-> 0]
    /\ resets = [n \in Notifications |-> 0]
    /\ lost = {}

-----------------------------------------------------------------------------
(* The API. *)

Proceed(r, where) == phase' = [phase EXCEPT ![r] = where]

\* The caller gets the notification or an error.
Answer(r) == Proceed(r, "done")

\* UpdateStatus: an UPDATE by id, whatever the row holds.
UpdateStatus(n, status) == table' = [table EXCEPT ![n].status = status]

Arrive(r) ==
    /\ phase[r] = "idle"
    /\ \/ r \in Changes /\ Proceed(r, "read")
       \/ r \in Notifications /\ Key[r] # "none" /\ Proceed(r, "lookup")
       \/ r \in Notifications /\ Key[r] = "none" /\ Proceed(r, "insert")
    /\ UNCHANGED <<table, templates, jobs, up, history, lost>>

\* The row with the idempotency key of n, if any.
SameKey(n) == {m \in Notifications : table[m] # Absent /\ Key[n] # "none" /\ Key[m] = Key[n]}

\* Send, GetByIdempotencyKey: a row with the key is the answer.
SendLookup(n) ==
    /\ phase[n] = "lookup"
    /\ \/ SameKey(n) = {} /\ Proceed(n, "insert")
       \/ SameKey(n) # {} /\ Answer(n)
    /\ UNCHANGED <<table, templates, jobs, up, history, lost>>

\* Send, Create: refused by the unique index when another Send with the key was faster.
SendInsert(n) ==
    /\ phase[n] = "insert"
    /\ \/ /\ SameKey(n) = {}
          /\ table' = [table EXCEPT ![n] = [status |-> "PENDING", retries |-> 0]]
          /\ Answer(n)
       \/ /\ SameKey(n) # {}
          /\ Answer(n)
          /\ UNCHANGED table
    /\ UNCHANGED <<templates, jobs, up, history, lost>>

\* No such notification; a Retry also refuses what is cancelled, a Cancel all but what waits.
Refused(c) ==
    LET status == table[Asked[c].id].status
    IN  \/ Asked[c].kind = "retry" /\ status \in {"none", "CANCELLED"}
        \/ Asked[c].kind = "cancel" /\ status \notin Claimable

\* Mutation of CallRead: a Retry takes what is cancelled, too.
CallReadRetriesAll(c) ==
    /\ phase[c] = "read"
    /\ \/ Refused(c) /\ Asked[c].kind = "cancel" /\ Answer(c)
       \/ table[Asked[c].id] = Absent /\ Answer(c)
       \/ Asked[c].kind = "retry" /\ table[Asked[c].id] # Absent /\ Proceed(c, "write")
       \/ ~Refused(c) /\ Proceed(c, "write")
    /\ UNCHANGED <<table, templates, jobs, up, history, lost>>

\* Retry and Cancel: GetByID and the check of its status.
CallRead(c) ==
    /\ phase[c] = "read"
    /\ \/ Refused(c) /\ Answer(c)
       \/ ~Refused(c) /\ Proceed(c, "write")
    /\ UNCHANGED <<table, templates, jobs, up, history, lost>>

\* Retry, UpdateStatus: queued again, with all its attempts.
RetryTakes(c) ==
    /\ Asked[c].kind = "retry"
    /\ table' = [table EXCEPT ![Asked[c].id] = [status |-> "PENDING", retries |-> 0]]
    /\ resets' = [resets EXCEPT ![Asked[c].id] = @ + 1]

\* Cancel, UpdateStatus.
CancelTakes(c) ==
    /\ Asked[c].kind = "cancel"
    /\ UpdateStatus(Asked[c].id, "CANCELLED")
    /\ UNCHANGED resets

CallWrite(c) ==
    /\ phase[c] = "write"
    /\ RetryTakes(c) \/ CancelTakes(c)
    /\ Answer(c)
    /\ UNCHANGED <<templates, jobs, up, claims, deliveries, misreports, lost>>

\* A statement of a request fails, the writes perhaps after they took effect.
RequestFails(r) ==
    /\ phase[r] \notin {"idle", "done"}
    /\ \/ /\ phase[r] = "insert" /\ SameKey(r) = {}
          /\ table' = [table EXCEPT ![r] = [status |-> "PENDING", retries |-> 0]]
          /\ UNCHANGED resets
       \/ phase[r] = "write" /\ (RetryTakes(r) \/ CancelTakes(r))
       \/ UNCHANGED <<table, resets>>
    /\ Answer(r)
    /\ UNCHANGED <<templates, jobs, up, claims, deliveries, misreports, lost>>

-----------------------------------------------------------------------------
(* Templates. *)

\* The body is stored as it comes, whether it parses or not.
Bodies == {"sound", "broken"}

SetTemplate(t, state) ==
    /\ templates' = [templates EXCEPT ![t] = state]
    /\ UNCHANGED <<table, phase, jobs, up, history, lost>>

CreateTemplate(t) == templates[t] = "none" /\ \E body \in Bodies : SetTemplate(t, body)

\* Update; of one that is deleted it changes what nobody reads.
UpdateTemplate(t) == templates[t] \in Bodies /\ \E body \in Bodies : SetTemplate(t, body)

\* SoftDelete: not active any more, for good.
DeleteTemplate(t) == templates[t] \in Bodies /\ SetTemplate(t, "deleted")

-----------------------------------------------------------------------------
(* The dispatcher. *)

Queued(i) == {j \in jobs : j.inst = i /\ j.step = "queued"}

Busy(i) == {j \in jobs : j.inst = i /\ j.step # "queued"}

\* Mutation of Batches: only what is new is claimed.
BatchesPending == {B \in SUBSET {n \in Notifications : table[n].status = "PENDING"} :
                       B # {} /\ Cardinality(B) <= BatchSize}

\* What a claim may take: some of the rows that wait (others are not due, or locked by
\* another claim).
Batches == {B \in SUBSET {n \in Notifications : table[n].status \in Claimable} :
                B # {} /\ Cardinality(B) <= BatchSize}

MarkProcessing(B) ==
    /\ table' = [n \in Notifications |->
                   IF n \in B THEN [table[n] EXCEPT !.status = "PROCESSING"] ELSE table[n]]
    /\ claims' = [n \in Notifications |-> IF n \in B THEN claims[n] + 1 ELSE claims[n]]

\* The jobs of a batch that instance i has claimed.
JobsOf(i, B) ==
    {[id |-> n, no |-> claims[n] + 1, retries |-> table[n].retries, inst |-> i,
      step |-> "queued"] : n \in B}

\* The last poll has handed all it claimed to the channel, which holds twice the workers.
MayPoll(i) == up[i] = "up" /\ Cardinality(Queued(i)) <= 2 * Workers

\* Mutation of Poll: the rows are locked while they are read and not marked.
PollLocksOnly(i) ==
    /\ MayPoll(i)
    /\ \E B \in Batches :
          /\ jobs' = jobs \cup JobsOf(i, B)
          /\ claims' = [n \in Notifications |-> IF n \in B THEN claims[n] + 1 ELSE claims[n]]
    /\ UNCHANGED <<table, templates, phase, up, deliveries, misreports, resets, lost>>

\* poll: ClaimPending marks a batch PROCESSING in one transaction and hands it to the workers.
Poll(i) ==
    /\ MayPoll(i)
    /\ \E B \in Batches : MarkProcessing(B) /\ jobs' = jobs \cup JobsOf(i, B)
    /\ UNCHANGED <<templates, phase, up, deliveries, misreports, resets, lost>>

\* The transaction commits but the instance does not learn of it: nobody has the batch.
PollFails(i) ==
    /\ MayPoll(i)
    /\ \E B \in Batches : MarkProcessing(B) /\ lost' = lost \cup B
    /\ UNCHANGED <<templates, phase, jobs, up, deliveries, misreports, resets>>

Move(j, step) == jobs' = (jobs \ {j}) \cup {[j EXCEPT !.step = step]}

\* A worker that is free takes a job; process starts.
Take(j) ==
    /\ j.step = "queued"
    /\ up[j.inst] # "down"
    /\ Cardinality(Busy(j.inst)) < Workers
    /\ Move(j, "render")
    /\ UNCHANGED <<table, templates, phase, up, history, lost>>

\* GetByCode: the rows with the template_code of n that are active; any of them may be first,
\* as their ids are random.
Serving(n) == {t \in TemplatesOf[n] : templates[t] \in {"sound", "broken"}}

\* render: the payload as it is, or the body of a template that parses; otherwise nothing is
\* sent.
Render(j) ==
    /\ j.step = "render"
    /\ up[j.inst] # "down"
    /\ \/ TemplatesOf[j.id] = {} /\ Move(j, "deliver")
       \/ TemplatesOf[j.id] # {} /\ Serving(j.id) = {} /\ Move(j, "unrendered")
       \/ \E t \in Serving(j.id) :
             Move(j, IF templates[t] = "sound" THEN "deliver" ELSE "unrendered")
    /\ UNCHANGED <<table, templates, phase, up, history, lost>>

\* GetByCode fails, or the template does not execute with the variables of the notification;
\* either counts as a template that is no good.
RenderFails(j) ==
    /\ j.step = "render"
    /\ up[j.inst] # "down"
    /\ TemplatesOf[j.id] # {}
    /\ Move(j, "unrendered")
    /\ UNCHANGED <<table, templates, phase, up, history, lost>>

\* Execute does not return: nothing limits how long a template that parses may run, and the
\* worker is lost until the process ends.
RenderHangs(j) ==
    /\ j.step = "render"
    /\ up[j.inst] # "down"
    /\ \E t \in Serving(j.id) : templates[t] = "sound"
    /\ Move(j, "hung")
    /\ UNCHANGED <<table, templates, phase, up, history, lost>>

\* The provider's Send succeeds.
Deliver(j) ==
    /\ j.step = "deliver"
    /\ up[j.inst] # "down"
    /\ deliveries' = [deliveries EXCEPT ![j.id] = @ + 1]
    /\ Move(j, "sent")
    /\ UNCHANGED <<table, templates, phase, up, claims, misreports, resets, lost>>

\* It fails.  A webhook that timed out may have reached its recipient.
DeliverFails(j) ==
    /\ j.step = "deliver"
    /\ up[j.inst] # "down"
    /\ \/ /\ deliveries' = [deliveries EXCEPT ![j.id] = @ + 1]
          /\ misreports' = [misreports EXCEPT ![j.id] = @ + 1]
       \/ UNCHANGED <<deliveries, misreports>>
    /\ Move(j, "failed")
    /\ UNCHANGED <<table, templates, phase, up, claims, resets, lost>>

\* Mutation of Outcome: the limit of attempts is one too high.
OutcomeLate(j) ==
    CASE j.step = "sent" -> [table[j.id] EXCEPT !.status = "SENT"]
      [] j.step = "unrendered" -> [table[j.id] EXCEPT !.status = "FAILED"]
      [] j.step = "failed" ->
            [status |-> IF j.retries >= MaxRetries[j.id] THEN "FAILED" ELSE "RETRYING",
             retries |-> j.retries + 1]

\* The row as the worker records it: markRetryOrFailed counts from the row it claimed.
Outcome(j) ==
    CASE j.step = "sent" -> [table[j.id] EXCEPT !.status = "SENT"]
      [] j.step = "unrendered" -> [table[j.id] EXCEPT !.status = "FAILED"]
      [] j.step = "failed" ->
            [status |-> IF j.retries + 1 >= MaxRetries[j.id] THEN "FAILED" ELSE "RETRYING",
             retries |-> j.retries + 1]

\* UpdateStatus at the end of process.
Record(j) ==
    /\ j.step \in {"sent", "failed", "unrendered"}
    /\ up[j.inst] = "up"
    /\ table' = [table EXCEPT ![j.id] = Outcome(j)]
    /\ jobs' = jobs \ {j}
    /\ UNCHANGED <<templates, phase, up, history, lost>>

\* It fails, and that is only logged.  When the context is dead it always does.
RecordFails(j) ==
    /\ j.step \in {"sent", "failed", "unrendered"}
    /\ up[j.inst] # "down"
    /\ jobs' = jobs \ {j}
    /\ lost' = lost \cup {j.id}
    /\ UNCHANGED <<table, templates, phase, up, history>>

\* SIGTERM: main cancels the context, and the batch that poll was handing over is dropped
\* from some point on.
Stop(i) ==
    /\ up[i] = "up"
    /\ up' = [up EXCEPT ![i] = "stopping"]
    /\ \E dropped \in SUBSET Queued(i) :
          /\ jobs' = jobs \ dropped
          /\ lost' = lost \cup {j.id : j \in dropped}
    /\ UNCHANGED <<table, templates, phase, history>>

\* The process ends: after a crash, or because main returns once the HTTP server has shut
\* down, whatever the workers are at.
Exit(i) ==
    /\ up[i] # "down"
    /\ up' = [up EXCEPT ![i] = "down"]
    /\ jobs' = {j \in jobs : j.inst # i}
    /\ lost' = lost \cup {j.id : j \in {k \in jobs : k.inst = i}}
    /\ UNCHANGED <<table, templates, phase, history>>

StartUp(i) ==
    /\ up[i] = "down"
    /\ up' = [up EXCEPT ![i] = "up"]
    /\ UNCHANGED <<table, templates, phase, jobs, history, lost>>

-----------------------------------------------------------------------------
Handle(r) ==
    \/ Arrive(r)
    \/ r \in Notifications /\ (SendLookup(r) \/ SendInsert(r))
    \/ r \in Changes /\ (CallRead(r) \/ CallWrite(r))
    \/ RequestFails(r)

Process(j) ==
    \/ Take(j)
    \/ Render(j)
    \/ RenderFails(j)
    \/ RenderHangs(j)
    \/ Deliver(j)
    \/ DeliverFails(j)
    \/ Record(j)
    \/ RecordFails(j)

DispatchNext ==
    \/ \E r \in Requests : Handle(r)
    \/ \E t \in Templates : CreateTemplate(t) \/ UpdateTemplate(t) \/ DeleteTemplate(t)
    \/ \E i \in Dispatchers : Poll(i) \/ PollFails(i) \/ Stop(i) \/ Exit(i) \/ StartUp(i)
    \/ \E j \in jobs : Process(j)

\* The ticker fires and workers run as long as the instance is up; every call of a worker ends
\* (the webhook has a timeout, the database answers or fails) but for a template that hangs.
\* Nothing is assumed of requests, stops and starts.
DispatchSpec ==
    /\ DispatchInit /\ [][DispatchNext]_dispatchVars
    /\ \A i \in Dispatchers :
          /\ WF_dispatchVars(Poll(i))
          /\ WF_dispatchVars(\E j \in jobs : j.inst = i /\ Process(j))

-----------------------------------------------------------------------------
\* Somebody holds n in memory.
Live(n) == \E j \in jobs : j.id = n

RetryUnderway(n) ==
    \E c \in Changes : Asked[c] = [kind |-> "retry", id |-> n] /\ phase[c] = "write"

\* Safety: a recipient is reached once, whatever the dispatchers of all instances do, and
\* once more at most for each Retry and for each delivery that was reported as a failure.
DeliveriesAccounted ==
    \A n \in Notifications : deliveries[n] <= 1 + resets[n] + misreports[n]

\* Safety: a notification is attempted max_retries times, and as often again after each Retry,
\* however the workers' writes of retry_count and the Retry's reset are interleaved; and one
\* that needs no template is not given up before.
AttemptsBounded ==
    \A n \in Notifications :
        /\ claims[n] <= MaxRetries[n] * (1 + resets[n])
        /\ table[n].status = "FAILED" /\ TemplatesOf[n] = {} => claims[n] >= MaxRetries[n]

\* What a step may not do: wake a notification that is cancelled, unless a worker held it
\* when it was cancelled or a Retry had checked it before.
CancelHolds ==
    [][\A n \in Notifications :
          table[n].status = "CANCELLED" /\ ~Live(n) /\ ~RetryUnderway(n) =>
              /\ table'[n].status = "CANCELLED"
              /\ ~Live(n)'
              /\ ~RetryUnderway(n)'
              /\ deliveries'[n] = deliveries[n]]_dispatchVars

Hung(i) == {j \in jobs : j.inst = i /\ j.step = "hung"}

\* Liveness: what is queued is sent, fails for good or is cancelled in the end, unless an
\* instance stops, an outcome gets lost, or a template hangs the worker that holds it or all
\* the workers of an instance.
Settles ==
    \A n \in Notifications :
        table[n].status \in Claimable \cup {"PROCESSING"} ~>
            \/ table[n].status \in {"SENT", "FAILED", "CANCELLED"}
            \/ n \in lost
            \/ \E i \in Dispatchers :
                  \/ up[i] # "up"
                  \/ \E j \in Hung(i) : j.id = n
                  \/ Cardinality(Hung(i)) = Workers
============================================================================
