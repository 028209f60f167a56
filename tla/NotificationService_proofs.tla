----------------------- MODULE NotificationService_proofs ----------------------
(***************************************************************************)
(* The two loops of notification-svc, for any notifications, templates,    *)
(* schedules, calls and instances.                                         *)
(*                                                                         *)
(* The dispatcher of NotificationDispatch: how often a notification is     *)
(* attempted and its recipient reached.  The schedulers of                 *)
(* NotificationScheduler: nothing but its idempotency key and next_run_at  *)
(* keeps a run from happening twice.                                       *)
(***************************************************************************)
EXTENDS NotificationDispatch, NotificationScheduler, Integers, FiniteSetTheorems, TLAPS

-----------------------------------------------------------------------------
(***************************************************************************)
(* The dispatcher: the invariant.                                          *)
(*                                                                         *)
(* What is claimed forms chains: the first begins when a Send stores the   *)
(* row, one more with each Retry, and the row or one worker at most goes   *)
(* on with a chain at a time, a retry_count higher with each attempt.  A   *)
(* chain that delivered is never gone on with, unless the delivery was     *)
(* reported as a failure.  What the table and the workers hold does not    *)
(* say which chain a claim belonged to, so the invariant says that the     *)
(* claims can be told apart that way.                                      *)
(***************************************************************************)

\* A Send goes its way and a call goes its own; what a call is about to write is there.
Underway ==
    /\ \A n \in Notifications :
        /\ phase[n] \notin {"read", "write"}
        /\ table[n] # Absent => phase[n] = "done"
    /\ \A c \in Changes :
        /\ phase[c] \notin {"lookup", "insert"}
        /\ phase[c] = "write" => table[Asked[c].id] # Absent

\* Where an attempt of n may stand: in one of its chains, with a retry_count.
Places(n) == (0..resets[n]) \X (0..(MaxRetries[n] - 1))

\* What workers hold of n.
Of(n) == {j \in jobs : j.id = n}

\* g gives each claim of n a place of its own: its job has reached the end of its chain, and is
\* the only one there.
Numbered(n, g) ==
    /\ \A k, l \in 1..claims[n] : g[k] = g[l] => k = l
    /\ \A j \in Of(n) :
        /\ j.no \in 1..claims[n]
        /\ g[j.no][2] = j.retries
        /\ \A k \in 1..claims[n] : g[k][1] = g[j.no][1] => g[k][2] <= j.retries
    /\ \A j, k \in Of(n) : g[j.no][1] = g[k.no][1] => j = k

\* A row that waits goes on with chain c, which no worker holds.
Waiting(n, g, c) ==
    table[n].status \in Claimable =>
        /\ \A k \in 1..claims[n] : g[k][1] = c => g[k][2] < table[n].retries
        /\ \A j \in Of(n) : g[j.no][1] # c

\* The chains D delivered, once each but for what was reported as a failure, and nothing goes on
\* with them.
Reached(n, g, c, D) ==
    /\ deliveries[n] = Cardinality(D) + misreports[n]
    /\ table[n].status \in Claimable => c \notin D
    /\ \A j \in Of(n) : j.step # "sent" => g[j.no][1] \notin D
    /\ table[n] = Absent => D = {}

\* The claims and deliveries of n can be told apart by chains.
Chained(n) ==
    \E g \in [1..claims[n] -> Places(n)], c \in 0..resets[n], D \in SUBSET (0..resets[n]) :
        Numbered(n, g) /\ Waiting(n, g, c) /\ Reached(n, g, c, D)

\* The row and the jobs count no more attempts than there were claims, and n fails after all its
\* attempts unless its template is no good.
Counted(n) ==
    /\ table[n] = Absent => claims[n] = 0
    /\ table[n].retries <= claims[n]
    /\ table[n].status \in Claimable => table[n].retries < MaxRetries[n]
    /\ \A j \in Of(n) :
        /\ j.retries < j.no /\ j.no <= claims[n]
        /\ j.step = "unrendered" => TemplatesOf[n] # {}
    /\ table[n].status = "FAILED" /\ TemplatesOf[n] = {} => claims[n] >= MaxRetries[n]

\* The inductive invariant of the dispatcher.
DInv == DispatchTypeOK /\ Underway /\ \A n \in Notifications : Counted(n) /\ Chained(n)

-----------------------------------------------------------------------------
(* Shapes.                                                                 *)

\* The rows of the table, and what an UPDATE of the status leaves.
LEMMA TableRowShape ==
    /\ \A row \in TableRows :
        /\ row.status \in Statuses \cup {"none"}
        /\ row.retries \in Nat
        /\ row = Absent <=> row.status = "none"
        /\ row = Absent => row.retries = 0
        /\ \A s \in Statuses :
            /\ [row EXCEPT !.status = s] \in TableRows
            /\ [row EXCEPT !.status = s].status = s
            /\ [row EXCEPT !.status = s].retries = row.retries
    /\ \A s \in Statuses, r \in Nat :
        /\ [status |-> s, retries |-> r] \in TableRows
        /\ [status |-> s, retries |-> r] # Absent
BY DEF TableRows, Absent, Statuses

\* An UPDATE of the status of one row.
LEMMA StatusSet ==
    ASSUME NEW row \in TableRows, NEW s \in Statuses
    PROVE  /\ [row EXCEPT !.status = s] \in TableRows
           /\ [row EXCEPT !.status = s].status = s
           /\ [row EXCEPT !.status = s].retries = row.retries
           /\ [row EXCEPT !.status = s] # Absent
BY DEF TableRows, Absent, Statuses

\* The jobs, and what is left of one that moves on.
LEMMA WorkerJobShape ==
    \A j \in WorkerJobs :
        /\ j.id \in Notifications /\ j.no \in Nat /\ j.retries \in Nat
        /\ j.inst \in Dispatchers /\ j.step \in Steps
        /\ \A s \in Steps :
            LET k == [j EXCEPT !.step = s]
            IN  /\ k \in WorkerJobs /\ k.id = j.id /\ k.no = j.no
                /\ k.retries = j.retries /\ k.inst = j.inst /\ k.step = s
BY DEF WorkerJobs, Steps

-----------------------------------------------------------------------------
(* What a step can do to one notification.                                 *)

\* The counters of n stand.
SameCounts(n) ==
    /\ claims'[n] = claims[n]
    /\ resets'[n] = resets[n]
    /\ deliveries'[n] = deliveries[n]
    /\ misreports'[n] = misreports[n]

\* Nothing happens to n, but that workers may lose it.
Idle(n) == SameCounts(n) /\ table'[n] = table[n] /\ Of(n)' \subseteq Of(n)

\* n is stored.
Stored(n) ==
    /\ SameCounts(n) /\ Of(n)' \subseteq Of(n)
    /\ table[n] = Absent
    /\ table'[n] = [status |-> "PENDING", retries |-> 0]

\* A Retry takes effect.
Reset(n) ==
    /\ claims'[n] = claims[n] /\ deliveries'[n] = deliveries[n] /\ misreports'[n] = misreports[n]
    /\ resets'[n] = resets[n] + 1
    /\ Of(n)' \subseteq Of(n)
    /\ table[n] # Absent
    /\ table'[n] = [status |-> "PENDING", retries |-> 0]

\* n ends, for now: it is cancelled, or a worker records that it was sent or given up.
Ended(n) ==
    /\ SameCounts(n) /\ Of(n)' \subseteq Of(n)
    /\ table[n] # Absent
    /\ \/ table'[n] = [table[n] EXCEPT !.status = "CANCELLED"]
       \/ table'[n] = [table[n] EXCEPT !.status = "SENT"] /\ Of(n) # {}
       \/ /\ table'[n] = [table[n] EXCEPT !.status = "FAILED"]
          /\ Of(n) # {} /\ TemplatesOf[n] # {}
       \/ \E j \in Of(n) :
            /\ j.retries + 1 >= MaxRetries[n]
            /\ table'[n] = [status |-> "FAILED", retries |-> j.retries + 1]

\* A worker records that an attempt failed.
Requeued(n) ==
    \E j \in Of(n) :
        /\ SameCounts(n) /\ Of(n)' \subseteq Of(n) \ {j}
        /\ j.step = "failed"
        /\ j.retries + 1 < MaxRetries[n]
        /\ table'[n] = [status |-> "RETRYING", retries |-> j.retries + 1]

\* n is claimed.
Claimed(n) ==
    /\ claims'[n] = claims[n] + 1
    /\ resets'[n] = resets[n] /\ deliveries'[n] = deliveries[n] /\ misreports'[n] = misreports[n]
    /\ table[n].status \in Claimable
    /\ table'[n] = [table[n] EXCEPT !.status = "PROCESSING"]
    /\ \E j \in WorkerJobs :
        /\ j.no = claims[n] + 1 /\ j.retries = table[n].retries /\ j.step = "queued"
        /\ Of(n)' \subseteq Of(n) \cup {j}

\* A worker gets on with n.
Worked(n) ==
    \E j \in Of(n), s \in Steps :
        /\ j.step \notin {"sent", "failed", "unrendered"}
        /\ Of(n)' \subseteq (Of(n) \ {j}) \cup {[j EXCEPT !.step = s]}
        /\ table'[n] = table[n] /\ claims'[n] = claims[n] /\ resets'[n] = resets[n]
        /\ s = "unrendered" => TemplatesOf[n] # {}
        /\ \/ s # "sent" /\ SameCounts(n)
           \/ /\ s = "sent"
              /\ deliveries'[n] = deliveries[n] + 1 /\ misreports'[n] = misreports[n]
           \/ /\ s # "sent"
              /\ deliveries'[n] = deliveries[n] + 1 /\ misreports'[n] = misreports[n] + 1

\* What a step may do to n.
Fate(n) ==
    Idle(n) \/ Stored(n) \/ Reset(n) \/ Ended(n) \/ Requeued(n) \/ Claimed(n) \/ Worked(n)

-----------------------------------------------------------------------------
(* Every step is a fate of each notification. *)

\* A Send stores its own row or nothing.
LEMMA SendFate ==
    ASSUME DispatchTypeOK, Underway, NEW r \in Notifications, NEW n \in Notifications,
           SendLookup(r) \/ SendInsert(r)
    PROVE  Fate(n)
<1> USE DispatchAssumption, TableRowShape
<1>1. CASE SendLookup(r)
  BY <1>1 DEF SendLookup, Fate, Idle, SameCounts, Of, history
<1>2. CASE SendInsert(r)
  <2>1. table[r] = Absent
    BY <1>2 DEF SendInsert, Underway
  <2>2. SameCounts(n) /\ Of(n)' = Of(n)
    BY <1>2 DEF SendInsert, SameCounts, Of, history
  <2>3. table' = table \/ table' = [table EXCEPT ![r] = [status |-> "PENDING", retries |-> 0]]
    BY <1>2 DEF SendInsert
  <2> QED BY <2>1, <2>2, <2>3 DEF DispatchTypeOK, Fate, Idle, Stored
<1> QED BY <1>1, <1>2

\* What a Retry or Cancel writes, be it heard of or not.
LEMMA CallFate ==
    ASSUME DispatchTypeOK, Underway, NEW c \in Changes, NEW n \in Notifications,
           phase[c] = "write", RetryTakes(c) \/ CancelTakes(c),
           UNCHANGED <<jobs, claims, deliveries, misreports>>
    PROVE  Fate(n)
<1> USE DispatchAssumption, TableRowShape
<1> DEFINE m == Asked[c].id
<1>1. m \in Notifications /\ table[m] # Absent
  BY DEF Underway
<1>2. Of(n)' = Of(n) /\ claims'[n] = claims[n] /\ deliveries'[n] = deliveries[n]
      /\ misreports'[n] = misreports[n]
  BY DEF Of
<1>3. CASE RetryTakes(c)
  <2>1. table' = [table EXCEPT ![m] = [status |-> "PENDING", retries |-> 0]]
        /\ resets' = [resets EXCEPT ![m] = @ + 1]
    BY <1>3 DEF RetryTakes
  <2> QED BY <1>1, <1>2, <2>1 DEF DispatchTypeOK, Fate, Idle, Reset, SameCounts
<1>4. CASE CancelTakes(c)
  <2>1. table' = [table EXCEPT ![m].status = "CANCELLED"] /\ resets' = resets
    BY <1>4 DEF CancelTakes, UpdateStatus
  <2>2. n # m => table'[n] = table[n]
    BY <2>1 DEF DispatchTypeOK
  <2>3. n = m => table'[n] = [table[n] EXCEPT !.status = "CANCELLED"]
    BY <1>1, <2>1 DEF DispatchTypeOK
  <2>4. SameCounts(n)
    BY <1>2, <2>1 DEF SameCounts
  <2> QED BY <1>1, <1>2, <2>2, <2>3, <2>4 DEF Fate, Idle, Ended
<1> QED BY <1>3, <1>4

\* A step of a request.
LEMMA HandleFate ==
    ASSUME DispatchTypeOK, Underway, NEW r \in Requests, NEW n \in Notifications, Handle(r)
    PROVE  Fate(n)
<1> USE DispatchAssumption, TableRowShape
<1>1. CASE Arrive(r)
  BY <1>1 DEF Arrive, Fate, Idle, SameCounts, Of, history
<1>2. CASE r \in Notifications /\ (SendLookup(r) \/ SendInsert(r))
  BY <1>2, SendFate
<1>3. CASE r \in Changes /\ CallRead(r)
  BY <1>3 DEF CallRead, Fate, Idle, SameCounts, Of, history
<1>4. CASE r \in Changes /\ CallWrite(r)
  BY <1>4, CallFate DEF CallWrite
<1>5. CASE RequestFails(r)
  <2>1. jobs' = jobs /\ claims' = claims /\ deliveries' = deliveries /\ misreports' = misreports
    BY <1>5 DEF RequestFails
  <2>2. CASE /\ phase[r] = "insert"
             /\ table' = [table EXCEPT ![r] = [status |-> "PENDING", retries |-> 0]]
             /\ UNCHANGED resets
    <3>1. r \in Notifications /\ table[r] = Absent
      BY <2>2 DEF Underway, Requests
    <3> QED BY <2>1, <2>2, <3>1 DEF DispatchTypeOK, Fate, Idle, Stored, SameCounts, Of
  <2>3. CASE phase[r] = "write" /\ (RetryTakes(r) \/ CancelTakes(r))
    <3>1. r \in Changes
      BY <2>3 DEF Underway, Requests
    <3> QED BY <2>1, <2>3, <3>1, CallFate
  <2>4. CASE UNCHANGED <<table, resets>>
    BY <2>1, <2>4 DEF Fate, Idle, SameCounts, Of
  <2> QED BY <1>5, <2>2, <2>3, <2>4 DEF RequestFails
<1> QED BY <1>1, <1>2, <1>3, <1>4, <1>5 DEF Handle

\* A claim, be it heard of or not.
LEMMA PollFate ==
    ASSUME DispatchTypeOK, NEW i \in Dispatchers, NEW n \in Notifications, Poll(i) \/ PollFails(i)
    PROVE  Fate(n)
<1> USE DispatchAssumption, TableRowShape
<1>1. PICK B \in Batches : MarkProcessing(B) /\ (jobs' = jobs \cup JobsOf(i, B) \/ jobs' = jobs)
  BY DEF Poll, PollFails
<1>2. UNCHANGED <<deliveries, misreports, resets>>
  BY DEF Poll, PollFails
<1>3. B \subseteq Notifications /\ \A m \in B : table[m].status \in Claimable
  BY <1>1 DEF Batches
<1>4. CASE n \in B
  <2> DEFINE new == [id |-> n, no |-> claims[n] + 1, retries |-> table[n].retries, inst |-> i,
                     step |-> "queued"]
  <2>1. new \in WorkerJobs /\ new.no = claims[n] + 1 /\ new.retries = table[n].retries
        /\ new.step = "queued"
    BY <1>4 DEF WorkerJobs, Steps, DispatchTypeOK
  <2>2. \A j \in JobsOf(i, B) : j.id = n => j = new
    BY DEF JobsOf
  <2>3. Of(n)' \subseteq Of(n) \cup {new}
    BY <1>1, <2>2 DEF Of
  <2>4. claims'[n] = claims[n] + 1 /\ table'[n] = [table[n] EXCEPT !.status = "PROCESSING"]
    BY <1>1, <1>4 DEF MarkProcessing
  <2> QED BY <1>2, <1>3, <1>4, <2>1, <2>3, <2>4 DEF Fate, Claimed
<1>5. CASE n \notin B
  <2>1. \A j \in JobsOf(i, B) : j.id # n
    BY <1>5 DEF JobsOf
  <2>2. Of(n)' \subseteq Of(n)
    BY <1>1, <2>1 DEF Of
  <2> QED BY <1>1, <1>2, <1>5, <2>2 DEF MarkProcessing, Fate, Idle, SameCounts
<1> QED BY <1>4, <1>5

\* A worker's step that only moves its job on.
LEMMA MoveFate ==
    ASSUME DispatchTypeOK, NEW j \in jobs, NEW s \in Steps, NEW n \in Notifications, Move(j, s),
           j.step \notin {"sent", "failed", "unrendered"},
           UNCHANGED <<table, claims, resets>>,
           s = "unrendered" => TemplatesOf[j.id] # {},
           \/ s # "sent" /\ UNCHANGED <<deliveries, misreports>>
           \/ /\ s = "sent"
              /\ deliveries' = [deliveries EXCEPT ![j.id] = @ + 1] /\ UNCHANGED misreports
           \/ /\ s # "sent"
              /\ deliveries' = [deliveries EXCEPT ![j.id] = @ + 1]
              /\ misreports' = [misreports EXCEPT ![j.id] = @ + 1]
    PROVE  Fate(n)
<1> DEFINE k == [j EXCEPT !.step = s]
<1>1. j \in WorkerJobs /\ j.id \in Notifications /\ k.id = j.id
  BY WorkerJobShape DEF DispatchTypeOK
<1>2. jobs' = (jobs \ {j}) \cup {k}
  BY DEF Move
<1>3. CASE j.id = n
  <2>1. j \in Of(n) /\ Of(n)' \subseteq (Of(n) \ {j}) \cup {k}
    BY <1>1, <1>2, <1>3 DEF Of
  <2> HIDE DEF k
  <2>2. /\ s = "unrendered" => TemplatesOf[n] # {}
        /\ table'[n] = table[n] /\ claims'[n] = claims[n] /\ resets'[n] = resets[n]
        /\ \/ s # "sent" /\ SameCounts(n)
           \/ /\ s = "sent"
              /\ deliveries'[n] = deliveries[n] + 1 /\ misreports'[n] = misreports[n]
           \/ /\ s # "sent"
              /\ deliveries'[n] = deliveries[n] + 1 /\ misreports'[n] = misreports[n] + 1
    BY <1>3 DEF DispatchTypeOK, SameCounts
  <2>3. Worked(n)
    BY <2>1, <2>2 DEF Worked, k
  <2> QED BY <2>3 DEF Fate
<1>4. CASE j.id # n
  <2>1. Of(n)' \subseteq Of(n)
    BY <1>1, <1>2, <1>4 DEF Of
  <2>2. SameCounts(n) /\ table'[n] = table[n]
    BY <1>1, <1>4 DEF DispatchTypeOK, SameCounts
  <2> QED BY <2>1, <2>2 DEF Fate, Idle
<1> QED BY <1>3, <1>4

\* UpdateStatus at the end of process: the job that failed goes back to the table or ends.
LEMMA RecordFate ==
    ASSUME DispatchTypeOK, NEW j \in jobs, NEW n \in Notifications, Record(j),
           table[j.id] # Absent, j.step = "unrendered" => TemplatesOf[j.id] # {}
    PROVE  Fate(n)
<1> USE DispatchAssumption, TableRowShape
<1>1. j \in WorkerJobs /\ j.id \in Notifications /\ j.retries \in Nat
  BY WorkerJobShape DEF DispatchTypeOK
<1>2. /\ jobs' = jobs \ {j} /\ table' = [table EXCEPT ![j.id] = Outcome(j)]
      /\ SameCounts(n)
      /\ j.step \in {"sent", "failed", "unrendered"}
  BY DEF Record, SameCounts, history
<1>3. Of(n)' \subseteq Of(n) \ {j}
  BY <1>2 DEF Of
<1>4. CASE j.id # n
  <2>1. table'[n] = table[n]
    BY <1>2, <1>4 DEF DispatchTypeOK
  <2> QED BY <1>2, <1>3, <2>1 DEF Fate, Idle
<1>5. CASE j.id = n
  <2>1. j \in Of(n) /\ table'[n] = Outcome(j)
    BY <1>1, <1>2, <1>5 DEF DispatchTypeOK, Of
  <2>2. CASE j.step = "sent"
    <3>1. table'[n] = [table[n] EXCEPT !.status = "SENT"]
      BY <1>5, <2>1, <2>2 DEF Outcome
    <3>2. Ended(n)
      BY <1>2, <1>3, <1>5, <2>1, <3>1 DEF Ended
    <3> QED BY <3>2 DEF Fate
  <2>3. CASE j.step = "unrendered" /\ TemplatesOf[n] # {}
    <3>1. table'[n] = [table[n] EXCEPT !.status = "FAILED"]
      BY <1>5, <2>1, <2>3 DEF Outcome
    <3>2. Ended(n)
      BY <1>2, <1>3, <1>5, <2>1, <2>3, <3>1 DEF Ended
    <3> QED BY <3>2 DEF Fate
  <2>4. CASE j.step = "failed" /\ j.retries + 1 >= MaxRetries[n]
    <3>1. table'[n] = [status |-> "FAILED", retries |-> j.retries + 1]
      BY <1>5, <2>1, <2>4 DEF Outcome
    <3>2. Ended(n)
      BY <1>2, <1>3, <1>5, <2>1, <2>4, <3>1 DEF Ended
    <3> QED BY <3>2 DEF Fate
  <2>5. CASE j.step = "failed" /\ ~(j.retries + 1 >= MaxRetries[n])
    <3>1. table'[n] = [status |-> "RETRYING", retries |-> j.retries + 1]
      BY <1>5, <2>1, <2>5 DEF Outcome
    <3>2. j.retries + 1 < MaxRetries[n]
      BY <1>1, <1>5, <2>5
    <3>3. Requeued(n)
      BY <1>2, <1>3, <2>1, <2>5, <3>1, <3>2 DEF Requeued
    <3> QED BY <3>3 DEF Fate
  <2> QED BY <1>2, <1>5, <2>2, <2>3, <2>4, <2>5
<1> QED BY <1>4, <1>5

\* A step of a worker.
LEMMA ProcessFate ==
    ASSUME DispatchTypeOK, NEW j \in jobs, NEW n \in Notifications, Process(j),
           table[j.id] # Absent, j.step = "unrendered" => TemplatesOf[j.id] # {}
    PROVE  Fate(n)
<1>1. CASE Take(j)
  BY <1>1, MoveFate DEF Take, Steps, history
<1>2. CASE Render(j)
  <2>1. \E s \in {"deliver", "unrendered"} :
            Move(j, s) /\ (s = "unrendered" => TemplatesOf[j.id] # {})
    BY <1>2 DEF Render, Serving
  <2> QED BY <1>2, <2>1, MoveFate DEF Render, Steps, history
<1>3. CASE RenderFails(j)
  BY <1>3, MoveFate DEF RenderFails, Steps, history
<1>8. CASE RenderHangs(j)
  BY <1>8, MoveFate DEF RenderHangs, Steps, history
<1>4. CASE Deliver(j)
  BY <1>4, MoveFate DEF Deliver, Steps
<1>5. CASE DeliverFails(j)
  BY <1>5, MoveFate DEF DeliverFails, Steps
<1>6. CASE Record(j)
  BY <1>6, RecordFate
<1>7. CASE RecordFails(j)
  BY <1>7 DEF RecordFails, Fate, Idle, SameCounts, Of, history
<1> QED BY <1>1, <1>2, <1>3, <1>4, <1>5, <1>6, <1>7, <1>8 DEF Process

\* Every step is a fate of every notification.
LEMMA NextFate ==
    ASSUME DispatchTypeOK, Underway, \A m \in Notifications : Counted(m),
           [DispatchNext]_dispatchVars, NEW n \in Notifications
    PROVE  Fate(n)
<1>1. ASSUME NEW r \in Requests, Handle(r) PROVE Fate(n)
  BY <1>1, HandleFate
<1>2. ASSUME NEW t \in Templates, CreateTemplate(t) \/ UpdateTemplate(t) \/ DeleteTemplate(t)
      PROVE  Fate(n)
  BY <1>2 DEF CreateTemplate, UpdateTemplate, DeleteTemplate, SetTemplate, Fate, Idle, SameCounts,
              Of, history
<1>3. ASSUME NEW i \in Dispatchers, Poll(i) \/ PollFails(i) PROVE Fate(n)
  BY <1>3, PollFate
<1>4. ASSUME NEW i \in Dispatchers, Stop(i) \/ Exit(i) \/ StartUp(i) PROVE Fate(n)
  <2>1. jobs' \subseteq jobs /\ UNCHANGED <<table, history>>
    BY <1>4 DEF Stop, Exit, StartUp
  <2> QED BY <2>1 DEF Fate, Idle, SameCounts, Of, history
<1>5. ASSUME NEW j \in jobs, Process(j) PROVE Fate(n)
  <2>1. j.id \in Notifications /\ j \in Of(j.id)
    BY WorkerJobShape DEF DispatchTypeOK, Of
  <2>2. Counted(j.id)
    BY <2>1
  <2>3. table[j.id] # Absent
    BY <2>1, <2>2, WorkerJobShape DEF DispatchTypeOK, Counted
  <2> QED BY <1>5, <2>1, <2>2, <2>3, ProcessFate DEF Counted
<1>6. CASE UNCHANGED dispatchVars
  BY <1>6 DEF dispatchVars, Fate, Idle, SameCounts, Of, history
<1> QED BY <1>1, <1>2, <1>3, <1>4, <1>5, <1>6 DEF DispatchNext

-----------------------------------------------------------------------------
(* The dispatcher: types.                                                  *)

\* A request leaves rows of the right shape.
LEMMA HandleType ==
    ASSUME DispatchTypeOK, Underway, NEW r \in Requests, Handle(r)
    PROVE  DispatchTypeOK'
<1> USE DispatchAssumption, TableRowShape
<1> DEFINE pending == [status |-> "PENDING", retries |-> 0]
<1>0. /\ pending \in TableRows /\ pending.retries = 0
      /\ "PENDING" \in Statuses /\ "CANCELLED" \in Statuses
  BY DEF TableRows, Statuses
<1>1. phase' \in [Requests -> {"idle", "lookup", "insert", "read", "write", "done"}]
  BY DEF Handle, Arrive, SendLookup, SendInsert, CallRead, CallWrite, RequestFails, Answer, Proceed,
         DispatchTypeOK
<1>2. /\ UNCHANGED <<templates, jobs, up, claims, deliveries, misreports, lost>>
      /\ \/ UNCHANGED <<table, resets>>
         \/ \E n \in Notifications : table' = [table EXCEPT ![n] = pending] /\ UNCHANGED resets
         \/ \E n \in Notifications :
                table' = [table EXCEPT ![n] = pending] /\ resets' = [resets EXCEPT ![n] = @ + 1]
         \/ \E n \in Notifications :
                table' = [table EXCEPT ![n].status = "CANCELLED"] /\ UNCHANGED resets
  <2>1. CASE Arrive(r)
    BY <2>1 DEF Arrive, history
  <2>2. CASE r \in Notifications /\ (SendLookup(r) \/ SendInsert(r))
    BY <2>2 DEF SendLookup, SendInsert, history
  <2>3. CASE r \in Changes /\ CallRead(r)
    BY <2>3 DEF CallRead, history
  <2>4. CASE r \in Changes /\ CallWrite(r)
    BY <2>4 DEF CallWrite, RetryTakes, CancelTakes, UpdateStatus
  <2>5. CASE RequestFails(r)
    BY <2>5 DEF RequestFails, RetryTakes, CancelTakes, UpdateStatus, Underway, Requests
  <2> QED BY <2>1, <2>2, <2>3, <2>4, <2>5 DEF Handle
<1> HIDE DEF pending
<1>3. ASSUME NEW n \in Notifications, table' = [table EXCEPT ![n] = pending]
      PROVE  /\ table' \in [Notifications -> TableRows]
             /\ \A m \in Notifications : table'[m].retries <= MaxRetries[m]
  BY <1>0, <1>3 DEF DispatchTypeOK
<1>4. ASSUME NEW n \in Notifications, table' = [table EXCEPT ![n].status = "CANCELLED"]
      PROVE  /\ table' \in [Notifications -> TableRows]
             /\ \A m \in Notifications : table'[m].retries <= MaxRetries[m]
  <2> DEFINE row == [table[n] EXCEPT !.status = "CANCELLED"]
  <2>1. row \in TableRows /\ row.retries = table[n].retries
    BY <1>0 DEF DispatchTypeOK
  <2>2. table' = [table EXCEPT ![n] = row]
    BY <1>4
  <2> HIDE DEF row
  <2> QED BY <2>1, <2>2 DEF DispatchTypeOK
<1>5. /\ table' \in [Notifications -> TableRows]
      /\ \A m \in Notifications : table'[m].retries <= MaxRetries[m]
  BY <1>2, <1>3, <1>4 DEF DispatchTypeOK
<1>6. resets' \in [Notifications -> Nat]
  BY <1>2 DEF DispatchTypeOK
<1> QED BY <1>1, <1>2, <1>5, <1>6 DEF DispatchTypeOK

\* A claim does, too.
LEMMA PollType ==
    ASSUME DispatchTypeOK, NEW i \in Dispatchers, Poll(i) \/ PollFails(i)
    PROVE  DispatchTypeOK'
<1> USE DispatchAssumption, TableRowShape
<1>1. PICK B \in Batches : /\ MarkProcessing(B)
                           /\ jobs' = jobs \cup JobsOf(i, B) \/ jobs' = jobs
                           /\ lost' = lost \/ lost' = lost \cup B
  BY DEF Poll, PollFails
<1>2. B \subseteq Notifications
  BY <1>1 DEF Batches
<1>3. \A n \in Notifications :
        /\ [table[n] EXCEPT !.status = "PROCESSING"] \in TableRows
        /\ [table[n] EXCEPT !.status = "PROCESSING"].retries = table[n].retries
  <2> SUFFICES ASSUME NEW n \in Notifications
               PROVE  /\ [table[n] EXCEPT !.status = "PROCESSING"] \in TableRows
                      /\ [table[n] EXCEPT !.status = "PROCESSING"].retries = table[n].retries
    OBVIOUS
  <2>1. table[n] \in TableRows
    BY DEF DispatchTypeOK
  <2>2. "PROCESSING" \in Statuses
    BY DEF Statuses
  <2> QED BY <2>1, <2>2, StatusSet
<1>4. /\ table' \in [Notifications -> TableRows]
      /\ \A n \in Notifications : table'[n].retries = table[n].retries
      /\ claims' \in [Notifications -> Nat]
  BY <1>1, <1>3 DEF MarkProcessing, DispatchTypeOK
<1>5. JobsOf(i, B) \subseteq WorkerJobs
  BY <1>2 DEF JobsOf, WorkerJobs, Steps, DispatchTypeOK
<1> QED BY <1>1, <1>2, <1>4, <1>5 DEF Poll, PollFails, DispatchTypeOK

\* A worker whose job has attempts left writes no more than max_retries.
LEMMA ProcessType ==
    ASSUME DispatchTypeOK, NEW j \in jobs, Process(j), table[j.id] # Absent,
           j.retries < MaxRetries[j.id]
    PROVE  DispatchTypeOK'
<1> USE DispatchAssumption
<1>1. /\ j \in WorkerJobs /\ j.id \in Notifications /\ j.retries \in Nat
      /\ \A s \in Steps : [j EXCEPT !.step = s] \in WorkerJobs
  BY WorkerJobShape DEF DispatchTypeOK
<1>2. ASSUME NEW s \in Steps, Move(j, s) PROVE jobs' \subseteq WorkerJobs
  BY <1>1, <1>2 DEF Move, DispatchTypeOK
<1>3. CASE Take(j)
  BY <1>2, <1>3 DEF Take, Steps, DispatchTypeOK, history
<1>4. CASE Render(j)
  <2>1. \E s \in {"deliver", "unrendered"} : Move(j, s)
    BY <1>4 DEF Render, Serving
  <2> QED BY <1>2, <1>4, <2>1 DEF Render, Steps, DispatchTypeOK, history
<1>5. CASE RenderFails(j)
  BY <1>2, <1>5 DEF RenderFails, Steps, DispatchTypeOK, history
<1>10. CASE RenderHangs(j)
  BY <1>2, <1>10 DEF RenderHangs, Steps, DispatchTypeOK, history
<1>6. CASE Deliver(j)
  <2>1. jobs' \subseteq WorkerJobs
    BY <1>2, <1>6 DEF Deliver, Steps
  <2>2. deliveries' \in [Notifications -> Nat]
    BY <1>1, <1>6 DEF Deliver, DispatchTypeOK
  <2> QED BY <1>6, <2>1, <2>2 DEF Deliver, DispatchTypeOK
<1>7. CASE DeliverFails(j)
  <2>1. jobs' \subseteq WorkerJobs
    BY <1>2, <1>7 DEF DeliverFails, Steps
  <2>2. deliveries' \in [Notifications -> Nat] /\ misreports' \in [Notifications -> Nat]
    BY <1>1, <1>7 DEF DeliverFails, DispatchTypeOK
  <2> QED BY <1>7, <2>1, <2>2 DEF DeliverFails, DispatchTypeOK
<1>8. CASE Record(j)
  <2>1. Outcome(j) \in TableRows /\ Outcome(j).retries <= MaxRetries[j.id]
    <3>1. /\ table[j.id] \in TableRows /\ table[j.id].retries <= MaxRetries[j.id]
          /\ {"SENT", "FAILED", "RETRYING"} \subseteq Statuses
      BY <1>1 DEF DispatchTypeOK, Statuses
    <3>2. CASE j.step = "sent"
      <4>1. Outcome(j) = [table[j.id] EXCEPT !.status = "SENT"]
        BY <3>2 DEF Outcome
      <4> QED BY <3>1, <4>1, StatusSet
    <3>3. CASE j.step = "unrendered"
      <4>1. Outcome(j) = [table[j.id] EXCEPT !.status = "FAILED"]
        BY <3>3 DEF Outcome
      <4> QED BY <3>1, <4>1, StatusSet
    <3>4. CASE j.step = "failed"
      <4>1. PICK st \in Statuses : Outcome(j) = [status |-> st, retries |-> j.retries + 1]
        BY <3>1, <3>4 DEF Outcome
      <4>2. Outcome(j) \in TableRows /\ Outcome(j).retries = j.retries + 1
        BY <1>1, <4>1 DEF TableRows
      <4>3. MaxRetries[j.id] \in Nat
        BY <1>1
      <4> QED BY <1>1, <4>2, <4>3
    <3> QED BY <1>8, <3>2, <3>3, <3>4 DEF Record
  <2> QED BY <1>1, <1>8, <2>1 DEF Record, DispatchTypeOK, history
<1>9. CASE RecordFails(j)
  BY <1>1, <1>9 DEF RecordFails, DispatchTypeOK, history
<1> QED BY <1>3, <1>4, <1>5, <1>6, <1>7, <1>8, <1>9, <1>10 DEF Process

\* Templates and instances leave the table alone.
LEMMA RestType ==
    ASSUME DispatchTypeOK
    PROVE  /\ \A t \in Templates :
                CreateTemplate(t) \/ UpdateTemplate(t) \/ DeleteTemplate(t) => DispatchTypeOK'
           /\ \A i \in Dispatchers : Stop(i) \/ Exit(i) \/ StartUp(i) => DispatchTypeOK'
           /\ UNCHANGED dispatchVars => DispatchTypeOK'
<1>1. ASSUME NEW t \in Templates, CreateTemplate(t) \/ UpdateTemplate(t) \/ DeleteTemplate(t)
      PROVE  DispatchTypeOK'
  BY <1>1 DEF CreateTemplate, UpdateTemplate, DeleteTemplate, SetTemplate, Bodies, DispatchTypeOK,
              history
<1>2. ASSUME NEW i \in Dispatchers, Stop(i) \/ Exit(i) \/ StartUp(i)
      PROVE  DispatchTypeOK'
  <2>1. \A j \in jobs : j.id \in Notifications
    BY WorkerJobShape DEF DispatchTypeOK
  <2>2. jobs' \subseteq jobs /\ lost' \subseteq Notifications
    BY <1>2, <2>1 DEF Stop, Exit, StartUp, Queued, DispatchTypeOK
  <2>3. up' \in [Dispatchers -> {"up", "stopping", "down"}]
    BY <1>2 DEF Stop, Exit, StartUp, DispatchTypeOK
  <2>4. UNCHANGED <<table, templates, phase, history>>
    BY <1>2 DEF Stop, Exit, StartUp
  <2> QED BY <2>2, <2>3, <2>4 DEF DispatchTypeOK, history
<1>3. ASSUME UNCHANGED dispatchVars PROVE DispatchTypeOK'
  BY <1>3 DEF dispatchVars, history, DispatchTypeOK
<1> QED BY <1>1, <1>2, <1>3

\* A claimed row has attempts left.
LEMMA JobsInBounds ==
    ASSUME DispatchTypeOK, NEW n \in Notifications, Counted(n), Chained(n), NEW j \in Of(n)
    PROVE  j.retries < MaxRetries[n] /\ table[n] # Absent
<1>1. PICK g \in [1..claims[n] -> Places(n)] : Numbered(n, g)
  BY DEF Chained
<1>2. g[j.no] \in Places(n) /\ g[j.no][2] = j.retries
  BY <1>1 DEF Numbered
<1>3. g[j.no][2] \in 0..(MaxRetries[n] - 1)
  BY <1>2 DEF Places
<1>4. j.retries \in Nat /\ MaxRetries[n] \in Nat
  BY WorkerJobShape, DispatchAssumption DEF Of, DispatchTypeOK
<1>5. table[n] # Absent
  <2>1. j.no \in Nat /\ claims[n] \in Nat
    BY WorkerJobShape DEF Of, DispatchTypeOK
  <2>2. j.retries < j.no /\ j.no <= claims[n] /\ (table[n] = Absent => claims[n] = 0)
    BY DEF Counted
  <2> QED BY <1>4, <2>1, <2>2
<1> QED BY <1>2, <1>3, <1>4, <1>5

\* Every step keeps the types.
LEMMA NextType ==
    ASSUME DispatchTypeOK, Underway, \A n \in Notifications : Counted(n) /\ Chained(n),
           [DispatchNext]_dispatchVars
    PROVE  DispatchTypeOK'
<1>1. ASSUME NEW j \in jobs, Process(j) PROVE DispatchTypeOK'
  <2>1. j.id \in Notifications /\ j \in Of(j.id)
    BY WorkerJobShape DEF DispatchTypeOK, Of
  <2> QED BY <1>1, <2>1, JobsInBounds, ProcessType
<1> QED BY <1>1, HandleType, PollType, RestType DEF DispatchNext

-----------------------------------------------------------------------------
(* The dispatcher: the invariant after a step.                             *)

\* Nothing deletes a row.
LEMMA FateKeepsRows ==
    ASSUME DispatchTypeOK, NEW n \in Notifications, Fate(n), table[n] # Absent
    PROVE  table'[n] # Absent
<1>1. table[n] \in TableRows /\ {"SENT", "CANCELLED", "FAILED", "PROCESSING"} \subseteq Statuses
  BY DEF DispatchTypeOK, Statuses
<1>2. CASE Ended(n)
  <2>1. CASE \E s \in {"SENT", "CANCELLED", "FAILED"} : table'[n] = [table[n] EXCEPT !.status = s]
    BY <1>1, <2>1, StatusSet
  <2>2. CASE \E r : table'[n] = [status |-> "FAILED", retries |-> r]
    BY <2>2 DEF Absent
  <2> QED BY <1>2, <2>1, <2>2 DEF Ended
<1>3. CASE Claimed(n)
  BY <1>1, <1>3, StatusSet DEF Claimed
<1>4. CASE Requeued(n)
  <2>1. PICK r : table'[n] = [status |-> "RETRYING", retries |-> r]
    BY <1>4 DEF Requeued
  <2> QED BY <2>1 DEF Absent
<1>6. CASE Stored(n) \/ Reset(n)
  BY <1>6 DEF Stored, Reset, Absent
<1>5. CASE Idle(n) \/ Worked(n)
  BY <1>5 DEF Idle, Worked
<1> QED BY <1>2, <1>3, <1>4, <1>5, <1>6 DEF Fate

\* A call writes to a row that is there: it read it, and rows stay.
LEMMA NextUnderway ==
    ASSUME DispatchTypeOK, Underway, \A n \in Notifications : Counted(n) /\ Chained(n),
           [DispatchNext]_dispatchVars
    PROVE  Underway'
<1> USE DispatchAssumption
<1>1. ASSUME NEW r \in Requests, Handle(r) PROVE Underway'
  <2>1. /\ r \in Notifications => phase'[r] \in {"lookup", "insert", "done"}
        /\ r \in Changes => /\ phase'[r] \in {"read", "write", "done"}
                            /\ phase'[r] = "write" => table'[Asked[r].id] # Absent
        /\ phase[r] # "done"
        /\ \A q \in Requests \ {r} : phase'[q] = phase[q]
    <3>1. CASE Arrive(r)
      BY <1>1, <3>1 DEF Arrive, Proceed, DispatchTypeOK
    <3>2. CASE r \in Notifications /\ (SendLookup(r) \/ SendInsert(r))
      BY <1>1, <3>2 DEF SendLookup, SendInsert, Answer, Proceed, DispatchTypeOK
    <3>3. CASE r \in Changes /\ CallRead(r)
      <4>1. ~Refused(r) => table[Asked[r].id] # Absent
        BY <3>3 DEF Refused, Claimable, Absent
      <4> QED BY <1>1, <3>3, <4>1 DEF CallRead, Answer, Proceed, DispatchTypeOK
    <3>4. CASE r \in Changes /\ CallWrite(r)
      BY <1>1, <3>4 DEF CallWrite, Answer, Proceed, DispatchTypeOK
    <3>5. CASE RequestFails(r)
      BY <1>1, <3>5 DEF RequestFails, Answer, Proceed, DispatchTypeOK
    <3> QED BY <1>1, <3>1, <3>2, <3>3, <3>4, <3>5 DEF Handle
  <2>2. \A n \in Notifications : table'[n] # Absent =>
            \/ table[n] # Absent
            \/ n = r /\ phase'[n] = "done"
    <3>1. CASE Arrive(r) \/ (r \in Notifications /\ SendLookup(r)) \/ (r \in Changes /\ CallRead(r))
      BY <3>1 DEF Arrive, SendLookup, CallRead
    <3>2. CASE r \in Notifications /\ SendInsert(r)
      BY <1>1, <3>2 DEF SendInsert, Answer, Proceed, DispatchTypeOK
    <3>3. CASE r \in Changes /\ CallWrite(r)
      BY <3>3 DEF CallWrite, RetryTakes, CancelTakes, UpdateStatus, Underway, DispatchTypeOK
    <3>4. CASE RequestFails(r)
      BY <1>1, <3>4 DEF RequestFails, RetryTakes, CancelTakes, UpdateStatus, Underway, Answer,
                        Proceed, DispatchTypeOK, Requests
    <3> QED BY <1>1, <3>1, <3>2, <3>3, <3>4 DEF Handle
  <2>3. \A n \in Notifications : table[n] # Absent => table'[n] # Absent
    BY NextFate, FateKeepsRows
  <2> QED BY <2>1, <2>2, <2>3 DEF Underway, Requests
<1>2. ASSUME UNCHANGED phase, \A n \in Notifications : table'[n] # Absent <=> table[n] # Absent
      PROVE  Underway'
  BY <1>2 DEF Underway
<1>3. ASSUME UNCHANGED phase, \A n \in Notifications : table[n] = Absent => table'[n] = Absent
      PROVE  Underway'
  BY <1>2, <1>3, NextFate, FateKeepsRows
<1>4. ASSUME NEW t \in Templates, CreateTemplate(t) \/ UpdateTemplate(t) \/ DeleteTemplate(t)
      PROVE  Underway'
  BY <1>3, <1>4 DEF CreateTemplate, UpdateTemplate, DeleteTemplate, SetTemplate
<1>5. ASSUME NEW i \in Dispatchers, Poll(i) \/ PollFails(i) PROVE Underway'
  <2>1. PICK B \in Batches : MarkProcessing(B)
    BY <1>5 DEF Poll, PollFails
  <2>2. \A n \in B : table[n] # Absent
    BY <2>1 DEF Batches, Absent, Claimable
  <2> QED BY <1>3, <1>5, <2>1, <2>2 DEF Poll, PollFails, MarkProcessing
<1>6. ASSUME NEW i \in Dispatchers, Stop(i) \/ Exit(i) \/ StartUp(i) PROVE Underway'
  BY <1>3, <1>6 DEF Stop, Exit, StartUp
<1>7. ASSUME NEW j \in jobs, Process(j) PROVE Underway'
  <2>1. j.id \in Notifications /\ j \in Of(j.id)
    BY WorkerJobShape DEF DispatchTypeOK, Of
  <2>2. table[j.id] # Absent
    BY <2>1, JobsInBounds
  <2>3. UNCHANGED phase /\ \A n \in Notifications : table'[n] = table[n] \/ n = j.id
    BY <1>7 DEF Process, Take, Render, RenderFails, RenderHangs, Deliver, DeliverFails, Record,
                RecordFails, DispatchTypeOK
  <2> QED BY <1>3, <2>2, <2>3
<1>8. CASE UNCHANGED dispatchVars
  BY <1>3, <1>8 DEF dispatchVars
<1> QED BY <1>1, <1>4, <1>5, <1>6, <1>7, <1>8 DEF DispatchNext

\* The counts stay right, whatever happens to n.
LEMMA NextCounted ==
    ASSUME DispatchTypeOK, NEW n \in Notifications, Counted(n), Chained(n), Fate(n)
    PROVE  Counted(n)'
<1> USE DispatchAssumption
<1>1. /\ table[n] \in TableRows /\ claims[n] \in Nat /\ MaxRetries[n] \in Nat \ {0}
      /\ table[n].retries \in Nat /\ (table[n] = Absent <=> table[n].status = "none")
  BY TableRowShape DEF DispatchTypeOK
<1>2. \A j \in Of(n) : /\ j \in WorkerJobs /\ j.no \in Nat /\ j.retries \in Nat
                       /\ j.retries < MaxRetries[n] /\ table[n] # Absent
  BY JobsInBounds, WorkerJobShape DEF Of, DispatchTypeOK
<1>3. /\ {"SENT", "CANCELLED", "FAILED", "PROCESSING"} \subseteq Statuses
      /\ Claimable \cap {"SENT", "CANCELLED", "FAILED", "PROCESSING", "none"} = {}
  BY DEF Statuses, Claimable
<1>4. CASE Idle(n)
  BY <1>4 DEF Idle, SameCounts, Counted
<1>5. CASE Stored(n)
  BY <1>1, <1>2, <1>5 DEF Stored, SameCounts, Counted, Absent, Of
<1>6. CASE Reset(n)
  BY <1>1, <1>2, <1>6 DEF Reset, Counted, Absent
<1>7. CASE Ended(n)
  <2>1. \A j \in Of(n)' : j \in Of(n)
    BY <1>7 DEF Ended
  <2>2. CASE \E s \in {"SENT", "CANCELLED", "FAILED"} :
                /\ table'[n] = [table[n] EXCEPT !.status = s]
                /\ s = "FAILED" => TemplatesOf[n] # {}
    <3>1. /\ table'[n] # Absent /\ table'[n].retries = table[n].retries
          /\ table'[n].status \in {"SENT", "CANCELLED", "FAILED"}
          /\ table'[n].status = "FAILED" => TemplatesOf[n] # {}
      BY <1>1, <1>3, <2>2, StatusSet
    <3> QED BY <1>3, <1>7, <2>1, <3>1 DEF Ended, SameCounts, Counted
  <2>3. CASE \E j \in Of(n) : /\ j.retries + 1 >= MaxRetries[n]
                              /\ table'[n] = [status |-> "FAILED", retries |-> j.retries + 1]
    <3>1. PICK j \in Of(n) : /\ j.retries + 1 >= MaxRetries[n]
                             /\ table'[n] = [status |-> "FAILED", retries |-> j.retries + 1]
      BY <2>3
    <3>2. table'[n] # Absent /\ table'[n].retries = j.retries + 1 /\ table'[n].status = "FAILED"
      BY <3>1 DEF Absent
    <3>3. j.retries < j.no /\ j.no <= claims[n]
      BY DEF Counted
    <3>4. j.retries + 1 <= claims[n] /\ MaxRetries[n] <= claims[n]
      BY <1>1, <1>2, <3>1, <3>3
    <3> QED BY <1>3, <1>7, <2>1, <3>2, <3>4 DEF Ended, SameCounts, Counted
  <2> QED BY <1>7, <2>2, <2>3 DEF Ended
<1>8. CASE Requeued(n)
  <2>1. PICK j \in Of(n) : /\ j.retries + 1 < MaxRetries[n]
                           /\ SameCounts(n) /\ Of(n)' \subseteq Of(n)
                           /\ table'[n] = [status |-> "RETRYING", retries |-> j.retries + 1]
    BY <1>8 DEF Requeued
  <2>2. table'[n] # Absent /\ table'[n].retries = j.retries + 1 /\ table'[n].status = "RETRYING"
    BY <2>1 DEF Absent
  <2>3. j.retries + 1 <= claims[n]
    BY <1>1, <1>2 DEF Counted
  <2> QED BY <2>1, <2>2, <2>3 DEF SameCounts, Counted
<1>9. CASE Claimed(n)
  <2>1. PICK j \in WorkerJobs :
            /\ j.no = claims[n] + 1 /\ j.retries = table[n].retries /\ j.step = "queued"
            /\ Of(n)' \subseteq Of(n) \cup {j}
    BY <1>9 DEF Claimed
  <2>2. /\ table'[n] # Absent
        /\ table'[n].retries = table[n].retries /\ table'[n].status = "PROCESSING"
    BY <1>1, <1>3, <1>9, StatusSet DEF Claimed
  <2>3. claims'[n] = claims[n] + 1
    BY <1>9 DEF Claimed
  <2>4. \A k \in Of(n)' : /\ k.retries < k.no /\ k.no <= claims'[n]
                          /\ k.step = "unrendered" => TemplatesOf[n] # {}
    BY <1>1, <1>2, <2>1, <2>3 DEF Counted
  <2>5. table'[n].retries <= claims'[n]
    BY <1>1, <2>2, <2>3 DEF Counted
  <2> QED BY <1>3, <2>2, <2>4, <2>5 DEF Counted
<1>10. CASE Worked(n)
  <2>1. PICK j \in Of(n), s \in Steps :
            /\ Of(n)' \subseteq (Of(n) \ {j}) \cup {[j EXCEPT !.step = s]}
            /\ table'[n] = table[n] /\ claims'[n] = claims[n] /\ resets'[n] = resets[n]
            /\ s = "unrendered" => TemplatesOf[n] # {}
    BY <1>10 DEF Worked
  <2> DEFINE k == [j EXCEPT !.step = s]
  <2>2. k.no = j.no /\ k.retries = j.retries /\ k.step = s
    BY <1>2, WorkerJobShape
  <2> HIDE DEF k
  <2> QED BY <2>1, <2>2 DEF Counted, k
<1> QED BY <1>4, <1>5, <1>6, <1>7, <1>8, <1>9, <1>10 DEF Fate

\* The ranges of claims and chains.
LEMMA ChainTypes ==
    ASSUME DispatchTypeOK, NEW n \in Notifications,
           NEW g \in [1..claims[n] -> Places(n)]
    PROVE  /\ claims[n] \in Nat /\ resets[n] \in Nat /\ MaxRetries[n] \in Nat
           /\ \A k \in 1..claims[n] : /\ g[k] = <<g[k][1], g[k][2]>>
                                      /\ g[k][1] \in 0..resets[n]
                                      /\ g[k][2] \in 0..(MaxRetries[n] - 1)
<1>1. claims[n] \in Nat /\ resets[n] \in Nat /\ MaxRetries[n] \in Nat
  BY DispatchAssumption DEF DispatchTypeOK
<1>2. \A k \in 1..claims[n] : g[k] \in (0..resets[n]) \X (0..(MaxRetries[n] - 1))
  BY DEF Places
<1> QED BY <1>1, <1>2

\* With fewer jobs, and a row that does not wait unless it did before, the chains stand.
LEMMA ChainStands ==
    ASSUME NEW n \in Notifications, Chained(n),
           SameCounts(n), Of(n)' \subseteq Of(n),
           table'[n].status \in Claimable => table'[n] = table[n],
           table'[n] = Absent => table[n] = Absent
    PROVE  Chained(n)'
<1>1. PICK g \in [1..claims[n] -> Places(n)], c \in 0..resets[n], D \in SUBSET (0..resets[n]) :
            Numbered(n, g) /\ Waiting(n, g, c) /\ Reached(n, g, c, D)
  BY DEF Chained
<1>2. Places(n)' = Places(n)
  BY DEF Places, SameCounts
<1>3. Numbered(n, g)'
  BY <1>1 DEF Numbered, SameCounts
<1>4. Waiting(n, g, c)' /\ Reached(n, g, c, D)'
  BY <1>1 DEF Waiting, Reached, SameCounts
<1> QED BY <1>1, <1>2, <1>3, <1>4 DEF Chained, SameCounts

\* The chain of a Retry, or of the Send, is a new one.
LEMMA NewChain ==
    ASSUME DispatchTypeOK, NEW n \in Notifications, Counted(n), Chained(n), Stored(n) \/ Reset(n)
    PROVE  Chained(n)'
<1>1. PICK g \in [1..claims[n] -> Places(n)], c \in 0..resets[n], D \in SUBSET (0..resets[n]) :
            Numbered(n, g) /\ Waiting(n, g, c) /\ Reached(n, g, c, D)
  BY DEF Chained
<1>2. /\ claims[n] \in Nat /\ resets[n] \in Nat
      /\ \A k \in 1..claims[n] : g[k][1] \in 0..resets[n]
  BY ChainTypes
<1>3. /\ claims'[n] = claims[n] /\ deliveries'[n] = deliveries[n] /\ misreports'[n] = misreports[n]
      /\ Of(n)' \subseteq Of(n)
      /\ table'[n].retries = 0 /\ table'[n] # Absent
  BY DEF Stored, Reset, SameCounts, Absent
<1>4. CASE Stored(n)
  <2>1. claims[n] = 0 /\ D = {} /\ resets'[n] = resets[n]
    BY <1>1, <1>4 DEF Stored, Counted, Reached, SameCounts
  <2>2. Of(n) = {}
    BY <1>4, <2>1, JobsInBounds DEF Stored
  <2>3. Places(n)' = Places(n)
    BY <2>1 DEF Places
  <2>4. Numbered(n, g)' /\ Waiting(n, g, c)' /\ Reached(n, g, c, D)'
    BY <1>1, <1>3, <2>1, <2>2 DEF Numbered, Waiting, Reached
  <2> QED BY <1>3, <2>1, <2>3, <2>4 DEF Chained
<1>5. CASE Reset(n)
  <2>0. PICK b \in Nat : b = resets[n] + 1
    BY <1>2
  <2>1. resets'[n] = b
    BY <1>5, <2>0 DEF Reset
  <2>2. /\ g \in [1..claims'[n] -> Places(n)'] /\ b \in 0..resets'[n]
        /\ D \in SUBSET (0..resets'[n]) /\ b \notin D
        /\ \A k \in 1..claims[n] : g[k][1] # b
    BY <1>2, <1>3, <2>0, <2>1 DEF Places
  <2>3. Numbered(n, g)'
    BY <1>1, <1>3 DEF Numbered
  <2>4. Waiting(n, g, b)'
    BY <1>1, <1>3, <2>2 DEF Waiting, Numbered
  <2>5. Reached(n, g, b, D)'
    BY <1>1, <1>3, <2>2 DEF Reached
  <2> QED BY <2>2, <2>3, <2>4, <2>5 DEF Chained
<1> QED BY <1>4, <1>5

\* A failed attempt leaves its chain to the row.
LEMMA ChainPassedOn ==
    ASSUME DispatchTypeOK, NEW n \in Notifications, Chained(n), Requeued(n)
    PROVE  Chained(n)'
<1>1. PICK g \in [1..claims[n] -> Places(n)], c \in 0..resets[n], D \in SUBSET (0..resets[n]) :
            Numbered(n, g) /\ Waiting(n, g, c) /\ Reached(n, g, c, D)
  BY DEF Chained
<1>2. PICK j \in Of(n) : /\ SameCounts(n) /\ Of(n)' \subseteq Of(n) \ {j} /\ j.step = "failed"
                         /\ table'[n] = [status |-> "RETRYING", retries |-> j.retries + 1]
  BY DEF Requeued
<1> DEFINE b == g[j.no][1]
<1>3. /\ claims[n] \in Nat /\ resets[n] \in Nat
      /\ \A k \in 1..claims[n] : g[k][1] \in 0..resets[n] /\ g[k][2] \in Nat
  BY ChainTypes
<1>4. j.no \in 1..claims[n] /\ j.retries \in Nat
  BY <1>1, WorkerJobShape DEF Numbered, Of, DispatchTypeOK
<1>5. b \in 0..resets[n] /\ b \notin D
  BY <1>1, <1>2, <1>3, <1>4 DEF Reached
<1>6. Places(n)' = Places(n)
  BY <1>2 DEF Places, SameCounts
<1>7. Numbered(n, g)'
  BY <1>1, <1>2 DEF Numbered, SameCounts
<1>8. Waiting(n, g, b)'
  <2>1. \A k \in 1..claims[n] : g[k][1] = b => g[k][2] < j.retries + 1
    BY <1>1, <1>3, <1>4 DEF Numbered
  <2>2. \A k \in Of(n)' : g[k.no][1] # b
    BY <1>1, <1>2 DEF Numbered
  <2> QED BY <1>2, <2>1, <2>2 DEF Waiting, SameCounts
<1>9. Reached(n, g, b, D)'
  BY <1>1, <1>2, <1>5 DEF Reached, SameCounts, Absent
<1> QED BY <1>2, <1>5, <1>6, <1>7, <1>8, <1>9 DEF Chained, SameCounts

\* A claim takes the chain from the row.
LEMMA ChainTaken ==
    ASSUME DispatchTypeOK, NEW n \in Notifications, Counted(n), Chained(n), Claimed(n)
    PROVE  Chained(n)'
<1>1. PICK g \in [1..claims[n] -> Places(n)], c \in 0..resets[n], D \in SUBSET (0..resets[n]) :
            Numbered(n, g) /\ Waiting(n, g, c) /\ Reached(n, g, c, D)
  BY DEF Chained
<1>2. PICK j \in WorkerJobs :
        /\ j.no = claims[n] + 1 /\ j.retries = table[n].retries /\ j.step = "queued"
        /\ Of(n)' \subseteq Of(n) \cup {j}
  BY DEF Claimed
<1>3. /\ claims[n] \in Nat /\ resets[n] \in Nat /\ MaxRetries[n] \in Nat
      /\ \A k \in 1..claims[n] : /\ g[k] = <<g[k][1], g[k][2]>>
                                 /\ g[k][1] \in 0..resets[n] /\ g[k][2] \in 0..(MaxRetries[n] - 1)
  BY ChainTypes
<1>4. /\ claims'[n] = claims[n] + 1 /\ resets'[n] = resets[n]
      /\ deliveries'[n] = deliveries[n] /\ misreports'[n] = misreports[n]
      /\ table[n].status \in Claimable
      /\ table'[n].status = "PROCESSING" /\ table'[n] # Absent
  <2>1. table[n] \in TableRows /\ "PROCESSING" \in Statuses
    BY DEF DispatchTypeOK, Statuses
  <2> QED BY <2>1, StatusSet DEF Claimed
<1>5. table[n].retries \in 0..(MaxRetries[n] - 1)
  BY <1>3, <1>4, TableRowShape DEF DispatchTypeOK, Counted
<1>13. PICK last \in Nat, top \in Nat : last = claims[n] + 1 /\ top = table[n].retries
  BY <1>3, <1>5
<1> DEFINE h == [k \in 1..last |-> IF k = last THEN <<c, top>> ELSE g[k]]
<1>6. \A k \in 1..last : k = last \/ k \in 1..claims[n]
  BY <1>3, <1>13
<1>7. /\ h \in [1..claims'[n] -> Places(n)']
      /\ h[last] = <<c, top>>
      /\ \A k \in 1..claims[n] : h[k] = g[k] /\ k # last
  <2>1. <<c, top>> \in Places(n) /\ \A k \in 1..claims[n] : g[k] \in Places(n)
    BY <1>5, <1>13 DEF Places
  <2>2. claims'[n] = last /\ Places(n)' = Places(n)
    BY <1>4, <1>13 DEF Places
  <2> QED BY <1>3, <1>6, <1>13, <2>1, <2>2
<1> HIDE DEF h
<1>8. \A k \in 1..claims[n] : g[k][1] = c => g[k][2] < table[n].retries
  BY <1>1, <1>4 DEF Waiting
<1>9. \A k \in Of(n) : k.no \in 1..claims[n] /\ g[k.no][1] # c
  BY <1>1, <1>4 DEF Waiting, Numbered
<1>10. Numbered(n, h)'
  <2>1. \A k, l \in 1..last : h[k] = h[l] => k = l
    BY <1>1, <1>3, <1>5, <1>6, <1>7, <1>8, <1>13 DEF Numbered
  <2>2. ASSUME NEW k \in Of(n)'
        PROVE  /\ k.no \in 1..last
               /\ h[k.no][2] = k.retries
               /\ \A l \in 1..last : h[l][1] = h[k.no][1] => h[l][2] <= k.retries
    <3>1. CASE k = j
      <4>1. k.no = last /\ k.retries = top /\ h[k.no][1] = c /\ h[k.no][2] = top
        BY <1>2, <1>7, <1>13, <3>1
      <4>2. \A l \in 1..last : h[l][1] = c => h[l][2] <= top
        BY <1>3, <1>6, <1>7, <1>8, <1>13
      <4>3. last \in 1..last
        BY <1>3, <1>13
      <4> QED BY <4>1, <4>2, <4>3
    <3>2. CASE k \in Of(n)
      <4>1. /\ k.no \in 1..claims[n] /\ g[k.no][2] = k.retries
            /\ \A l \in 1..claims[n] : g[l][1] = g[k.no][1] => g[l][2] <= k.retries
        BY <1>1, <3>2 DEF Numbered
      <4>2. \A l \in 1..last : h[l][1] = h[k.no][1] => l \in 1..claims[n]
        BY <1>6, <1>7, <1>9, <1>13, <3>2
      <4>3. h[k.no] = g[k.no]
        BY <1>7, <4>1
      <4>4. k.no \in 1..last
        BY <1>3, <1>13, <4>1
      <4>5. ASSUME NEW l \in 1..last, h[l][1] = h[k.no][1]
            PROVE  h[l][2] <= k.retries
        <5>1. l \in 1..claims[n]
          BY <4>2, <4>5
        <5>2. h[l] = g[l]
          BY <1>7, <5>1
        <5> QED BY <4>1, <4>3, <4>5, <5>1, <5>2
      <4> QED BY <4>1, <4>3, <4>4, <4>5
    <3> QED BY <1>2, <3>1, <3>2
  <2>3. \A k, l \in Of(n)' : h[k.no][1] = h[l.no][1] => k = l
    BY <1>1, <1>2, <1>7, <1>9, <1>13 DEF Numbered
  <2> QED BY <1>4, <1>13, <2>1, <2>2, <2>3 DEF Numbered
<1>11. Waiting(n, h, c)'
  BY <1>4 DEF Waiting, Claimable
<1>12. Reached(n, h, c, D)'
  <2>1. c \notin D
    BY <1>1, <1>4 DEF Reached
  <2>2. \A k \in Of(n)' : k.step # "sent" => h[k.no][1] \notin D
    BY <1>1, <1>2, <1>7, <1>9, <1>13, <2>1 DEF Reached
  <2> QED BY <1>1, <1>4, <2>2 DEF Reached, Claimable
<1> QED BY <1>4, <1>7, <1>10, <1>11, <1>12 DEF Chained

\* A worker gets on with a chain, and perhaps delivers it.
LEMMA ChainWorked ==
    ASSUME DispatchTypeOK, NEW n \in Notifications, Counted(n), Chained(n), Worked(n)
    PROVE  Chained(n)'
<1>1. PICK g \in [1..claims[n] -> Places(n)], c \in 0..resets[n], D \in SUBSET (0..resets[n]) :
            Numbered(n, g) /\ Waiting(n, g, c) /\ Reached(n, g, c, D)
  BY DEF Chained
<1>2. PICK j \in Of(n), s \in Steps :
        /\ j.step \notin {"sent", "failed", "unrendered"}
        /\ Of(n)' \subseteq (Of(n) \ {j}) \cup {[j EXCEPT !.step = s]}
        /\ table'[n] = table[n] /\ claims'[n] = claims[n] /\ resets'[n] = resets[n]
        /\ \/ s # "sent" /\ SameCounts(n)
           \/ /\ s = "sent"
              /\ deliveries'[n] = deliveries[n] + 1 /\ misreports'[n] = misreports[n]
           \/ /\ s # "sent"
              /\ deliveries'[n] = deliveries[n] + 1 /\ misreports'[n] = misreports[n] + 1
  BY DEF Worked
<1> DEFINE new == [j EXCEPT !.step = s]
           b == g[j.no][1]
<1>3. new.no = j.no /\ new.retries = j.retries /\ new.step = s
  BY WorkerJobShape DEF Of, DispatchTypeOK
<1>4. Of(n)' \subseteq (Of(n) \ {j}) \cup {new}
  BY <1>2
<1> HIDE DEF new
<1>5. \A k \in Of(n)' : \E l \in Of(n) :
            /\ k.no = l.no /\ k.retries = l.retries
            /\ l = j <=> k = new
            /\ l # j => k = l
  BY <1>3, <1>4, WorkerJobShape DEF Of, DispatchTypeOK
<1>6. Places(n)' = Places(n)
  BY <1>2 DEF Places
<1>7. Numbered(n, g)'
  BY <1>1, <1>2, <1>5 DEF Numbered
<1>8. Waiting(n, g, c)'
  BY <1>1, <1>2, <1>5 DEF Waiting
<1>9. resets[n] \in Nat /\ deliveries[n] \in Nat /\ misreports[n] \in Nat /\ b \in 0..resets[n]
  BY <1>1, ChainTypes DEF DispatchTypeOK, Numbered
<1>10. IsFiniteSet(D) /\ Cardinality(D) \in Nat
  <2>1. IsFiniteSet(0..resets[n])
    <3>1. 0 \in Int /\ resets[n] \in Int
      BY <1>9
    <3> QED BY <3>1, FS_Interval
  <2>2. IsFiniteSet(D)
    BY <2>1, FS_Subset
  <2> QED BY <2>2, FS_CardinalityType
<1>11. CASE s = "sent"
  <2> DEFINE E == D \cup {b}
  <2>1. b \notin D
    BY <1>1, <1>2 DEF Reached
  <2>2. Cardinality(E) = Cardinality(D) + 1
    BY <1>10, <2>1, FS_AddElement
  <2>3. E \in SUBSET (0..resets[n])
    BY <1>9
  <2>4. deliveries'[n] = Cardinality(E) + misreports'[n]
    BY <1>1, <1>2, <1>9, <1>10, <1>11, <2>2 DEF Reached
  <2>5. table[n].status \in Claimable => c \notin E
    BY <1>1 DEF Reached, Waiting
  <2>6. \A k \in Of(n)' : k.step # "sent" => g[k.no][1] \notin E
    BY <1>1, <1>3, <1>4, <1>11 DEF Reached, Numbered
  <2>7. table'[n] # Absent
    BY <1>2, JobsInBounds
  <2>8. Reached(n, g, c, E)'
    BY <1>2, <2>4, <2>5, <2>6, <2>7 DEF Reached
  <2> QED BY <1>2, <1>6, <1>7, <1>8, <2>3, <2>8 DEF Chained
<1>12. CASE s # "sent"
  <2>1. Reached(n, g, c, D)'
    BY <1>1, <1>2, <1>3, <1>4, <1>9, <1>10, <1>12 DEF Reached, SameCounts
  <2> QED BY <1>2, <1>6, <1>7, <1>8, <2>1 DEF Chained
<1> QED BY <1>11, <1>12

\* The claims can be told apart after each step.
LEMMA NextChained ==
    ASSUME DispatchTypeOK, NEW n \in Notifications, Counted(n), Chained(n), Fate(n)
    PROVE  Chained(n)'
<1>1. CASE Idle(n)
  BY <1>1, ChainStands DEF Idle
<1>2. CASE Ended(n)
  <2>1. table[n] \in TableRows /\ {"SENT", "CANCELLED", "FAILED"} \subseteq Statuses
    BY DEF DispatchTypeOK, Statuses
  <2>2. CASE \E s \in {"SENT", "CANCELLED", "FAILED"} : table'[n] = [table[n] EXCEPT !.status = s]
    <3>1. table'[n].status \in {"SENT", "CANCELLED", "FAILED"} /\ table'[n] # Absent
      BY <2>1, <2>2, StatusSet
    <3> QED BY <1>2, <3>1, ChainStands DEF Ended, Claimable
  <2>3. CASE \E r : table'[n] = [status |-> "FAILED", retries |-> r]
    <3>1. table'[n].status = "FAILED" /\ table'[n] # Absent
      BY <2>3 DEF Absent
    <3> QED BY <1>2, <3>1, ChainStands DEF Ended, Claimable
  <2> QED BY <1>2, <2>2, <2>3 DEF Ended
<1> QED BY <1>1, <1>2, NewChain, ChainPassedOn, ChainTaken, ChainWorked DEF Fate

\* The invariant holds of an empty table.
LEMMA InitKeepsDInv == DispatchInit => DInv
<1> SUFFICES ASSUME DispatchInit PROVE DInv
  OBVIOUS
<1> USE DispatchAssumption
<1>1. DispatchTypeOK
  BY DEF DispatchInit, DispatchTypeOK, TableRows, Absent, Requests
<1>2. Underway
  BY DEF DispatchInit, Underway, Requests, Absent
<1>3. ASSUME NEW n \in Notifications PROVE Counted(n) /\ Chained(n)
  <2>1. /\ table[n] = Absent /\ claims[n] = 0 /\ deliveries[n] = 0 /\ misreports[n] = 0
        /\ resets[n] = 0 /\ Of(n) = {}
    BY DEF DispatchInit, Of
  <2>2. table[n].status \notin Claimable /\ table[n].retries = 0 /\ table[n].status # "FAILED"
    BY <2>1 DEF Absent, Claimable
  <2> DEFINE g == [k \in 1..0 |-> <<0, 0>>]
  <2>3. g \in [1..0 -> Places(n)] /\ 0 \in 0..0 /\ {} \in SUBSET (0..0)
    <3>1. 1..0 = {}
      OBVIOUS
    <3> QED BY <3>1
  <2>4. Numbered(n, g) /\ Waiting(n, g, 0)
    BY <2>1, <2>2 DEF Numbered, Waiting
  <2>5. Reached(n, g, 0, {})
    BY <2>1, <2>2, FS_EmptySet DEF Reached
  <2> HIDE DEF g
  <2>6. Chained(n)
    BY <2>1, <2>3, <2>4, <2>5 DEF Chained
  <2> QED BY <2>1, <2>2, <2>6 DEF Counted
<1> QED BY <1>1, <1>2, <1>3 DEF DInv

\* The invariant is inductive.
LEMMA StepKeepsDInv == DInv /\ [DispatchNext]_dispatchVars => DInv'
<1> SUFFICES ASSUME DInv, [DispatchNext]_dispatchVars PROVE DInv'
  OBVIOUS
<1>1. DispatchTypeOK /\ Underway /\ \A n \in Notifications : Counted(n) /\ Chained(n)
  BY DEF DInv
<1>2. \A n \in Notifications : Fate(n)
  BY <1>1, NextFate
<1>3. ASSUME NEW n \in Notifications PROVE Counted(n)' /\ Chained(n)'
  BY <1>1, <1>2, NextCounted, NextChained
<1> QED BY <1>1, <1>3, NextType, NextUnderway DEF DInv

-----------------------------------------------------------------------------
(* The dispatcher: the theorems.                                           *)

\* How many numbers there are from nothing or one to a.
LEMMA UpTo ==
    ASSUME NEW a \in Nat
    PROVE  /\ IsFiniteSet(0..a) /\ Cardinality(0..a) = 1 + a
           /\ IsFiniteSet(1..a) /\ Cardinality(1..a) = a
<1>1. 0 \in Int /\ 1 \in Int /\ a \in Int /\ ~(0 > a)
  OBVIOUS
<1>2. IsFiniteSet(0..a) /\ Cardinality(0..a) = a - 0 + 1
  BY <1>1, FS_Interval
<1>3. IsFiniteSet(1..a) /\ Cardinality(1..a) = IF 1 > a THEN 0 ELSE a - 1 + 1
  BY <1>1, FS_Interval
<1>4. a - 0 + 1 = 1 + a /\ (IF 1 > a THEN 0 ELSE a - 1 + 1) = a
  OBVIOUS
<1> QED BY <1>2, <1>3, <1>4

\* The invariant holds in every reachable state.
THEOREM DInvHolds == DispatchSpec => []DInv
BY InitKeepsDInv, StepKeepsDInv, PTL DEF DispatchSpec

\* The variables of the dispatcher have their types, and no row counts more attempts than
\* max_retries although markRetryOrFailed writes what it counted from the claimed row.
THEOREM DispatchTypeCorrect == DispatchSpec => []DispatchTypeOK
<1>1. DInv => DispatchTypeOK
  BY DEF DInv
<1> QED BY <1>1, DInvHolds, PTL

\* A recipient is reached once, and once more at most for each Retry and each delivery that was
\* reported as a failure, whatever the instances, requests and crashes: the chains that
\* delivered are among the 1 + resets[n] there are.
THEOREM DeliveriesAreAccounted == DispatchSpec => []DeliveriesAccounted
<1>1. ASSUME DInv, NEW n \in Notifications
      PROVE  deliveries[n] <= 1 + resets[n] + misreports[n]
  <2>1. PICK D \in SUBSET (0..resets[n]) : deliveries[n] = Cardinality(D) + misreports[n]
    BY <1>1 DEF DInv, Chained, Reached
  <2>2. resets[n] \in Nat /\ misreports[n] \in Nat
    BY <1>1 DEF DInv, DispatchTypeOK
  <2>3. IsFiniteSet(0..resets[n]) /\ Cardinality(0..resets[n]) = 1 + resets[n]
    BY <2>2, UpTo
  <2>4. Cardinality(D) <= Cardinality(0..resets[n]) /\ IsFiniteSet(D)
    BY <2>3, FS_Subset
  <2>5. Cardinality(D) \in Nat
    BY <2>4, FS_CardinalityType
  <2> QED BY <2>1, <2>2, <2>3, <2>4, <2>5
<1>2. DInv => DeliveriesAccounted
  BY <1>1 DEF DeliveriesAccounted
<1> QED BY <1>2, DInvHolds, PTL

\* A notification is attempted max_retries times and as often again after each Retry: the claims
\* have places of their own in (1 + resets[n]) chains of MaxRetries[n].
THEOREM AttemptsAreBounded == DispatchSpec => []AttemptsBounded
<1>1. ASSUME DInv, NEW n \in Notifications
      PROVE  claims[n] <= MaxRetries[n] * (1 + resets[n])
  <2>1. PICK g \in [1..claims[n] -> Places(n)] :
                \A k, l \in 1..claims[n] : g[k] = g[l] => k = l
    BY <1>1 DEF DInv, Chained, Numbered
  <2>2. claims[n] \in Nat /\ resets[n] \in Nat /\ MaxRetries[n] \in Nat \ {0}
    BY <1>1, DispatchAssumption DEF DInv, DispatchTypeOK
  <2>3. g \in Injection(1..claims[n], Places(n))
    BY <2>1 DEF Injection, IsInjective
  <2>4. /\ IsFiniteSet(1..claims[n]) /\ Cardinality(1..claims[n]) = claims[n]
        /\ IsFiniteSet(0..resets[n]) /\ Cardinality(0..resets[n]) = 1 + resets[n]
        /\ IsFiniteSet(0..(MaxRetries[n] - 1))
        /\ Cardinality(0..(MaxRetries[n] - 1)) = MaxRetries[n]
    <3>1. /\ MaxRetries[n] - 1 \in Nat
          /\ 1 + (MaxRetries[n] - 1) = MaxRetries[n]
      BY <2>2
    <3>2. /\ IsFiniteSet(0..(MaxRetries[n] - 1))
          /\ Cardinality(0..(MaxRetries[n] - 1)) = 1 + (MaxRetries[n] - 1)
      BY <3>1, UpTo
    <3> QED BY <2>2, <3>1, <3>2, UpTo
  <2>5. /\ IsFiniteSet(Places(n))
        /\ Cardinality(Places(n)) = (1 + resets[n]) * MaxRetries[n]
    <3> DEFINE A == 0..resets[n]
               B == 0..(MaxRetries[n] - 1)
    <3> HIDE DEF A, B
    <3>1. IsFiniteSet(A \X B) /\ Cardinality(A \X B) = Cardinality(A) * Cardinality(B)
      BY <2>4, FS_Product DEF A, B
    <3> QED BY <2>4, <3>1 DEF Places, A, B
  <2>6. claims[n] <= (1 + resets[n]) * MaxRetries[n]
    BY <2>3, <2>4, <2>5, FS_Injection
  <2> QED BY <2>2, <2>6
<1>2. DInv => AttemptsBounded
  BY <1>1 DEF AttemptsBounded, DInv, Counted
<1> QED BY <1>2, DInvHolds, PTL

\* No step wakes what is cancelled, held by nobody and not about to be queued again.
LEMMA CancelledStands ==
    ASSUME DInv, DInv', [DispatchNext]_dispatchVars, NEW n \in Notifications,
           table[n].status = "CANCELLED", ~Live(n), ~RetryUnderway(n)
    PROVE  /\ table'[n].status = "CANCELLED"
           /\ ~Live(n)'
           /\ ~RetryUnderway(n)'
           /\ deliveries'[n] = deliveries[n]
<1> USE DispatchAssumption
<1>1. DispatchTypeOK /\ Underway /\ Of(n) = {} /\ Fate(n) /\ table[n] # Absent
  BY NextFate DEF DInv, Live, Of, Absent
<1>2. ASSUME NEW r \in Requests, Handle(r)
      PROVE  ~RetryUnderway(n)' /\ resets'[n] = resets[n]
  <2>1. \A c \in Changes \ {r} : phase'[c] = phase[c]
    BY <1>1, <1>2 DEF Handle, Arrive, SendLookup, SendInsert, CallRead, CallWrite, RequestFails,
                      Answer, Proceed, Requests, DispatchTypeOK
  <2>2. r \in Changes /\ Asked[r] = [kind |-> "retry", id |-> n] =>
            phase'[r] # "write" /\ resets'[n] = resets[n]
    <3> SUFFICES ASSUME r \in Changes, Asked[r] = [kind |-> "retry", id |-> n]
                 PROVE  phase'[r] # "write" /\ resets'[n] = resets[n]
      OBVIOUS
    <3>1. phase[r] # "write"
      BY DEF RetryUnderway
    <3>2. Refused(r)
      BY DEF Refused
    <3>3. CASE Arrive(r)
      BY <1>1, <3>3 DEF Arrive, Proceed, history, DispatchTypeOK, Requests
    <3>4. CASE CallRead(r)
      BY <1>1, <3>2, <3>4 DEF CallRead, Answer, Proceed, history, DispatchTypeOK, Requests
    <3>5. CASE RequestFails(r)
      BY <1>1, <3>1, <3>5 DEF RequestFails, Answer, Proceed, DispatchTypeOK, Requests
    <3>6. CASE CallWrite(r)
      BY <3>1, <3>6 DEF CallWrite
    <3> QED BY <1>2, <3>3, <3>4, <3>5, <3>6 DEF Handle
  <2>3. resets'[n] # resets[n] => r \in Changes /\ Asked[r] = [kind |-> "retry", id |-> n]
    <3>1. ASSUME r \in Changes, RetryTakes(r), resets'[n] # resets[n]
          PROVE  Asked[r] = [kind |-> "retry", id |-> n]
      BY <1>1, <3>1 DEF RetryTakes, DispatchTypeOK
    <3>2. RequestFails(r) /\ phase[r] = "write" => r \in Changes
      BY <1>1 DEF Underway, Requests
    <3> QED BY <1>2, <3>1, <3>2 DEF Handle, Arrive, SendLookup, SendInsert, CallRead, CallWrite,
                                    RequestFails, CancelTakes, history
  <2> QED BY <2>1, <2>2, <2>3 DEF RetryUnderway
<1>3. ASSUME UNCHANGED phase PROVE ~RetryUnderway(n)'
  BY <1>3 DEF RetryUnderway
<1>4. ~RetryUnderway(n)' /\ resets'[n] = resets[n]
  <2>1. ASSUME NEW t \in Templates, CreateTemplate(t) \/ UpdateTemplate(t) \/ DeleteTemplate(t)
        PROVE  UNCHANGED <<phase, resets>>
    BY <2>1 DEF CreateTemplate, UpdateTemplate, DeleteTemplate, SetTemplate, history
  <2>2. ASSUME NEW i \in Dispatchers, Poll(i) \/ PollFails(i) \/ Stop(i) \/ Exit(i) \/ StartUp(i)
        PROVE  UNCHANGED <<phase, resets>>
    BY <2>2 DEF Poll, PollFails, Stop, Exit, StartUp, history
  <2>3. ASSUME NEW j \in jobs, Process(j)
        PROVE  UNCHANGED <<phase, resets>>
    BY <2>3 DEF Process, Take, Render, RenderFails, RenderHangs, Deliver, DeliverFails, Record,
                RecordFails, history
  <2>4. UNCHANGED dispatchVars => UNCHANGED <<phase, resets>>
    BY DEF dispatchVars, history
  <2> QED BY <1>2, <1>3, <2>1, <2>2, <2>3, <2>4 DEF DispatchNext
<1>5. Idle(n) \/ Ended(n)
  <2>1. ~Stored(n) /\ ~Requeued(n) /\ ~Worked(n)
    BY <1>1 DEF Stored, Requeued, Worked
  <2>2. ~Reset(n)
    BY <1>1, <1>4 DEF Reset, DispatchTypeOK
  <2>3. ~Claimed(n)
    BY DEF Claimed, Claimable
  <2> QED BY <1>1, <2>1, <2>2, <2>3 DEF Fate
<1>6. ~Live(n)' /\ deliveries'[n] = deliveries[n]
  BY <1>1, <1>5 DEF Idle, Ended, SameCounts, Live, Of
<1>7. table'[n].status = "CANCELLED"
  <2>1. table[n] \in TableRows /\ "CANCELLED" \in Statuses
    BY <1>1 DEF DispatchTypeOK, Statuses
  <2>2. [table[n] EXCEPT !.status = "CANCELLED"].status = "CANCELLED"
    BY <2>1, StatusSet
  <2>3. table'[n] = table[n] \/ table'[n] = [table[n] EXCEPT !.status = "CANCELLED"]
    BY <1>1, <1>5 DEF Idle, Ended
  <2> QED BY <2>2, <2>3
<1> QED BY <1>4, <1>6, <1>7

\* A cancelled notification that nobody holds and no Retry has checked stays so and reaches
\* nobody.
THEOREM CancellationHolds == DispatchSpec => CancelHolds
<1>1. DInv /\ DInv' /\ [DispatchNext]_dispatchVars =>
        [\A n \in Notifications :
          table[n].status = "CANCELLED" /\ ~Live(n) /\ ~RetryUnderway(n) =>
              /\ table'[n].status = "CANCELLED"
              /\ ~Live(n)'
              /\ ~RetryUnderway(n)'
              /\ deliveries'[n] = deliveries[n]]_dispatchVars
  BY CancelledStands
<1> QED BY <1>1, DInvHolds, PTL DEF DispatchSpec, CancelHolds

-----------------------------------------------------------------------------
(***************************************************************************)
(* The schedulers: the invariant.                                          *)
(***************************************************************************)

\* A scheduler that is at a schedule has a job, one that is down has nothing.
Staged ==
    \A i \in Instances :
        /\ stage[i] \in {"create", "update"} <=> job[i] # Never
        /\ stage[i] = "down" => todo[i] = {}
        /\ job[i] # Never => job[i].claim.run <= job[i].now

InTodo(i, s) == \E k \in todo[i] : k.id = s
AtJob(i, s) == job[i] # Never /\ job[i].claim.id = s

\* Nobody holds a schedule that was not created, and nobody was notified of it.
Fresh ==
    \A s \in Schedules : life[s] = "new" =>
        /\ \A n \in notifs : n.id # s
        /\ \A i \in Instances : ~InTodo(i, s) /\ ~AtJob(i, s)

\* One scheduler holds s, once.
Sole(s) ==
    /\ \A i, j \in Instances :
        (InTodo(i, s) \/ AtJob(i, s)) /\ (InTodo(j, s) \/ AtJob(j, s)) => i = j
    /\ \A i \in Instances : ~(InTodo(i, s) /\ AtJob(i, s))
    /\ \A i \in Instances : \A k1, k2 \in todo[i] : k1.id = s /\ k2.id = s => k1 = k2

\* There is no notification of this run of s; the zero time is no run.
Unrun(s, run) == \A n \in notifs : n.id = s /\ n.run # ZeroTime => n.run # run

\* A claim of s says what the row says.
AsRow(k, s) ==
    /\ k.run = rows[s].next
    /\ k.cron = rows[s].cron
    /\ k.recurring = rows[s].recurring

\* What a scheduler has read of s still stands in the row.
Current(s) ==
    \A i \in Instances :
        /\ \A k \in todo[i] : k.id = s => AsRow(k, s) /\ Unrun(s, k.run)
        /\ AtJob(i, s) => /\ AsRow(job[i].claim, s)
                          /\ stage[i] = "create" => Unrun(s, job[i].claim.run)

\* The runs that were notified of lie behind next_run_at, the one that has yet to be recorded
\* apart.
Behind(s) ==
    life[s] = "stored" =>
        \A n \in notifs : n.id = s /\ n.run # ZeroTime =>
            \/ rows[s].next = Never
            \/ n.run < rows[s].next
            \/ n.run = rows[s].next /\ \E i \in Instances : AtJob(i, s)

\* A schedule whose expression matches no date is due at the zero time, and has never run at
\* another.
Blank(s) ==
    life[s] = "stored" /\ rows[s].recurring /\ rows[s].cron \in Barren =>
        /\ rows[s].next = ZeroTime
        /\ \A n \in notifs : n.id = s => n.run = ZeroTime

Regular(s) == s \notin troubled => Sole(s) /\ Current(s) /\ Behind(s) /\ Blank(s)

IInv == TypeOK /\ Staged /\ Fresh /\ OncePerRun /\ \A s \in Schedules : Regular(s)

-----------------------------------------------------------------------------
(* Shapes.                                                                 *)

Notifs == [id : Schedules, run : Nat, minute : Minutes]
Ops == [kind : {"update", "enable", "disable", "delete"}, id : Schedules]

LEMMA Constants ==
    /\ Crons \subseteq Nat \ {0} /\ Barren \subseteq Crons
    /\ Horizon \in Nat \ {0} /\ Never \notin Nat
    /\ Op \in [Calls -> Ops]
BY SchedulerAssumption DEF Ops

LEMMA Shapes ==
    ASSUME TypeOK
    PROVE  /\ clock \in Minutes /\ clock \in Nat
           /\ life \in [Schedules -> {"new", "stored", "deleted"}]
           /\ rows \in [Schedules -> Rows]
           /\ pc \in [Calls -> {"idle", "write", "done"}] /\ seen \in [Calls -> Rows]
           /\ stage \in [Instances -> {"idle", "create", "update", "down"}]
           /\ todo \in [Instances -> SUBSET Claims]
           /\ job \in [Instances -> Jobs \cup {Never}]
           /\ notifs \subseteq Notifs /\ troubled \subseteq Schedules
<1>1. clock \in Minutes
  BY DEF TypeOK
<1>2. clock \in Nat
  BY <1>1, Constants DEF Minutes
<1> QED BY <1>2 DEF TypeOK, Notifs

LEMMA OpShape ==
    ASSUME NEW c \in Calls
    PROVE  Op[c].id \in Schedules /\ Op[c].kind \in {"update", "enable", "disable", "delete"}
BY Constants DEF Ops

LEMMA RowShape ==
    \A row \in Rows :
        /\ row.recurring \in BOOLEAN /\ row.cron \in Crons \cup {0} /\ row.enabled \in BOOLEAN
        /\ row.next \in Nat \cup {Never}
BY DEF Rows

LEMMA RowChange ==
    ASSUME NEW row \in Rows, NEW b \in BOOLEAN
    PROVE  /\ [row EXCEPT !.enabled = b] \in Rows
           /\ [row EXCEPT !.enabled = b].next = row.next
           /\ [row EXCEPT !.enabled = b].cron = row.cron
           /\ [row EXCEPT !.enabled = b].recurring = row.recurring
           /\ [row EXCEPT !.next = Never, !.enabled = b] \in Rows
           /\ [row EXCEPT !.next = Never, !.enabled = b].next = Never
           /\ [row EXCEPT !.next = Never, !.enabled = b].cron = row.cron
           /\ [row EXCEPT !.next = Never, !.enabled = b].recurring = row.recurring
BY DEF Rows

LEMMA NextChange ==
    ASSUME NEW row \in Rows, NEW next \in Nat \cup {Never}
    PROVE  /\ [row EXCEPT !.next = next] \in Rows /\ [row EXCEPT !.next = next].next = next
           /\ [row EXCEPT !.next = next].cron = row.cron
           /\ [row EXCEPT !.next = next].recurring = row.recurring
BY DEF Rows

LEMMA CronChange ==
    ASSUME NEW row \in Rows, NEW next \in Nat \cup {Never}, NEW cron \in Crons
    PROVE  [row EXCEPT !.cron = cron, !.next = next] \in Rows
BY DEF Rows

LEMMA ClaimShape ==
    \A k \in Claims : /\ k.id \in Schedules /\ k.recurring \in BOOLEAN /\ k.cron \in Crons \cup {0}
                      /\ k.run \in Nat
BY DEF Claims

LEMMA NewClaim ==
    ASSUME TypeOK, NEW s \in Schedules, rows[s].next # Never
    PROVE  ClaimOf(s) \in Claims /\ ClaimOf(s).id = s /\ AsRow(ClaimOf(s), s)
<1>1. /\ rows[s].recurring \in BOOLEAN /\ rows[s].cron \in Crons \cup {0} /\ rows[s].next \in Nat
  BY Shapes, RowShape
<1> QED BY <1>1 DEF Claims, ClaimOf, AsRow

LEMMA JobShape ==
    \A j \in Jobs : j.claim \in Claims /\ j.now \in Minutes
BY DEF Jobs

LEMMA NewJob ==
    ASSUME NEW k \in Claims, NEW now \in Minutes
    PROVE  LET j == [claim |-> k, now |-> now] IN  /\ j \in Jobs /\ j # Never /\ j.claim = k /\ j.now = now
BY JobAssumption DEF Jobs

LEMMA NotifShape ==
    \A n \in Notifs : n.id \in Schedules /\ n.run \in Nat /\ n.minute \in Minutes
BY DEF Notifs

LEMMA NewNotif ==
    ASSUME NEW s \in Schedules, NEW run \in Nat, NEW minute \in Minutes
    PROVE  LET n == [id |-> s, run |-> run, minute |-> minute]
           IN  n \in Notifs /\ n.id = s /\ n.run = run /\ n.minute = minute
BY DEF Notifs

\* The next run of an expression lies ahead, unless it is none.
LEMMA NextRunAhead ==
    ASSUME NEW now \in Nat, NEW cron \in Nat \ {0}
    PROVE  /\ NextRun(cron, now) \in Nat
           /\ cron \in Barren => NextRun(cron, now) = ZeroTime
           /\ cron \notin Barren => NextRun(cron, now) > now
<1> DEFINE q == now \div cron
<1>1. q \in Nat /\ (now % cron) \in 0..(cron - 1)
  OBVIOUS
<1>2. now = cron * q + (now % cron)
  OBVIOUS
<1>3. (q + 1) * cron = cron * q + cron /\ cron * q \in Nat
  BY <1>1
<1> HIDE DEF q
<1>4. cron * q + cron > now
  BY <1>1, <1>2, <1>3
<1>5. (q + 1) * cron > now /\ (q + 1) * cron \in Nat
  BY <1>1, <1>3, <1>4
<1> QED BY <1>5 DEF NextRun, ZeroTime, q

LEMMA HeldShape ==
    ASSUME NEW i \in Instances, NEW s
    PROVE  s \in Held(i) <=> InTodo(i, s) \/ AtJob(i, s)
BY DEF Held, InTodo, AtJob

LEMMA MinuteShape == \A t \in Minutes : t \in Nat
BY Constants DEF Minutes

-----------------------------------------------------------------------------
(* Types.                                                                  *)

\* A step of the API.
LEMMA ApiType ==
    ASSUME TypeOK, UNCHANGED <<clock, stage, todo, job, notifs>>,
           life' \in [Schedules -> {"new", "stored", "deleted"}], rows' \in [Schedules -> Rows],
           pc' \in [Calls -> {"idle", "write", "done"}], seen' \in [Calls -> Rows],
           troubled' \subseteq Schedules
    PROVE  TypeOK'
BY DEF TypeOK

\* A step of a scheduler.
LEMMA WorkType ==
    ASSUME TypeOK, UNCHANGED <<clock, life, api>>, rows' \in [Schedules -> Rows],
           stage' \in [Instances -> {"idle", "create", "update", "down"}],
           todo' \in [Instances -> SUBSET Claims],
           job' \in [Instances -> Jobs \cup {Never}],
           notifs' \subseteq Notifs, troubled' \subseteq Schedules,
           \A i \in Instances : \A k \in todo'[i] : k.run <= clock
    PROVE  TypeOK'
BY DEF TypeOK, Notifs, api

\* The row a run leaves.
LEMMA MovedShape ==
    ASSUME TypeOK, Staged, NEW i \in Instances, job[i] # Never, NEW row \in Rows
    PROVE  LET k == job[i].claim
               new == Moved(i, row)
           IN  /\ new \in Rows /\ new.cron = row.cron /\ new.recurring = row.recurring
               /\ \/ new.next = Never
                  \/ new.next \in Nat /\ k.run < new.next
                  \/ k.recurring /\ k.cron \in Barren
               /\ k.recurring /\ k.cron \in Barren => new.next = ZeroTime
<1>1. job[i] \in Jobs
  BY Shapes
<1>2. job[i].claim \in Claims /\ job[i].now \in Minutes /\ job[i].now \in Nat
  BY <1>1, JobShape, MinuteShape
<1>3. job[i].claim.run <= job[i].now /\ job[i].claim.run \in Nat
      /\ job[i].claim.cron \in Crons \cup {0}
  BY <1>2, ClaimShape DEF Staged
<1>4. CASE job[i].claim.recurring /\ job[i].claim.cron # 0
  <2> DEFINE next == NextRun(job[i].claim.cron, job[i].now)
  <2>1. /\ next \in Nat
        /\ job[i].claim.cron \in Barren => next = ZeroTime
        /\ job[i].claim.cron \notin Barren => next > job[i].now
    BY <1>2, <1>3, <1>4, NextRunAhead, Constants
  <2>2. Moved(i, row) = [row EXCEPT !.next = next]
    BY <1>4 DEF Moved
  <2> HIDE DEF next
  <2>3. /\ Moved(i, row) \in Rows /\ Moved(i, row).next = next
        /\ Moved(i, row).cron = row.cron /\ Moved(i, row).recurring = row.recurring
    BY <2>1, <2>2, NextChange
  <2> QED BY <1>2, <1>3, <1>4, <2>1, <2>3
<1>5. CASE ~(job[i].claim.recurring /\ job[i].claim.cron # 0)
  <2>1. Moved(i, row) = [row EXCEPT !.next = Never, !.enabled = FALSE]
    BY <1>5 DEF Moved
  <2>2. ~(job[i].claim.recurring /\ job[i].claim.cron \in Barren)
    BY <1>5, Constants
  <2> QED BY <2>1, <2>2, RowChange
<1> QED BY <1>4, <1>5

LEMMA NewRowShape == ASSUME TypeOK, NEW row \in NewRows PROVE row \in Rows
<1>1. ASSUME NEW cron \in Crons
      PROVE  [recurring |-> TRUE, cron |-> cron, enabled |-> TRUE, next |-> NextRun(cron, clock)]
                \in Rows
  <2>1. NextRun(cron, clock) \in Nat
    BY Shapes, Constants, NextRunAhead
  <2> QED BY <2>1 DEF Rows
<1>2. ASSUME NEW at \in Minutes
      PROVE  [recurring |-> FALSE, cron |-> 0, enabled |-> TRUE, next |-> at] \in Rows
  BY MinuteShape DEF Rows
<1> QED BY <1>1, <1>2 DEF NewRows

\* A recurring schedule whose expression matches no date starts at the zero time.
LEMMA NewRowBlank ==
    ASSUME TypeOK, NEW row \in NewRows, row.recurring, row.cron \in Barren
    PROVE  row.next = ZeroTime
<1>1. ASSUME NEW cron \in Crons, cron \in Barren PROVE NextRun(cron, clock) = ZeroTime
  BY <1>1, Shapes, Constants, NextRunAhead
<1> QED BY <1>1, Constants DEF NewRows

LEMMA EditedShape == ASSUME TypeOK, NEW row \in Rows, NEW new \in Edited(row) PROVE new \in Rows
<1>1. ASSUME NEW cron \in Crons
      PROVE  [row EXCEPT !.cron = cron, !.next = NextRun(cron, clock)] \in Rows
  <2>1. NextRun(cron, clock) \in Nat
    BY Shapes, Constants, NextRunAhead
  <2> QED BY <2>1, CronChange
<1>2. ASSUME NEW at \in Minutes PROVE [row EXCEPT !.next = at] \in Rows
  BY MinuteShape, NextChange
<1> QED BY <1>1, <1>2 DEF Edited

\* The notification a job asks for.
LEMMA NotificationShape ==
    ASSUME TypeOK, NEW i \in Instances, job[i] # Never
    PROVE  /\ job[i] \in Jobs /\ job[i].claim \in Claims /\ job[i].claim.id \in Schedules
           /\ Notification(i) \in Notifs /\ Notification(i).id = job[i].claim.id
           /\ Notification(i).run = job[i].claim.run /\ Notification(i).minute = job[i].now
<1>1. job[i] \in Jobs
  BY Shapes
<1>2. job[i].claim \in Claims /\ job[i].now \in Minutes
  BY <1>1, JobShape
<1>3. job[i].claim.id \in Schedules /\ job[i].claim.run \in Nat
  BY <1>2, ClaimShape
<1> QED BY <1>1, <1>2, <1>3, NewNotif DEF Notification

LEMMA StepKeepsTypes ==
    ASSUME TypeOK, Staged, [Next]_vars
    PROVE  TypeOK'
<1>0. /\ clock \in Minutes /\ clock \in Nat
      /\ life \in [Schedules -> {"new", "stored", "deleted"}]
      /\ rows \in [Schedules -> Rows]
      /\ pc \in [Calls -> {"idle", "write", "done"}] /\ seen \in [Calls -> Rows]
      /\ stage \in [Instances -> {"idle", "create", "update", "down"}]
      /\ todo \in [Instances -> SUBSET Claims]
      /\ job \in [Instances -> Jobs \cup {Never}]
      /\ notifs \subseteq Notifs /\ troubled \subseteq Schedules
      /\ \A i \in Instances : \A k \in todo[i] : k.run <= clock
  BY Shapes DEF TypeOK
<1>1. CASE Minute
  <2>1. clock' = clock + 1 /\ clock' \in Minutes
    BY <1>0, <1>1, Constants DEF Minute, Minutes
  <2>2. \A i \in Instances : \A k \in todo[i] : k.run <= clock + 1
    BY <1>0, ClaimShape
  <2> QED BY <1>0, <1>1, <2>1, <2>2 DEF Minute, TypeOK, api
<1>2. ASSUME NEW s \in Schedules, Create(s) PROVE TypeOK'
  <2>1. PICK row \in NewRows : rows' = [rows EXCEPT ![s] = row]
    BY <1>2 DEF Create
  <2>2. row \in Rows
    BY NewRowShape
  <2> QED BY <1>0, <1>2, <2>1, <2>2, ApiType DEF Create, api
<1>3. ASSUME NEW c \in Calls, UpdateReads(c) PROVE TypeOK'
  <2>1. Op[c].id \in Schedules
    BY OpShape
  <2> QED BY <1>0, <1>3, <2>1, ApiType DEF UpdateReads, Goto
<1>4. ASSUME NEW c \in Calls, UpdateWrites(c) PROVE TypeOK'
  <2>1. Op[c].id \in Schedules /\ pc' \in [Calls -> {"idle", "write", "done"}]
    BY <1>0, <1>4, OpShape DEF UpdateWrites, Goto
  <2>2. rows' \in [Schedules -> Rows] /\ troubled' \subseteq Schedules
    <3> DEFINE s == Op[c].id
    <3>1. CASE life[s] = "stored"
      <4>1. PICK row \in Edited(seen[c]) :
               rows' = [rows EXCEPT ![s] = [row EXCEPT !.enabled = rows[s].enabled]]
        BY <1>4, <3>1 DEF UpdateWrites
      <4>2. row \in Rows /\ rows[s].enabled \in BOOLEAN
        BY <1>0, <2>1, EditedShape, RowShape
      <4>3. [row EXCEPT !.enabled = rows[s].enabled] \in Rows
        BY <4>2, RowChange
      <4>4. rows' \in [Schedules -> Rows]
        BY <1>0, <4>1, <4>3
      <4> QED BY <1>0, <1>4, <2>1, <4>4 DEF UpdateWrites
    <3>2. CASE life[s] # "stored"
      BY <1>0, <1>4, <3>2 DEF UpdateWrites
    <3> QED BY <3>1, <3>2
  <2> QED BY <1>0, <1>4, <2>1, <2>2, ApiType DEF UpdateWrites
<1>5. ASSUME NEW c \in Calls, SetEnabled(c) PROVE TypeOK'
  <2> DEFINE s == Op[c].id
             b == Op[c].kind = "enable"
  <2>1. s \in Schedules /\ rows' = [rows EXCEPT ![s].enabled = b] /\ b \in BOOLEAN
    BY <1>5, OpShape DEF SetEnabled
  <2>2. [rows[s] EXCEPT !.enabled = b] \in Rows
    BY <1>0, <2>1, RowChange
  <2>3. rows' = [rows EXCEPT ![s] = [rows[s] EXCEPT !.enabled = b]]
    BY <2>1
  <2>4. rows' \in [Schedules -> Rows]
    BY <1>0, <2>1, <2>2, <2>3
  <2>5. pc' \in [Calls -> {"idle", "write", "done"}]
    BY <1>0, <1>5 DEF SetEnabled, Goto
  <2> QED BY <1>0, <1>5, <2>4, <2>5, ApiType DEF SetEnabled
<1>6. ASSUME NEW c \in Calls, Delete(c) PROVE TypeOK'
  <2>1. Op[c].id \in Schedules
    BY OpShape
  <2> QED BY <1>0, <1>6, <2>1, ApiType DEF Delete, Goto
<1>7. ASSUME NEW i \in Instances, NEW B \in SUBSET {s \in Schedules : Due(s)}, Claim(i, B)
      PROVE  TypeOK'
  <2>1. \A s \in B : /\ ClaimOf(s) \in Claims /\ ClaimOf(s).run <= clock
    BY NewClaim DEF Due, AsRow
  <2>2. todo' = [todo EXCEPT ![i] = {ClaimOf(s) : s \in B}]
    BY <1>7 DEF Claim
  <2>3. todo' \in [Instances -> SUBSET Claims]
    BY <1>0, <2>1, <2>2
  <2>4. \A j \in Instances : \A k \in todo'[j] : k.run <= clock
    BY <1>0, <2>1, <2>2
  <2> QED BY <1>0, <1>7, <2>3, <2>4, WorkType DEF Claim
<1>8. ASSUME NEW i \in Instances, Fire(i) PROVE TypeOK'
  <2>1. PICK k \in todo[i] : /\ job' = [job EXCEPT ![i] = [claim |-> k, now |-> clock]]
                             /\ todo' = [todo EXCEPT ![i] = @ \ {k}]
    BY <1>8 DEF Fire
  <2>2. [claim |-> k, now |-> clock] \in Jobs
    BY <1>0, NewJob
  <2>3. job' \in [Instances -> Jobs \cup {Never}] /\ todo' \in [Instances -> SUBSET Claims]
        /\ \A j \in Instances : todo'[j] \subseteq todo[j]
    BY <1>0, <2>1, <2>2
  <2> QED BY <1>0, <1>8, <2>3, WorkType DEF Fire
<1>9. ASSUME NEW i \in Instances, CreateNotification(i) \/ CreateFails(i) PROVE TypeOK'
  <2>1. job[i] # Never
    BY <1>9 DEF CreateNotification, CreateFails, Staged
  <2>2. notifs' \subseteq Notifs /\ troubled' \subseteq Schedules
    BY <1>0, <1>9, <2>1, NotificationShape DEF CreateNotification, CreateFails
  <2>3. stage' \in [Instances -> {"idle", "create", "update", "down"}]
        /\ job' \in [Instances -> Jobs \cup {Never}]
    BY <1>0, <1>9 DEF CreateNotification, CreateFails, Done
  <2> QED BY <1>0, <1>9, <2>2, <2>3, WorkType DEF CreateNotification, CreateFails
<1>10. ASSUME NEW i \in Instances, UpdateAfterRun(i) PROVE TypeOK'
  <2>1. job[i] # Never
    BY <1>10 DEF UpdateAfterRun, Staged
  <2> DEFINE s == job[i].claim.id
  <2>2. s \in Schedules
    BY <2>1, NotificationShape
  <2>3. rows' = rows \/ rows' = [rows EXCEPT ![s] = Moved(i, rows[s])]
    BY <1>10 DEF UpdateAfterRun
  <2>4. rows' \in [Schedules -> Rows]
    BY <1>0, <2>1, <2>2, <2>3, MovedShape
  <2>5. stage' \in [Instances -> {"idle", "create", "update", "down"}]
        /\ job' \in [Instances -> Jobs \cup {Never}]
    BY <1>0, <1>10 DEF UpdateAfterRun, Done
  <2> QED BY <1>0, <1>10, <2>4, <2>5, WorkType DEF UpdateAfterRun
<1>11. ASSUME NEW i \in Instances, UpdateAfterRunFails(i) PROVE TypeOK'
  <2>1. job[i] # Never
    BY <1>11 DEF UpdateAfterRunFails, Staged
  <2>2. troubled' \subseteq Schedules
    BY <1>0, <1>11, <2>1, NotificationShape DEF UpdateAfterRunFails
  <2>3. stage' \in [Instances -> {"idle", "create", "update", "down"}]
        /\ job' \in [Instances -> Jobs \cup {Never}]
    BY <1>0, <1>11 DEF UpdateAfterRunFails, Done
  <2> QED BY <1>0, <1>11, <2>2, <2>3, WorkType DEF UpdateAfterRunFails
<1>12. ASSUME NEW i \in Instances, Crash(i) PROVE TypeOK'
  <2>1. Held(i) \subseteq Schedules
    BY <1>0, ClaimShape, NotificationShape DEF Held
  <2> QED BY <1>0, <1>12, <2>1, WorkType DEF Crash
<1>13. ASSUME NEW i \in Instances, Boot(i) PROVE TypeOK'
  BY <1>0, <1>13, WorkType DEF Boot
<1>14. CASE UNCHANGED vars
  BY <1>14 DEF vars, api, TypeOK
<1> QED
  BY <1>1, <1>2, <1>3, <1>4, <1>5, <1>6, <1>7, <1>8, <1>9, <1>10, <1>11, <1>12, <1>13, <1>14
     DEF Next, Serve, Work, Tick

-----------------------------------------------------------------------------
(* Stages.                                                                 *)

\* A step of the scheduler i: the others stay as they are.
Alone(i) ==
    \A j \in Instances \ {i} : stage'[j] = stage[j] /\ todo'[j] = todo[j] /\ job'[j] = job[j]

LEMMA WorkAlone ==
    ASSUME TypeOK, NEW i \in Instances, Tick(i) \/ Work(i) \/ Crash(i) \/ Boot(i)
    PROVE  Alone(i)
<1>0. /\ stage \in [Instances -> {"idle", "create", "update", "down"}]
      /\ todo \in [Instances -> SUBSET Claims]
      /\ job \in [Instances -> Jobs \cup {Never}]
  BY Shapes
<1>1. CASE Tick(i)
  BY <1>0, <1>1 DEF Tick, Claim, Alone
<1>2. CASE Fire(i)
  BY <1>0, <1>2 DEF Fire, Alone
<1>3. CASE CreateNotification(i)
  BY <1>0, <1>3 DEF CreateNotification, Done, Alone
<1>4. CASE CreateFails(i)
  BY <1>0, <1>4 DEF CreateFails, Done, Alone
<1>5. CASE UpdateAfterRun(i) \/ UpdateAfterRunFails(i)
  BY <1>0, <1>5 DEF UpdateAfterRun, UpdateAfterRunFails, Done, Alone
<1>6. CASE Crash(i) \/ Boot(i)
  BY <1>0, <1>6 DEF Crash, Boot, Alone
<1> QED BY <1>1, <1>2, <1>3, <1>4, <1>5, <1>6 DEF Work

LEMMA ApiAlone ==
    ASSUME Minute \/ (\E s \in Schedules : Create(s)) \/ (\E c \in Calls : Serve(c)) \/ UNCHANGED vars
    PROVE  UNCHANGED <<stage, todo, job, notifs>> /\ troubled \subseteq troubled'
<1>1. CASE Minute \/ UNCHANGED vars
  BY <1>1 DEF Minute, vars
<1>2. ASSUME NEW s \in Schedules, Create(s)
      PROVE  UNCHANGED <<stage, todo, job, notifs>> /\ troubled \subseteq troubled'
  BY <1>2 DEF Create
<1>3. ASSUME NEW c \in Calls, Serve(c)
      PROVE  UNCHANGED <<stage, todo, job, notifs>> /\ troubled \subseteq troubled'
  BY <1>3 DEF Serve, UpdateReads, UpdateWrites, SetEnabled, Delete
<1> QED BY <1>1, <1>2, <1>3

LEMMA StepKeepsStaged ==
    ASSUME TypeOK, Staged, [Next]_vars
    PROVE  Staged'
<1>0. /\ stage \in [Instances -> {"idle", "create", "update", "down"}]
      /\ todo \in [Instances -> SUBSET Claims]
      /\ job \in [Instances -> Jobs \cup {Never}] /\ clock \in Minutes
  BY Shapes
<1>1. ASSUME NEW i \in Instances, Alone(i),
             stage'[i] \in {"create", "update"} <=> job'[i] # Never,
             stage'[i] = "down" => todo'[i] = {},
             job'[i] # Never => job'[i].claim.run <= job'[i].now
      PROVE  Staged'
  BY <1>1 DEF Alone, Staged
<1>2. ASSUME NEW i \in Instances, Tick(i) PROVE Staged'
  <2>1. stage' = stage /\ job' = job /\ stage[i] = "idle" /\ Alone(i)
    BY <1>2, WorkAlone DEF Tick, Claim
  <2> QED BY <1>1, <2>1 DEF Staged
<1>3. ASSUME NEW i \in Instances, Fire(i) PROVE Staged'
  <2>1. PICK k \in todo[i] : job' = [job EXCEPT ![i] = [claim |-> k, now |-> clock]]
    BY <1>3 DEF Fire
  <2> DEFINE j == [claim |-> k, now |-> clock]
  <2>2. j # Never /\ j.claim = k /\ j.now = clock
    BY <1>0, NewJob
  <2>3. job'[i] = j
    BY <1>0, <2>1
  <2>4. k.run <= clock
    BY DEF TypeOK
  <2>5. stage'[i] = "create" /\ Alone(i)
    BY <1>0, <1>3, WorkAlone DEF Fire, Work
  <2> HIDE DEF j
  <2> QED BY <1>1, <2>2, <2>3, <2>4, <2>5
<1>4. ASSUME NEW i \in Instances, Done(i), Alone(i) PROVE Staged'
  <2>1. stage'[i] = "idle" /\ job'[i] = Never
    BY <1>0, <1>4 DEF Done
  <2> QED BY <1>1, <1>4, <2>1
<1>5. ASSUME NEW i \in Instances, CreateNotification(i) PROVE Staged'
  <2>1. Alone(i)
    BY <1>5, WorkAlone DEF Work
  <2>2. CASE Done(i)
    BY <1>4, <2>1, <2>2
  <2>3. CASE stage' = [stage EXCEPT ![i] = "update"] /\ UNCHANGED job
    <3>1. stage'[i] = "update" /\ stage[i] = "create" /\ job'[i] = job[i]
      BY <1>0, <1>5, <2>3 DEF CreateNotification
    <3> QED BY <1>1, <2>1, <3>1 DEF Staged
  <2> QED BY <1>5, <2>2, <2>3 DEF CreateNotification
<1>6. ASSUME NEW i \in Instances, CreateFails(i) \/ UpdateAfterRun(i) \/ UpdateAfterRunFails(i)
      PROVE  Staged'
  BY <1>4, <1>6, WorkAlone DEF CreateFails, UpdateAfterRun, UpdateAfterRunFails, Work
<1>7. ASSUME NEW i \in Instances, Crash(i) PROVE Staged'
  <2>1. stage'[i] = "down" /\ todo'[i] = {} /\ job'[i] = Never /\ Alone(i)
    BY <1>0, <1>7, WorkAlone DEF Crash
  <2> QED BY <1>1, <2>1
<1>8. ASSUME NEW i \in Instances, Boot(i) PROVE Staged'
  <2>1. stage'[i] = "idle" /\ stage[i] = "down" /\ job'[i] = job[i] /\ Alone(i)
    BY <1>0, <1>8, WorkAlone DEF Boot
  <2> QED BY <1>1, <2>1 DEF Staged
<1>9. ASSUME UNCHANGED <<stage, todo, job>> PROVE Staged'
  BY <1>9 DEF Staged
<1> QED BY <1>2, <1>3, <1>5, <1>6, <1>7, <1>8, <1>9, ApiAlone DEF Next, Work

-----------------------------------------------------------------------------
(* What a step changes of a schedule.                                      *)

SameRow(s) ==
    /\ rows'[s].next = rows[s].next
    /\ rows'[s].cron = rows[s].cron
    /\ rows'[s].recurring = rows[s].recurring

\* Nothing that counts for s.
Same(s) ==
    /\ SameRow(s)
    /\ life'[s] = "stored" => life[s] = "stored"
    /\ \A n \in notifs' : n.id = s => n \in notifs
    /\ \A i \in Instances :
        /\ \A k \in todo'[i] : k.id = s => k \in todo[i]
        /\ AtJob(i, s) <=> AtJob(i, s)'
        /\ AtJob(i, s) => job'[i] = job[i] /\ stage'[i] = stage[i]

\* AsRow and Unrun after a step, of what there was before it.
StillAsRow(k, s) ==
    k.run = rows'[s].next /\ k.cron = rows'[s].cron /\ k.recurring = rows'[s].recurring
StillUnrun(s, run) == \A n \in notifs' : n.id = s /\ n.run # ZeroTime => n.run # run

LEMMA SameRegular ==
    ASSUME NEW s \in Schedules, Regular(s), Same(s), troubled \subseteq troubled'
    PROVE  Regular(s)'
<1> SUFFICES ASSUME s \notin troubled' PROVE Sole(s)' /\ Current(s)' /\ Behind(s)' /\ Blank(s)'
  BY DEF Regular
<1>0. Sole(s) /\ Current(s) /\ Behind(s) /\ Blank(s)
  BY DEF Regular
<1>1. \A i \in Instances : InTodo(i, s)' => InTodo(i, s)
  BY DEF InTodo, Same
<1>2. \A i \in Instances : AtJob(i, s)' <=> AtJob(i, s)
  BY DEF Same
<1>3. Sole(s)'
  <2>1. \A i, j \in Instances :
            (InTodo(i, s)' \/ AtJob(i, s)') /\ (InTodo(j, s)' \/ AtJob(j, s)') => i = j
    BY <1>0, <1>1, <1>2 DEF Sole
  <2>2. \A i \in Instances : ~(InTodo(i, s)' /\ AtJob(i, s)')
    BY <1>0, <1>1, <1>2 DEF Sole
  <2>3. \A i \in Instances : \A k1, k2 \in todo'[i] : k1.id = s /\ k2.id = s => k1 = k2
    BY <1>0 DEF Sole, Same
  <2> QED BY <2>1, <2>2, <2>3 DEF Sole
<1>4. Current(s)'
  <2> SUFFICES ASSUME NEW i \in Instances
               PROVE  /\ \A k \in todo'[i] : k.id = s => StillAsRow(k, s) /\ StillUnrun(s, k.run)
                      /\ AtJob(i, s)' => /\ StillAsRow(job'[i].claim, s)
                                         /\ stage'[i] = "create" => StillUnrun(s, job'[i].claim.run)
    BY DEF Current, Unrun, AsRow, StillAsRow, StillUnrun
  <2>1. \A run : Unrun(s, run) => StillUnrun(s, run)
    BY DEF Unrun, StillUnrun, Same
  <2>2. \A k : AsRow(k, s) => StillAsRow(k, s)
    BY DEF AsRow, StillAsRow, Same, SameRow
  <2>3. ASSUME NEW k \in todo'[i], k.id = s PROVE StillAsRow(k, s) /\ StillUnrun(s, k.run)
    BY <1>0, <2>1, <2>2, <2>3 DEF Current, Same
  <2>4. ASSUME AtJob(i, s)'
        PROVE  /\ StillAsRow(job'[i].claim, s)
               /\ stage'[i] = "create" => StillUnrun(s, job'[i].claim.run)
    <3>1. AtJob(i, s) /\ job'[i] = job[i] /\ stage'[i] = stage[i]
      BY <1>2, <2>4 DEF Same
    <3> QED BY <1>0, <2>1, <2>2, <3>1 DEF Current
  <2> QED BY <2>3, <2>4
<1>5. Behind(s)'
  BY <1>0, <1>2 DEF Behind, Same, SameRow
<1>6. Blank(s)'
  BY <1>0 DEF Blank, Same, SameRow
<1> QED BY <1>3, <1>4, <1>5, <1>6

\* A step of the scheduler i that touches s0 only.
LEMMA ElseSame ==
    ASSUME NEW i \in Instances, Alone(i), NEW s \in Schedules, SameRow(s),
           life' = life, \A n \in notifs' : n.id = s => n \in notifs,
           \A k \in todo'[i] : k.id = s => k \in todo[i],
           ~AtJob(i, s), ~AtJob(i, s)'
    PROVE  Same(s)
BY DEF Same, Alone, AtJob

\* The job of i is over, and what it was about was not touched otherwise.
LEMMA DoneRegular ==
    ASSUME NEW i \in Instances, Alone(i), NEW s \in Schedules, AtJob(i, s), ~AtJob(i, s)',
           todo' = todo, Sole(s)
    PROVE  /\ Sole(s)' /\ \A j \in Instances : ~AtJob(j, s)' /\ ~InTodo(j, s)'
<1>1. \A j \in Instances : ~InTodo(j, s) /\ (j # i => ~AtJob(j, s))
  BY DEF Sole
<1>2. \A j \in Instances : ~InTodo(j, s)' /\ ~AtJob(j, s)'
  BY <1>1 DEF Alone, AtJob, InTodo
<1>3. \A j \in Instances : \A k1, k2 \in todo'[j] : k1.id = s /\ k2.id = s => k1 = k2
  BY DEF Sole
<1> QED BY <1>2, <1>3 DEF Sole

\* Nobody holds s any more: only the runs that were notified of matter.
LEMMA FreeCurrent ==
    ASSUME NEW s \in Schedules, \A j \in Instances : ~AtJob(j, s)' /\ ~InTodo(j, s)'
    PROVE  Current(s)'
BY DEF Current, InTodo

-----------------------------------------------------------------------------
(* Steps of the API.                                                       *)

LEMMA ApiRegular ==
    ASSUME TypeOK, Fresh, NEW s \in Schedules, Regular(s),
           Minute \/ (\E r \in Schedules : Create(r)) \/ (\E c \in Calls : Serve(c)) \/ UNCHANGED vars
    PROVE  Regular(s)'
<1>0. /\ UNCHANGED <<stage, todo, job, notifs>> /\ troubled \subseteq troubled'
      /\ rows \in [Schedules -> Rows] /\ life \in [Schedules -> {"new", "stored", "deleted"}]
  BY ApiAlone, Shapes
<1>1. ASSUME SameRow(s), life'[s] = "stored" => life[s] = "stored" PROVE Regular(s)'
  <2>1. Same(s)
    BY <1>0, <1>1 DEF Same, AtJob
  <2> QED BY <1>0, <2>1, SameRegular
<1>2. CASE Minute \/ UNCHANGED vars
  BY <1>1, <1>2 DEF Minute, vars, SameRow
<1>3. ASSUME NEW r \in Schedules, Create(r) PROVE Regular(s)'
  <2>1. CASE r # s
    BY <1>0, <1>1, <1>3, <2>1 DEF Create, SameRow
  <2>2. CASE r = s
    <3>1. /\ \A n \in notifs' : n.id # s
          /\ \A i \in Instances : ~InTodo(i, s)' /\ ~AtJob(i, s)'
      BY <1>0, <1>3, <2>2 DEF Create, Fresh, InTodo, AtJob
    <3>2. Sole(s)'
      BY <3>1 DEF Sole, InTodo
    <3>3. Current(s)' /\ Behind(s)'
      BY <3>1, FreeCurrent DEF Behind
    <3>4. Blank(s)'
      <4>1. PICK row \in NewRows : rows' = [rows EXCEPT ![s] = row]
        BY <1>3, <2>2 DEF Create
      <4>2. row.recurring /\ row.cron \in Barren => row.next = ZeroTime
        BY NewRowBlank
      <4>3. rows'[s] = row
        BY <1>0, <4>1
      <4> QED BY <3>1, <4>2, <4>3 DEF Blank
    <3> QED BY <3>2, <3>3, <3>4 DEF Regular
  <2> QED BY <2>1, <2>2
<1>4. ASSUME NEW c \in Calls, UpdateReads(c) PROVE Regular(s)'
  BY <1>1, <1>4 DEF UpdateReads, SameRow
<1>5. ASSUME NEW c \in Calls, UpdateWrites(c) PROVE Regular(s)'
  <2>1. CASE s \in troubled'
    BY <2>1 DEF Regular
  <2>2. CASE s \notin troubled'
    <3>1. rows'[s] = rows[s] /\ life' = life
      BY <1>0, <1>5, <2>2, OpShape DEF UpdateWrites
    <3> QED BY <1>1, <3>1 DEF SameRow
  <2> QED BY <2>1, <2>2
<1>6. ASSUME NEW c \in Calls, SetEnabled(c) PROVE Regular(s)'
  <2> DEFINE b == Op[c].kind = "enable"
  <2>1. Op[c].id \in Schedules /\ rows' = [rows EXCEPT ![Op[c].id].enabled = b] /\ life' = life
    BY <1>6, OpShape DEF SetEnabled
  <2>2. rows'[s] = rows[s] \/ rows'[s] = [rows[s] EXCEPT !.enabled = b]
    BY <1>0, <2>1
  <2>3. SameRow(s)
    BY <1>0, <2>2, RowChange DEF SameRow
  <2> QED BY <1>1, <2>1, <2>3
<1>7. ASSUME NEW c \in Calls, Delete(c) PROVE Regular(s)'
  BY <1>0, <1>1, <1>7, OpShape DEF Delete, SameRow
<1> QED BY <1>2, <1>3, <1>4, <1>5, <1>6, <1>7 DEF Serve

-----------------------------------------------------------------------------
(* Steps of a scheduler.                                                   *)

\* Reading what is due: nobody else may have it, or it is on record.
LEMMA ClaimRegular ==
    ASSUME TypeOK, Staged, NEW i \in Instances, NEW B \in SUBSET {s \in Schedules : Due(s)},
           Claim(i, B), NEW s \in Schedules, Regular(s)
    PROVE  Regular(s)'
<1>0. /\ todo \in [Instances -> SUBSET Claims] /\ todo[i] = {} /\ stage[i] = "idle"
      /\ todo' = [todo EXCEPT ![i] = {ClaimOf(r) : r \in B}]
      /\ UNCHANGED <<life, rows, stage, job, notifs>> /\ troubled \subseteq troubled'
      /\ Alone(i)
  BY Shapes, WorkAlone DEF Claim, Tick
<1>1. todo'[i] = {ClaimOf(r) : r \in B} /\ \A j \in Instances \ {i} : todo'[j] = todo[j]
  BY <1>0
<1>2. \A r \in B : /\ ClaimOf(r) \in Claims /\ ClaimOf(r).id = r /\ AsRow(ClaimOf(r), r)
                   /\ rows[r].next # Never
  BY NewClaim DEF Due
<1>3. CASE s \notin B
  <2>1. \A k \in todo'[i] : k.id # s
    BY <1>1, <1>2, <1>3
  <2>2. Same(s)
    BY <1>0, <1>1, <2>1 DEF Same, SameRow, AtJob
  <2> QED BY <1>0, <2>2, SameRegular
<1>4. CASE s \in B
  <2> SUFFICES ASSUME s \notin troubled' PROVE Sole(s)' /\ Current(s)' /\ Behind(s)' /\ Blank(s)'
    BY DEF Regular
  <2>1. s \notin troubled /\ \A j \in Instances : s \notin Held(j)
    BY <1>4 DEF Claim
  <2>2. \A j \in Instances : ~InTodo(j, s) /\ ~AtJob(j, s)
    BY <2>1, HeldShape
  <2>3. \A j \in Instances : ~AtJob(j, s)' /\ (j # i => ~InTodo(j, s)')
    BY <1>0, <1>1, <2>2 DEF AtJob, InTodo
  <2>4. \A k \in todo'[i] : k.id = s => k = ClaimOf(s)
    BY <1>1, <1>2
  <2>5. Sole(s)'
    <3>1. \A j \in Instances : \A k1, k2 \in todo'[j] : k1.id = s /\ k2.id = s => k1 = k2
      BY <2>3, <2>4 DEF InTodo
    <3> QED BY <2>3, <3>1 DEF Sole
  <2>6. \A n \in notifs : n.id = s /\ n.run # ZeroTime => rows[s].next # Never /\ n.run < rows[s].next
    BY <1>2, <1>4, <2>1, <2>2 DEF Regular, Behind, Due
  <2>7. Unrun(s, rows[s].next)
    <3>1. \A n \in notifs : n.run \in Nat
      BY Shapes, NotifShape
    <3>2. rows[s].next \in Nat
      BY <1>2, <1>4, Shapes, RowShape
    <3> QED BY <2>6, <3>1, <3>2 DEF Unrun
  <2>8. Current(s)'
    <3>1. \A j \in Instances : \A k \in todo'[j] : k.id = s => k = ClaimOf(s)
      BY <2>3, <2>4 DEF InTodo
    <3>2. AsRow(ClaimOf(s), s)' /\ Unrun(s, ClaimOf(s).run)'
      <4>1. AsRow(ClaimOf(s), s) /\ Unrun(s, ClaimOf(s).run)
        BY <1>2, <1>4, <2>7 DEF AsRow
      <4>2. rows' = rows /\ notifs' = notifs
        BY <1>0
      <4> QED BY <4>1, <4>2 DEF AsRow, Unrun, ClaimOf
    <3>3. ClaimOf(s)' = ClaimOf(s)
      BY <1>0 DEF ClaimOf
    <3> QED BY <2>3, <3>1, <3>2, <3>3 DEF Current
  <2>9. Behind(s)'
    BY <1>0, <2>6 DEF Behind
  <2>10. Blank(s)'
    BY <1>0, <2>1 DEF Regular, Blank
  <2> QED BY <2>5, <2>8, <2>9, <2>10
<1> QED BY <1>3, <1>4

LEMMA FireRegular ==
    ASSUME TypeOK, Staged, NEW i \in Instances, Fire(i), NEW s \in Schedules, Regular(s)
    PROVE  Regular(s)'
<1>1. PICK k \in todo[i] : /\ job' = [job EXCEPT ![i] = [claim |-> k, now |-> clock]]
                           /\ todo' = [todo EXCEPT ![i] = @ \ {k}]
  BY DEF Fire
<1> DEFINE j0 == [claim |-> k, now |-> clock]
<1>0. /\ todo \in [Instances -> SUBSET Claims] /\ job \in [Instances -> Jobs \cup {Never}]
      /\ stage \in [Instances -> {"idle", "create", "update", "down"}] /\ k \in Claims
      /\ stage[i] = "idle" /\ stage' = [stage EXCEPT ![i] = "create"] /\ clock \in Minutes
      /\ UNCHANGED <<life, rows, notifs, troubled>> /\ Alone(i)
  BY Shapes, WorkAlone DEF Fire, Work
<1>2. j0 # Never /\ j0.claim = k
  BY <1>0, NewJob
<1>3. /\ job'[i] = j0 /\ todo'[i] = todo[i] \ {k} /\ stage'[i] = "create" /\ job[i] = Never
      /\ \A j \in Instances \ {i} : todo'[j] = todo[j]
  BY <1>0, <1>1 DEF Staged
<1> HIDE DEF j0
<1>4. CASE s # k.id
  <2>1. ~AtJob(i, s) /\ ~AtJob(i, s)'
    BY <1>2, <1>3, <1>4 DEF AtJob
  <2>2. Same(s)
    BY <1>0, <1>3, <2>1, ElseSame DEF SameRow
  <2> QED BY <1>0, <2>2, SameRegular
<1>5. CASE s = k.id
  <2> SUFFICES ASSUME s \notin troubled PROVE Sole(s)' /\ Current(s)' /\ Behind(s)' /\ Blank(s)'
    BY <1>0 DEF Regular
  <2>0. Sole(s) /\ Current(s) /\ Behind(s) /\ Blank(s) /\ InTodo(i, s)
    BY <1>5 DEF Regular, InTodo
  <2>1. \A j \in Instances \ {i} : ~InTodo(j, s) /\ ~AtJob(j, s)
    BY <2>0 DEF Sole
  <2>2. \A j \in Instances \ {i} : ~InTodo(j, s)' /\ ~AtJob(j, s)'
    BY <1>0, <2>1 DEF Alone, InTodo, AtJob
  <2>3. \A k1 \in todo'[i] : k1.id # s
    BY <1>3, <1>5, <2>0 DEF Sole
  <2>4. AtJob(i, s)' /\ job'[i].claim = k
    BY <1>2, <1>3, <1>5 DEF AtJob
  <2>5. \A j \in Instances : ~InTodo(j, s)'
    BY <2>2, <2>3 DEF InTodo
  <2>6. Sole(s)'
    BY <2>2, <2>5 DEF Sole, InTodo
  <2>7. AsRow(k, s) /\ Unrun(s, k.run)
    BY <1>5, <2>0 DEF Current
  <2>8. Current(s)'
    <3>1. \A j \in Instances : AtJob(j, s)' => j = i
      BY <2>2
    <3>2. AsRow(k, s)' /\ Unrun(s, k.run)'
      BY <1>0, <2>7 DEF AsRow, Unrun
    <3> QED BY <2>4, <2>5, <3>1, <3>2 DEF Current, InTodo
  <2>9. Behind(s)'
    <3>1. \A j \in Instances : AtJob(j, s) => AtJob(j, s)'
      BY <2>1, <2>4
    <3> QED BY <1>0, <2>0, <3>1 DEF Behind
  <2>10. Blank(s)'
    BY <1>0, <2>0 DEF Blank
  <2> QED BY <2>6, <2>8, <2>9, <2>10
<1> QED BY <1>4, <1>5

\* A step in which the trouble of the job's schedule is recorded, or the job is left.
LEMMA JobElse ==
    ASSUME TypeOK, Staged, NEW i \in Instances, Alone(i), job[i] # Never,
           NEW s \in Schedules, Regular(s), s # job[i].claim.id,
           job'[i] = Never \/ job'[i] = job[i],
           rows'[s] = rows[s], life' = life, todo' = todo, troubled \subseteq troubled',
           \A n \in notifs' : n \in notifs \/ n.id = job[i].claim.id
    PROVE  Regular(s)'
<1>1. ~AtJob(i, s) /\ ~AtJob(i, s)'
  BY DEF AtJob
<1>2. SameRow(s)
  BY DEF SameRow
<1>3. Same(s)
  BY <1>1, <1>2, ElseSame
<1> QED BY <1>3, SameRegular

LEMMA CreateRegular ==
    ASSUME TypeOK, Staged, NEW i \in Instances, CreateNotification(i), NEW s \in Schedules, Regular(s)
    PROVE  Regular(s)'
<1>0. /\ stage \in [Instances -> {"idle", "create", "update", "down"}]
      /\ job \in [Instances -> Jobs \cup {Never}]
      /\ stage[i] = "create" /\ job[i] # Never /\ Alone(i)
      /\ UNCHANGED <<life, rows, todo, troubled>>
  BY Shapes, WorkAlone DEF CreateNotification, Work, Staged
<1>1. /\ Notification(i).id = job[i].claim.id /\ Notification(i).run = job[i].claim.run
      /\ job[i].claim.id \in Schedules
  BY <1>0, NotificationShape
<1>2. CASE s # job[i].claim.id
  <2>1. job'[i] = Never \/ job'[i] = job[i]
    BY <1>0 DEF CreateNotification, Done
  <2>2. \A n \in notifs' : n \in notifs \/ n.id = job[i].claim.id
    BY <1>1 DEF CreateNotification
  <2> QED BY <1>0, <1>2, <2>1, <2>2, JobElse
<1>3. CASE s = job[i].claim.id
  <2> SUFFICES ASSUME s \notin troubled PROVE Sole(s)' /\ Current(s)' /\ Behind(s)' /\ Blank(s)'
    BY <1>0 DEF Regular
  <2>0. Sole(s) /\ Current(s) /\ Behind(s) /\ Blank(s) /\ AtJob(i, s)
    BY <1>0, <1>3 DEF Regular, AtJob
  <2>1. \A j \in Instances : ~InTodo(j, s) /\ (AtJob(j, s) => j = i)
    BY <2>0 DEF Sole
  <2>2. AsRow(job[i].claim, s) /\ job[i].claim.run = rows[s].next /\ Unrun(s, job[i].claim.run)
    BY <1>0, <2>0 DEF Current, AsRow
  <2>3. CASE notifs' = notifs \cup {Notification(i)} /\ stage' = [stage EXCEPT ![i] = "update"]
             /\ UNCHANGED job
    <3>1. \A j \in Instances : /\ AtJob(j, s)' <=> AtJob(j, s)
                               /\ InTodo(j, s)' <=> InTodo(j, s)
      BY <1>0, <2>3 DEF AtJob, InTodo
    <3>2. Sole(s)'
      BY <1>0, <2>0, <3>1 DEF Sole
    <3>3. stage'[i] = "update"
      BY <1>0, <2>3
    <3>4. Current(s)'
      <4>1. AsRow(job[i].claim, s)'
        BY <1>0, <2>2, <2>3 DEF AsRow
      <4>2. \A j \in Instances : /\ ~InTodo(j, s)'
                                 /\ AtJob(j, s)' => j = i
        BY <2>1, <3>1
      <4> QED BY <3>3, <4>1, <4>2 DEF Current, InTodo
    <3>5. Behind(s)'
      BY <1>0, <1>1, <2>0, <2>2, <2>3, <3>1 DEF Behind
    <3>6. Blank(s)'
      BY <1>0, <1>1, <2>0, <2>2, <2>3 DEF Blank
    <3> QED BY <3>2, <3>4, <3>5, <3>6
  <2>4. CASE Done(i) /\ UNCHANGED notifs
    <3>1. ~AtJob(i, s)'
      BY <1>0, <2>4 DEF Done, AtJob
    <3>2. Sole(s)' /\ \A j \in Instances : ~AtJob(j, s)' /\ ~InTodo(j, s)'
      BY <1>0, <2>0, <3>1, DoneRegular
    <3>3. Behind(s)'
      BY <1>0, <2>0, <2>2, <2>4 DEF Behind, Unrun
    <3>4. Blank(s)'
      BY <1>0, <2>0, <2>4 DEF Blank
    <3> QED BY <3>2, <3>3, <3>4, FreeCurrent
  <2> QED BY <2>3, <2>4 DEF CreateNotification
<1> QED BY <1>2, <1>3

LEMMA FailsRegular ==
    ASSUME TypeOK, Staged, NEW i \in Instances, CreateFails(i) \/ UpdateAfterRunFails(i),
           NEW s \in Schedules, Regular(s)
    PROVE  Regular(s)'
<1>0. /\ job \in [Instances -> Jobs \cup {Never}]
      /\ job[i] # Never /\ Alone(i) /\ job'[i] = Never
      /\ UNCHANGED <<life, rows, todo>> /\ troubled' = troubled \cup {job[i].claim.id}
  BY Shapes, WorkAlone DEF CreateFails, UpdateAfterRunFails, Done, Work, Staged
<1>1. CASE s = job[i].claim.id
  BY <1>0, <1>1 DEF Regular
<1>2. CASE s # job[i].claim.id
  <2>1. \A n \in notifs' : n \in notifs \/ n.id = job[i].claim.id
    BY <1>0, NotificationShape DEF CreateFails, UpdateAfterRunFails
  <2> QED BY <1>0, <1>2, <2>1, JobElse
<1> QED BY <1>1, <1>2

LEMMA UpdateRegular ==
    ASSUME TypeOK, Staged, NEW i \in Instances, UpdateAfterRun(i), NEW s \in Schedules, Regular(s)
    PROVE  Regular(s)'
<1>0. /\ job \in [Instances -> Jobs \cup {Never}] /\ rows \in [Schedules -> Rows]
      /\ job[i] # Never /\ Alone(i) /\ job'[i] = Never
      /\ UNCHANGED <<life, todo, notifs, troubled>>
  BY Shapes, WorkAlone DEF UpdateAfterRun, Done, Work, Staged
<1> DEFINE s0 == job[i].claim.id
<1>1. /\ s0 \in Schedules
      /\ rows' = IF life[s0] = "stored" THEN [rows EXCEPT ![s0] = Moved(i, rows[s0])] ELSE rows
  BY <1>0, NotificationShape DEF UpdateAfterRun
<1>2. CASE s # s0
  <2>1. rows'[s] = rows[s]
    BY <1>0, <1>1, <1>2
  <2> QED BY <1>0, <1>2, <2>1, JobElse
<1>3. CASE s = s0
  <2> SUFFICES ASSUME s \notin troubled PROVE Sole(s)' /\ Current(s)' /\ Behind(s)' /\ Blank(s)'
    BY <1>0 DEF Regular
  <2>0. Sole(s) /\ Current(s) /\ Behind(s) /\ Blank(s) /\ AtJob(i, s)
    BY <1>0, <1>3 DEF Regular, AtJob
  <2>1. ~AtJob(i, s)'
    BY <1>0 DEF AtJob
  <2>2. Sole(s)' /\ \A j \in Instances : ~AtJob(j, s)' /\ ~InTodo(j, s)'
    BY <1>0, <2>0, <2>1, DoneRegular
  <2> DEFINE k == job[i].claim
  <2>3. AsRow(k, s) /\ k \in Claims
    BY <1>0, <2>0, NotificationShape DEF Current
  <2>4. k.run = rows[s].next /\ k.run \in Nat
        /\ k.cron = rows[s].cron /\ k.recurring = rows[s].recurring
    BY <2>3, ClaimShape DEF AsRow
  <2>5. ASSUME life[s] = "stored"
        PROVE  /\ rows'[s].cron = rows[s].cron /\ rows'[s].recurring = rows[s].recurring
               /\ \/ rows'[s].next = Never
                  \/ rows'[s].next \in Nat /\ k.run < rows'[s].next
                  \/ k.recurring /\ k.cron \in Barren
               /\ k.recurring /\ k.cron \in Barren => rows'[s].next = ZeroTime
    <3>1. rows'[s] = Moved(i, rows[s]) /\ rows[s] \in Rows
      BY <1>0, <1>1, <1>3, <2>5
    <3> QED BY <1>0, <3>1, MovedShape
  <2> HIDE DEF k
  <2>6. Behind(s)'
    <3> SUFFICES ASSUME life[s] = "stored", NEW n \in notifs, n.id = s, n.run # ZeroTime
                 PROVE  rows'[s].next = Never \/ n.run < rows'[s].next
      BY <1>0 DEF Behind
    <3>1. ~(k.recurring /\ k.cron \in Barren)
      BY <2>0, <2>4 DEF Blank
    <3>2. n.run \in Nat /\ (n.run < rows[s].next \/ n.run = rows[s].next)
      <4>1. n.run \in Nat
        BY Shapes, NotifShape
      <4> QED BY <2>0, <2>4, <4>1, Constants DEF Behind
    <3> QED BY <2>4, <2>5, <3>1, <3>2
  <2>7. Blank(s)'
    BY <1>0, <2>0, <2>4, <2>5 DEF Blank
  <2> QED BY <2>2, <2>6, <2>7, FreeCurrent
<1> QED BY <1>2, <1>3

LEMMA CrashRegular ==
    ASSUME TypeOK, Staged, NEW i \in Instances, Crash(i) \/ Boot(i), NEW s \in Schedules, Regular(s)
    PROVE  Regular(s)'
<1>0. /\ job \in [Instances -> Jobs \cup {Never}] /\ todo \in [Instances -> SUBSET Claims]
      /\ stage \in [Instances -> {"idle", "create", "update", "down"}]
      /\ Alone(i) /\ UNCHANGED <<life, rows, notifs>> /\ troubled \subseteq troubled'
  BY Shapes, WorkAlone DEF Crash, Boot
<1>1. CASE s \in troubled'
  BY <1>1 DEF Regular
<1>2. CASE s \notin troubled'
  <2>1. CASE Crash(i)
    <3>1. ~AtJob(i, s)
      BY <1>2, <2>1, HeldShape DEF Crash
    <3>2. todo'[i] = {} /\ job'[i] = Never
      BY <1>0, <2>1 DEF Crash
    <3>3. ~AtJob(i, s)'
      BY <3>2 DEF AtJob
    <3>4. Same(s)
      BY <1>0, <3>1, <3>2, <3>3, ElseSame DEF SameRow
    <3> QED BY <1>0, <3>4, SameRegular
  <2>2. CASE Boot(i)
    <3>1. job' = job /\ todo' = todo /\ ~AtJob(i, s)
      BY <2>2 DEF Boot, Staged, AtJob
    <3>2. ~AtJob(i, s)'
      BY <3>1 DEF AtJob
    <3>3. Same(s)
      BY <1>0, <3>1, <3>2, ElseSame DEF SameRow
    <3> QED BY <1>0, <3>3, SameRegular
  <2> QED BY <2>1, <2>2
<1> QED BY <1>1, <1>2

LEMMA StepKeepsRegular ==
    ASSUME IInv, [Next]_vars, NEW s \in Schedules
    PROVE  Regular(s)'
<1>0. TypeOK /\ Staged /\ Fresh /\ Regular(s)
  BY DEF IInv
<1>1. ASSUME NEW i \in Instances, Tick(i) PROVE Regular(s)'
  BY <1>0, <1>1, ClaimRegular DEF Tick
<1>2. ASSUME NEW i \in Instances, Work(i) PROVE Regular(s)'
  BY <1>0, <1>2, FireRegular, CreateRegular, FailsRegular, UpdateRegular DEF Work
<1>3. ASSUME NEW i \in Instances, Crash(i) \/ Boot(i) PROVE Regular(s)'
  BY <1>0, <1>3, CrashRegular
<1> QED BY <1>0, <1>1, <1>2, <1>3, ApiRegular DEF Next

-----------------------------------------------------------------------------
(* A schedule that nobody may read.                                        *)

Unheld(s) == \A i \in Instances : ~InTodo(i, s) /\ ~AtJob(i, s)

NoticesOf(s) == {n \in notifs : n.id = s}

\* A step of the scheduler i that takes nothing of s.
LEMMA PassedBy ==
    ASSUME NEW i \in Instances, Alone(i), NEW s \in Schedules, Unheld(s),
           \A k \in todo'[i] : k.id # s, job'[i] # Never => job'[i].claim.id # s,
           notifs \subseteq notifs', \A n \in notifs' : n.id = s => n \in notifs
    PROVE  Unheld(s)' /\ NoticesOf(s)' = NoticesOf(s)
<1>1. \A j \in Instances : ~InTodo(j, s)' /\ ~AtJob(j, s)'
  BY DEF Alone, Unheld, InTodo, AtJob
<1> QED BY <1>1 DEF Unheld, NoticesOf

LEMMA QuietStep ==
    ASSUME TypeOK, Staged, [Next]_vars, NEW s \in Schedules,
           life[s] # "stored" \/ ~rows[s].enabled, Unheld(s)
    PROVE  Unheld(s)' /\ NoticesOf(s)' = NoticesOf(s)
<1>0. /\ todo \in [Instances -> SUBSET Claims]
      /\ job \in [Instances -> Jobs \cup {Never}] /\ clock \in Minutes
  BY Shapes
<1>1. \A i \in Instances : \A k \in todo[i] : k.id # s
  BY DEF Unheld, InTodo
<1>2. \A i \in Instances : job[i] # Never => job[i].claim.id # s
  BY DEF Unheld, AtJob
<1>3. ASSUME NEW i \in Instances, Tick(i) PROVE Unheld(s)' /\ NoticesOf(s)' = NoticesOf(s)
  <2>1. PICK B \in SUBSET {r \in Schedules : Due(r)} : Claim(i, B)
    BY <1>3 DEF Tick
  <2>2. todo'[i] = {ClaimOf(r) : r \in B} /\ job' = job /\ notifs' = notifs /\ s \notin B
    BY <1>0, <2>1 DEF Claim, Due
  <2>3. \A r \in B : ClaimOf(r).id = r
    BY DEF ClaimOf
  <2>4. Alone(i)
    BY <1>3, WorkAlone
  <2> QED BY <1>2, <2>2, <2>3, <2>4, PassedBy
<1>4. ASSUME NEW i \in Instances, Fire(i) PROVE Unheld(s)' /\ NoticesOf(s)' = NoticesOf(s)
  <2>1. PICK k \in todo[i] : /\ job' = [job EXCEPT ![i] = [claim |-> k, now |-> clock]]
                             /\ todo' = [todo EXCEPT ![i] = @ \ {k}]
    BY <1>4 DEF Fire
  <2>2. job'[i].claim = k /\ todo'[i] \subseteq todo[i] /\ notifs' = notifs
    BY <1>0, <1>4, <2>1 DEF Fire
  <2>3. Alone(i)
    BY <1>4, WorkAlone DEF Work
  <2> QED BY <1>1, <2>2, <2>3, PassedBy
<1>5. ASSUME NEW i \in Instances, CreateNotification(i) \/ CreateFails(i)
      PROVE  Unheld(s)' /\ NoticesOf(s)' = NoticesOf(s)
  <2>1. job[i] # Never
    BY <1>5 DEF CreateNotification, CreateFails, Staged
  <2>2. Notification(i).id # s
    BY <1>2, <2>1, NotificationShape
  <2>3. todo' = todo /\ (job'[i] = Never \/ job'[i] = job[i]) /\ notifs \subseteq notifs'
        /\ \A n \in notifs' : n \in notifs \/ n = Notification(i)
    BY <1>0, <1>5 DEF CreateNotification, CreateFails, Done
  <2>4. Alone(i)
    BY <1>5, WorkAlone DEF Work
  <2> QED BY <1>1, <1>2, <2>2, <2>3, <2>4, PassedBy
<1>6. ASSUME NEW i \in Instances,
             UpdateAfterRun(i) \/ UpdateAfterRunFails(i) \/ Crash(i) \/ Boot(i)
      PROVE  Unheld(s)' /\ NoticesOf(s)' = NoticesOf(s)
  <2>1. /\ notifs' = notifs /\ (todo'[i] = {} \/ todo'[i] = todo[i])
        /\ (job'[i] = Never \/ job'[i] = job[i])
    BY <1>0, <1>6 DEF UpdateAfterRun, UpdateAfterRunFails, Crash, Boot, Done
  <2>2. Alone(i)
    BY <1>6, WorkAlone DEF Work
  <2> QED BY <1>1, <1>2, <2>1, <2>2, PassedBy
<1>7. ASSUME UNCHANGED <<todo, job, notifs>> PROVE Unheld(s)' /\ NoticesOf(s)' = NoticesOf(s)
  BY <1>7 DEF Unheld, InTodo, AtJob, NoticesOf
<1> QED BY <1>3, <1>4, <1>5, <1>6, <1>7, ApiAlone DEF Next, Work

LEMMA StepKeepsFresh ==
    ASSUME TypeOK, Staged, Fresh, [Next]_vars
    PROVE  Fresh'
<1> SUFFICES ASSUME NEW s \in Schedules, life'[s] = "new"
             PROVE  NoticesOf(s)' = {} /\ Unheld(s)'
  BY DEF Fresh, Unheld, NoticesOf
<1>0. life \in [Schedules -> {"new", "stored", "deleted"}]
  BY Shapes
<1>1. life[s] = "new"
  <2>1. ASSUME NEW r \in Schedules, Create(r) PROVE life[s] = "new"
    BY <1>0, <2>1 DEF Create
  <2>2. ASSUME NEW c \in Calls, Serve(c) PROVE life[s] = "new"
    BY <1>0, <2>2, OpShape DEF Serve, UpdateReads, UpdateWrites, SetEnabled, Delete
  <2>3. ASSUME NEW i \in Instances, Tick(i) \/ Work(i) \/ Crash(i) \/ Boot(i)
        PROVE  life[s] = "new"
    BY <2>3 DEF Tick, Claim, Work, Fire, CreateNotification, CreateFails, UpdateAfterRun,
                UpdateAfterRunFails, Crash, Boot
  <2>4. CASE Minute \/ UNCHANGED vars
    BY <2>4 DEF Minute, vars
  <2> QED BY <2>1, <2>2, <2>3, <2>4 DEF Next
<1>2. Unheld(s) /\ NoticesOf(s) = {}
  BY <1>1 DEF Fresh, Unheld, NoticesOf
<1> QED BY <1>1, <1>2, QuietStep

-----------------------------------------------------------------------------
(* Once per run.                                                           *)

LEMMA StepKeepsOnce ==
    ASSUME IInv, [Next]_vars
    PROVE  OncePerRun'
<1>0. TypeOK /\ Staged /\ OncePerRun /\ \A s \in Schedules : Regular(s)
  BY DEF IInv
<1>1. ASSUME notifs' \subseteq notifs, troubled \subseteq troubled' PROVE OncePerRun'
  BY <1>0, <1>1 DEF OncePerRun
<1>2. ASSUME NEW i \in Instances, job[i] # Never, ~KeyTaken(i),
             notifs' = notifs \cup {Notification(i)}, troubled \subseteq troubled',
             \/ job[i].claim.id \in troubled'
             \/ Unrun(job[i].claim.id, job[i].claim.run)
      PROVE  OncePerRun'
  <2>1. /\ Notification(i).id = job[i].claim.id /\ Notification(i).run = job[i].claim.run
        /\ Notification(i).minute = job[i].now
    BY <1>0, <1>2, NotificationShape
  <2> DEFINE new == Notification(i)
  <2>2. \A m \in notifs : m.id = new.id =>
            /\ m.minute # new.minute
            /\ m.run # new.run \/ m.run = ZeroTime \/ m.id \in troubled'
    BY <1>2, <2>1 DEF KeyTaken, Unrun
  <2> HIDE DEF new
  <2>3. notifs' = notifs \cup {new}
    BY <1>2 DEF new
  <2> QED BY <1>0, <1>2, <2>2, <2>3 DEF OncePerRun
<1>3. ASSUME NEW i \in Instances, CreateNotification(i) PROVE OncePerRun'
  <2>1. job[i] # Never /\ stage[i] = "create" /\ troubled' = troubled
    BY <1>0, <1>3 DEF CreateNotification, Staged
  <2> DEFINE s == job[i].claim.id
  <2>2. s \in Schedules /\ AtJob(i, s)
    BY <1>0, <2>1, NotificationShape DEF AtJob
  <2>3. s \in troubled \/ Unrun(s, job[i].claim.run)
    BY <1>0, <2>1, <2>2 DEF Regular, Current
  <2> QED BY <1>1, <1>2, <1>3, <2>1, <2>3 DEF CreateNotification
<1>4. ASSUME NEW i \in Instances, CreateFails(i) PROVE OncePerRun'
  <2>1. job[i] # Never /\ troubled' = troubled \cup {job[i].claim.id}
    BY <1>0, <1>4 DEF CreateFails, Staged
  <2> QED BY <1>1, <1>2, <1>4, <2>1 DEF CreateFails
<1>5. ASSUME NEW i \in Instances, Tick(i) \/ Fire(i) \/ UpdateAfterRun(i)
                                  \/ UpdateAfterRunFails(i) \/ Crash(i) \/ Boot(i)
      PROVE  OncePerRun'
  BY <1>1, <1>5 DEF Tick, Claim, Fire, UpdateAfterRun, UpdateAfterRunFails, Crash, Boot
<1> QED BY <1>1, <1>3, <1>4, <1>5, ApiAlone DEF Next, Work

-----------------------------------------------------------------------------
LEMMA InitIInv == Init => IInv
<1> SUFFICES ASSUME Init PROVE IInv
  OBVIOUS
<1>1. NoRow \in Rows
  BY DEF NoRow, Rows
<1>2. TypeOK
  BY <1>1, Constants DEF Init, TypeOK, Minutes
<1>3. notifs = {} /\ \A i \in Instances : ~(job[i] # Never) /\ todo[i] = {}
  BY DEF Init
<1>4. Staged
  BY DEF Init, Staged
<1>5. Fresh /\ OncePerRun
  BY <1>3 DEF Fresh, OncePerRun, InTodo, AtJob
<1>6. \A s \in Schedules : Regular(s)
  BY <1>3 DEF Init, NoRow, Regular, Sole, Current, Behind, Blank, InTodo, AtJob
<1> QED BY <1>2, <1>4, <1>5, <1>6 DEF IInv

LEMMA StepKeepsIInv == IInv /\ [Next]_vars => IInv'
<1> SUFFICES ASSUME IInv, [Next]_vars PROVE IInv'
  OBVIOUS
<1>1. TypeOK /\ Staged /\ Fresh
  BY DEF IInv
<1>2. TypeOK' /\ Staged' /\ Fresh'
  BY <1>1, StepKeepsTypes, StepKeepsStaged, StepKeepsFresh
<1>3. OncePerRun'
  BY StepKeepsOnce
<1>4. \A s \in Schedules : Regular(s)'
  BY StepKeepsRegular
<1> QED BY <1>2, <1>3, <1>4 DEF IInv

LEMMA Invariant == Spec => []IInv
BY InitIInv, StepKeepsIInv, PTL DEF Spec

\* Rows, claims and jobs keep their shape, and a scheduler holds nothing that was not due when
\* it read it (ClaimDue, schedule_repository.go).
THEOREM TypeCorrect == Spec => []TypeOK
<1>1. IInv => TypeOK
  BY DEF IInv
<1> QED BY <1>1, Invariant, PTL

\* Two notifications of a schedule never share a minute, and never a run time unless the
\* schedule met with a failure, a crash, an Update or a second scheduler, or its expression
\* matches no date (fire in scheduler.go; nothing but the key and next_run_at keeps them apart).
THEOREM AtMostOncePerRun == Spec => []OncePerRun
<1>1. IInv => OncePerRun
  BY DEF IInv
<1> QED BY <1>1, Invariant, PTL

\* A schedule that is disabled or deleted, and that no scheduler has read before, is neither
\* read nor notified of (ClaimDue's condition; an Update keeps the enabled column).
THEOREM DisabledIsQuiet == Spec => QuietWhenDisabled
<1> DEFINE Quiet ==
      \A s \in Schedules :
          (life[s] # "stored" \/ ~rows[s].enabled) /\ (\A i \in Instances : s \notin Held(i)) =>
              /\ {n \in notifs' : n.id = s} = {n \in notifs : n.id = s}
              /\ \A i \in Instances : s \notin Held(i)'
<1>1. ASSUME IInv, [Next]_vars PROVE Quiet
  <2> SUFFICES ASSUME NEW s \in Schedules, life[s] # "stored" \/ ~rows[s].enabled,
                      \A i \in Instances : s \notin Held(i)
               PROVE  /\ {n \in notifs' : n.id = s} = {n \in notifs : n.id = s}
                      /\ \A i \in Instances : s \notin Held(i)'
    OBVIOUS
  <2>1. Unheld(s)
    BY HeldShape DEF Unheld
  <2>2. Unheld(s)' /\ NoticesOf(s)' = NoticesOf(s)
    BY <1>1, <2>1, QuietStep DEF IInv
  <2>3. \A i \in Instances : s \notin Held(i)'
    BY <2>2 DEF Unheld, InTodo, AtJob, Held
  <2> QED BY <2>2, <2>3 DEF NoticesOf
<1>2. IInv /\ [Next]_vars => Quiet
  BY <1>1
<1> QED BY <1>2, Invariant, PTL DEF Spec, QuietWhenDisabled
=============================================================================
