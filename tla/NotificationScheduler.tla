------------------------ MODULE NotificationScheduler ------------------------
(***************************************************************************)
(* notification-svc, schedules: the API keeps rows of the schedules table, *)
(* and the scheduler of each instance reads the rows that are due, creates *)
(* a notification for each and moves next_run_at on.                       *)
(*                                                                         *)
(* Nothing marks a row while a scheduler is at it: only the idempotency    *)
(* key, the schedule and the minute, keeps two schedulers from creating    *)
(* the same notification.  Time is counted in minutes.                     *)
(***************************************************************************)
EXTENDS Naturals, FiniteSets

CONSTANTS
    Schedules,  \* the schedules that may be created
    Crons,      \* cron expressions that parse, each by its period in minutes
    Barren,     \* those of them that match no date, as that of February 30th
    Calls,      \* calls of Update, Enable, Disable and Delete
    Op,         \* Op[c]: what call c asks for
    Instances,  \* instances of the service
    Horizon,    \* bound: the last minute
    Never       \* next_run_at is NULL

ASSUME SchedulerAssumption ==
    /\ Crons \subseteq Nat \ {0}
    /\ Barren \subseteq Crons
    /\ Op \in [Calls -> [kind : {"update", "enable", "disable", "delete"}, id : Schedules]]
    /\ Horizon \in Nat \ {0}
    /\ Never \notin Nat

\* The zero time of Go lies before every minute.
ZeroTime == 0

Minutes == 1..Horizon

NoRow == [recurring |-> FALSE, cron |-> 0, enabled |-> FALSE, next |-> Never]

\* The columns that matter; a one-time schedule may have a cron expression, too.
Rows == [recurring : BOOLEAN, cron : Crons \cup {0}, enabled : BOOLEAN,
         next : Nat \cup {Never}]

\* A row as a scheduler read it.
Claims == [id : Schedules, recurring : BOOLEAN, cron : Crons \cup {0}, run : Nat]

\* What a scheduler fires, and when.
Jobs == [claim : Claims, now : Minutes]

ASSUME JobAssumption == Never \notin Jobs

VARIABLES
    clock,      \* the current minute
    life,       \* life[s]: is the row of s not created yet, in the table or deleted
    rows,       \* rows[s]: the row of s
    pc,         \* where a call stands
    seen,       \* seen[c]: the row that Update read
    stage,      \* stage[i]: where the scheduler of instance i stands
    todo,       \* todo[i]: what its tick has read and not fired
    job,        \* job[i]: what it is firing, at which minute
    notifs,     \* the notifications that schedulers created
    troubled    \* schedules with a failure, an update or two schedulers at them

vars == <<clock, life, rows, pc, seen, stage, todo, job, notifs, troubled>>

api == <<pc, seen>>

\* Type invariant; whatever a scheduler has read was due.
TypeOK ==
    /\ clock \in Minutes
    /\ life \in [Schedules -> {"new", "stored", "deleted"}]
    /\ rows \in [Schedules -> Rows]
    /\ pc \in [Calls -> {"idle", "write", "done"}]
    /\ seen \in [Calls -> Rows]
    /\ stage \in [Instances -> {"idle", "create", "update", "down"}]
    /\ todo \in [Instances -> SUBSET Claims]
    /\ job \in [Instances -> Jobs \cup {Never}]
    /\ notifs \subseteq [id : Schedules, run : Nat, minute : Minutes]
    /\ troubled \subseteq Schedules
    /\ \A i \in Instances : \A k \in todo[i] : k.run <= clock

Init ==
    /\ clock = 1
    /\ life = [s \in Schedules |-> "new"]
    /\ rows = [s \in Schedules |-> NoRow]
    /\ pc = [c \in Calls |-> "idle"]
    /\ seen = [c \in Calls |-> NoRow]
    /\ stage = [i \in Instances |-> "idle"]
    /\ todo = [i \in Instances |-> {}]
    /\ job = [i \in Instances |-> Never]
    /\ notifs = {}
    /\ troubled = {}

\* computeNextRun: the first minute after now that the expression names; the zero time, and no
\* error, when it names none.
NextRun(cron, now) == IF cron \in Barren THEN ZeroTime ELSE (now \div cron + 1) * cron

Minute ==
    /\ clock < Horizon
    /\ clock' = clock + 1
    /\ UNCHANGED <<life, rows, api, stage, todo, job, notifs, troubled>>

-----------------------------------------------------------------------------
(* The API. *)

\* What Create stores: a recurring schedule with a cron expression that parses, or one with
\* a time.
NewRows ==
    {[recurring |-> TRUE, cron |-> cron, enabled |-> TRUE, next |-> NextRun(cron, clock)] :
        cron \in Crons}
    \cup {[recurring |-> FALSE, cron |-> 0, enabled |-> TRUE, next |-> at] : at \in Minutes}

Create(s) ==
    /\ life[s] = "new"
    /\ life' = [life EXCEPT ![s] = "stored"]
    /\ \E row \in NewRows : rows' = [rows EXCEPT ![s] = row]
    /\ UNCHANGED <<clock, api, stage, todo, job, notifs, troubled>>

Goto(c, where) == pc' = [pc EXCEPT ![c] = where]

\* Update, GetByID.
UpdateReads(c) ==
    /\ pc[c] = "idle" /\ Op[c].kind = "update"
    /\ life[Op[c].id] = "stored"
    /\ seen' = [seen EXCEPT ![c] = rows[Op[c].id]]
    /\ Goto(c, "write")
    /\ UNCHANGED <<clock, life, rows, stage, todo, job, notifs, troubled>>

\* What a request leaves or puts into the row that was read: other columns, a cron
\* expression, a time.
Edited(row) ==
    {row}
    \cup {[row EXCEPT !.cron = cron, !.next = NextRun(cron, clock)] : cron \in Crons}
    \cup {[row EXCEPT !.next = at] : at \in Minutes}

\* Update, repo.Update: writes every column but enabled, next_run_at as it was read if the
\* request names no time; finds no row when it was deleted.
UpdateWrites(c) ==
    /\ pc[c] = "write"
    /\ LET s == Op[c].id
       IN  \/ /\ life[s] = "stored"
              /\ \E row \in Edited(seen[c]) :
                    rows' = [rows EXCEPT ![s] = [row EXCEPT !.enabled = rows[s].enabled]]
              /\ troubled' = troubled \cup {s}
           \/ life[s] # "stored" /\ UNCHANGED <<rows, troubled>>
    /\ Goto(c, "done")
    /\ UNCHANGED <<clock, life, seen, stage, todo, job, notifs>>

\* Enable and Disable, SetEnabled: next_run_at stays.
SetEnabled(c) ==
    /\ pc[c] = "idle" /\ Op[c].kind \in {"enable", "disable"}
    /\ life[Op[c].id] = "stored"
    /\ rows' = [rows EXCEPT ![Op[c].id].enabled = Op[c].kind = "enable"]
    /\ Goto(c, "done")
    /\ UNCHANGED <<clock, life, seen, stage, todo, job, notifs, troubled>>

Delete(c) ==
    /\ pc[c] = "idle" /\ Op[c].kind = "delete"
    /\ life[Op[c].id] = "stored"
    /\ life' = [life EXCEPT ![Op[c].id] = "deleted"]
    /\ Goto(c, "done")
    /\ UNCHANGED <<clock, rows, seen, stage, todo, job, notifs, troubled>>

-----------------------------------------------------------------------------
(* The scheduler of an instance. *)

\* Mutation of Due: disabled schedules count.
DueDisabled(s) == life[s] = "stored" /\ rows[s].next # Never /\ rows[s].next <= clock

\* Mutation of Due: one minute early.
DueEarly(s) ==
    life[s] = "stored" /\ rows[s].enabled /\ rows[s].next # Never /\ rows[s].next <= clock + 1

\* ClaimDue: enabled = true AND next_run_at <= now.
Due(s) == life[s] = "stored" /\ rows[s].enabled /\ rows[s].next # Never /\ rows[s].next <= clock

ClaimOf(s) ==
    [id |-> s, recurring |-> rows[s].recurring, cron |-> rows[s].cron, run |-> rows[s].next]

\* The schedules that instance i has read and not finished.
Held(i) == {k.id : k \in todo[i]} \cup (IF job[i] = Never THEN {} ELSE {job[i].claim.id})

\* tick: a transaction that locks the due rows while it reads them, without those another
\* transaction has locked, and writes nothing.
Claim(i, B) ==
    /\ stage[i] = "idle" /\ todo[i] = {}
    /\ B # {}
    /\ todo' = [todo EXCEPT ![i] = {ClaimOf(s) : s \in B}]
    /\ troubled' = troubled \cup (B \cap UNION {Held(j) : j \in Instances})
    /\ UNCHANGED <<clock, life, rows, api, stage, job, notifs>>

Tick(i) == \E B \in SUBSET {s \in Schedules : Due(s)} : Claim(i, B)

\* fire: the next of them, and the time of its key.
Fire(i) ==
    /\ stage[i] = "idle"
    /\ \E k \in todo[i] :
          /\ job' = [job EXCEPT ![i] = [claim |-> k, now |-> clock]]
          /\ todo' = [todo EXCEPT ![i] = @ \ {k}]
    /\ stage' = [stage EXCEPT ![i] = "create"]
    /\ UNCHANGED <<clock, life, rows, api, notifs, troubled>>

\* On to the next schedule.
Done(i) ==
    /\ stage' = [stage EXCEPT ![i] = "idle"]
    /\ job' = [job EXCEPT ![i] = Never]

Notification(i) == [id |-> job[i].claim.id, run |-> job[i].claim.run, minute |-> job[i].now]

\* The key schedule:<id>:<minute> is taken.
KeyTaken(i) == \E n \in notifs : n.id = job[i].claim.id /\ n.minute = job[i].now

\* fire, Create: a key that is taken ends it, and next_run_at stays as it is.
CreateNotification(i) ==
    /\ stage[i] = "create"
    /\ \/ /\ ~KeyTaken(i)
          /\ notifs' = notifs \cup {Notification(i)}
          /\ stage' = [stage EXCEPT ![i] = "update"]
          /\ UNCHANGED job
       \/ KeyTaken(i) /\ Done(i) /\ UNCHANGED notifs
    /\ UNCHANGED <<clock, life, rows, api, todo, troubled>>

\* Create fails, perhaps after the row is in.
CreateFails(i) ==
    /\ stage[i] = "create"
    /\ \/ ~KeyTaken(i) /\ notifs' = notifs \cup {Notification(i)}
       \/ UNCHANGED notifs
    /\ Done(i)
    /\ troubled' = troubled \cup {job[i].claim.id}
    /\ UNCHANGED <<clock, life, rows, api, todo>>

\* Mutation of Moved: what was not recurring stays enabled and due.
MovedNotDisabled(i, row) ==
    IF job[i].claim.recurring /\ job[i].claim.cron # 0
    THEN [row EXCEPT !.next = NextRun(job[i].claim.cron, job[i].now)]
    ELSE row

\* The row after a run: the expression that was read gives the next time from now; a
\* one-time schedule is disabled.
Moved(i, row) ==
    IF job[i].claim.recurring /\ job[i].claim.cron # 0
    THEN [row EXCEPT !.next = NextRun(job[i].claim.cron, job[i].now)]
    ELSE [row EXCEPT !.next = Never, !.enabled = FALSE]

\* Mutation of UpdateAfterRun: it is left out when the schedule is one minute behind.
UpdateAfterRunInTime(i) ==
    /\ stage[i] = "update"
    /\ LET s == job[i].claim.id
       IN  rows' = IF life[s] = "stored" /\ job[i].now = job[i].claim.run
                   THEN [rows EXCEPT ![s] = Moved(i, @)] ELSE rows
    /\ Done(i)
    /\ UNCHANGED <<clock, life, api, todo, notifs, troubled>>

\* fire, UpdateAfterRun: finds no row when it was deleted.
UpdateAfterRun(i) ==
    /\ stage[i] = "update"
    /\ LET s == job[i].claim.id
       IN  rows' = IF life[s] = "stored" THEN [rows EXCEPT ![s] = Moved(i, @)] ELSE rows
    /\ Done(i)
    /\ UNCHANGED <<clock, life, api, todo, notifs, troubled>>

\* It fails, and that is only logged.
UpdateAfterRunFails(i) ==
    /\ stage[i] = "update"
    /\ Done(i)
    /\ troubled' = troubled \cup {job[i].claim.id}
    /\ UNCHANGED <<clock, life, rows, api, todo, notifs>>

\* The instance dies or is stopped; nobody resumes what it was at.
Crash(i) ==
    /\ stage[i] # "down"
    /\ troubled' = troubled \cup Held(i)
    /\ stage' = [stage EXCEPT ![i] = "down"]
    /\ todo' = [todo EXCEPT ![i] = {}]
    /\ job' = [job EXCEPT ![i] = Never]
    /\ UNCHANGED <<clock, life, rows, api, notifs>>

\* Start ticks at once.
Boot(i) ==
    /\ stage[i] = "down"
    /\ stage' = [stage EXCEPT ![i] = "idle"]
    /\ UNCHANGED <<clock, life, rows, api, todo, job, notifs, troubled>>

-----------------------------------------------------------------------------
Serve(c) == UpdateReads(c) \/ UpdateWrites(c) \/ SetEnabled(c) \/ Delete(c)

Work(i) ==
    \/ Fire(i)
    \/ CreateNotification(i)
    \/ CreateFails(i)
    \/ UpdateAfterRun(i)
    \/ UpdateAfterRunFails(i)

Next ==
    \/ Minute
    \/ \E s \in Schedules : Create(s)
    \/ \E c \in Calls : Serve(c)
    \/ \E i \in Instances : Tick(i) \/ Work(i) \/ Crash(i) \/ Boot(i)

\* The ticker of an instance fires as long as it is up, not each of its ticks meets with
\* another's locks, and no statement waits for ever; nothing is assumed of the clock, of calls, stops and starts.
Spec ==
    /\ Init /\ [][Next]_vars
    /\ \A i \in Instances :
          SF_vars(Claim(i, {s \in Schedules : Due(s)})) /\ WF_vars(Work(i))

-----------------------------------------------------------------------------
\* Safety: no minute has two notifications of a schedule, whatever fails; and no run time has
\* two unless a failure, a crash, an Update or a second scheduler came in between, or it is the
\* zero time, at which a schedule whose expression matches no date stays due.
OncePerRun ==
    \A m, n \in notifs :
        m.id = n.id /\ m # n =>
            /\ m.minute # n.minute
            /\ m.run # n.run \/ m.run = ZeroTime \/ m.id \in troubled

\* What a step may not do: read a schedule that is disabled or deleted, or notify of one that
\* no scheduler has read before.
QuietWhenDisabled ==
    [][\A s \in Schedules :
          (life[s] # "stored" \/ ~rows[s].enabled) /\ (\A i \in Instances : s \notin Held(i)) =>
              /\ {n \in notifs' : n.id = s} = {n \in notifs : n.id = s}
              /\ \A i \in Instances : s \notin Held(i)']_vars

\* Liveness: a schedule that is due runs and is moved on, unless it met with a failure or an
\* instance is down; one that is due at the zero time runs, and stays due.
DueRuns ==
    \A s \in Schedules :
        Due(s) ~> \/ ~Due(s)
                  \/ rows[s].next = ZeroTime /\ \E n \in notifs : n.id = s
                  \/ s \in troubled \/ \E i \in Instances : stage[i] = "down"
=============================================================================
