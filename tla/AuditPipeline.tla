--------------------------- MODULE AuditPipeline ---------------------------
(***************************************************************************)
(* The audit trail.  A service publishes an event and forgets it (or posts *)
(* it to audit-svc and waits); JetStream keeps it and delivers it to the   *)
(* consumers of audit-svc, which insert a row and acknowledge; readers     *)
(* list the rows page by page while more of them come in.                  *)
(*                                                                         *)
(* A row's place in the list is its time of ingestion and its id, which is *)
(* random: the model takes any id that is free.                            *)
(***************************************************************************)
EXTENDS Naturals, FiniteSets, Sequences

CONSTANTS
    Events,      \* events that may happen
    Posted,      \* those that are posted to audit-svc, not published
    Nameless,    \* those without an actor: Ingest refuses them
    Garbled,     \* messages and bodies that are no event: they do not unmarshal
    Consumers,   \* instances of audit-svc
    MaxDeliver,  \* deliveries of a message
    BatchSize,   \* messages fetched at a time
    Attempts,    \* attempts of HTTPPublisher
    PageSize,    \* rows of a page
    MaxRows,     \* bound: rows of the table
    LastTick,    \* bound: the last value of the clock
    None         \* nothing

ASSUME AuditAssumption ==
    /\ IsFiniteSet(Events) /\ Posted \subseteq Events /\ Nameless \subseteq Events
    /\ Garbled \subseteq Events
    /\ {MaxDeliver, BatchSize, Attempts, PageSize} \subseteq Nat \ {0}
    /\ MaxRows \in Nat /\ LastTick \in Nat

Ids == 1..MaxRows
Ticks == 0..LastTick
Rows == [event : Events, at : Ticks, id : Ids]

ASSUME NoneAssumption == None \notin Rows \cup Seq(Rows)

VARIABLES
    clock,       \* the time
    publisher,   \* what NewPublisher gave the service when it started: NATS or nothing
    place,       \* place[e]: where e is on its way to audit-svc
    tries,       \* tries[e]: deliveries of the message, or attempts to post it
    out,         \* messages delivered and neither acknowledged nor given back
    acked,       \* messages acknowledged
    batch,       \* batch[c]: messages that consumer c has fetched and not begun
    work,        \* work[c]: the message at hand, and when Ingest began
    stage,       \* stage[c]: what c does next: fetch, insert, or answer with Ack or Nak
    rows,        \* the table audit_events
    troubled,    \* events with a failure that may double or lose them
    listing,     \* what a reader has been shown; None before the first page
    cursor,      \* the row its next page starts after; None for the first page or no next page
    before       \* the rows stored when it asked for the first page

source == <<publisher, place, tries, out, acked>>
consumers == <<batch, work, stage>>
reader == <<listing, cursor, before>>
auditVars == <<clock, source, consumers, rows, troubled, reader>>

AuditTypeOK ==
    /\ clock \in Ticks
    /\ publisher \in {"nats", "noop"}
    /\ place \in [Events -> {"none", "leaving", "stream", "posting", "posted", "lost"}]
    /\ tries \in [Events -> Nat]
    /\ out \subseteq Events /\ acked \subseteq Events
    /\ batch \in [Consumers -> SUBSET Events]
    /\ work \in [Consumers -> [event : Events, at : Ticks] \cup {None}]
    /\ stage \in [Consumers -> {"fetch", "insert", "ack", "nak"}]
    /\ rows \subseteq Rows
    /\ troubled \subseteq Events
    /\ listing \in Seq(Rows) \cup {None}
    /\ cursor \in Rows \cup {None}
    /\ before \subseteq Rows

AuditInit ==
    /\ clock = 0
    /\ publisher \in {"nats", "noop"}
    /\ place = [e \in Events |-> "none"]
    /\ tries = [e \in Events |-> 0]
    /\ out = {} /\ acked = {}
    /\ batch = [c \in Consumers |-> {}]
    /\ work = [c \in Consumers |-> None]
    /\ stage = [c \in Consumers |-> "fetch"]
    /\ rows = {} /\ troubled = {}
    /\ listing = None /\ cursor = None /\ before = {}

ClockTicks ==
    /\ clock < LastTick
    /\ clock' = clock + 1
    /\ UNCHANGED <<source, consumers, rows, troubled, reader>>

-----------------------------------------------------------------------------
(* The publishing service. *)

\* Async(NATSPublisher).Publish: a goroutine takes the event; NoopPublisher drops it.
Publish(e) ==
    /\ place[e] = "none" /\ e \notin Posted
    /\ place' = [place EXCEPT ![e] = IF publisher = "nats" THEN "leaving" ELSE "lost"]
    /\ UNCHANGED <<clock, publisher, tries, out, acked, consumers, rows, troubled, reader>>

\* PublishAsync, whose acknowledgement nobody awaits: the event reaches the stream or does not.
Send(e) ==
    /\ place[e] = "leaving"
    /\ \E to \in {"stream", "lost"} : place' = [place EXCEPT ![e] = to]
    /\ UNCHANGED <<clock, publisher, tries, out, acked, consumers, rows, troubled, reader>>

\* The service restarts and NewPublisher decides anew, for as long as the service runs.
PublisherRestarts ==
    /\ publisher' \in {"nats", "noop"}
    /\ place' = [e \in Events |-> IF place[e] = "leaving" THEN "lost" ELSE place[e]]
    /\ UNCHANGED <<clock, tries, out, acked, consumers, rows, troubled, reader>>

-----------------------------------------------------------------------------
(* audit-svc, ingestion. *)

\* Create: a row of its own for whatever is ingested, however often.
Insert(e, at) ==
    \E id \in Ids \ {row.id : row \in rows} :
        rows' = rows \cup {[event |-> e, at |-> at, id |-> id]}

\* What Ingest takes.
Sound(e) == e \notin Nameless \cup Garbled

\* POST /v1/audit/events: the body is decoded and validated, and stored before the answer.
\* The time is taken and the row inserted in one step; only the order of pages could tell.
IngestEvent(e) == Sound(e) /\ Insert(e, clock)

\* HTTPPublisher: an attempt may be answered, fail, or be stored with its answer lost; then
\* the request is repeated.
Post(e) ==
    /\ place[e] \in {"none", "posting"} /\ e \in Posted
    /\ tries[e] < Attempts
    /\ tries' = [tries EXCEPT ![e] = @ + 1]
    /\ \/ /\ IngestEvent(e)
          /\ \/ place' = [place EXCEPT ![e] = "posted"] /\ UNCHANGED troubled
             \/ place' = [place EXCEPT ![e] = "posting"] /\ troubled' = troubled \cup {e}
       \/ place' = [place EXCEPT ![e] = "posting"] /\ UNCHANGED <<rows, troubled>>
    /\ UNCHANGED <<clock, publisher, out, acked, consumers, reader>>

\* What JetStream may deliver.
Deliverable ==
    {e \in Events : place[e] = "stream" /\ e \notin acked \cup out /\ tries[e] < MaxDeliver}

Fetch(c) ==
    /\ stage[c] = "fetch" /\ batch[c] = {}
    /\ \E b \in SUBSET Deliverable \ {{}} :
        /\ Cardinality(b) <= BatchSize
        /\ batch' = [batch EXCEPT ![c] = b]
        /\ tries' = [e \in Events |-> IF e \in b THEN tries[e] + 1 ELSE tries[e]]
        /\ out' = out \cup b
    /\ UNCHANGED <<clock, publisher, place, acked, work, stage, rows, troubled, reader>>

\* handle: Ingest takes the time first; what does not unmarshal is discarded with an Ack.
Begin(c) ==
    /\ stage[c] = "fetch"
    /\ \E e \in batch[c] :
        /\ work' = [work EXCEPT ![c] = [event |-> e, at |-> clock]]
        /\ batch' = [batch EXCEPT ![c] = @ \ {e}]
        /\ stage' = [stage EXCEPT ![c] = IF e \in Garbled THEN "ack" ELSE "insert"]
    /\ UNCHANGED <<clock, source, rows, troubled, reader>>

\* Mutation of Ingest: any error is taken for a message that is no use.
IngestDiscards(c) ==
    LET e == work[c].event
    IN  /\ stage[c] = "insert"
        /\ \/ /\ e \notin Nameless
              /\ Insert(e, work[c].at)
              /\ stage' = [stage EXCEPT ![c] = "ack"]
              /\ UNCHANGED troubled
           \/ /\ stage' = [stage EXCEPT ![c] = "ack"]
              /\ troubled' = troubled \cup {e}
              /\ UNCHANGED rows
        /\ UNCHANGED <<clock, source, batch, work, reader>>

\* Ingest: the row is stored; or an error is reported, for a row that is not stored or is.
Ingest(c) ==
    LET e == work[c].event
    IN  /\ stage[c] = "insert"
        /\ \/ /\ e \notin Nameless
              /\ Insert(e, work[c].at)
              /\ \/ stage' = [stage EXCEPT ![c] = "ack"] /\ UNCHANGED troubled
                 \/ stage' = [stage EXCEPT ![c] = "nak"] /\ troubled' = troubled \cup {e}
           \/ /\ stage' = [stage EXCEPT ![c] = "nak"]
              /\ troubled' = troubled \cup {e}
              /\ UNCHANGED rows
        /\ UNCHANGED <<clock, source, batch, work, reader>>

\* Start, after the handler: Ack or Nak, which may get lost.
Answer(c) ==
    LET e == work[c].event
    IN  /\ stage[c] \in {"ack", "nak"}
        /\ \/ /\ out' = out \ {e}
              /\ acked' = IF stage[c] = "ack" THEN acked \cup {e} ELSE acked
              /\ UNCHANGED troubled
           \/ troubled' = troubled \cup {e} /\ UNCHANGED <<out, acked>>
        /\ stage' = [stage EXCEPT ![c] = "fetch"]
        /\ work' = [work EXCEPT ![c] = None]
        /\ UNCHANGED <<clock, publisher, place, tries, batch, rows, reader>>

\* AckWait is over: the message counts as not delivered, though a consumer may still have it.
AckWaitOver(e) ==
    /\ e \in out
    /\ out' = out \ {e}
    /\ troubled' = troubled \cup {e}
    /\ UNCHANGED <<clock, publisher, place, tries, acked, consumers, rows, reader>>

\* An instance stops, wherever its consumer stands, and starts again.
ConsumerRestarts(c) ==
    /\ batch[c] # {} \/ work[c] # None
    /\ batch' = [batch EXCEPT ![c] = {}]
    /\ work' = [work EXCEPT ![c] = None]
    /\ stage' = [stage EXCEPT ![c] = "fetch"]
    /\ UNCHANGED <<clock, source, rows, troubled, reader>>

-----------------------------------------------------------------------------
(* audit-svc, List. *)

\* ORDER BY created_at DESC, id DESC
Newer(r1, r2) == r1.at > r2.at \/ (r1.at = r2.at /\ r1.id > r2.id)

\* Mutation of After: the page starts at an older time, not at an older row.
AfterTime(rs, row) == {r \in rs : r.at < row.at}

\* WHERE (created_at, id) < cursor
After(rs, row) == {r \in rs : Newer(row, r)}

Sorted(page) == \A i, j \in DOMAIN page : i < j => Newer(page[i], page[j])

Shown(page) == {page[i] : i \in DOMAIN page}

\* The newest of some rows, PageSize at most, and the cursor to the next page if there are more.
ShowPage(rs) ==
    LET more == Cardinality(rs) > PageSize
        size == IF more THEN PageSize ELSE Cardinality(rs)
    IN  \E page \in [1..size -> rs] :
            /\ Sorted(page)
            /\ \A row \in rs \ Shown(page) : \A shown \in Shown(page) : Newer(shown, row)
            /\ listing' = (IF listing = None THEN <<>> ELSE listing) \o page
            /\ cursor' = IF more THEN page[PageSize] ELSE None

FirstPage ==
    /\ listing = None
    /\ ShowPage(rows)
    /\ before' = rows
    /\ UNCHANGED <<clock, source, consumers, rows, troubled>>

NextPage ==
    /\ cursor # None
    /\ ShowPage(After(rows, cursor))
    /\ UNCHANGED <<clock, source, consumers, rows, troubled, before>>

-----------------------------------------------------------------------------

AuditNext ==
    \/ ClockTicks \/ PublisherRestarts \/ FirstPage \/ NextPage
    \/ \E e \in Events : Publish(e) \/ Send(e) \/ Post(e) \/ AckWaitOver(e)
    \/ \E c \in Consumers : Fetch(c) \/ Begin(c) \/ Ingest(c) \/ Answer(c) \/ ConsumerRestarts(c)

AuditSpec == AuditInit /\ [][AuditNext]_auditVars

-----------------------------------------------------------------------------
(* Properties. *)

RowsOf(e) == {row \in rows : row.event = e}

\* An event whose message was acknowledged is in the table, whatever stopped in between: only
\* what is no event at all is acknowledged and dropped.  No delivery or attempt leaves two
\* rows, and without trouble nothing does; without trouble a message is delivered once and
\* stays out until it is acknowledged, so none is given up.
Accounted ==
    /\ AuditTypeOK
    /\ \A e \in Events :
        /\ e \in acked \/ place[e] = "posted" => RowsOf(e) # {} \/ e \in Garbled
        /\ Cardinality(RowsOf(e)) <= tries[e]
        /\ e \notin troubled => Cardinality(RowsOf(e)) <= 1
        /\ RowsOf(e) # {} => Sound(e)
        /\ e \notin troubled /\ place[e] = "stream" /\ tries[e] > 0 =>
              tries[e] = 1 /\ e \in out \cup acked

\* A reader who has turned all pages has seen every row that was there before the first one
\* exactly once and in order, whatever was stored meanwhile.
PagesComplete ==
    listing # None =>
        /\ Sorted(listing)
        /\ cursor = None => before \subseteq Shown(listing)
=============================================================================
