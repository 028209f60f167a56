--------------------------- MODULE CommonParts_proofs ---------------------------
(***************************************************************************)
(* What all services have in common.  The way of a request in RequestPath: *)
(* the rate limiter and the access tokens, for any clients, users, rate,   *)
(* burst and lives.  The audit trail in AuditPipeline, for any events,     *)
(* consumers, deliveries and page size.  The idempotency middleware, for   *)
(* any requests, callers, routes and keys.                                 *)
(***************************************************************************)
EXTENDS RequestPath, AuditPipeline, Idempotency, Integers, FiniteSetTheorems, SequenceTheorems, TLAPS

-----------------------------------------------------------------------------
(***************************************************************************)
(* The audit trail: the invariant.  Each row of an event and each consumer *)
(* that has yet to store it has an attempt of its own: so no delivery      *)
(* leaves two rows, though a message may be with several consumers.        *)
(***************************************************************************)

\* A consumer that has a message at hand and has not stored it, or is about to discard it.
Holds(c, e) ==
    /\ stage[c] = "insert" \/ (stage[c] = "ack" /\ e \in Garbled)
    /\ work[c].event = e

\* The consumers that have a message.
Holders(e) == {c \in Consumers : e \in batch[c] \/ Holds(c, e)}

\* A consumer that has begun has a message, which it stored before it answers with Ack unless
\* it could not read it.
AtWork(c) ==
    /\ stage[c] # "fetch" => work[c].event \notin batch[c]
    /\ stage[c] # "fetch" => work[c] \in [event : Events, at : Ticks]
    /\ stage[c] = "insert" => work[c].event \notin Garbled
    /\ stage[c] = "ack" => work[c].event \in Garbled \/ RowsOf(work[c].event) # {}
    /\ stage[c] = "nak" => work[c].event \in troubled

\* Every row and every message that waits to be stored has an attempt of its own.
Attributed(e) ==
    /\ IsFiniteSet(Holders(e))
    /\ Cardinality(RowsOf(e)) + Cardinality(Holders(e)) <= tries[e]
    /\ Holders(e) # {} \/ e \in out => place[e] = "stream"
    /\ place[e] \in {"none", "leaving"} => tries[e] = 0

\* One consumer at a time has a message that met with no trouble, and before it is stored.
Alone(e) ==
    e \notin troubled =>
        /\ \A c, d \in Holders(e) : c = d
        /\ Holders(e) # {} => e \in out /\ RowsOf(e) = {}
        /\ RowsOf(e) # {} =>
            \/ place[e] = "stream" /\ e \in out \cup acked
            \/ place[e] = "posted"
        /\ place[e] = "stream" /\ tries[e] > 0 => tries[e] = 1 /\ e \in out \cup acked

\* The invariant of the audit trail.
AInv ==
    /\ Accounted /\ IsFiniteSet(rows)
    /\ \A c \in Consumers : AtWork(c)
    /\ \A e \in Events : Attributed(e) /\ Alone(e)

\* What a reader has been shown ends at the cursor and leaves out nothing that is newer.
Paged ==
    /\ before \subseteq rows
    /\ listing = None => cursor = None
    /\ listing # None =>
        /\ Sorted(listing)
        /\ cursor # None => Len(listing) > 0 /\ cursor = listing[Len(listing)]
        /\ \A row \in before \ Shown(listing) : cursor # None /\ Newer(cursor, row)

-----------------------------------------------------------------------------
(* The audit trail: counting and shapes.                                   *)

\* The numbers up to a.
LEMMA UpTo ==
    ASSUME NEW a \in Nat
    PROVE  IsFiniteSet(1..a) /\ Cardinality(1..a) = a
<1>1. 1 \in Int /\ a \in Int
  OBVIOUS
<1>2. IsFiniteSet(1..a) /\ Cardinality(1..a) = IF 1 > a THEN 0 ELSE a - 1 + 1
  BY <1>1, FS_Interval
<1>3. (IF 1 > a THEN 0 ELSE a - 1 + 1) = a
  OBVIOUS
<1> QED BY <1>2, <1>3

\* A set with one more element.
LEMMA OneMore ==
    ASSUME NEW S, IsFiniteSet(S), NEW x
    PROVE  /\ IsFiniteSet(S \cup {x}) /\ Cardinality(S \cup {x}) \in Nat
           /\ Cardinality(S \cup {x}) <= Cardinality(S) + 1
<1>1. Cardinality(S) \in Nat
  BY FS_CardinalityType
<1>2. IsFiniteSet(S \cup {x})
  BY FS_AddElement
<1>3. Cardinality(S \cup {x}) = Cardinality(S) \/ Cardinality(S \cup {x}) = Cardinality(S) + 1
  BY FS_AddElement
<1> QED BY <1>1, <1>2, <1>3

\* Rows, consumers and attempts: one more row or holder takes one more attempt, and a row may take
\* the place of a holder.
LEMMA Counting ==
    ASSUME NEW R, NEW H, IsFiniteSet(R), IsFiniteSet(H), NEW t \in Nat,
           Cardinality(R) + Cardinality(H) <= t
    PROVE  /\ \A K \in SUBSET H : IsFiniteSet(K) /\ Cardinality(R) + Cardinality(K) <= t
           /\ \A x : \A K \in SUBSET (H \cup {x}) :
                IsFiniteSet(K) /\ Cardinality(R) + Cardinality(K) <= t + 1
           /\ \A x : \A y \in H : \A K \in SUBSET (H \ {y}) :
                IsFiniteSet(K) /\ Cardinality(R \cup {x}) + Cardinality(K) <= t
           /\ \A x : \A K \in SUBSET H :
                IsFiniteSet(K) /\ Cardinality(R \cup {x}) + Cardinality(K) <= t + 1
<1>1. Cardinality(R) \in Nat /\ Cardinality(H) \in Nat
  BY FS_CardinalityType
<1>2. ASSUME NEW x
      PROVE  /\ Cardinality(R \cup {x}) \in Nat
             /\ Cardinality(R \cup {x}) <= Cardinality(R) + 1
  BY OneMore
<1>3. ASSUME NEW L, IsFiniteSet(L), NEW K \in SUBSET L
      PROVE  IsFiniteSet(K) /\ Cardinality(K) \in Nat /\ Cardinality(K) <= Cardinality(L)
  <2>1. IsFiniteSet(K) /\ Cardinality(K) <= Cardinality(L)
    BY <1>3, FS_Subset
  <2> QED BY <2>1, FS_CardinalityType
<1>4. ASSUME NEW x
      PROVE  /\ IsFiniteSet(H \cup {x}) /\ Cardinality(H \cup {x}) \in Nat
             /\ Cardinality(H \cup {x}) <= Cardinality(H) + 1
  BY OneMore
<1>5. ASSUME NEW y \in H
      PROVE  /\ IsFiniteSet(H \ {y}) /\ Cardinality(H \ {y}) \in Nat
             /\ Cardinality(H \ {y}) = Cardinality(H) - 1
  <2>1. IsFiniteSet(H \ {y}) /\ Cardinality(H \ {y}) = Cardinality(H) - 1
    BY FS_RemoveElement
  <2> QED BY <2>1, FS_CardinalityType
<1>6. \A K \in SUBSET H : IsFiniteSet(K) /\ Cardinality(R) + Cardinality(K) <= t
  BY <1>1, <1>3
<1>7. ASSUME NEW x, NEW K \in SUBSET (H \cup {x})
      PROVE  IsFiniteSet(K) /\ Cardinality(R) + Cardinality(K) <= t + 1
  <2>1. IsFiniteSet(K) /\ Cardinality(K) \in Nat /\ Cardinality(K) <= Cardinality(H \cup {x})
    BY <1>3, <1>4
  <2>2. Cardinality(H \cup {x}) \in Nat /\ Cardinality(H \cup {x}) <= Cardinality(H) + 1
    BY <1>4
  <2> QED BY <1>1, <2>1, <2>2
<1>8. ASSUME NEW x, NEW y \in H, NEW K \in SUBSET (H \ {y})
      PROVE  IsFiniteSet(K) /\ Cardinality(R \cup {x}) + Cardinality(K) <= t
  <2>1. IsFiniteSet(K) /\ Cardinality(K) \in Nat /\ Cardinality(K) <= Cardinality(H \ {y})
    BY <1>3, <1>5
  <2>2. Cardinality(H \ {y}) \in Nat /\ Cardinality(H \ {y}) = Cardinality(H) - 1
    BY <1>5
  <2>3. Cardinality(R \cup {x}) \in Nat /\ Cardinality(R \cup {x}) <= Cardinality(R) + 1
    BY <1>2
  <2> QED BY <1>1, <2>1, <2>2, <2>3
<1>9. ASSUME NEW x, NEW K \in SUBSET H
      PROVE  IsFiniteSet(K) /\ Cardinality(R \cup {x}) + Cardinality(K) <= t + 1
  <2>1. IsFiniteSet(K) /\ Cardinality(K) \in Nat /\ Cardinality(K) <= Cardinality(H)
    BY <1>3
  <2>2. Cardinality(R \cup {x}) \in Nat /\ Cardinality(R \cup {x}) <= Cardinality(R) + 1
    BY <1>2
  <2> QED BY <1>1, <2>1, <2>2
<1> QED BY <1>6, <1>7, <1>8, <1>9

\* What a consumer works at.
LEMMA WorkShape ==
    ASSUME AuditTypeOK, NEW c \in Consumers, AtWork(c), stage[c] # "fetch"
    PROVE  /\ work[c] \in [event : Events, at : Ticks]
           /\ work[c].event \in Events /\ work[c].at \in Ticks
BY DEF AtWork

\* Create adds one row, to the event it was given.
LEMMA InsertShape ==
    ASSUME AuditTypeOK, IsFiniteSet(rows), NEW e \in Events, NEW at \in Ticks, Insert(e, at)
    PROVE  /\ rows' \subseteq Rows /\ IsFiniteSet(rows') /\ rows \subseteq rows'
           /\ \E row : RowsOf(e)' = RowsOf(e) \cup {row}
           /\ RowsOf(e)' # {}
           /\ \A d \in Events \ {e} : RowsOf(d)' = RowsOf(d)
<1>1. PICK id \in Ids : rows' = rows \cup {[event |-> e, at |-> at, id |-> id]}
  BY DEF Insert
<1> DEFINE new == [event |-> e, at |-> at, id |-> id]
<1>2. new \in Rows /\ new.event = e
  BY DEF Rows
<1> HIDE DEF new
<1>3. rows' = rows \cup {new}
  BY <1>1 DEF new
<1>4. IsFiniteSet(rows')
  BY <1>3, FS_AddElement
<1>5. RowsOf(e)' = RowsOf(e) \cup {new} /\ \A d \in Events \ {e} : RowsOf(d)' = RowsOf(d)
  BY <1>2, <1>3 DEF RowsOf
<1> QED BY <1>2, <1>3, <1>4, <1>5 DEF AuditTypeOK

-----------------------------------------------------------------------------
(* The audit trail: one event after a step.                                *)

\* Nothing is stored; fewer consumers may have e, and it is not delivered or posted again.
Rests(e) ==
    /\ RowsOf(e)' = RowsOf(e) /\ Holders(e)' \subseteq Holders(e) /\ tries'[e] = tries[e]
    /\ place'[e] = place[e] \/ place[e] \in {"none", "leaving"}
    /\ troubled \subseteq troubled'
    /\ e \notin troubled' => /\ out' \cap {e} = out \cap {e} \/ (e \in acked' /\ Holders(e)' = {})
                             /\ acked \cap {e} \subseteq acked'
    /\ e \in out' => e \in out

\* Where nothing happens to e but that consumers lose it, or acknowledge what is stored.
LEMMA RestsKeeps ==
    ASSUME AuditTypeOK, IsFiniteSet(rows), NEW e \in Events, Attributed(e), Alone(e), Rests(e)
    PROVE  Attributed(e)' /\ Alone(e)'
<1>1. IsFiniteSet(RowsOf(e)) /\ tries[e] \in Nat
  BY FS_Subset DEF RowsOf, AuditTypeOK
<1>2. IsFiniteSet(Holders(e))' /\ (Cardinality(RowsOf(e)) + Cardinality(Holders(e)) <= tries[e])'
  BY <1>1, Counting DEF Attributed, Rests
<1>3. Attributed(e)'
  BY <1>2 DEF Attributed, Rests
<1>4. Alone(e)'
  BY <1>1 DEF Alone, Attributed, Rests
<1> QED BY <1>3, <1>4

\* The publishing service and AckWait.
LEMMA SourceKeeps ==
    ASSUME AInv, NEW d \in Events, Publish(d) \/ Send(d) \/ AckWaitOver(d), NEW e \in Events
    PROVE  Attributed(e)' /\ Alone(e)'
<1>1. AuditTypeOK /\ IsFiniteSet(rows) /\ Attributed(e) /\ Alone(e)
  BY DEF AInv, Accounted
<1>2. Rests(e)
  BY <1>1 DEF Publish, Send, AckWaitOver, Rests, RowsOf, Holders, Holds, consumers, AuditTypeOK
<1> QED BY <1>1, <1>2, RestsKeeps

\* The clock, the readers, a restart of either side.
LEMMA OthersKeep ==
    ASSUME AInv, NEW e \in Events,
           \/ ClockTicks \/ PublisherRestarts \/ FirstPage \/ NextPage \/ UNCHANGED auditVars
           \/ \E c \in Consumers : ConsumerRestarts(c)
    PROVE  Attributed(e)' /\ Alone(e)'
<1>1. AuditTypeOK /\ IsFiniteSet(rows) /\ Attributed(e) /\ Alone(e)
  BY DEF AInv, Accounted
<1>2. Rests(e)
  <2>1. CASE ClockTicks \/ FirstPage \/ NextPage \/ UNCHANGED auditVars
    BY <2>1 DEF ClockTicks, FirstPage, NextPage, auditVars, source, consumers, Rests,
                  RowsOf, Holders, Holds
  <2>2. CASE PublisherRestarts
    BY <1>1, <2>2 DEF PublisherRestarts, consumers, Rests, RowsOf, Holders, Holds
  <2>3. ASSUME NEW c \in Consumers, ConsumerRestarts(c) PROVE Rests(e)
    BY <1>1, <2>3 DEF ConsumerRestarts, source, Rests, RowsOf, Holders, Holds, AuditTypeOK
  <2> QED BY <2>1, <2>2, <2>3
<1> QED BY <1>1, <1>2, RestsKeeps

\* An attempt of HTTPPublisher.
LEMMA PostKeeps ==
    ASSUME AInv, NEW d \in Events, Post(d), NEW e \in Events
    PROVE  Attributed(e)' /\ Alone(e)'
<1>1. AuditTypeOK /\ IsFiniteSet(rows) /\ Attributed(e) /\ Alone(e)
  BY DEF AInv, Accounted
<1>2. /\ Holders(e)' = Holders(e) /\ out' = out /\ acked' = acked
      /\ troubled \subseteq troubled' /\ clock \in Ticks
      /\ place[d] # "stream" /\ place[d] # "posted"
  BY <1>1 DEF Post, consumers, Holders, Holds, AuditTypeOK
<1>3. CASE e # d
  <2>1. RowsOf(e)' = RowsOf(e)
    BY <1>1, <1>2, <1>3, InsertShape DEF Post, IngestEvent, RowsOf
  <2> QED BY <1>1, <1>2, <1>3, <2>1, RestsKeeps DEF Post, Rests, AuditTypeOK
<1>4. CASE e = d
  <2>1. Holders(e) = {} /\ e \notin out
    BY <1>1, <1>2, <1>4 DEF Attributed
  <2>2. /\ tries'[e] = tries[e] + 1 /\ tries[e] \in Nat
        /\ place'[e] \in {"posting", "posted"}
    BY <1>1, <1>4 DEF Post, AuditTypeOK
  <2>3. IsFiniteSet(RowsOf(e))
    BY <1>1, FS_Subset DEF RowsOf
  <2>6. /\ IsFiniteSet(Holders(e))
        /\ Cardinality(RowsOf(e)) + Cardinality(Holders(e)) <= tries[e]
    BY <1>1 DEF Attributed
  <2>7. \A x : /\ Cardinality(RowsOf(e)) + Cardinality(Holders(e)) <= tries[e] + 1
               /\ Cardinality(RowsOf(e) \cup {x}) + Cardinality(Holders(e)) <= tries[e] + 1
    BY <2>2, <2>3, <2>6, Counting
  <2>4. CASE UNCHANGED <<rows, troubled>>
    <3>1. RowsOf(e)' = RowsOf(e)
      BY <2>4 DEF RowsOf
    <3>2. Attributed(e)'
      BY <1>2, <2>1, <2>2, <2>6, <2>7, <3>1 DEF Attributed
    <3> QED BY <1>1, <1>2, <1>4, <2>1, <2>2, <2>4, <3>1, <3>2 DEF Alone
  <2>5. CASE /\ IngestEvent(d)
             /\ place'[d] = "posted" \/ d \in troubled'
    <3>1. PICK row : RowsOf(e)' = RowsOf(e) \cup {row}
      BY <1>1, <1>2, <1>4, <2>5, InsertShape DEF IngestEvent
    <3>2. /\ IsFiniteSet(Holders(e)')
          /\ Cardinality(RowsOf(e)') + Cardinality(Holders(e)') <= tries'[e]
      BY <1>2, <2>2, <2>6, <2>7, <3>1
    <3> QED BY <1>2, <1>4, <2>1, <2>2, <2>5, <3>2 DEF Attributed, Alone
  <2> QED BY <1>1, <1>4, <2>4, <2>5 DEF Post, AuditTypeOK
<1> QED BY <1>3, <1>4

\* A delivery, of what nobody has been given yet.
LEMMA FetchKeeps ==
    ASSUME AInv, NEW c \in Consumers, Fetch(c), NEW e \in Events
    PROVE  Attributed(e)' /\ Alone(e)'
<1>1. AuditTypeOK /\ IsFiniteSet(rows) /\ Attributed(e) /\ Alone(e)
  BY DEF AInv, Accounted
<1>2. PICK b \in SUBSET Deliverable :
        /\ batch' = [batch EXCEPT ![c] = b]
        /\ tries' = [d \in Events |-> IF d \in b THEN tries[d] + 1 ELSE tries[d]]
        /\ out' = out \cup b
  BY DEF Fetch
<1>3. UNCHANGED <<place, acked, work, stage, rows, troubled>> /\ batch[c] = {}
  BY DEF Fetch
<1>4. RowsOf(e)' = RowsOf(e)
  BY <1>3 DEF RowsOf
<1>5. CASE e \notin b
  <2>1. Holders(e)' \subseteq Holders(e)
    BY <1>1, <1>2, <1>3, <1>5 DEF Holders, Holds, AuditTypeOK
  <2> QED BY <1>1, <1>2, <1>3, <1>4, <1>5, <2>1, RestsKeeps DEF Rests, AuditTypeOK
<1>6. CASE e \in b
  <2>1. /\ place[e] = "stream" /\ e \notin acked \cup out
        /\ tries'[e] = tries[e] + 1 /\ tries[e] \in Nat /\ e \in out'
    BY <1>1, <1>2, <1>6 DEF Deliverable, AuditTypeOK
  <2>2. Holders(e)' \subseteq Holders(e) \cup {c}
    BY <1>1, <1>2, <1>3 DEF Holders, Holds, AuditTypeOK
  <2>3. IsFiniteSet(RowsOf(e))
    BY <1>1, FS_Subset DEF RowsOf
  <2>4. /\ IsFiniteSet(Holders(e))
        /\ Cardinality(RowsOf(e)) + Cardinality(Holders(e)) <= tries[e]
    BY <1>1 DEF Attributed
  <2>5. /\ IsFiniteSet(Holders(e)')
        /\ Cardinality(RowsOf(e)) + Cardinality(Holders(e)') <= tries[e] + 1
    BY <2>1, <2>2, <2>3, <2>4, Counting
  <2>6. Attributed(e)'
    BY <1>3, <1>4, <2>1, <2>5 DEF Attributed
  <2>7. e \notin troubled => tries[e] = 0
    BY <1>1, <2>1 DEF Alone
  <2>8. e \notin troubled => tries'[e] = 1 /\ e \in out'
    BY <2>1, <2>7
  <2>9. Alone(e)'
    BY <1>1, <1>3, <1>4, <2>1, <2>2, <2>8 DEF Alone
  <2> QED BY <2>6, <2>9
<1> QED BY <1>5, <1>6

\* handle begins.
LEMMA BeginKeeps ==
    ASSUME AInv, NEW c \in Consumers, Begin(c), NEW e \in Events
    PROVE  Attributed(e)' /\ Alone(e)'
<1>1. AuditTypeOK /\ IsFiniteSet(rows) /\ Attributed(e) /\ Alone(e)
  BY DEF AInv, Accounted
<1>2. Rests(e)
  <2>1. PICK d \in batch[c] : /\ work' = [work EXCEPT ![c] = [event |-> d, at |-> clock]]
                              /\ batch' = [batch EXCEPT ![c] = @ \ {d}]
    BY DEF Begin
  <2>2. /\ work'[c].event = d /\ batch'[c] = batch[c] \ {d}
        /\ \A a \in Consumers \ {c} : work'[a] = work[a] /\ batch'[a] = batch[a]
                                      /\ stage'[a] = stage[a]
    BY <1>1, <2>1 DEF Begin, AuditTypeOK
  <2>3. Holders(e)' \subseteq Holders(e)
    BY <2>2 DEF Holders, Holds
  <2> QED BY <2>3 DEF Begin, source, Rests, RowsOf
<1> QED BY <1>1, <1>2, RestsKeeps

\* Ingest: a row takes the place of the consumer that had the message.
LEMMA IngestKeeps ==
    ASSUME AInv, NEW c \in Consumers, Ingest(c), NEW e \in Events
    PROVE  Attributed(e)' /\ Alone(e)'
<1>1. AuditTypeOK /\ IsFiniteSet(rows) /\ Attributed(e) /\ Alone(e) /\ AtWork(c)
  BY DEF AInv, Accounted
<1>2. stage[c] = "insert"
  BY DEF Ingest
<1>3. PICK d \in Events : d = work[c].event
  BY <1>2, <1>1, WorkShape
<1>4. /\ work[c].at \in Ticks /\ d \notin batch[c]
      /\ UNCHANGED <<place, tries, out, acked, batch, work>>
      /\ stage'[c] \in {"ack", "nak"} /\ d \notin Garbled
      /\ \A a \in Consumers \ {c} : stage'[a] = stage[a]
      /\ troubled \subseteq troubled'
  BY <1>2, <1>1, <1>3, WorkShape DEF Ingest, source, AtWork, AuditTypeOK
<1>5. /\ c \in Holders(d) /\ Holders(d)' \subseteq Holders(d) \ {c}
      /\ Holders(e)' \subseteq Holders(e)
  BY <1>2, <1>4, <1>3 DEF Holders, Holds
<1>6. CASE UNCHANGED rows
  BY <1>1, <1>4, <1>5, <1>6, RestsKeeps DEF Rests, RowsOf
<1>7. CASE Insert(d, work[c].at)
  <2>1. CASE e # d
    <3>1. RowsOf(e)' = RowsOf(e)
      BY <1>1, <1>4, <1>7, <2>1, InsertShape
    <3> QED BY <1>1, <1>4, <1>5, <3>1, RestsKeeps DEF Rests
  <2>2. CASE e = d
    <3>1. PICK row : RowsOf(e)' = RowsOf(e) \cup {row}
      BY <1>1, <1>4, <1>7, <2>2, InsertShape
    <3>2. /\ IsFiniteSet(Holders(e)) /\ IsFiniteSet(RowsOf(e)) /\ tries[e] \in Nat
          /\ Cardinality(RowsOf(e)) + Cardinality(Holders(e)) <= tries[e]
      BY <1>1, FS_Subset DEF Attributed, RowsOf, AuditTypeOK
    <3>3. /\ IsFiniteSet(Holders(e)')
          /\ Cardinality(RowsOf(e) \cup {row}) + Cardinality(Holders(e)') <= tries[e]
      <4>1. c \in Holders(e) /\ Holders(e)' \in SUBSET (Holders(e) \ {c})
        BY <1>5, <2>2
      <4> QED BY <3>2, <4>1, Counting
    <3>4. Attributed(e)'
      BY <1>1, <1>4, <1>5, <2>2, <3>1, <3>3 DEF Attributed
    <3>5. Alone(e)'
      <4>1. place[e] = "stream"
        BY <1>1, <1>5, <2>2 DEF Attributed
      <4> QED BY <1>1, <1>4, <1>5, <2>2, <4>1 DEF Alone
    <3> QED BY <3>4, <3>5
  <2> QED BY <2>1, <2>2
<1> QED BY <1>6, <1>7, <1>3 DEF Ingest

\* Ack and Nak.
LEMMA AnswerKeeps ==
    ASSUME AInv, NEW c \in Consumers, Answer(c), NEW e \in Events
    PROVE  Attributed(e)' /\ Alone(e)'
<1>1. AuditTypeOK /\ IsFiniteSet(rows) /\ Attributed(e) /\ Alone(e) /\ AtWork(c)
  BY DEF AInv, Accounted
<1>2. Rests(e)
  <2>1. RowsOf(e)' = RowsOf(e) /\ Holders(e)' \subseteq Holders(e)
    BY <1>1 DEF Answer, RowsOf, Holders, Holds, AuditTypeOK
  <2>2. /\ stage[c] = "ack" => work[c].event \in Garbled \/ RowsOf(work[c].event) # {}
        /\ stage[c] = "nak" => work[c].event \in troubled
        /\ work[c].event \notin batch[c]
    BY <1>1 DEF AtWork, Answer
  <2>3. ASSUME stage[c] = "ack", work[c].event = e, e \notin troubled
        PROVE  Holders(e)' = {}
    <3>1. CASE RowsOf(e) # {}
      BY <1>1, <2>1, <2>3, <3>1 DEF Alone
    <3>2. CASE e \in Garbled
      <4>1. c \in Holders(e)
        BY <2>3, <3>2 DEF Holders, Holds
      <4>2. Holders(e) \subseteq {c}
        BY <1>1, <2>3, <4>1 DEF Alone
      <4>3. c \notin Holders(e)'
        BY <1>1, <2>2, <2>3 DEF Answer, Holders, Holds, AuditTypeOK
      <4> QED BY <2>1, <4>2, <4>3
    <3> QED BY <2>2, <2>3, <3>1, <3>2
  <2>4. /\ UNCHANGED <<place, tries>> /\ troubled \subseteq troubled' /\ out' \subseteq out
        /\ acked \subseteq acked'
    BY DEF Answer
  <2>5. ASSUME e \notin troubled'
        PROVE  out' \cap {e} = out \cap {e} \/ (e \in acked' /\ Holders(e)' = {})
    <3>1. CASE work[c].event # e
      BY <2>5, <3>1 DEF Answer
    <3>2. CASE work[c].event = e
      BY <2>2, <2>3, <2>4, <2>5, <3>2 DEF Answer
    <3> QED BY <3>1, <3>2
  <2> QED BY <2>1, <2>4, <2>5 DEF Rests
<1> QED BY <1>1, <1>2, RestsKeeps

-----------------------------------------------------------------------------
(* The audit trail: the invariant after a step.                            *)

\* A consumer's own step leaves it in order, and rows and trouble never go away.
LEMMA WorkKeeps ==
    ASSUME AInv, NEW c \in Consumers, NEW a \in Consumers,
           Fetch(c) \/ Begin(c) \/ Ingest(c) \/ Answer(c) \/ ConsumerRestarts(c)
    PROVE  AtWork(a)'
<1>1. AuditTypeOK /\ IsFiniteSet(rows) /\ AtWork(a) /\ AtWork(c)
  BY DEF AInv, Accounted
<1>2. CASE Fetch(c)
  BY <1>1, <1>2 DEF Fetch, AtWork, RowsOf, AuditTypeOK
<1>3. CASE Begin(c)
  <2>1. PICK d \in batch[c] :
            /\ work' = [work EXCEPT ![c] = [event |-> d, at |-> clock]]
            /\ batch' = [batch EXCEPT ![c] = @ \ {d}]
            /\ stage' = [stage EXCEPT ![c] = IF d \in Garbled THEN "ack" ELSE "insert"]
    BY <1>3 DEF Begin
  <2>2. d \in Events
    BY <1>1 DEF AuditTypeOK
  <2>3. CASE a = c
    <3>1. /\ work'[a] = [event |-> d, at |-> clock] /\ batch'[a] = batch[c] \ {d}
          /\ stage'[a] = IF d \in Garbled THEN "ack" ELSE "insert"
      BY <1>1, <1>3, <2>1, <2>3 DEF Begin, AuditTypeOK
    <3> QED BY <1>1, <2>2, <3>1 DEF AtWork, AuditTypeOK
  <2>4. CASE a # c
    <3>1. /\ work'[a] = work[a] /\ batch'[a] = batch[a] /\ stage'[a] = stage[a]
          /\ UNCHANGED <<rows, troubled>>
      BY <1>1, <1>3, <2>1, <2>4 DEF Begin, AuditTypeOK
    <3> QED BY <1>1, <3>1 DEF AtWork, RowsOf
  <2> QED BY <2>3, <2>4
<1>4. CASE Ingest(c)
  <2>1. stage[c] = "insert"
    BY <1>4 DEF Ingest
  <2>2. PICK d \in Events : d = work[c].event
    BY <1>1, <2>1, WorkShape
  <2>3. /\ UNCHANGED <<batch, work>> /\ troubled \subseteq troubled'
        /\ stage'[a] = stage[a] \/ a = c
        /\ \/ UNCHANGED rows /\ stage'[c] = "nak" /\ d \in troubled'
           \/ /\ Insert(d, work[c].at)
              /\ stage'[c] = "ack" \/ (stage'[c] = "nak" /\ d \in troubled')
    BY <1>1, <1>4, <2>2 DEF Ingest, AuditTypeOK
  <2>4. \A e \in Events : RowsOf(e) # {} => RowsOf(e)' # {}
    <3>1. rows \subseteq rows'
      BY <2>3 DEF Insert
    <3> QED BY <3>1 DEF RowsOf
  <2>5. Insert(d, work[c].at) => RowsOf(d)' # {}
    BY <1>1, <2>1, <2>2, WorkShape, InsertShape
  <2>6. work[c] \in [event : Events, at : Ticks] /\ d \notin batch[c]
    BY <1>1, <2>1, <2>2 DEF AtWork
  <2>7. CASE a = c
    BY <2>2, <2>3, <2>5, <2>6, <2>7 DEF AtWork
  <2>8. CASE a # c
    <3>1. work[a].event \in Events \/ stage[a] = "fetch"
      BY <1>1, WorkShape
    <3> QED BY <1>1, <2>3, <2>4, <2>8, <3>1 DEF AtWork
  <2> QED BY <2>7, <2>8
<1>5. CASE Answer(c)
  BY <1>1, <1>5 DEF Answer, AtWork, RowsOf, AuditTypeOK
<1>6. CASE ConsumerRestarts(c)
  BY <1>1, <1>6 DEF ConsumerRestarts, AtWork, RowsOf, AuditTypeOK
<1> QED BY <1>2, <1>3, <1>4, <1>5, <1>6

\* The other steps leave the consumers alone.
LEMMA OthersWork ==
    ASSUME AInv, NEW a \in Consumers,
           \/ ClockTicks \/ PublisherRestarts \/ FirstPage \/ NextPage \/ UNCHANGED auditVars
           \/ \E e \in Events : Publish(e) \/ Send(e) \/ Post(e) \/ AckWaitOver(e)
    PROVE  AtWork(a)'
<1>1. AtWork(a)
  BY DEF AInv
<1>2. UNCHANGED consumers /\ rows \subseteq rows' /\ troubled \subseteq troubled'
  BY DEF ClockTicks, PublisherRestarts, FirstPage, NextPage, auditVars, Publish, Send, Post,
         IngestEvent, Insert, AckWaitOver
<1>3. \A e : RowsOf(e) # {} => RowsOf(e)' # {}
  BY <1>2 DEF RowsOf
<1> QED BY <1>1, <1>2, <1>3 DEF AtWork, consumers


\* A row is stored for what Ingest takes, and the first one unless there was trouble.
LEMMA RowsGrow ==
    ASSUME AInv, [AuditNext]_auditVars
    PROVE  /\ rows' \subseteq Rows /\ IsFiniteSet(rows')
           /\ rows \subseteq rows' /\ troubled \subseteq troubled'
           /\ \A e \in Events :
                \/ RowsOf(e)' = RowsOf(e)
                \/ /\ Sound(e)
                   /\ \E row : RowsOf(e)' = RowsOf(e) \cup {row}
                   /\ e \notin troubled' => RowsOf(e) = {}
<1> DEFINE Grown ==
            /\ rows' \subseteq Rows /\ IsFiniteSet(rows')
            /\ rows \subseteq rows' /\ troubled \subseteq troubled'
            /\ \A e \in Events :
                 \/ RowsOf(e)' = RowsOf(e)
                 \/ /\ Sound(e)
                    /\ \E row : RowsOf(e)' = RowsOf(e) \cup {row}
                    /\ e \notin troubled' => RowsOf(e) = {}
<1>1. /\ AuditTypeOK /\ IsFiniteSet(rows)
      /\ (\A c \in Consumers : AtWork(c)) /\ \A e \in Events : Attributed(e) /\ Alone(e)
  BY DEF AInv, Accounted
<1>2. ASSUME UNCHANGED rows, troubled \subseteq troubled' PROVE Grown
  BY <1>1, <1>2 DEF AuditTypeOK, RowsOf
<1>3. ASSUME NEW e \in Events, NEW at \in Ticks, Insert(e, at), Sound(e),
             troubled \subseteq troubled', e \notin troubled => RowsOf(e) = {}
      PROVE  Grown
  BY <1>1, <1>3, InsertShape
<1> HIDE DEF Grown
<1>4. ASSUME NEW e \in Events, Post(e) PROVE Grown
  <2>1. CASE UNCHANGED rows
    BY <1>2, <1>4, <2>1 DEF Post
  <2>2. CASE IngestEvent(e)
    <3>1. e \notin troubled => RowsOf(e) = {}
      BY <1>1, <1>4 DEF Post, Alone
    <3>2. clock \in Ticks
      BY <1>1 DEF AuditTypeOK
    <3> QED BY <1>3, <1>4, <2>2, <3>1, <3>2 DEF Post, IngestEvent
  <2> QED BY <1>4, <2>1, <2>2 DEF Post
<1>5. ASSUME NEW c \in Consumers, Ingest(c) PROVE Grown
  <2>1. CASE UNCHANGED rows
    BY <1>2, <1>5, <2>1 DEF Ingest
  <2>2. CASE work[c].event \notin Nameless /\ Insert(work[c].event, work[c].at)
    <3>1. stage[c] = "insert" /\ work[c].event \in Events /\ work[c].at \in Ticks
      BY <1>1, <1>5, WorkShape DEF Ingest
    <3>2. c \in Holders(work[c].event)
      BY <3>1 DEF Holders, Holds
    <3>3. work[c].event \notin troubled => RowsOf(work[c].event) = {}
      BY <1>1, <3>1, <3>2 DEF Alone
    <3>4. Sound(work[c].event)
      BY <1>1, <2>2, <3>1 DEF AtWork, Sound
    <3> QED BY <1>3, <1>5, <2>2, <3>1, <3>3, <3>4 DEF Ingest
  <2> QED BY <1>5, <2>1, <2>2 DEF Ingest
<1>6. ASSUME NEW e \in Events, Publish(e) \/ Send(e) \/ AckWaitOver(e) PROVE Grown
  BY <1>2, <1>6 DEF Publish, Send, AckWaitOver
<1>7. ASSUME NEW c \in Consumers, Fetch(c) \/ Begin(c) \/ Answer(c) \/ ConsumerRestarts(c)
      PROVE  Grown
  BY <1>2, <1>7 DEF Fetch, Begin, Answer, ConsumerRestarts
<1>8. CASE \/ ClockTicks \/ PublisherRestarts \/ FirstPage \/ NextPage
           \/ UNCHANGED auditVars
  <2>1. UNCHANGED rows /\ UNCHANGED troubled
    BY <1>8 DEF ClockTicks, PublisherRestarts, FirstPage, NextPage, auditVars
  <2> QED BY <1>2, <2>1 DEF Grown
<1> QED BY <1>4, <1>5, <1>6, <1>7, <1>8 DEF AuditNext, Grown

\* A page is rows of the table, one by one older.
LEMMA PageShape ==
    ASSUME AuditTypeOK, NEW rs \in SUBSET rows, IsFiniteSet(rows), NEW size \in Nat,
           NEW page \in [1..size -> rs]
    PROVE  page \in Seq(Rows) /\ Len(page) = size /\ DOMAIN page = 1..size
<1>1. page \in [1..size -> Rows]
  BY DEF AuditTypeOK
<1> QED BY <1>1

\* A page adds rows to what was shown, and leaves a cursor that is one of them.
LEMMA ShownType ==
    ASSUME AuditTypeOK, IsFiniteSet(rows), NEW rs \in SUBSET rows, ShowPage(rs)
    PROVE  listing' \in Seq(Rows) /\ cursor' \in Rows \cup {None}
<1> DEFINE more == Cardinality(rs) > PageSize
           size == IF more THEN PageSize ELSE Cardinality(rs)
           old == IF listing = None THEN <<>> ELSE listing
<1>1. size \in Nat /\ PageSize \in Nat \ {0} /\ (more => PageSize \in 1..size)
  <2>1. Cardinality(rs) \in Nat
    BY FS_Subset, FS_CardinalityType
  <2> QED BY <2>1, AuditAssumption
<1>2. PICK page \in [1..size -> rs] :
        listing' = old \o page /\ cursor' = IF more THEN page[PageSize] ELSE None
  BY DEF ShowPage
<1>3. page \in Seq(Rows)
  BY <1>1, PageShape
<1>4. old \in Seq(Rows)
  BY DEF AuditTypeOK
<1>5. more => page[PageSize] \in Rows
  BY <1>1, <1>2 DEF AuditTypeOK
<1> QED BY <1>2, <1>3, <1>4, <1>5

\* Every step keeps the types.
LEMMA AuditTypeKept ==
    ASSUME AInv, [AuditNext]_auditVars
    PROVE  AuditTypeOK'
<1>1. AuditTypeOK /\ IsFiniteSet(rows) /\ \A c \in Consumers : AtWork(c)
  BY DEF AInv, Accounted
<1>2. rows' \subseteq Rows
  BY RowsGrow
<1>3. CASE ClockTicks \/ PublisherRestarts \/ UNCHANGED auditVars
  <2>1. CASE ClockTicks
    <3>1. clock' \in Ticks
      BY <1>1, <2>1, AuditAssumption DEF ClockTicks, Ticks, AuditTypeOK
    <3> QED BY <1>1, <2>1, <3>1 DEF ClockTicks, source, consumers, reader, AuditTypeOK
  <2>2. CASE PublisherRestarts
    BY <1>1, <2>2 DEF PublisherRestarts, consumers, reader, AuditTypeOK
  <2>3. CASE UNCHANGED auditVars
    BY <1>1, <2>3 DEF auditVars, source, consumers, reader, AuditTypeOK
  <2> QED BY <1>3, <2>1, <2>2, <2>3
<1>4. CASE FirstPage \/ NextPage
  <2>1. listing' \in Seq(Rows) /\ cursor' \in Rows \cup {None}
    <3>1. After(rows, cursor) \in SUBSET rows
      BY DEF After
    <3> QED BY <1>1, <1>4, <3>1, ShownType DEF FirstPage, NextPage
  <2> QED BY <1>1, <1>4, <2>1 DEF FirstPage, NextPage, source, consumers, AuditTypeOK
<1>5. ASSUME NEW e \in Events, Publish(e) \/ Send(e) \/ Post(e) \/ AckWaitOver(e)
      PROVE  AuditTypeOK'
  <2>1. CASE Publish(e) \/ Send(e)
    BY <1>1, <2>1 DEF Publish, Send, consumers, reader, AuditTypeOK
  <2>2. CASE Post(e)
    BY <1>1, <1>2, <2>2 DEF Post, consumers, reader, AuditTypeOK
  <2>3. CASE AckWaitOver(e)
    BY <1>1, <2>3 DEF AckWaitOver, consumers, reader, AuditTypeOK
  <2> QED BY <1>5, <2>1, <2>2, <2>3
<1>6. ASSUME NEW c \in Consumers, Fetch(c) PROVE AuditTypeOK'
  <2>1. PICK b \in SUBSET Deliverable :
            /\ batch' = [batch EXCEPT ![c] = b]
            /\ tries' = [d \in Events |-> IF d \in b THEN tries[d] + 1 ELSE tries[d]]
            /\ out' = out \cup b
    BY <1>6 DEF Fetch
  <2>2. b \subseteq Events
    BY <2>1 DEF Deliverable
  <2> QED BY <1>1, <1>6, <2>1, <2>2 DEF Fetch, reader, AuditTypeOK
<1>7. ASSUME NEW c \in Consumers, Begin(c) PROVE AuditTypeOK'
  <2>1. PICK d \in batch[c] : /\ work' = [work EXCEPT ![c] = [event |-> d, at |-> clock]]
                              /\ batch' = [batch EXCEPT ![c] = @ \ {d}]
    BY <1>7 DEF Begin
  <2>2. [event |-> d, at |-> clock] \in [event : Events, at : Ticks]
    BY <1>1 DEF AuditTypeOK
  <2> QED BY <1>1, <1>7, <2>1, <2>2 DEF Begin, source, reader, AuditTypeOK
<1>8. ASSUME NEW c \in Consumers, Ingest(c) PROVE AuditTypeOK'
  <2>1. work[c].event \in Events
    BY <1>1, <1>8, WorkShape DEF Ingest
  <2> QED BY <1>1, <1>2, <1>8, <2>1 DEF Ingest, source, reader, AuditTypeOK
<1>9. ASSUME NEW c \in Consumers, Answer(c) PROVE AuditTypeOK'
  <2>1. work[c].event \in Events
    BY <1>1, <1>9, WorkShape DEF Answer
  <2> QED BY <1>1, <1>9, <2>1 DEF Answer, reader, AuditTypeOK
<1>10. ASSUME NEW c \in Consumers, ConsumerRestarts(c) PROVE AuditTypeOK'
  BY <1>1, <1>10 DEF ConsumerRestarts, source, reader, AuditTypeOK
<1> QED BY <1>3, <1>4, <1>5, <1>6, <1>7, <1>8, <1>9, <1>10 DEF AuditNext

\* Every step keeps what is said of an event.
LEMMA EventKept ==
    ASSUME AInv, [AuditNext]_auditVars, NEW e \in Events
    PROVE  Attributed(e)' /\ Alone(e)'
BY SourceKeeps, OthersKeep, PostKeeps, FetchKeeps, BeginKeeps, IngestKeeps, AnswerKeeps
   DEF AuditNext

\* The messages acknowledged.
LEMMA AnswersKept ==
    ASSUME AInv, [AuditNext]_auditVars, NEW e \in Events
    PROVE  /\ e \in acked' => e \in acked \/ e \in Garbled \/ RowsOf(e)' # {}
           /\ place'[e] = "posted" => place[e] = "posted" \/ RowsOf(e)' # {}
<1>1. /\ AuditTypeOK /\ IsFiniteSet(rows) /\ \A c \in Consumers : AtWork(c)
  BY DEF AInv, Accounted
<1>2. CASE \/ ClockTicks \/ PublisherRestarts \/ FirstPage \/ NextPage \/ UNCHANGED auditVars
           \/ \E c \in Consumers : Begin(c) \/ Ingest(c) \/ ConsumerRestarts(c)
           \/ \E d \in Events : Publish(d) \/ Send(d) \/ AckWaitOver(d)
  BY <1>1, <1>2 DEF ClockTicks, PublisherRestarts, FirstPage, NextPage, auditVars, source, Begin,
       Ingest, ConsumerRestarts, Publish, Send, AckWaitOver, AuditTypeOK
<1>3. ASSUME NEW d \in Events, Post(d)
      PROVE  /\ e \in acked' => e \in acked
             /\ place'[e] = "posted" => place[e] = "posted" \/ RowsOf(e)' # {}
  <2>1. d = e => place'[e] \in {"posting", "posted"} /\ (place'[e] = "posted" => RowsOf(e)' # {})
    BY <1>1, <1>3, InsertShape DEF Post, IngestEvent, AuditTypeOK
  <2>2. d # e => place'[e] = place[e]
    BY <1>1, <1>3 DEF Post, AuditTypeOK
  <2> QED BY <1>1, <1>3, <2>1, <2>2 DEF Post
<1>4. ASSUME NEW c \in Consumers, Fetch(c)
      PROVE  acked' = acked /\ place' = place
  BY <1>4 DEF Fetch
<1>5. ASSUME NEW c \in Consumers, Answer(c)
      PROVE  /\ e \in acked' => e \in acked \/ e \in Garbled \/ RowsOf(e)' # {}
             /\ place' = place
  <2>1. PICK d \in Events : d = work[c].event
    BY <1>1, <1>5, WorkShape DEF Answer
  <2>2. stage[c] = "ack" => d \in Garbled \/ RowsOf(d)' # {}
    BY <1>1, <1>5, <2>1 DEF AtWork, Answer, RowsOf
  <2> QED BY <1>5, <2>1, <2>2 DEF Answer
<1> QED BY <1>1, <1>2, <1>3, <1>4, <1>5 DEF AuditNext

\* Every step keeps Accounted.
LEMMA AccountedKept ==
    ASSUME AInv, [AuditNext]_auditVars
    PROVE  Accounted'
<1>1. AuditTypeOK'
  BY AuditTypeKept
<1>2. ASSUME NEW e \in Events
      PROVE  (/\ e \in acked \/ place[e] = "posted" => RowsOf(e) # {} \/ e \in Garbled
              /\ Cardinality(RowsOf(e)) <= tries[e]
              /\ e \notin troubled => Cardinality(RowsOf(e)) <= 1
              /\ RowsOf(e) # {} => Sound(e)
              /\ e \notin troubled /\ place[e] = "stream" /\ tries[e] > 0 =>
                    tries[e] = 1 /\ e \in out \cup acked)'
  <2>1. /\ e \in acked \/ place[e] = "posted" => RowsOf(e) # {} \/ e \in Garbled
        /\ e \notin troubled => Cardinality(RowsOf(e)) <= 1
        /\ RowsOf(e) # {} => Sound(e)
    BY DEF AInv, Accounted
  <2>2. /\ rows \subseteq rows' /\ troubled \subseteq troubled' /\ IsFiniteSet(rows')
        /\ \/ RowsOf(e)' = RowsOf(e)
           \/ /\ Sound(e)
              /\ \E row : RowsOf(e)' = RowsOf(e) \cup {row}
              /\ e \notin troubled' => RowsOf(e) = {}
    BY RowsGrow
  <2>3. RowsOf(e) # {} => RowsOf(e)' # {}
    BY <2>2 DEF RowsOf
  <2>4. Cardinality(RowsOf(e)') <= tries'[e]
    <3>1. Cardinality(RowsOf(e)') \in Nat
      BY <2>2, FS_Subset, FS_CardinalityType DEF RowsOf
    <3>2. /\ IsFiniteSet(Holders(e)')
          /\ Cardinality(RowsOf(e)') + Cardinality(Holders(e)') <= tries'[e]
      BY EventKept DEF Attributed
    <3>3. Cardinality(Holders(e)') \in Nat
      BY <3>2, FS_CardinalityType
    <3>4. tries'[e] \in Nat
      BY <1>1 DEF AuditTypeOK
    <3> QED BY <3>1, <3>2, <3>3, <3>4
  <2>5. e \notin troubled' => Cardinality(RowsOf(e)') <= 1
    <3>1. CASE RowsOf(e)' = RowsOf(e)
      BY <2>1, <2>2, <3>1
    <3>2. CASE \E row : RowsOf(e)' = {row}
      <4>1. PICK row : RowsOf(e)' = {row}
        BY <3>2
      <4>2. Cardinality({row}) = 1
        BY FS_Singleton
      <4> QED BY <4>1, <4>2
    <3> QED BY <2>2, <3>1, <3>2
  <2>6. (e \notin troubled /\ place[e] = "stream" /\ tries[e] > 0 =>
            tries[e] = 1 /\ e \in out \cup acked)'
    BY EventKept DEF Alone
  <2>7. (RowsOf(e) # {} => Sound(e))'
    BY <2>1, <2>2 DEF Sound
  <2>8. (e \in acked \/ place[e] = "posted" => RowsOf(e) # {} \/ e \in Garbled)'
    BY <2>1, <2>3, AnswersKept
  <2> QED BY <2>4, <2>5, <2>6, <2>7, <2>8
<1> QED BY <1>1, <1>2 DEF Accounted

\* The invariant is inductive.
LEMMA StepKeepsAInv == AInv /\ [AuditNext]_auditVars => AInv'
<1> SUFFICES ASSUME AInv, [AuditNext]_auditVars PROVE AInv'
  OBVIOUS
<1>1. \A c \in Consumers : AtWork(c)'
  BY WorkKeeps, OthersWork DEF AuditNext
<1> QED BY <1>1, AccountedKept, EventKept, RowsGrow DEF AInv

\* It holds of an empty table.
LEMMA InitAInv == AuditInit => AInv
<1> SUFFICES ASSUME AuditInit PROVE AInv
  OBVIOUS
<1>1. AuditTypeOK
  BY AuditAssumption DEF AuditInit, AuditTypeOK, Ticks
<1>2. /\ IsFiniteSet(rows)
      /\ \A e \in Events : RowsOf(e) = {} /\ Holders(e) = {}
      /\ Cardinality({}) = 0 /\ IsFiniteSet({})
  BY FS_EmptySet DEF AuditInit, RowsOf, Holders, Holds
<1>3. Accounted
  BY <1>1, <1>2, AuditAssumption DEF AuditInit, Accounted
<1>4. \A e \in Events : Attributed(e) /\ Alone(e)
  BY <1>2 DEF AuditInit, Attributed, Alone
<1>5. \A c \in Consumers : AtWork(c)
  BY DEF AuditInit, AtWork
<1> QED BY <1>2, <1>3, <1>4, <1>5 DEF AInv

\* What was acknowledged is stored, unless it was no event; nothing is stored more often than it
\* was tried nor, without trouble, delivered or stored twice (Start in consumer.go, which answers
\* after Ingest).
THEOREM TrailAccounted == AuditSpec => []Accounted
<1>1. AInv => Accounted
  BY DEF AInv
<1> QED BY <1>1, InitAInv, StepKeepsAInv, PTL DEF AuditSpec

-----------------------------------------------------------------------------
(* The audit trail: pages.                                                 *)

\* ORDER BY created_at DESC, id DESC is an order.
LEMMA NewerIsOrder ==
    ASSUME AuditAssumption
    PROVE  /\ \A r \in Rows : ~Newer(r, r)
           /\ \A r, s, t \in Rows : Newer(r, s) /\ Newer(s, t) => Newer(r, t)
<1>1. \A r \in Rows : r.at \in Nat /\ r.id \in Nat
  BY AuditAssumption DEF Rows, Ticks, Ids
<1> QED BY <1>1 DEF Newer

\* A page as long as its table shows all of it.
LEMMA PageFull ==
    ASSUME NEW rs \in SUBSET Rows, IsFiniteSet(rs),
           NEW page \in [1..Cardinality(rs) -> rs], Sorted(page)
    PROVE  rs \subseteq Shown(page)
<1>1. Cardinality(rs) \in Nat /\ DOMAIN page = 1..Cardinality(rs)
  BY FS_CardinalityType
<1>2. \A i, j \in 1..Cardinality(rs) : page[i] = page[j] => i = j
  <2> SUFFICES ASSUME NEW i \in 1..Cardinality(rs), NEW j \in 1..Cardinality(rs), i < j,
                      page[i] = page[j]
               PROVE  FALSE
    BY <1>1
  <2>1. Newer(page[i], page[i]) /\ page[i] \in Rows
    BY <1>1 DEF Sorted
  <2> QED BY <2>1, NewerIsOrder, AuditAssumption
<1>3. page \in Injection(1..Cardinality(rs), rs)
  BY <1>2 DEF Injection, IsInjective
<1>4. Cardinality(1..Cardinality(rs)) = Cardinality(rs)
  BY <1>1, UpTo
<1>5. page \in Surjection(1..Cardinality(rs), rs)
  BY <1>3, <1>4, FS_Injection
<1> QED BY <1>1, <1>5 DEF Surjection, Shown

\* A page put behind those before it.
LEMMA Joined ==
    ASSUME NEW s \in Seq(Rows), NEW t \in Seq(Rows)
    PROVE  /\ s \o t \in Seq(Rows) /\ Len(s \o t) = Len(s) + Len(t)
           /\ DOMAIN (s \o t) = 1..(Len(s) + Len(t))
           /\ \A i \in 1..Len(s) : (s \o t)[i] = s[i]
           /\ \A i \in 1..Len(t) : (s \o t)[Len(s) + i] = t[i]
<1>1. /\ s \o t \in Seq(Rows) /\ Len(s \o t) = Len(s) + Len(t)
      /\ \A i \in 1..(Len(s) + Len(t)) :
            (s \o t)[i] = IF i <= Len(s) THEN s[i] ELSE t[i - Len(s)]
  BY ConcatProperties
<1>2. DOMAIN (s \o t) = 1..(Len(s) + Len(t))
  BY <1>1, LenProperties
<1>3. Len(s) \in Nat /\ Len(t) \in Nat
  BY LenProperties
<1>4. ASSUME NEW i \in 1..Len(s) PROVE (s \o t)[i] = s[i]
  <2>1. i \in 1..(Len(s) + Len(t)) /\ i <= Len(s)
    BY <1>3
  <2> QED BY <1>1, <2>1
<1>5. ASSUME NEW i \in 1..Len(t) PROVE (s \o t)[Len(s) + i] = t[i]
  <2>1. /\ Len(s) + i \in 1..(Len(s) + Len(t))
        /\ ~(Len(s) + i <= Len(s)) /\ Len(s) + i - Len(s) = i
    BY <1>3
  <2> QED BY <1>1, <2>1
<1> QED BY <1>1, <1>2, <1>4, <1>5

\* A page after those before it: what follows in the table is older than the new cursor.
LEMMA PageTurned ==
    ASSUME AuditTypeOK, IsFiniteSet(rows), NEW rs \in SUBSET rows, ShowPage(rs),
           NEW old \in Seq(Rows), old = (IF listing = None THEN <<>> ELSE listing), Sorted(old),
           \A row \in rs : \A shown \in Shown(old) : Newer(shown, row)
    PROVE  /\ Sorted(listing') /\ listing' # None
           /\ Shown(old) \subseteq Shown(listing')
           /\ cursor' # None => Len(listing') > 0 /\ cursor' = listing'[Len(listing')]
           /\ \A row \in rs \ Shown(listing') : cursor' # None /\ Newer(cursor', row)
<1>1. PICK size \in Nat : \E page \in [1..size -> rs] :
        /\ Sorted(page)
        /\ \A row \in rs \ Shown(page) : \A shown \in Shown(page) : Newer(shown, row)
        /\ listing' = old \o page
        /\ \/ /\ size = PageSize /\ cursor' = page[PageSize]
           \/ /\ size = Cardinality(rs) /\ cursor' = None
  <2>1. Cardinality(rs) \in Nat /\ PageSize \in Nat
    BY FS_Subset, FS_CardinalityType, AuditAssumption
  <2>2. CASE Cardinality(rs) > PageSize
    BY <2>1, <2>2 DEF ShowPage
  <2>3. CASE ~(Cardinality(rs) > PageSize)
    BY <2>1, <2>3 DEF ShowPage
  <2> QED BY <2>2, <2>3
<1>2. PICK page \in [1..size -> rs] :
        /\ Sorted(page)
        /\ \A row \in rs \ Shown(page) : \A shown \in Shown(page) : Newer(shown, row)
        /\ listing' = old \o page
        /\ \/ /\ size = PageSize /\ cursor' = page[PageSize]
           \/ /\ size = Cardinality(rs) /\ cursor' = None
  BY <1>1
<1>3. page \in Seq(Rows) /\ Len(page) = size /\ DOMAIN page = 1..size
  BY PageShape
<1>4. PICK n \in Nat : Len(old) = n /\ DOMAIN old = 1..n
  BY LenProperties
<1>5. /\ listing' \in Seq(Rows) /\ Len(listing') = n + size /\ DOMAIN listing' = 1..(n + size)
      /\ \A i \in 1..n : listing'[i] = old[i]
      /\ \A i \in 1..size : listing'[n + i] = page[i]
      /\ \A i \in 1..(n + size) : i \in 1..n \/ \E k \in 1..size : i = n + k
  <2>1. /\ old \o page \in Seq(Rows) /\ Len(old \o page) = Len(old) + Len(page)
        /\ DOMAIN (old \o page) = 1..(Len(old) + Len(page))
        /\ \A i \in 1..Len(old) : (old \o page)[i] = old[i]
        /\ \A i \in 1..Len(page) : (old \o page)[Len(old) + i] = page[i]
    BY <1>3, Joined
  <2>2. Len(old) = n /\ Len(page) = size
    BY <1>3, <1>4
  <2>3. ASSUME NEW i \in 1..(n + size) PROVE i \in 1..n \/ \E k \in 1..size : i = n + k
    <3>1. i \in 1..n \/ (i - n \in 1..size /\ i = n + (i - n))
      OBVIOUS
    <3> QED BY <3>1
  <2> QED BY <1>2, <2>1, <2>2, <2>3
<1>6. Shown(listing') = Shown(old) \cup Shown(page)
  <2>1. \A i \in 1..n : i \in 1..(n + size)
    OBVIOUS
  <2>2. \A i \in 1..size : n + i \in 1..(n + size)
    OBVIOUS
  <2>3. \A i \in 1..n : listing'[i] = old[i] /\ i \in DOMAIN listing'
    BY <1>5, <2>1
  <2>4. \A i \in 1..size : listing'[n + i] = page[i] /\ n + i \in DOMAIN listing'
    BY <1>5, <2>2
  <2>5. Shown(old) \cup Shown(page) \subseteq Shown(listing')
    <3>1. ASSUME NEW i \in 1..n PROVE old[i] \in Shown(listing')
      BY <2>3 DEF Shown
    <3>2. ASSUME NEW i \in 1..size PROVE page[i] \in Shown(listing')
      BY <2>4 DEF Shown
    <3>3. \A row \in Shown(old) : \E i \in 1..n : row = old[i]
      BY <1>4 DEF Shown
    <3>4. \A row \in Shown(page) : \E i \in 1..size : row = page[i]
      BY <1>3 DEF Shown
    <3> QED BY <3>1, <3>2, <3>3, <3>4
  <2>6. Shown(listing') \subseteq Shown(old) \cup Shown(page)
    <3> SUFFICES ASSUME NEW i \in 1..(n + size)
                 PROVE  listing'[i] \in Shown(old) \cup Shown(page)
      BY <1>5 DEF Shown
    <3>1. CASE i \in 1..n
      BY <1>4, <2>3, <3>1 DEF Shown
    <3>2. CASE \E k \in 1..size : i = n + k
      BY <1>3, <2>4, <3>2 DEF Shown
    <3> QED BY <1>5, <3>1, <3>2
  <2> QED BY <2>5, <2>6
<1>7. Sorted(listing')
  <2> SUFFICES ASSUME NEW i \in 1..(n + size), NEW j \in 1..(n + size), i < j
               PROVE  Newer(listing'[i], listing'[j])
    BY <1>5 DEF Sorted
  <2>1. CASE j \in 1..n
    <3>1. i \in 1..n
      BY <2>1
    <3> QED BY <1>4, <1>5, <2>1, <3>1 DEF Sorted
  <2>2. CASE i \in 1..n /\ j \notin 1..n
    <3>1. PICK k \in 1..size : listing'[j] = page[k]
      BY <1>5, <2>2
    <3>2. page[k] \in rs /\ listing'[i] \in Shown(old)
      BY <1>4, <1>5, <2>2 DEF Shown
    <3> QED BY <3>1, <3>2
  <2>3. CASE i \notin 1..n /\ j \notin 1..n
    <3>1. PICK k \in 1..size, l \in 1..size : i = n + k /\ j = n + l
      BY <1>5, <2>3
    <3>2. k < l
      BY <3>1
    <3>3. listing'[i] = page[k] /\ listing'[j] = page[l]
      BY <1>5, <3>1
    <3> QED BY <1>2, <1>3, <3>2, <3>3 DEF Sorted
  <2>4. CASE i \notin 1..n /\ j \in 1..n
    BY <2>4
  <2> QED BY <2>1, <2>2, <2>3, <2>4
<1>8. listing' # None
  BY <1>5, NoneAssumption
<1>9. CASE size = PageSize /\ cursor' = page[PageSize]
  <2>1. size > 0 /\ size \in 1..size
    BY <1>9, AuditAssumption
  <2>2. Len(listing') > 0 /\ cursor' = listing'[Len(listing')]
    BY <1>5, <1>9, <2>1
  <2>3. cursor' \in Rows /\ cursor' # None /\ cursor' \in Shown(page)
    BY <1>3, <1>9, <2>1, NoneAssumption DEF Shown, AuditTypeOK
  <2> QED BY <1>2, <1>6, <1>7, <1>8, <2>2, <2>3
<1>10. CASE size = Cardinality(rs) /\ cursor' = None
  <2>1. rs \subseteq Shown(page)
    <3>1. IsFiniteSet(rs) /\ rs \subseteq Rows
      BY FS_Subset DEF AuditTypeOK
    <3> QED BY <1>2, <1>10, <3>1, PageFull
  <2> QED BY <1>6, <1>7, <1>8, <1>10, <2>1
<1> QED BY <1>2, <1>9, <1>10

\* Every step keeps what is said of the pages.
LEMMA StepKeepsPaged ==
    ASSUME AuditTypeOK, IsFiniteSet(rows), rows \subseteq rows', Paged, [AuditNext]_auditVars
    PROVE  Paged'
<1>1. CASE UNCHANGED reader
  BY <1>1 DEF Paged, reader
<1>2. CASE FirstPage
  <2>1. listing = None /\ ShowPage(rows) /\ before' = rows /\ rows' = rows
    BY <1>2 DEF FirstPage
  <2>2. <<>> \in Seq(Rows) /\ Sorted(<<>>) /\ Shown(<<>>) = {}
    BY DEF Sorted, Shown
  <2>3. /\ Sorted(listing') /\ listing' # None
        /\ cursor' # None => Len(listing') > 0 /\ cursor' = listing'[Len(listing')]
        /\ \A row \in rows \ Shown(listing') : cursor' # None /\ Newer(cursor', row)
    BY <2>1, <2>2, PageTurned
  <2> QED BY <2>1, <2>3 DEF Paged, Sorted, Shown, Newer
<1>3. CASE NextPage
  <2>1. cursor # None /\ ShowPage(After(rows, cursor)) /\ before' = before /\ rows' = rows
    BY <1>3 DEF NextPage
  <2>2. /\ listing # None /\ listing \in Seq(Rows) /\ Sorted(listing)
        /\ Len(listing) > 0 /\ cursor = listing[Len(listing)]
        /\ \A row \in before \ Shown(listing) : Newer(cursor, row)
    BY <2>1 DEF Paged, AuditTypeOK
  <2>3. After(rows, cursor) \in SUBSET rows /\ cursor \in Rows
    BY <2>1 DEF After, AuditTypeOK
  <2>4. \A row \in After(rows, cursor) : \A shown \in Shown(listing) : Newer(shown, row)
    <3> SUFFICES ASSUME NEW row \in After(rows, cursor), NEW i \in DOMAIN listing
                 PROVE  Newer(listing[i], row)
      BY DEF Shown
    <3>1. PICK n \in Nat : /\ Len(listing) = n /\ DOMAIN listing = 1..n
                           /\ \A k \in 1..n : listing[k] \in Rows
      BY <2>2, LenProperties, ElementOfSeq
    <3>2. Newer(cursor, row) /\ row \in Rows
      BY DEF After, AuditTypeOK
    <3>3. i = n \/ Newer(listing[i], cursor)
      <4>1. i \in 1..n /\ n \in 1..n /\ (i = n \/ i < n)
        BY <2>2, <3>1
      <4> QED BY <2>2, <3>1, <4>1 DEF Sorted
    <3> QED BY <2>2, <2>3, <3>1, <3>2, <3>3, NewerIsOrder, AuditAssumption
  <2>5. /\ Sorted(listing') /\ listing' # None
        /\ Shown(listing) \subseteq Shown(listing')
        /\ cursor' # None => Len(listing') > 0 /\ cursor' = listing'[Len(listing')]
        /\ \A row \in After(rows, cursor) \ Shown(listing') : cursor' # None /\ Newer(cursor', row)
    BY <2>1, <2>2, <2>3, <2>4, PageTurned
  <2>6. \A row \in before \ Shown(listing') : row \in After(rows, cursor)
    BY <2>2, <2>5 DEF Paged, After
  <2> QED BY <2>1, <2>5, <2>6 DEF Paged, Sorted, Shown, Newer
<1> QED BY <1>1, <1>2, <1>3 DEF AuditNext, ClockTicks, PublisherRestarts, Publish, Send, Post,
       AckWaitOver, Fetch, Begin, Ingest, Answer, ConsumerRestarts, auditVars

\* A reader who follows the cursors of List sees every row that was there before, once and in
\* order, whatever is stored meanwhile and however often rows share their created_at.
THEOREM PagesAreComplete == AuditSpec => []PagesComplete
<1>1. AuditInit => Paged
  BY DEF AuditInit, Paged
<1>2. AInv /\ Paged /\ [AuditNext]_auditVars => Paged'
  BY StepKeepsPaged, RowsGrow DEF AInv, Accounted
<1>3. Paged => PagesComplete
  BY DEF Paged, PagesComplete
<1> QED BY <1>1, <1>2, <1>3, InitAInv, StepKeepsAInv, PTL DEF AuditSpec

-----------------------------------------------------------------------------
(***************************************************************************)
(* The way of a request: the invariants.                                   *)
(***************************************************************************)

\* What the limiter could still admit at once, and what it has admitted and
\* not yet earned back, fit into the burst together.
Earned ==
    \A k \in Addresses :
        IF buckets[k] = NoBucket THEN meter[k] = 0
        ELSE /\ buckets[k].last <= now
             /\ meter[k] + Refilled(buckets[k]) <= Burst

\* held is up to date: the roles a row has, it has now.
Current ==
    \A u \in Users : \A r \in Roles :
        held[u][r] <= now /\ (r \in users[u] => held[u][r] = now)

\* Roles in an issue or a token were in the row not long before.
Fresh ==
    /\ \A u \in Users : issue[u] # NoIssue =>
          \A r \in issue[u].roles : issue[u].since <= held[u][r]
    /\ \A t \in tokens : \A r \in t.roles :
          t.exp <= held[t.user][r] + AccessTTL + WriteTimeout

IInv == TypeOK /\ Earned

RolesInv == TypeOK /\ Current /\ Fresh

-----------------------------------------------------------------------------
(* Shapes.                                                                 *)

LEMMA BucketShape ==
    \A b \in Buckets : b.tokens \in 0..Burst /\ b.last \in Nat
BY DEF Buckets

LEMMA NewBucket ==
    ASSUME NEW n \in 0..Burst, NEW t \in Nat
    PROVE  /\ [tokens |-> n, last |-> t] \in Buckets
           /\ [tokens |-> n, last |-> t] # NoBucket
BY LimiterAssumption DEF Buckets

LEMMA KeysAreAddresses == LimiterKeys \subseteq Addresses
BY DEF LimiterKeys, RemoteIP

LEMMA BucketExists == ASSUME NEW b \in Buckets PROVE b # NoBucket
BY LimiterAssumption DEF Buckets

\* Time earns Rate * d tokens, which is a natural number and grows with d.
LEMMA Earning ==
    ASSUME NEW d \in Nat
    PROVE  /\ Rate * d \in Nat
           /\ Rate * (d + 1) = Rate * d + Rate
           /\ d > CleanupAge => Rate * d >= Burst
<1>0. Rate \in Nat /\ Burst \in Nat /\ CleanupAge \in Nat /\ Burst <= Rate * CleanupAge
  BY LimiterAssumption
<1>1. Rate * d \in Nat
  BY <1>0
<1>2. Rate * (d + 1) = Rate * d + Rate
  BY <1>0
<1>3. ASSUME d > CleanupAge PROVE Rate * d >= Burst
  <2>1. PICK e \in Nat : d = CleanupAge + e
    <3>1. d - CleanupAge \in Nat
      BY <1>0, <1>3
    <3>2. d = CleanupAge + (d - CleanupAge)
      BY <1>0
    <3> QED BY <3>1, <3>2
  <2>2. Rate * d = Rate * CleanupAge + Rate * e
    BY <2>1, <1>0
  <2>3. Rate * e \in Nat /\ Rate * CleanupAge \in Nat
    BY <1>0
  <2> QED BY <2>2, <2>3, <1>0
<1> QED BY <1>1, <1>2, <1>3

\* A refill stays within the burst and, after a long rest, reaches it.
LEMMA RefillShape ==
    ASSUME NEW b \in Buckets, now \in Nat, b.last <= now
    PROVE  /\ Refilled(b) \in 0..Burst
           /\ now - b.last > CleanupAge => Refilled(b) = Burst
<1>0. now - b.last \in Nat /\ b.tokens \in 0..Burst /\ Burst \in Nat
  BY BucketShape, LimiterAssumption
<1>1. Rate * (now - b.last) \in Nat
  BY <1>0, Earning
<1>2. now - b.last > CleanupAge => Rate * (now - b.last) >= Burst
  BY <1>0, Earning
<1>3. PICK e \in Nat : e = Rate * (now - b.last)
  BY <1>1
<1>4. Refilled(b) = Lesser(Burst, b.tokens + e)
  BY <1>3 DEF Refilled
<1> QED BY <1>0, <1>2, <1>3, <1>4 DEF Lesser

-----------------------------------------------------------------------------
(* The limiter.                                                            *)

\* The bucket of a client after the sweep, before the request is counted: the
\* sweep takes only buckets that a rest has filled, so nothing is given away.
LEMMA SweptFits ==
    ASSUME IInv, NEW k \in Addresses
    PROVE  /\ Swept[k] \in Buckets \cup {NoBucket}
           /\ IF Swept[k] = NoBucket THEN meter[k] = 0
              ELSE Swept[k].last <= now /\ meter[k] + Refilled(Swept[k]) <= Burst
<1>0. /\ buckets[k] \in Buckets \cup {NoBucket} /\ meter[k] \in Nat /\ now \in Nat
      /\ Swept[k] = IF CleanupDue /\ Idle(buckets[k]) THEN NoBucket ELSE buckets[k]
      /\ Burst \in Nat
  BY LimiterAssumption DEF IInv, TypeOK, Swept
<1>1. CASE CleanupDue /\ Idle(buckets[k])
  <2>1. buckets[k] # NoBucket /\ now - buckets[k].last > CleanupAge
    BY <1>1 DEF Idle
  <2>2. buckets[k] \in Buckets /\ buckets[k].last <= now
        /\ meter[k] + Refilled(buckets[k]) <= Burst
    BY <1>0, <2>1 DEF IInv, Earned
  <2>3. Refilled(buckets[k]) = Burst
    BY <1>0, <2>1, <2>2, RefillShape
  <2>4. meter[k] = 0
    BY <1>0, <2>2, <2>3
  <2> QED BY <1>0, <1>1, <2>4
<1>2. CASE ~(CleanupDue /\ Idle(buckets[k]))
  BY <1>0, <1>2 DEF IInv, Earned
<1> QED BY <1>1, <1>2

LEMMA BucketFits ==
    ASSUME IInv, NEW k \in Addresses
    PROVE  /\ BucketOf(k) \in Buckets /\ BucketOf(k).last <= now
           /\ Refilled(BucketOf(k)) \in 0..Burst
           /\ meter[k] + Refilled(BucketOf(k)) <= Burst
<1>0. meter[k] \in Nat /\ now \in Nat /\ Burst \in Nat
  BY LimiterAssumption DEF IInv, TypeOK
<1>1. CASE Swept[k] = NoBucket
  <2>1. BucketOf(k) = [tokens |-> Burst, last |-> now]
    BY <1>1 DEF BucketOf
  <2>2. BucketOf(k) \in Buckets /\ BucketOf(k).last <= now
    BY <1>0, <2>1, NewBucket
  <2>3. Refilled(BucketOf(k)) \in 0..Burst
    BY <1>0, <2>2, RefillShape
  <2>4. meter[k] = 0
    BY <1>1, SweptFits
  <2> QED BY <1>0, <2>2, <2>3, <2>4
<1>2. CASE Swept[k] # NoBucket
  <2>1. BucketOf(k) = Swept[k]
    BY <1>2 DEF BucketOf
  <2>2. BucketOf(k) \in Buckets /\ BucketOf(k).last <= now
        /\ meter[k] + Refilled(BucketOf(k)) <= Burst
    BY <1>2, <2>1, SweptFits
  <2> QED BY <1>0, <2>2, RefillShape
<1> QED BY <1>1, <1>2

\* A request of k leaves n tokens; what it adds to the meter it takes from them.
LEMMA LeaveFits ==
    ASSUME IInv, NEW k \in Addresses, NEW n \in 0..Burst, NEW m \in Nat, m + n <= Burst,
           Leave(k, n), now' = now, meter' = [meter EXCEPT ![k] = m]
    PROVE  /\ Earned'
           /\ buckets' \in [Addresses -> Buckets \cup {NoBucket}]
           /\ lastCleanup' \in Nat
           /\ meter' \in [Addresses -> Nat]
<1>0. /\ now \in Nat /\ lastCleanup \in Nat /\ meter \in [Addresses -> Nat]
      /\ buckets \in [Addresses -> Buckets \cup {NoBucket}]
      /\ Burst \in Nat /\ Rate \in Nat
  BY LimiterAssumption DEF IInv, TypeOK
<1>1. [tokens |-> n, last |-> now] \in Buckets /\ [tokens |-> n, last |-> now] # NoBucket
  BY <1>0, NewBucket
<1>2. Swept \in [Addresses -> Buckets \cup {NoBucket}]
  BY <1>0 DEF Swept
<1>3. buckets' = [Swept EXCEPT ![k] = [tokens |-> n, last |-> now]]
  BY DEF Leave
<1>4. buckets' \in [Addresses -> Buckets \cup {NoBucket}]
  BY <1>1, <1>2, <1>3
<1>5. lastCleanup' \in Nat
  BY <1>0 DEF Leave
<1>6. meter' \in [Addresses -> Nat]
  BY <1>0
<1>7. ASSUME NEW j \in Addresses
      PROVE  IF buckets'[j] = NoBucket THEN meter'[j] = 0
             ELSE /\ buckets'[j].last <= now'
                  /\ meter'[j] + Lesser(Burst, buckets'[j].tokens + Rate * (now' - buckets'[j].last))
                        <= Burst
  <2>1. CASE j = k
    <3>1. buckets'[j] = [tokens |-> n, last |-> now] /\ meter'[j] = m
      BY <1>0, <1>2, <1>3, <2>1
    <3>2. Rate * (now' - now) = 0
      BY <1>0
    <3>3. buckets'[j].tokens = n /\ buckets'[j].last = now
      BY <3>1
    <3>4. Lesser(Burst, buckets'[j].tokens + Rate * (now' - buckets'[j].last)) = n
      BY <1>0, <3>2, <3>3 DEF Lesser
    <3> QED BY <1>0, <1>1, <3>1, <3>3, <3>4
  <2>2. CASE j # k
    <3>1. buckets'[j] = Swept[j] /\ meter'[j] = meter[j]
      BY <1>0, <1>2, <1>3, <2>2
    <3> QED BY <3>1, SweptFits DEF Refilled
  <2> QED BY <2>1, <2>2
<1>8. Earned'
  BY <1>7 DEF Earned, Refilled
<1> QED BY <1>4, <1>5, <1>6, <1>8

\* What a step keeps when it leaves the limiter and the clock alone.
LEMMA QuietEarned ==
    ASSUME Earned, UNCHANGED limiter, now' = now
    PROVE  Earned'
BY DEF Earned, limiter, Refilled

\* Passing the limiter costs a token, where there is a limiter.
LEMMA PassesFits ==
    ASSUME IInv, NEW k \in Addresses, Passes(k), now' = now
    PROVE  /\ Earned'
           /\ buckets' \in [Addresses -> Buckets \cup {NoBucket}]
           /\ lastCleanup' \in Nat
           /\ meter' \in [Addresses -> Nat]
<1>1. CASE service = "auth"
  <2>1. UNCHANGED limiter
    BY <1>1 DEF Passes
  <2>2. Earned'
    BY <2>1, QuietEarned DEF IInv
  <2> QED BY <2>1, <2>2 DEF limiter, IInv, TypeOK
<1>2. CASE service # "auth"
  <2>0. Admitted(k)
    BY <1>2 DEF Passes
  <2>1. meter[k] \in Nat /\ Burst \in Nat
    BY LimiterAssumption DEF IInv, TypeOK
  <2>2. Refilled(BucketOf(k)) \in 0..Burst /\ meter[k] + Refilled(BucketOf(k)) <= Burst
    BY BucketFits
  <2>3. Refilled(BucketOf(k)) >= 1 /\ Leave(k, Refilled(BucketOf(k)) - 1)
        /\ meter' = [meter EXCEPT ![k] = meter[k] + 1]
    BY <2>0 DEF Admitted
  <2>4. Refilled(BucketOf(k)) - 1 \in 0..Burst /\ meter[k] + 1 \in Nat
        /\ (meter[k] + 1) + (Refilled(BucketOf(k)) - 1) <= Burst
    BY <2>1, <2>2, <2>3
  <2> QED BY <2>3, <2>4, LeaveFits
<1> QED BY <1>1, <1>2

LEMMA TooManyFits ==
    ASSUME IInv, NEW k \in Addresses, TooManyRequests(k)
    PROVE  /\ Earned'
           /\ buckets' \in [Addresses -> Buckets \cup {NoBucket}]
           /\ lastCleanup' \in Nat
           /\ meter' \in [Addresses -> Nat]
<1>1. meter \in [Addresses -> Nat] /\ meter[k] \in Nat
  BY DEF IInv, TypeOK
<1>2. Refilled(BucketOf(k)) \in 0..Burst /\ meter[k] + Refilled(BucketOf(k)) <= Burst
  BY BucketFits
<1>3. Leave(k, Refilled(BucketOf(k))) /\ now' = now /\ meter' = [meter EXCEPT ![k] = meter[k]]
  BY <1>1 DEF TooManyRequests
<1> QED BY <1>1, <1>2, <1>3, LeaveFits

\* A tick earns at most what it drains.
LEMMA TickEarns ==
    ASSUME IInv, Tick
    PROVE  Earned'
<1>0. /\ now \in Nat /\ now' = now + 1 /\ buckets' = buckets
      /\ Rate \in Nat /\ Burst \in Nat /\ meter \in [Addresses -> Nat]
      /\ meter' = [k \in Addresses |-> IF meter[k] <= Rate THEN 0 ELSE meter[k] - Rate]
  BY LimiterAssumption DEF IInv, TypeOK, Tick
<1>1. ASSUME NEW k \in Addresses
      PROVE  IF buckets[k] = NoBucket THEN meter'[k] = 0
             ELSE /\ buckets[k].last <= now'
                  /\ meter'[k] + Lesser(Burst, buckets[k].tokens + Rate * (now' - buckets[k].last))
                        <= Burst
  <2>1. CASE buckets[k] = NoBucket
    BY <1>0, <2>1 DEF IInv, Earned
  <2>2. CASE buckets[k] # NoBucket
    <3>1. buckets[k] \in Buckets /\ buckets[k].last <= now
          /\ meter[k] + Lesser(Burst, buckets[k].tokens + Rate * (now - buckets[k].last)) <= Burst
      BY <2>2 DEF IInv, TypeOK, Earned, Refilled
    <3>2. buckets[k].tokens \in 0..Burst /\ buckets[k].last \in Nat
      BY <3>1, BucketShape
    <3>3. PICK d \in Nat : d = now - buckets[k].last
      BY <1>0, <3>1, <3>2
    <3>4. now' - buckets[k].last = d + 1
      BY <1>0, <3>2, <3>3
    <3>5. PICK e \in Nat : e = Rate * d
      BY Earning
    <3>6. Rate * (d + 1) = e + Rate
      BY <3>5, Earning
    <3>7. meter[k] + Lesser(Burst, buckets[k].tokens + e) <= Burst
      BY <3>1, <3>3, <3>5
    <3>8. meter'[k] = (IF meter[k] <= Rate THEN 0 ELSE meter[k] - Rate) /\ meter[k] \in Nat
      BY <1>0
    <3>9. meter'[k] + Lesser(Burst, buckets[k].tokens + (e + Rate)) <= Burst
      BY <1>0, <3>2, <3>7, <3>8 DEF Lesser
    <3> QED BY <1>0, <2>2, <3>1, <3>2, <3>4, <3>6, <3>9
  <2> QED BY <2>1, <2>2
<1> QED BY <1>0, <1>1 DEF Earned, Refilled

LEMMA RestartEarns == ASSUME Restarts PROVE Earned'
BY DEF Restarts, Earned

-----------------------------------------------------------------------------
(* Types.                                                                  *)

LEMMA IssueShape ==
    \A i \in Issues : i.roles \in SUBSET Roles /\ i.since \in Nat
BY DEF Issues

LEMMA NewIssue ==
    ASSUME NEW roles \in SUBSET Roles, NEW since \in Nat
    PROVE  [roles |-> roles, since |-> since] \in Issues
BY DEF Issues

LEMMA TokenShape ==
    \A t \in Tokens : t.user \in Users /\ t.roles \in SUBSET Roles /\ t.exp \in Nat
BY DEF Tokens

LEMMA NewToken ==
    ASSUME NEW u \in Users, NEW roles \in SUBSET Roles, NEW exp \in Nat
    PROVE  [user |-> u, roles |-> roles, exp |-> exp] \in Tokens
BY DEF Tokens

\* Every route asks for some of the roles.
LEMMA RouteShape ==
    ASSUME service \in Services, NEW route \in Routes
    PROVE  route.needs \in SUBSET Roles
<1> USE DEF Needing, Roles
<1>1. CASE service = "account" BY <1>1 DEF Routes, AccountRoutes
<1>2. CASE service = "auth" BY <1>2 DEF Routes, AuthRoutes
<1>3. CASE service = "notification" BY <1>3 DEF Routes, NotificationRoutes
<1>4. CASE service = "audit" BY <1>4 DEF Routes, AuditRoutes
<1>5. CASE service = "payment" BY <1>5 DEF Routes, PaymentRoutes
<1> QED BY <1>1, <1>2, <1>3, <1>4, <1>5 DEF Services

\* A served request, as the property reads it.
LEMMA ServedShape ==
    ASSUME NEW who \in Users \cup {ApiKeyCaller}, NEW needs \in SUBSET Roles
    PROVE  [who |-> who, needs |-> needs] \in Served
BY DEF Served

\* The variables the steps of a limiter or of auth-svc leave alone.
core == <<service, now, users, held, issue, tokens>>

LEMMA LimiterStep ==
    ASSUME IInv, UNCHANGED core, served' \in Served,
           buckets' \in [Addresses -> Buckets \cup {NoBucket}],
           lastCleanup' \in Nat, meter' \in [Addresses -> Nat]
    PROVE  TypeOK'
BY DEF IInv, TypeOK, core

LEMMA AuthStep ==
    ASSUME IInv, UNCHANGED <<service, now, limiter>>, served' \in Served,
           users' \in [Users -> SUBSET Roles], held' \in [Users -> [Roles -> Nat]],
           issue' \in [Users -> Issues \cup {NoIssue}], tokens' \subseteq Tokens
    PROVE  IInv'
<1>1. Earned'
  BY QuietEarned DEF IInv
<1>2. TypeOK'
  BY DEF IInv, TypeOK, limiter
<1> QED BY <1>1, <1>2 DEF IInv

LEMMA StepKeepsIInv ==
    ASSUME IInv, [Next]_vars
    PROVE  IInv'
<1>0. /\ now \in Nat /\ users \in [Users -> SUBSET Roles]
      /\ held \in [Users -> [Roles -> Nat]] /\ tokens \subseteq Tokens
      /\ issue \in [Users -> Issues \cup {NoIssue}]
      /\ service \in Services /\ NoOne \in Served /\ AccessTTL \in Nat
  BY TokenAssumption DEF IInv, TypeOK, Served
<1>1. ASSUME NEW u \in Users, Login(u) \/ Refresh(u) PROVE IInv'
  <2>1. ReadsUser(u)
    BY <1>1 DEF Login, Refresh
  <2>2. [roles |-> users[u], since |-> now] \in Issues
    BY <1>0, NewIssue
  <2>3. issue' \in [Users -> Issues \cup {NoIssue}]
    BY <1>0, <2>1, <2>2 DEF ReadsUser
  <2> QED BY <1>0, <2>1, <2>3, AuthStep DEF ReadsUser
<1>2. ASSUME NEW u \in Users, IssueTokenPair(u) PROVE IInv'
  <2>1. issue[u].roles \in SUBSET Roles
    BY <1>0, <1>2, IssueShape DEF IssueTokenPair
  <2>2. Expiry \in Nat
    BY <1>0 DEF Expiry
  <2>3. [user |-> u, roles |-> issue[u].roles, exp |-> Expiry] \in Tokens
    BY <2>1, <2>2, NewToken
  <2>4. tokens' \subseteq Tokens /\ issue' \in [Users -> Issues \cup {NoIssue}]
    BY <1>0, <1>2, <2>3 DEF IssueTokenPair
  <2> QED BY <1>0, <1>2, <2>4, AuthStep DEF IssueTokenPair
<1>3. ASSUME NEW u \in Users, IssueFails(u) PROVE IInv'
  <2>1. issue' \in [Users -> Issues \cup {NoIssue}]
    BY <1>0, <1>3 DEF IssueFails
  <2> QED BY <1>0, <1>3, <2>1, AuthStep DEF IssueFails
<1>4. ASSUME NEW u \in Users, SetRoles(u) PROVE IInv'
  <2>1. users' \in [Users -> SUBSET Roles]
    BY <1>0, <1>4 DEF SetRoles
  <2>2. held' \in [Users -> [Roles -> Nat]]
    BY <1>0, <1>4 DEF SetRoles, HeldFrom
  <2> QED BY <1>0, <1>4, <2>1, <2>2, AuthStep DEF SetRoles
<1>5. CASE Forget
  <2>1. tokens' \subseteq Tokens
    BY <1>0, <1>5 DEF Forget
  <2> QED BY <1>0, <1>5, <2>1, AuthStep DEF Forget
<1>6. ASSUME NEW k \in Addresses, TooManyRequests(k) PROVE IInv'
  <2>1. UNCHANGED core /\ served' \in Served
    BY <1>0, <1>6 DEF TooManyRequests, core, limiter
  <2>2. Earned' /\ buckets' \in [Addresses -> Buckets \cup {NoBucket}]
        /\ lastCleanup' \in Nat /\ meter' \in [Addresses -> Nat]
    BY <1>6, TooManyFits
  <2> QED BY <2>1, <2>2, LimiterStep DEF IInv
<1>7. ASSUME NEW k \in Addresses, Passes(k), UNCHANGED core, served' \in Served PROVE IInv'
  <2>1. Earned' /\ buckets' \in [Addresses -> Buckets \cup {NoBucket}]
        /\ lastCleanup' \in Nat /\ meter' \in [Addresses -> Nat]
    BY <1>7, PassesFits DEF core
  <2> QED BY <1>7, <2>1, LimiterStep DEF IInv
<1>8. ASSUME NEW k \in Addresses, ServeUser(k) PROVE IInv'
  <2>1. PICK t \in tokens, route \in Routes : served' = [who |-> t.user, needs |-> route.needs]
    BY <1>8 DEF ServeUser
  <2>2. served' \in Served
    BY <1>0, <2>1, TokenShape, RouteShape, ServedShape
  <2> QED BY <1>7, <1>8, <2>2 DEF ServeUser, core
<1>9. ASSUME NEW k \in Addresses, ServeKey(k) PROVE IInv'
  <2>1. PICK route \in Routes : served' = [who |-> ApiKeyCaller, needs |-> route.needs]
    BY <1>9 DEF ServeKey
  <2>2. served' \in Served
    BY <1>0, <2>1, RouteShape, ServedShape
  <2> QED BY <1>7, <1>9, <2>2 DEF ServeKey, core
<1>10. ASSUME NEW k \in Addresses, Rejected(k) PROVE IInv'
  BY <1>0, <1>7, <1>10 DEF Rejected, core
<1>11. CASE Restarts
  <2>1. buckets' \in [Addresses -> Buckets \cup {NoBucket}]
        /\ lastCleanup' \in Nat /\ meter' \in [Addresses -> Nat]
    BY <1>0, <1>11 DEF Restarts
  <2>2. UNCHANGED core /\ served' \in Served
    BY <1>0, <1>11 DEF Restarts, core
  <2> QED BY <1>11, <2>1, <2>2, LimiterStep, RestartEarns DEF IInv
<1>12. CASE Tick
  <2>1. now' \in Nat /\ held' \in [Users -> [Roles -> Nat]]
    BY <1>0, <1>12 DEF Tick
  <2>2. meter' \in [Addresses -> Nat]
    <3>1. meter \in [Addresses -> Nat] /\ Rate \in Nat
      BY LimiterAssumption DEF IInv, TypeOK
    <3>2. meter' = [k \in Addresses |-> IF meter[k] <= Rate THEN 0 ELSE meter[k] - Rate]
      BY <1>12 DEF Tick
    <3>3. \A k \in Addresses : (IF meter[k] <= Rate THEN 0 ELSE meter[k] - Rate) \in Nat
      BY <3>1
    <3> QED BY <3>2, <3>3
  <2>3. TypeOK'
    BY <1>0, <1>12, <2>1, <2>2 DEF Tick, IInv, TypeOK
  <2> QED BY <1>12, <2>3, TickEarns DEF IInv
<1>13. CASE UNCHANGED vars
  <2>1. Earned'
    BY <1>13, QuietEarned DEF vars, limiter, IInv
  <2>2. TypeOK'
    BY <1>13 DEF vars, limiter, IInv, TypeOK
  <2> QED BY <2>1, <2>2 DEF IInv
<1>14. CASE NilLookup \/ Restart
  BY <1>11, <1>14 DEF NilLookup, Restart
<1> QED BY <1>1, <1>2, <1>3, <1>4, <1>5, <1>6, <1>8, <1>9, <1>10, <1>12, <1>13, <1>14,
           KeysAreAddresses DEF Next

LEMMA InitIInv == Init => IInv
<1> SUFFICES ASSUME Init PROVE IInv
  OBVIOUS
<1>1. Earned
  BY DEF Init, Earned
<1>2. TypeOK
  BY DEF Init, TypeOK, Served
<1> QED BY <1>1, <1>2 DEF IInv

\* Every variable keeps its type.
THEOREM TypeCorrect == Spec => []TypeOK
<1>1. IInv => TypeOK
  BY DEF IInv
<1> QED BY <1>1, InitIInv, StepKeepsIInv, PTL DEF Spec

\* Where a limiter is, between any two moments of a run of the process no more than
\* Burst requests and Rate more a tick are served under one address, however idle
\* buckets are swept away.
THEOREM BoundedRate == Spec => []RateBounded
<1>1. IInv => RateBounded
  <2> SUFFICES ASSUME IInv, NEW k \in Addresses, service # "auth" PROVE meter[k] <= Burst
    BY DEF RateBounded
  <2>1. meter[k] \in Nat /\ Burst \in Nat /\ now \in Nat
        /\ buckets[k] \in Buckets \cup {NoBucket}
    BY LimiterAssumption DEF IInv, TypeOK
  <2>2. CASE buckets[k] = NoBucket
    BY <2>1, <2>2 DEF IInv, Earned
  <2>3. CASE buckets[k] # NoBucket
    <3>1. buckets[k].last <= now /\ meter[k] + Refilled(buckets[k]) <= Burst
      BY <2>3 DEF IInv, Earned
    <3>2. Refilled(buckets[k]) \in 0..Burst
      BY <2>1, <2>3, <3>1, RefillShape
    <3> QED BY <2>1, <3>1, <3>2
  <2> QED BY <2>2, <2>3
<1> QED BY <1>1, InitIInv, StepKeepsIInv, PTL DEF Spec

-----------------------------------------------------------------------------
(* Access: how old the roles of a token can be.                            *)

\* Steps that leave auth-svc's side and the clock alone.
LEMMA QuietRoles ==
    ASSUME RolesInv, TypeOK', UNCHANGED <<now, users, held, issue, tokens>>
    PROVE  RolesInv'
BY DEF RolesInv, Current, Fresh

\* What is said of issues and tokens stays true when held grows.
LEMMA FreshGrows ==
    ASSUME RolesInv, TypeOK', UNCHANGED <<issue, tokens>>,
           \A u \in Users : \A r \in Roles : held[u][r] <= held'[u][r]
    PROVE  Fresh'
<1>0. AccessTTL \in Nat /\ WriteTimeout \in Nat /\ held \in [Users -> [Roles -> Nat]]
      /\ held' \in [Users -> [Roles -> Nat]] /\ tokens \subseteq Tokens
      /\ issue \in [Users -> Issues \cup {NoIssue}]
  BY TokenAssumption DEF RolesInv, TypeOK
<1>1. ASSUME NEW u \in Users, issue[u] # NoIssue, NEW r \in issue[u].roles
      PROVE  issue[u].since <= held'[u][r]
  <2>1. issue[u].since \in Nat /\ r \in Roles
    BY <1>0, <1>1, IssueShape
  <2>2. issue[u].since <= held[u][r] /\ held[u][r] <= held'[u][r]
    BY <1>1, <2>1 DEF RolesInv, Fresh
  <2>3. held[u][r] \in Nat /\ held'[u][r] \in Nat
    BY <1>0, <2>1
  <2> QED BY <2>1, <2>2, <2>3
<1>2. ASSUME NEW t \in tokens, NEW r \in t.roles
      PROVE  t.exp <= held'[t.user][r] + AccessTTL + WriteTimeout
  <2>1. t.exp \in Nat /\ t.user \in Users /\ r \in Roles
    BY <1>0, <1>2, TokenShape
  <2>2. t.exp <= held[t.user][r] + AccessTTL + WriteTimeout
        /\ held[t.user][r] <= held'[t.user][r]
    BY <1>2, <2>1 DEF RolesInv, Fresh
  <2>3. held[t.user][r] \in Nat /\ held'[t.user][r] \in Nat
    BY <1>0, <2>1
  <2> QED BY <1>0, <2>1, <2>2, <2>3
<1> QED BY <1>1, <1>2 DEF Fresh

\* A step of auth-svc's, the row aside.
LEMMA IssueRoles ==
    ASSUME RolesInv, TypeOK', UNCHANGED <<now, users, held>>, Fresh'
    PROVE  RolesInv'
BY DEF RolesInv, Current

LEMMA ReadRoles ==
    ASSUME RolesInv, TypeOK', NEW u \in Users, ReadsUser(u)
    PROVE  RolesInv'
<1>0. now \in Nat /\ users \in [Users -> SUBSET Roles] /\ held \in [Users -> [Roles -> Nat]]
      /\ issue \in [Users -> Issues \cup {NoIssue}]
  BY DEF RolesInv, TypeOK
<1>1. issue' = [issue EXCEPT ![u] = [roles |-> users[u], since |-> now]]
      /\ UNCHANGED <<now, users, held, tokens>>
  BY DEF ReadsUser
<1>2. ASSUME NEW v \in Users, issue'[v] # NoIssue, NEW r \in issue'[v].roles
      PROVE  issue'[v].since <= held[v][r]
  <2>1. CASE v = u
    <3>1. issue'[v] = [roles |-> users[u], since |-> now]
      BY <1>0, <1>1, <2>1
    <3>2. issue'[v].since = now /\ r \in users[v] /\ r \in Roles
      BY <1>0, <1>2, <2>1, <3>1
    <3>3. held[v][r] = now
      BY <3>2 DEF RolesInv, Current
    <3> QED BY <1>0, <3>2, <3>3
  <2>2. CASE v # u
    <3>1. issue'[v] = issue[v]
      BY <1>0, <1>1, <2>2
    <3> QED BY <1>2, <3>1 DEF RolesInv, Fresh
  <2> QED BY <2>1, <2>2
<1>3. Fresh'
  BY <1>1, <1>2 DEF RolesInv, Fresh
<1> QED BY <1>1, <1>3, IssueRoles

\* A token lives AccessTTL from an answer that is not later than WriteTimeout.
LEMMA IssueFresh ==
    ASSUME RolesInv, TypeOK', NEW u \in Users, IssueTokenPair(u)
    PROVE  RolesInv'
<1>0. /\ now \in Nat /\ held \in [Users -> [Roles -> Nat]] /\ tokens \subseteq Tokens
      /\ issue \in [Users -> Issues \cup {NoIssue}]
      /\ AccessTTL \in Nat /\ WriteTimeout \in Nat
  BY TokenAssumption DEF RolesInv, TypeOK
<1> DEFINE new == [user |-> u, roles |-> issue[u].roles, exp |-> Expiry]
<1>1. /\ issue[u] # NoIssue /\ now <= issue[u].since + WriteTimeout
      /\ tokens' = tokens \cup {new} /\ issue' = [issue EXCEPT ![u] = NoIssue]
      /\ UNCHANGED <<now, users, held>>
  BY DEF IssueTokenPair
<1>2. ASSUME NEW v \in Users, issue'[v] # NoIssue
      PROVE  issue'[v] = issue[v]
  BY <1>0, <1>1, <1>2
<1>3. ASSUME NEW t \in tokens', NEW r \in t.roles
      PROVE  t.exp <= held[t.user][r] + AccessTTL + WriteTimeout
  <2>1. CASE t \in tokens
    BY <1>3, <2>1 DEF RolesInv, Fresh
  <2>2. CASE t = new
    <3>1. issue[u].roles \in SUBSET Roles /\ issue[u].since \in Nat
      BY <1>0, <1>1, IssueShape
    <3>2. t.exp = now + AccessTTL /\ t.user = u /\ r \in issue[u].roles /\ r \in Roles
      BY <1>3, <2>2, <3>1 DEF Expiry
    <3>3. issue[u].since <= held[u][r] /\ held[u][r] \in Nat
      BY <1>0, <1>1, <3>2 DEF RolesInv, Fresh
    <3>4. now + AccessTTL <= held[u][r] + AccessTTL + WriteTimeout
      BY <1>0, <1>1, <3>1, <3>3
    <3> QED BY <3>2, <3>4
  <2> QED BY <1>1, <1>3, <2>1, <2>2
<1>4. Fresh'
  BY <1>1, <1>2, <1>3 DEF RolesInv, Fresh
<1> QED BY <1>1, <1>4, IssueRoles

LEMMA DropRoles ==
    ASSUME RolesInv, TypeOK', Forget \/ (\E u \in Users : IssueFails(u))
    PROVE  RolesInv'
<1>0. issue \in [Users -> Issues \cup {NoIssue}]
  BY DEF RolesInv, TypeOK
<1>1. CASE Forget
  <2>1. tokens' \subseteq tokens /\ UNCHANGED <<now, users, held, issue>>
    BY <1>1 DEF Forget
  <2>2. Fresh'
    BY <2>1 DEF RolesInv, Fresh
  <2> QED BY <2>1, <2>2, IssueRoles
<1>2. ASSUME NEW u \in Users, IssueFails(u) PROVE RolesInv'
  <2>1. issue' = [issue EXCEPT ![u] = NoIssue] /\ UNCHANGED <<now, users, held, tokens>>
    BY <1>2 DEF IssueFails
  <2>2. \A v \in Users : issue'[v] # NoIssue => issue'[v] = issue[v]
    BY <1>0, <2>1
  <2>3. Fresh'
    BY <2>1, <2>2 DEF RolesInv, Fresh
  <2> QED BY <2>1, <2>3, IssueRoles
<1> QED BY <1>1, <1>2

LEMMA RowRoles ==
    ASSUME RolesInv, TypeOK', NEW u \in Users, SetRoles(u)
    PROVE  RolesInv'
<1>0. now \in Nat /\ users \in [Users -> SUBSET Roles] /\ held \in [Users -> [Roles -> Nat]]
  BY DEF RolesInv, TypeOK
<1>1. PICK roles \in SUBSET Roles : users' = [users EXCEPT ![u] = roles]
  BY DEF SetRoles
<1>2. held' = [held EXCEPT ![u] = [r \in Roles |-> IF r \in roles THEN now ELSE held[u][r]]]
      /\ UNCHANGED <<now, issue, tokens>>
  BY <1>0, <1>1 DEF SetRoles, HeldFrom
<1>3. ASSUME NEW v \in Users, NEW r \in Roles
      PROVE  /\ held[v][r] <= held'[v][r] /\ held'[v][r] <= now
             /\ r \in users'[v] => held'[v][r] = now
  <2>0. held[v][r] \in Nat /\ held[v][r] <= now /\ (r \in users[v] => held[v][r] = now)
    BY <1>0 DEF RolesInv, Current
  <2>1. CASE v = u
    <3>1. users'[v] = roles /\ held'[v][r] = IF r \in roles THEN now ELSE held[v][r]
      BY <1>0, <1>1, <1>2, <2>1
    <3> QED BY <1>0, <2>0, <3>1
  <2>2. CASE v # u
    <3>1. users'[v] = users[v] /\ held'[v] = held[v]
      BY <1>0, <1>1, <1>2, <2>2
    <3> QED BY <2>0, <3>1
  <2> QED BY <2>1, <2>2
<1>4. Current'
  BY <1>2, <1>3 DEF Current
<1>5. Fresh'
  BY <1>2, <1>3, FreshGrows
<1> QED BY <1>4, <1>5 DEF RolesInv

LEMMA TickRoles ==
    ASSUME RolesInv, TypeOK', Tick
    PROVE  RolesInv'
<1>0. now \in Nat /\ users \in [Users -> SUBSET Roles] /\ held \in [Users -> [Roles -> Nat]]
  BY DEF RolesInv, TypeOK
<1>1. /\ now' = now + 1 /\ UNCHANGED <<users, issue, tokens>>
      /\ held' = [u \in Users |-> [r \in Roles |-> IF r \in users[u] THEN now + 1 ELSE held[u][r]]]
  BY DEF Tick
<1>2. ASSUME NEW v \in Users, NEW r \in Roles
      PROVE  /\ held[v][r] <= held'[v][r] /\ held'[v][r] <= now'
             /\ r \in users'[v] => held'[v][r] = now'
  <2>1. held[v][r] \in Nat /\ held[v][r] <= now
    BY <1>0 DEF RolesInv, Current
  <2>2. held'[v][r] = IF r \in users[v] THEN now + 1 ELSE held[v][r]
    BY <1>1
  <2> QED BY <1>0, <1>1, <2>1, <2>2
<1>3. Current'
  BY <1>2 DEF Current
<1>4. Fresh'
  BY <1>1, <1>2, FreshGrows
<1> QED BY <1>3, <1>4 DEF RolesInv

LEMMA StepKeepsRoles ==
    ASSUME RolesInv, TypeOK', [Next]_vars
    PROVE  RolesInv'
<1>1. ASSUME NEW u \in Users, Login(u) \/ Refresh(u) PROVE RolesInv'
  BY <1>1, ReadRoles DEF Login, Refresh
<1>2. ASSUME NEW u \in Users, IssueTokenPair(u) \/ IssueFails(u) \/ SetRoles(u) PROVE RolesInv'
  BY <1>2, IssueFresh, DropRoles, RowRoles
<1>3. CASE Forget \/ Tick
  BY <1>3, DropRoles, TickRoles
<1>4. ASSUME NEW k \in Addresses, TooManyRequests(k) \/ ServeUser(k) \/ ServeKey(k) \/ Rejected(k)
      PROVE  RolesInv'
  <2>1. UNCHANGED <<now, users, held, issue, tokens>>
    BY <1>4 DEF TooManyRequests, ServeUser, ServeKey, Rejected
  <2> QED BY <2>1, QuietRoles
<1>5. CASE NilLookup \/ Restart \/ UNCHANGED vars
  <2>1. UNCHANGED <<now, users, held, issue, tokens>>
    BY <1>5 DEF NilLookup, Restart, Restarts, vars
  <2> QED BY <2>1, QuietRoles
<1> QED BY <1>1, <1>2, <1>3, <1>4, <1>5, KeysAreAddresses DEF Next

LEMMA InitRoles == Init => RolesInv
<1> SUFFICES ASSUME Init PROVE RolesInv
  OBVIOUS
<1>1. TypeOK
  BY InitIInv DEF IInv
<1>2. Current
  BY DEF Init, Current
<1>3. Fresh
  BY DEF Init, Fresh
<1> QED BY <1>1, <1>2, <1>3 DEF RolesInv

\* The token a request is served for has not expired, and had its roles not
\* longer ago than its life and the write deadline before its answer.
LEMMA ServedFresh ==
    ASSUME RolesInv, NEW k \in Addresses, ServeUser(k)
    PROVE  AccessBounded'
<1>0. /\ now \in Nat /\ held \in [Users -> [Roles -> Nat]] /\ tokens \subseteq Tokens
      /\ AccessTTL \in Nat /\ WriteTimeout \in Nat
  BY TokenAssumption DEF RolesInv, TypeOK
<1>1. PICK t \in tokens, route \in Routes :
        /\ now < t.exp /\ t.roles \cap route.needs # {}
        /\ served' = [who |-> t.user, needs |-> route.needs]
  BY DEF ServeUser, Valid, HasRole
<1>2. PICK r \in t.roles : r \in route.needs
  BY <1>1
<1>3. t.user \in Users /\ r \in Roles /\ t.exp \in Nat
  BY <1>0, <1>2, TokenShape
<1>4. t.exp <= held[t.user][r] + AccessTTL + WriteTimeout /\ held[t.user][r] \in Nat
  BY <1>0, <1>2, <1>3 DEF RolesInv, Fresh
<1>5. now < held[t.user][r] + AccessTTL + WriteTimeout
  BY <1>0, <1>1, <1>3, <1>4
<1>6. served'.who = t.user /\ served'.needs = route.needs /\ now' = now /\ held' = held
  BY <1>1 DEF ServeUser
<1> QED BY <1>2, <1>5, <1>6 DEF AccessBounded

LEMMA StepBoundsAccess ==
    ASSUME RolesInv, AccessBounded, [Next]_vars
    PROVE  AccessBounded'
<1>1. ASSUME served' = NoOne PROVE AccessBounded'
  BY <1>1 DEF AccessBounded
<1>2. ASSUME NEW u \in Users, Login(u) \/ Refresh(u) PROVE served' = NoOne
  BY <1>2 DEF Login, Refresh, ReadsUser
<1>3. ASSUME NEW u \in Users, IssueTokenPair(u) \/ IssueFails(u) \/ SetRoles(u)
      PROVE  served' = NoOne
  BY <1>3 DEF IssueTokenPair, IssueFails, SetRoles
<1>4. ASSUME Forget \/ Tick \/ NilLookup \/ Restart PROVE served' = NoOne
  BY <1>4 DEF Forget, Tick, NilLookup, Restart, Restarts
<1>5. ASSUME NEW k \in Addresses, TooManyRequests(k) \/ Rejected(k) PROVE served' = NoOne
  BY <1>5 DEF TooManyRequests, Rejected
<1>6. ASSUME NEW k \in Addresses, ServeKey(k) PROVE AccessBounded'
  <2>1. served'.who = ApiKeyCaller
    BY <1>6 DEF ServeKey
  <2> QED BY <2>1, TokenAssumption DEF AccessBounded
<1>7. ASSUME NEW k \in Addresses, ServeUser(k) PROVE AccessBounded'
  BY <1>7, ServedFresh
<1>8. CASE UNCHANGED vars
  BY <1>8 DEF vars, AccessBounded
<1> QED BY <1>1, <1>2, <1>3, <1>4, <1>5, <1>6, <1>7, <1>8, KeysAreAddresses DEF Next

\* A bearer token is served only with a role its user's row had less than
\* AccessTTL + WriteTimeout ago: what a deactivated user can still do.
THEOREM BoundedAccess == Spec => []AccessBounded
<1>1. Init => AccessBounded
  BY DEF Init, AccessBounded
<1>2. IInv => TypeOK
  BY DEF IInv
<1>3. IInv /\ RolesInv /\ AccessBounded /\ [Next]_vars => (IInv /\ RolesInv /\ AccessBounded)'
  BY StepKeepsIInv, StepKeepsRoles, StepBoundsAccess DEF IInv
<1> QED BY <1>1, <1>3, InitIInv, InitRoles, PTL DEF Spec

-----------------------------------------------------------------------------
(***************************************************************************)
(* The idempotency middleware.  A request that may run its handler leaves  *)
(* a record in the store that let it (Held), and no other request gets     *)
(* past a record; a response in a store is the true one of a request of    *)
(* its scope (RecordsTrue); and a request comes to Postgres, or to run     *)
(* without protection, only after a call to Redis failed (Phases).         *)
(***************************************************************************)

\* Where a request stands, and what is known of it.
PhasesOf(r) ==
    /\ pc[r] \notin {"idle", "done"} \/ holder[r] # "none" => Guarded(r)
    /\ pc[r] \in {"idle", "redis", "select", "insert", "pass"} => holder[r] = "none"
    /\ pc[r] \in {"idle", "redis", "select", "insert", "pass", "run"} =>
           result[r] = "none" /\ r \notin pending
    /\ pc[r] \in {"run", "complete"} => holder[r] # "none"
    /\ r \in pending => pc[r] = "done" /\ holder[r] # "none"
    /\ pc[r] = "complete" \/ r \in pending => result[r] \in {"completed", "failed"}
    /\ pc[r] \in {"select", "insert", "pass"} \/ holder[r] = "postgres"
          \/ (Executed(r) /\ holder[r] = "none") => "redis" \in trouble[ScopeKey(r)]

Phases == \A r \in Requests : PhasesOf(r)

\* The response rec of scope s is the one of a protected request of s.
True(s, rec) ==
    rec \in Responses =>
        /\ ScopeKey(rec.of) = s
        /\ holder[rec.of] # "none"
        /\ result[rec.of] = rec.status

RecordsTrue == \A s \in Scopes : True(s, cache[s]) /\ True(s, table[s])

\* What let a request run is on record until it lapses.
Held ==
    \A r \in Requests :
        "lapse" \notin trouble[ScopeKey(r)] =>
            /\ holder[r] = "redis" => cache[ScopeKey(r)] # NoRec
            /\ holder[r] = "postgres" => table[ScopeKey(r)] # NoRec

\* What Redis calls processing is being processed, if all went well.
BeingProcessed ==
    \A s \in Scopes :
        cache[s] = Processing /\ trouble[s] = {} =>
            \E r \in Requests : ScopeKey(r) = s /\ pc[r] \in {"run", "complete"}

\* The inductive invariant.
GuardIInv ==
    /\ GuardTypeOK
    /\ Phases
    /\ RecordsTrue
    /\ Held
    /\ StoreIsMutex
    /\ BeingProcessed
    /\ ReplayIsOwn
    /\ AnswerIsKept
-----------------------------------------------------------------------------
\* A step of one request: of the middleware, of its goroutine, or its death.
Step(r) == Serve(r) \/ Background(r) \/ Dies(r)

\* The scope of a request is one of Scopes.
LEMMA ScopeKeys == \A r \in Requests : ScopeKey(r) \in Scopes
BY DEF Scopes

\* The records are told apart.
LEMMA Shape ==
    /\ NoRec # Processing
    /\ NoRec \notin Responses
    /\ Processing \notin Responses
    /\ NoRec.status = "none"
BY DEF NoRec, Processing, Responses

\* The replies a request can be given.
LEMMA ReplyShape ==
    /\ \A kind \in {"none", "own", "in flight", "rejected", "error"} :
           [kind |-> kind, rec |-> NoRec] \in Replies
    /\ \A rec \in Responses : [kind |-> "replay", rec |-> rec] \in Replies
BY DEF Replies

\* What a handler that ended leaves behind is a response.
LEMMA OutcomeShape ==
    ASSUME NEW r \in Requests, result[r] \in {"completed", "failed"}
    PROVE  /\ Outcome(r) \in Responses
           /\ Outcome(r).of = r
           /\ Outcome(r).status = result[r]
BY DEF Outcome, Responses

\* A request that is about to store its response has one.
LEMMA Storing ==
    ASSUME GuardTypeOK, Phases, NEW r \in Requests, pc[r] = "complete" \/ r \in pending
    PROVE  Outcome(r) \in Responses
BY OutcomeShape DEF Phases, PhasesOf

\* A step of one request is not seen by the others, and leaves the other scopes alone.
LEMMA Locality ==
    ASSUME GuardTypeOK, NEW r \in Requests, Step(r)
    PROVE  /\ \A q \in Requests \ {r} : /\ pc'[q] = pc[q]
                                        /\ holder'[q] = holder[q]
                                        /\ result'[q] = result[q]
                                        /\ reply'[q] = reply[q]
                                        /\ q \in pending' <=> q \in pending
           /\ \A s \in Scopes : trouble[s] \subseteq trouble'[s]
           /\ \A s \in Scopes \ {ScopeKey(r)} : /\ cache'[s] = cache[s]
                                                /\ table'[s] = table[s]
                                                /\ trouble'[s] = trouble[s]
<1> USE DEF GuardTypeOK, Goto, Acquired, Respond, Answered, Blame
<1>1. CASE Arrive(r)
  BY <1>1, ScopeKeys DEF Arrive
<1>2. CASE RedisAcquire(r)
  BY <1>2, ScopeKeys DEF RedisAcquire
<1>3. CASE RedisAcquireFails(r)
  BY <1>3, ScopeKeys DEF RedisAcquireFails
<1>4. CASE RedisAcquireRepeats(r)
  BY <1>4, ScopeKeys DEF RedisAcquireRepeats
<1>5. CASE PostgresSelect(r)
  BY <1>5, ScopeKeys DEF PostgresSelect
<1>6. CASE PostgresInsert(r)
  BY <1>6, ScopeKeys DEF PostgresInsert
<1>7. CASE PostgresAcquireFails(r)
  BY <1>7, ScopeKeys DEF PostgresAcquireFails
<1>8. CASE PassThrough(r)
  BY <1>8, ScopeKeys DEF PassThrough
<1>9. CASE Execute(r)
  BY <1>9, ScopeKeys DEF Execute
<1>10. CASE ExecuteUnstored(r)
  BY <1>10, ScopeKeys DEF ExecuteUnstored
<1>11. CASE RedisComplete(r)
  BY <1>11, ScopeKeys DEF RedisComplete
<1>12. CASE RedisCompleteFails(r)
  BY <1>12, ScopeKeys DEF RedisCompleteFails
<1>13. CASE PostgresComplete(r)
  BY <1>13, ScopeKeys DEF PostgresComplete
<1>14. CASE PostgresCompleteFails(r)
  BY <1>14, ScopeKeys DEF PostgresCompleteFails
<1>15. CASE Dies(r)
  BY <1>15, ScopeKeys DEF Dies
<1> QED
  BY <1>1, <1>2, <1>3, <1>4, <1>5, <1>6, <1>7, <1>8,
     <1>9, <1>10, <1>11, <1>12, <1>13, <1>14, <1>15 DEF Step, Serve,
     Background

\* A request that was let run, or has run, stays so.
LEMMA Stays ==
    ASSUME GuardTypeOK, Phases, NEW r \in Requests, Step(r)
    PROVE  /\ holder[r] # "none" => holder'[r] = holder[r]
           /\ result[r] # "none" => result'[r] = result[r]
<1> USE DEF GuardTypeOK, Phases, PhasesOf, Goto, Acquired, Respond, Answered, Blame
<1>1. CASE Arrive(r)
  BY <1>1, ScopeKeys DEF Arrive
<1>2. CASE RedisAcquire(r)
  BY <1>2, ScopeKeys DEF RedisAcquire
<1>3. CASE RedisAcquireFails(r)
  BY <1>3, ScopeKeys DEF RedisAcquireFails
<1>4. CASE RedisAcquireRepeats(r)
  BY <1>4, ScopeKeys DEF RedisAcquireRepeats
<1>5. CASE PostgresSelect(r)
  BY <1>5, ScopeKeys DEF PostgresSelect
<1>6. CASE PostgresInsert(r)
  BY <1>6, ScopeKeys DEF PostgresInsert
<1>7. CASE PostgresAcquireFails(r)
  BY <1>7, ScopeKeys DEF PostgresAcquireFails
<1>8. CASE PassThrough(r)
  BY <1>8, ScopeKeys DEF PassThrough
<1>9. CASE Execute(r)
  BY <1>9, ScopeKeys DEF Execute
<1>10. CASE ExecuteUnstored(r)
  BY <1>10, ScopeKeys DEF ExecuteUnstored
<1>11. CASE RedisComplete(r)
  BY <1>11, ScopeKeys DEF RedisComplete
<1>12. CASE RedisCompleteFails(r)
  BY <1>12, ScopeKeys DEF RedisCompleteFails
<1>13. CASE PostgresComplete(r)
  BY <1>13, ScopeKeys DEF PostgresComplete
<1>14. CASE PostgresCompleteFails(r)
  BY <1>14, ScopeKeys DEF PostgresCompleteFails
<1>15. CASE Dies(r)
  BY <1>15, ScopeKeys DEF Dies
<1> QED
  BY <1>1, <1>2, <1>3, <1>4, <1>5, <1>6, <1>7, <1>8,
     <1>9, <1>10, <1>11, <1>12, <1>13, <1>14, <1>15 DEF Step, Serve,
     Background

\* What a step does to the record of its scope in Redis.
LEMMA CacheStep ==
    ASSUME GuardTypeOK, NEW r \in Requests, Step(r)
    PROVE  LET s == ScopeKey(r)
           IN  \/ cache'[s] = cache[s]
               \/ /\ pc[r] = "redis"
                  /\ cache[s] = NoRec
                  /\ cache'[s] = Processing
                  /\ pc'[r] = "run" \/ "redis" \in trouble'[s]
               \/ /\ pc[r] = "complete"
                  /\ cache'[s] = Outcome(r)
<1> USE DEF GuardTypeOK, Goto, Acquired, Respond, Answered, Blame
<1>1. CASE Arrive(r)
  BY <1>1, ScopeKeys DEF Arrive
<1>2. CASE RedisAcquire(r)
  BY <1>2, ScopeKeys DEF RedisAcquire
<1>3. CASE RedisAcquireFails(r)
  BY <1>3, ScopeKeys DEF RedisAcquireFails
<1>4. CASE RedisAcquireRepeats(r)
  BY <1>4, ScopeKeys DEF RedisAcquireRepeats
<1>5. CASE PostgresSelect(r)
  BY <1>5, ScopeKeys DEF PostgresSelect
<1>6. CASE PostgresInsert(r)
  BY <1>6, ScopeKeys DEF PostgresInsert
<1>7. CASE PostgresAcquireFails(r)
  BY <1>7, ScopeKeys DEF PostgresAcquireFails
<1>8. CASE PassThrough(r)
  BY <1>8, ScopeKeys DEF PassThrough
<1>9. CASE Execute(r)
  BY <1>9, ScopeKeys DEF Execute
<1>10. CASE ExecuteUnstored(r)
  BY <1>10, ScopeKeys DEF ExecuteUnstored
<1>11. CASE RedisComplete(r)
  BY <1>11, ScopeKeys DEF RedisComplete
<1>12. CASE RedisCompleteFails(r)
  BY <1>12, ScopeKeys DEF RedisCompleteFails
<1>13. CASE PostgresComplete(r)
  BY <1>13, ScopeKeys DEF PostgresComplete
<1>14. CASE PostgresCompleteFails(r)
  BY <1>14, ScopeKeys DEF PostgresCompleteFails
<1>15. CASE Dies(r)
  BY <1>15, ScopeKeys DEF Dies
<1> QED
  BY <1>1, <1>2, <1>3, <1>4, <1>5, <1>6, <1>7, <1>8,
     <1>9, <1>10, <1>11, <1>12, <1>13, <1>14, <1>15 DEF Step, Serve,
     Background

\* What a step does to the row of its scope in Postgres.
LEMMA TableStep ==
    ASSUME GuardTypeOK, NEW r \in Requests, Step(r)
    PROVE  LET s == ScopeKey(r)
           IN  \/ table'[s] = table[s]
               \/ /\ pc[r] = "insert"
                  /\ table[s] = NoRec
                  /\ table'[s] = Processing
               \/ /\ r \in pending
                  /\ table[s] # NoRec
                  /\ table'[s] = Outcome(r)
<1> USE DEF GuardTypeOK, Goto, Acquired, Respond, Answered, Blame
<1>1. CASE Arrive(r)
  BY <1>1, ScopeKeys DEF Arrive
<1>2. CASE RedisAcquire(r)
  BY <1>2, ScopeKeys DEF RedisAcquire
<1>3. CASE RedisAcquireFails(r)
  BY <1>3, ScopeKeys DEF RedisAcquireFails
<1>4. CASE RedisAcquireRepeats(r)
  BY <1>4, ScopeKeys DEF RedisAcquireRepeats
<1>5. CASE PostgresSelect(r)
  BY <1>5, ScopeKeys DEF PostgresSelect
<1>6. CASE PostgresInsert(r)
  BY <1>6, ScopeKeys DEF PostgresInsert
<1>7. CASE PostgresAcquireFails(r)
  BY <1>7, ScopeKeys DEF PostgresAcquireFails
<1>8. CASE PassThrough(r)
  BY <1>8, ScopeKeys DEF PassThrough
<1>9. CASE Execute(r)
  BY <1>9, ScopeKeys DEF Execute
<1>10. CASE ExecuteUnstored(r)
  BY <1>10, ScopeKeys DEF ExecuteUnstored
<1>11. CASE RedisComplete(r)
  BY <1>11, ScopeKeys DEF RedisComplete
<1>12. CASE RedisCompleteFails(r)
  BY <1>12, ScopeKeys DEF RedisCompleteFails
<1>13. CASE PostgresComplete(r)
  BY <1>13, ScopeKeys DEF PostgresComplete
<1>14. CASE PostgresCompleteFails(r)
  BY <1>14, ScopeKeys DEF PostgresCompleteFails
<1>15. CASE Dies(r)
  BY <1>15, ScopeKeys DEF Dies
<1> QED
  BY <1>1, <1>2, <1>3, <1>4, <1>5, <1>6, <1>7, <1>8,
     <1>9, <1>10, <1>11, <1>12, <1>13, <1>14, <1>15 DEF Step, Serve,
     Background

\* Only a store that has no record of the scope lets a request run.
LEMMA HolderStep ==
    ASSUME GuardTypeOK, NEW r \in Requests, Step(r), holder'[r] # holder[r]
    PROVE  LET s == ScopeKey(r)
           IN  /\ pc'[r] = "run"
               /\ \/ /\ pc[r] = "redis"
                     /\ holder'[r] = "redis"
                     /\ cache[s] = NoRec
                     /\ cache'[s] = Processing
                  \/ /\ pc[r] = "insert"
                     /\ holder'[r] = "postgres"
                     /\ table[s] = NoRec
                     /\ table'[s] = Processing
<1> USE DEF GuardTypeOK, Goto, Acquired, Respond, Answered, Blame
<1>1. CASE Arrive(r)
  BY <1>1, ScopeKeys DEF Arrive
<1>2. CASE RedisAcquire(r)
  BY <1>2, ScopeKeys DEF RedisAcquire
<1>3. CASE RedisAcquireFails(r)
  BY <1>3, ScopeKeys DEF RedisAcquireFails
<1>4. CASE RedisAcquireRepeats(r)
  BY <1>4, ScopeKeys DEF RedisAcquireRepeats
<1>5. CASE PostgresSelect(r)
  BY <1>5, ScopeKeys DEF PostgresSelect
<1>6. CASE PostgresInsert(r)
  BY <1>6, ScopeKeys DEF PostgresInsert
<1>7. CASE PostgresAcquireFails(r)
  BY <1>7, ScopeKeys DEF PostgresAcquireFails
<1>8. CASE PassThrough(r)
  BY <1>8, ScopeKeys DEF PassThrough
<1>9. CASE Execute(r)
  BY <1>9, ScopeKeys DEF Execute
<1>10. CASE ExecuteUnstored(r)
  BY <1>10, ScopeKeys DEF ExecuteUnstored
<1>11. CASE RedisComplete(r)
  BY <1>11, ScopeKeys DEF RedisComplete
<1>12. CASE RedisCompleteFails(r)
  BY <1>12, ScopeKeys DEF RedisCompleteFails
<1>13. CASE PostgresComplete(r)
  BY <1>13, ScopeKeys DEF PostgresComplete
<1>14. CASE PostgresCompleteFails(r)
  BY <1>14, ScopeKeys DEF PostgresCompleteFails
<1>15. CASE Dies(r)
  BY <1>15, ScopeKeys DEF Dies
<1> QED
  BY <1>1, <1>2, <1>3, <1>4, <1>5, <1>6, <1>7, <1>8,
     <1>9, <1>10, <1>11, <1>12, <1>13, <1>14, <1>15 DEF Step, Serve,
     Background

\* The reply of a request that was given one.
LEMMA Responded ==
    ASSUME GuardTypeOK, NEW r \in Requests, NEW kind, NEW STATE rec, Respond(r, kind, rec)
    PROVE  reply'[r].kind = kind /\ reply'[r].rec = rec
BY DEF GuardTypeOK, Respond

\* The reply of a request whose key is on record.
LEMMA AnsweredReply ==
    ASSUME GuardTypeOK, NEW r \in Requests, NEW STATE rec, Answered(r, rec)
    PROVE  \/ reply'[r].kind = "in flight" /\ rec = Processing
           \/ reply'[r].kind = "replay" /\ reply'[r].rec = rec /\ rec \in Responses
BY Responded DEF Answered

\* A replay or a refusal is what the store says.
LEMMA ReplyStep ==
    ASSUME GuardTypeOK, NEW r \in Requests, Step(r), reply'[r] # reply[r]
    PROVE  LET s == ScopeKey(r)
           IN  \/ reply'[r].kind \notin {"replay", "in flight"}
               \/ /\ reply'[r].kind = "replay"
                  /\ \/ pc[r] = "redis" /\ reply'[r].rec = cache[s]
                     \/ pc[r] = "select" /\ reply'[r].rec = table[s]
                  /\ reply'[r].rec \in Responses
               \/ /\ reply'[r].kind = "in flight"
                  /\ \/ pc[r] = "redis" /\ cache[s] = Processing
                     \/ pc[r] = "select"
                     \/ trouble'[s] # {}
<1>1. CASE Arrive(r)
  BY <1>1, Responded DEF Arrive, Goto
<1>2. CASE RedisAcquire(r)
  <2>1. pc[r] = "redis" /\ Answered(r, cache[ScopeKey(r)])
    BY <1>2 DEF RedisAcquire, Acquired
  <2> QED
    BY <2>1, AnsweredReply
<1>3. CASE RedisAcquireFails(r)
  BY <1>3 DEF RedisAcquireFails, Goto
<1>4. CASE RedisAcquireRepeats(r)
  <2>1. trouble'[ScopeKey(r)] # {}
    BY <1>4, ScopeKeys DEF RedisAcquireRepeats, Blame, GuardTypeOK
  <2>2. reply'[r].kind = "in flight"
    BY <1>4, AnsweredReply, Shape DEF RedisAcquireRepeats
  <2> QED
    BY <2>1, <2>2
<1>5. CASE PostgresSelect(r)
  BY <1>5, AnsweredReply DEF PostgresSelect, Goto
<1>6. CASE PostgresInsert(r) \/ PostgresAcquireFails(r)
  BY <1>6 DEF PostgresInsert, PostgresAcquireFails, Goto, Acquired
<1>7. CASE PassThrough(r)
  <2>1. Respond(r, "own", NoRec)
    BY <1>7 DEF PassThrough
  <2>2. reply'[r].kind = "own"
    BY <2>1, Responded
  <2> QED
    BY <2>2
<1>8. CASE Execute(r)
  BY <1>8 DEF Execute, GuardTypeOK
<1>9. CASE ExecuteUnstored(r)
  <2>1. Respond(r, "own", NoRec) \/ Respond(r, "error", NoRec)
    BY <1>9 DEF ExecuteUnstored
  <2>2. reply'[r].kind \in {"own", "error"}
    BY <2>1, Responded
  <2> QED
    BY <2>2
<1>10. CASE RedisComplete(r) \/ RedisCompleteFails(r)
  BY <1>10 DEF RedisComplete, RedisCompleteFails, Goto
<1>11. CASE Background(r) \/ Dies(r)
  BY <1>11 DEF Background, PostgresComplete, PostgresCompleteFails, Dies
<1> QED
  BY <1>1, <1>2, <1>3, <1>4, <1>5, <1>6, <1>7, <1>8, <1>9, <1>10, <1>11 DEF Step, Serve

\* A request leaves its handler with its response in Redis, or with a trouble.
LEMMA ServingStep ==
    ASSUME GuardTypeOK, Phases, NEW r \in Requests, Step(r)
    PROVE  LET s == ScopeKey(r)
           IN  pc'[r] = "done" /\ pc[r] # "done" /\ holder'[r] # "none" =>
                   \/ trouble'[s] # {}
                   \/ /\ pc[r] = "complete"
                      /\ cache'[s] = Outcome(r)
                      /\ result'[r] = result[r]
<1> USE DEF GuardTypeOK, Phases, PhasesOf, Goto, Acquired, Respond, Answered, Blame
<1>1. CASE Arrive(r) \/ RedisAcquire(r) \/ RedisAcquireFails(r) \/ RedisAcquireRepeats(r)
  BY <1>1, ScopeKeys DEF Arrive, RedisAcquire, RedisAcquireFails, RedisAcquireRepeats
<1>2. CASE PostgresSelect(r) \/ PostgresInsert(r) \/ PostgresAcquireFails(r) \/ PassThrough(r)
  BY <1>2, ScopeKeys DEF PostgresSelect, PostgresInsert, PostgresAcquireFails, PassThrough
<1>3. CASE Execute(r)
  BY <1>3 DEF Execute
<1>4. CASE ExecuteUnstored(r)
  BY <1>4, ScopeKeys DEF ExecuteUnstored
<1>5. CASE RedisComplete(r)
  BY <1>5, ScopeKeys DEF RedisComplete
<1>6. CASE RedisCompleteFails(r)
  BY <1>6, ScopeKeys DEF RedisCompleteFails
<1>7. CASE Background(r)
  BY <1>7 DEF Background, PostgresComplete, PostgresCompleteFails
<1>8. CASE Dies(r)
  BY <1>8, ScopeKeys DEF Dies
<1> QED
  BY <1>1, <1>2, <1>3, <1>4, <1>5, <1>6, <1>7, <1>8 DEF Step, Serve

\* A request that is served goes on, or leaves its handler.
LEMMA GoesOn ==
    ASSUME GuardTypeOK, NEW r \in Requests, Step(r), pc[r] \in {"run", "complete"}
    PROVE  pc'[r] \in {"run", "complete", "done"}
BY DEF GuardTypeOK, Step, Serve, Arrive, RedisAcquire, RedisAcquireFails, RedisAcquireRepeats,
       PostgresSelect, PostgresInsert, PostgresAcquireFails, PassThrough, Execute,
       ExecuteUnstored, RedisComplete, RedisCompleteFails, Background, PostgresComplete,
       PostgresCompleteFails, Dies, Goto, Respond

\* A request that is done stays so.
LEMMA DoneStays ==
    ASSUME GuardTypeOK, NEW r \in Requests, Step(r), pc[r] = "done"
    PROVE  pc'[r] = pc[r] /\ holder'[r] = holder[r] /\ result'[r] = result[r]
BY DEF GuardTypeOK, Step, Serve, Arrive, RedisAcquire, RedisAcquireFails, RedisAcquireRepeats,
       PostgresSelect, PostgresInsert, PostgresAcquireFails, PassThrough, Execute,
       ExecuteUnstored, RedisComplete, RedisCompleteFails, Background, PostgresComplete,
       PostgresCompleteFails, Dies

-----------------------------------------------------------------------------
LEMMA GuardInitIInv == GuardInit => GuardIInv
<1> SUFFICES ASSUME GuardInit PROVE GuardIInv
  OBVIOUS
<1>1. GuardTypeOK
  BY ReplyShape DEF GuardInit, GuardTypeOK
<1>2. Phases
  BY DEF GuardInit, Phases, PhasesOf, Executed
<1>3. RecordsTrue /\ BeingProcessed
  BY Shape DEF GuardInit, RecordsTrue, True, BeingProcessed
<1>4. Held /\ StoreIsMutex /\ ReplayIsOwn /\ AnswerIsKept
  BY DEF GuardInit, Held, StoreIsMutex, ReplayIsOwn, AnswerIsKept
<1> QED
  BY <1>1, <1>2, <1>3, <1>4 DEF GuardIInv

\* Types: where requests stand and what they were told, apart from what the stores hold.
Records == {NoRec, Processing} \cup Responses

ControlType ==
    /\ pc \in [Requests -> {"idle", "redis", "select", "insert", "run", "pass",
                            "complete", "done"}]
    /\ holder \in [Requests -> {"none", "redis", "postgres"}]
    /\ reply \in [Requests -> Replies]

StoreType ==
    /\ cache \in [Scopes -> Records]
    /\ table \in [Scopes -> Records]
    /\ result \in [Requests -> {"none", "completed", "failed", "panicked"}]
    /\ pending \subseteq Requests
    /\ trouble \in [Scopes -> SUBSET Troubles]

LEMMA TypeParts == GuardTypeOK <=> ControlType /\ StoreType
BY DEF GuardTypeOK, ControlType, StoreType, Records

LEMMA GotoType ==
    ASSUME ControlType, NEW r \in Requests,
           NEW where \in {"redis", "select", "insert", "pass", "done"}, Goto(r, where)
    PROVE  ControlType'
BY DEF ControlType, Goto

LEMMA AcquiredType ==
    ASSUME ControlType, NEW r \in Requests, NEW store \in {"redis", "postgres"}, Acquired(r, store)
    PROVE  ControlType'
BY DEF ControlType, Acquired

LEMMA RespondType ==
    ASSUME ControlType, NEW r \in Requests,
           NEW kind \in {"own", "in flight", "rejected", "error"}, Respond(r, kind, NoRec)
    PROVE  ControlType'
<1>1. [kind |-> kind, rec |-> NoRec] \in Replies
  BY ReplyShape
<1> QED
  BY <1>1 DEF ControlType, Respond

LEMMA AnsweredType ==
    ASSUME ControlType, NEW r \in Requests, NEW rec, Answered(r, rec)
    PROVE  ControlType'
<1>1. CASE Respond(r, "in flight", NoRec)
  BY <1>1, RespondType
<1>2. CASE rec \in Responses /\ Respond(r, "replay", rec)
  <2>1. [kind |-> "replay", rec |-> rec] \in Replies
    BY <1>2, ReplyShape
  <2> QED
    BY <1>2, <2>1 DEF ControlType, Respond
<1> QED
  BY <1>1, <1>2 DEF Answered

LEMMA NextTypeOK == GuardIInv /\ [GuardNext]_guardVars => GuardTypeOK'
<1> SUFFICES ASSUME GuardIInv, [GuardNext]_guardVars PROVE GuardTypeOK'
  OBVIOUS
<1>0. ControlType /\ StoreType /\ GuardTypeOK /\ Phases
  BY TypeParts DEF GuardIInv
<1> USE <1>0, ScopeKeys
<1>1. ASSUME NEW r \in Requests, Arrive(r) PROVE ControlType' /\ StoreType'
  BY <1>1, GotoType, RespondType DEF Arrive, StoreType
<1>2. ASSUME NEW r \in Requests, RedisAcquire(r) PROVE ControlType' /\ StoreType'
  <2>1. ControlType'
    BY <1>2, AcquiredType, AnsweredType DEF RedisAcquire
  <2> QED
    BY <1>2, <2>1 DEF RedisAcquire, StoreType, Records
<1>3. ASSUME NEW r \in Requests, RedisAcquireFails(r) PROVE ControlType' /\ StoreType'
  <2>1. ControlType'
    BY <1>3, GotoType DEF RedisAcquireFails
  <2> QED
    BY <1>3, <2>1 DEF RedisAcquireFails, StoreType, Records, Blame, Troubles
<1>4. ASSUME NEW r \in Requests, RedisAcquireRepeats(r) PROVE ControlType' /\ StoreType'
  <2>1. ControlType'
    BY <1>4, AnsweredType DEF RedisAcquireRepeats
  <2> QED
    BY <1>4, <2>1 DEF RedisAcquireRepeats, StoreType, Records, Blame, Troubles
<1>5. ASSUME NEW r \in Requests, PostgresSelect(r) PROVE ControlType' /\ StoreType'
  <2>1. ControlType'
    BY <1>5, GotoType, AnsweredType DEF PostgresSelect
  <2> QED
    BY <1>5, <2>1 DEF PostgresSelect, StoreType
<1>6. ASSUME NEW r \in Requests, PostgresInsert(r) PROVE ControlType' /\ StoreType'
  <2>1. ControlType'
    BY <1>6, GotoType, AcquiredType DEF PostgresInsert
  <2> QED
    BY <1>6, <2>1 DEF PostgresInsert, StoreType, Records, Blame, Troubles
<1>7. ASSUME NEW r \in Requests, PostgresAcquireFails(r) PROVE ControlType' /\ StoreType'
  <2>1. ControlType'
    BY <1>7, GotoType DEF PostgresAcquireFails
  <2> QED
    BY <1>7, <2>1 DEF PostgresAcquireFails, StoreType, Records, Blame, Troubles
<1>8. ASSUME NEW r \in Requests, PassThrough(r) PROVE ControlType' /\ StoreType'
  BY <1>8, RespondType DEF PassThrough, StoreType
<1>9. ASSUME NEW r \in Requests, Execute(r) PROVE ControlType' /\ StoreType'
  <2>1. [kind |-> "own", rec |-> NoRec] \in Replies
    BY ReplyShape
  <2> QED
    BY <1>9, <2>1 DEF Execute, ControlType, StoreType
<1>10. ASSUME NEW r \in Requests, ExecuteUnstored(r) PROVE ControlType' /\ StoreType'
  <2>1. ControlType'
    BY <1>10, RespondType DEF ExecuteUnstored
  <2> QED
    BY <1>10, <2>1 DEF ExecuteUnstored, StoreType, Blame, Troubles
<1>11. ASSUME NEW r \in Requests, RedisComplete(r) \/ RedisCompleteFails(r)
       PROVE  ControlType' /\ StoreType'
  <2>1. Outcome(r) \in Responses
    BY <1>11, Storing DEF RedisComplete, RedisCompleteFails
  <2>2. ControlType'
    BY <1>11, GotoType DEF RedisComplete, RedisCompleteFails
  <2> QED
    BY <1>11, <2>1, <2>2
       DEF RedisComplete, RedisCompleteFails, StoreType, Records, Blame, Troubles
<1>12. ASSUME NEW r \in Requests, PostgresComplete(r) \/ PostgresCompleteFails(r)
       PROVE  ControlType' /\ StoreType'
  <2>1. Outcome(r) \in Responses
    BY <1>12, Storing DEF PostgresComplete, PostgresCompleteFails
  <2>2. ControlType'
    BY <1>12 DEF PostgresComplete, PostgresCompleteFails, ControlType
  <2> QED
    BY <1>12, <2>1, <2>2
       DEF PostgresComplete, PostgresCompleteFails, StoreType, Records, Blame, Troubles
<1>13. ASSUME NEW r \in Requests, Dies(r) PROVE ControlType' /\ StoreType'
  <2>1. [kind |-> "none", rec |-> NoRec] \in Replies /\ [kind |-> "error", rec |-> NoRec] \in Replies
    BY ReplyShape
  <2> QED
    BY <1>13, <2>1 DEF Dies, ControlType, StoreType, Blame, Troubles, Goto, Respond
<1>14. ASSUME NEW s \in Scopes, RecordLapses(s) \/ DeleteExpired(s) PROVE ControlType' /\ StoreType'
  <2>1. CASE RecordLapses(s)
    BY <2>1 DEF RecordLapses, ControlType, StoreType, Records, Blame, Troubles
  <2>2. CASE DeleteExpired(s)
    BY <2>2 DEF DeleteExpired, ControlType, StoreType, Records, Blame, Troubles
  <2> QED
    BY <1>14, <2>1, <2>2
<1>15. ASSUME UNCHANGED guardVars PROVE ControlType' /\ StoreType'
  BY <1>15 DEF guardVars, ControlType, StoreType
<1>16. ControlType' /\ StoreType'
  BY <1>1, <1>2, <1>3, <1>4, <1>5, <1>6, <1>7, <1>8, <1>9, <1>10, <1>11, <1>12, <1>13,
     <1>14, <1>15 DEF GuardNext, Serve, Background
<1> QED
  BY <1>16 DEF ControlType, StoreType, Records, GuardTypeOK

\* What the lapse of a record changes.
LEMMA Lapse ==
    ASSUME GuardTypeOK, NEW s \in Scopes, RecordLapses(s) \/ DeleteExpired(s)
    PROVE  /\ UNCHANGED <<pc, holder, result, reply, pending>>
           /\ trouble'[s] = trouble[s] \cup {"lapse"}
           /\ \A q \in Scopes \ {s} : /\ cache'[q] = cache[q]
                                      /\ table'[q] = table[q]
                                      /\ trouble'[q] = trouble[q]
           /\ cache'[s] \in {cache[s], NoRec}
           /\ table'[s] \in {table[s], NoRec}
BY DEF GuardTypeOK, RecordLapses, DeleteExpired, Blame

-----------------------------------------------------------------------------
LEMMA NextPhases == GuardIInv /\ [GuardNext]_guardVars => Phases'
<1> SUFFICES ASSUME GuardIInv, [GuardNext]_guardVars PROVE Phases'
  OBVIOUS
<1>0. GuardTypeOK /\ Phases
  BY DEF GuardIInv
<1>1. ASSUME NEW r \in Requests, Step(r) PROVE Phases'
  <2>1. ASSUME NEW q \in Requests \ {r} PROVE PhasesOf(q)'
    <3>1. /\ pc'[q] = pc[q]
          /\ holder'[q] = holder[q]
          /\ result'[q] = result[q]
          /\ q \in pending' <=> q \in pending
          /\ trouble[ScopeKey(q)] \subseteq trouble'[ScopeKey(q)]
      BY <1>0, <1>1, Locality, ScopeKeys
    <3> QED
      BY <1>0, <3>1 DEF Phases, PhasesOf, Executed
  <2>2. PhasesOf(r)'
    <3> USE <1>0, ScopeKeys DEF GuardTypeOK, Phases, PhasesOf, Executed, Goto, Acquired, Respond,
                                Answered, Blame
    <3>1. CASE Arrive(r)
      BY <3>1 DEF Arrive
    <3>2. CASE RedisAcquire(r)
      BY <3>2 DEF RedisAcquire
    <3>3. CASE RedisAcquireFails(r)
      BY <3>3 DEF RedisAcquireFails
    <3>4. CASE RedisAcquireRepeats(r)
      BY <3>4 DEF RedisAcquireRepeats
    <3>5. CASE PostgresSelect(r)
      BY <3>5 DEF PostgresSelect
    <3>6. CASE PostgresInsert(r)
      BY <3>6 DEF PostgresInsert
    <3>7. CASE PostgresAcquireFails(r)
      BY <3>7 DEF PostgresAcquireFails
    <3>8. CASE PassThrough(r)
      BY <3>8 DEF PassThrough
    <3>9. CASE Execute(r)
      BY <3>9 DEF Execute
    <3>10. CASE ExecuteUnstored(r)
      BY <3>10 DEF ExecuteUnstored
    <3>11. CASE RedisComplete(r)
      BY <3>11 DEF RedisComplete
    <3>12. CASE RedisCompleteFails(r)
      BY <3>12 DEF RedisCompleteFails
    <3>13. CASE Background(r)
      BY <3>13 DEF Background, PostgresComplete, PostgresCompleteFails
    <3>14. CASE Dies(r)
      BY <3>14 DEF Dies
    <3> QED
      BY <1>1, <3>1, <3>2, <3>3, <3>4, <3>5, <3>6, <3>7, <3>8, <3>9, <3>10, <3>11, <3>12,
         <3>13, <3>14 DEF Step, Serve
  <2> QED
    BY <2>1, <2>2 DEF Phases
<1>2. ASSUME NEW s \in Scopes, RecordLapses(s) \/ DeleteExpired(s) PROVE Phases'
  <2>1. UNCHANGED <<pc, holder, result, pending>> /\ \A q \in Scopes : trouble[q] \subseteq trouble'[q]
    BY <1>0, <1>2, Lapse
  <2> QED
    BY <1>0, <2>1, ScopeKeys DEF Phases, PhasesOf, Executed
<1>3. CASE UNCHANGED guardVars
  BY <1>0, <1>3 DEF guardVars, Phases, PhasesOf, Executed
<1> QED
  BY <1>1, <1>2, <1>3 DEF GuardNext, Step

LEMMA NextRecordsTrue == GuardIInv /\ [GuardNext]_guardVars => RecordsTrue'
<1> SUFFICES ASSUME GuardIInv, [GuardNext]_guardVars PROVE RecordsTrue'
  OBVIOUS
<1>0. GuardTypeOK /\ Phases /\ RecordsTrue
  BY DEF GuardIInv
<1>1. ASSUME NEW r \in Requests, Step(r) PROVE RecordsTrue'
  \* What was true of a response stays true.
  <2>1. ASSUME NEW s \in Scopes, NEW q \in Requests, ScopeKey(q) = s, holder[q] # "none",
               result[q] # "none"
        PROVE  holder'[q] = holder[q] /\ result'[q] = result[q]
    BY <1>0, <1>1, <2>1, Locality, Stays
  <2>2. ASSUME NEW s \in Scopes, NEW rec \in Responses, True(s, rec)
        PROVE  /\ ScopeKey(rec.of) = s
               /\ holder'[rec.of] # "none"
               /\ result'[rec.of] = rec.status
    BY <2>1, <2>2 DEF True, Responses
  <2>3. \A s \in Scopes : True(s, cache[s]) /\ True(s, table[s])
    BY <1>0 DEF RecordsTrue
  \* The response that a request stores is its own.
  <2>4. ASSUME pc[r] = "complete" \/ r \in pending
        PROVE  /\ Outcome(r) \in Responses
               /\ True(ScopeKey(r), Outcome(r))
    BY <1>0, <2>4, OutcomeShape DEF True, Phases, PhasesOf
  <2>5. ASSUME NEW s \in Scopes, cache'[s] \in Responses
        PROVE  True(s, cache'[s])
    BY <1>0, <1>1, <2>3, <2>4, <2>5, Locality, CacheStep, Shape
  <2>6. ASSUME NEW s \in Scopes, table'[s] \in Responses
        PROVE  True(s, table'[s])
    BY <1>0, <1>1, <2>3, <2>4, <2>6, Locality, TableStep, Shape
  <2> QED
    BY <2>2, <2>5, <2>6 DEF RecordsTrue, True
<1>2. ASSUME NEW s \in Scopes, RecordLapses(s) \/ DeleteExpired(s) PROVE RecordsTrue'
  BY <1>0, <1>2, Lapse, Shape DEF RecordsTrue, True
<1>3. CASE UNCHANGED guardVars
  BY <1>0, <1>3 DEF guardVars, RecordsTrue, True
<1> QED
  BY <1>1, <1>2, <1>3 DEF GuardNext, Step

LEMMA NextHeld == GuardIInv /\ [GuardNext]_guardVars => Held'
<1> SUFFICES ASSUME GuardIInv, [GuardNext]_guardVars PROVE Held'
  OBVIOUS
<1>0. GuardTypeOK /\ Phases /\ Held
  BY DEF GuardIInv
<1>1. ASSUME NEW r \in Requests, Step(r) PROVE Held'
  <2>1. ASSUME NEW q \in Requests, "lapse" \notin trouble'[ScopeKey(q)]
        PROVE  /\ holder'[q] = "redis" => cache'[ScopeKey(q)] # NoRec
               /\ holder'[q] = "postgres" => table'[ScopeKey(q)] # NoRec
    <3> DEFINE s == ScopeKey(q)
    <3>1. "lapse" \notin trouble[s]
      BY <1>0, <1>1, <2>1, Locality, ScopeKeys
    <3>2. cache[s] # NoRec => cache'[s] # NoRec
      BY <1>0, <1>1, Locality, CacheStep, Storing, Shape, ScopeKeys
    <3>3. table[s] # NoRec => table'[s] # NoRec
      BY <1>0, <1>1, Locality, TableStep, Storing, Shape, ScopeKeys
    <3>4. CASE holder'[q] = holder[q]
      BY <1>0, <3>1, <3>2, <3>3, <3>4 DEF Held
    <3>5. CASE holder'[q] # holder[q]
      BY <1>0, <1>1, <3>5, Locality, HolderStep, Shape
    <3> QED
      BY <3>4, <3>5
  <2> QED
    BY <2>1 DEF Held
<1>2. ASSUME NEW s \in Scopes, RecordLapses(s) \/ DeleteExpired(s) PROVE Held'
  BY <1>0, <1>2, Lapse, ScopeKeys DEF Held
<1>3. CASE UNCHANGED guardVars
  BY <1>0, <1>3 DEF guardVars, Held
<1> QED
  BY <1>1, <1>2, <1>3 DEF GuardNext, Step

LEMMA NextStoreIsMutex == GuardIInv /\ [GuardNext]_guardVars => StoreIsMutex'
<1> SUFFICES ASSUME GuardIInv, [GuardNext]_guardVars PROVE StoreIsMutex'
  OBVIOUS
<1>0. GuardTypeOK /\ Held /\ StoreIsMutex
  BY DEF GuardIInv
<1>1. ASSUME NEW r \in Requests, Step(r) PROVE StoreIsMutex'
  \* A request that is let run finds no twin that was.
  <2>1. ASSUME NEW q \in Requests \ {r}, ScopeKey(q) = ScopeKey(r), holder'[r] # holder[r],
               holder'[q] = holder'[r]
        PROVE  "lapse" \in trouble'[ScopeKey(r)]
    BY <1>0, <1>1, <2>1, Locality, HolderStep, ScopeKeys DEF Held
  <2>2. ASSUME NEW a \in Requests, NEW b \in Requests, Twins(a, b), holder'[a] # "none",
               holder'[a] = holder'[b]
        PROVE  "lapse" \in trouble'[ScopeKey(a)]
    <3>1. a # b /\ ScopeKey(a) = ScopeKey(b)
      BY <2>2 DEF Twins
    <3>2. CASE holder'[a] = holder[a] /\ holder'[b] = holder[b]
      BY <1>0, <1>1, <2>2, <3>2, Locality, ScopeKeys DEF StoreIsMutex
    <3>3. CASE holder'[a] # holder[a]
      BY <1>0, <1>1, <2>1, <2>2, <3>1, <3>3, Locality
    <3>4. CASE holder'[b] # holder[b]
      BY <1>0, <1>1, <2>1, <2>2, <3>1, <3>4, Locality
    <3> QED
      BY <3>2, <3>3, <3>4
  <2> QED
    BY <2>2 DEF StoreIsMutex, Twins
<1>2. ASSUME NEW s \in Scopes, RecordLapses(s) \/ DeleteExpired(s) PROVE StoreIsMutex'
  BY <1>0, <1>2, Lapse, ScopeKeys DEF StoreIsMutex, Twins
<1>3. CASE UNCHANGED guardVars
  BY <1>0, <1>3 DEF guardVars, StoreIsMutex, Twins
<1> QED
  BY <1>1, <1>2, <1>3 DEF GuardNext, Step

LEMMA NextBeingProcessed == GuardIInv /\ [GuardNext]_guardVars => BeingProcessed'
<1> SUFFICES ASSUME GuardIInv, [GuardNext]_guardVars PROVE BeingProcessed'
  OBVIOUS
<1>0. GuardTypeOK /\ Phases /\ BeingProcessed
  BY DEF GuardIInv
<1>1. ASSUME NEW r \in Requests, Step(r) PROVE BeingProcessed'
  <2>1. ASSUME NEW s \in Scopes, cache'[s] = Processing, trouble'[s] = {}
        PROVE  \E q \in Requests : ScopeKey(q) = s /\ pc'[q] \in {"run", "complete"}
    <3>1. trouble[s] = {}
      BY <1>0, <1>1, <2>1, Locality
    <3>2. CASE cache[s] = Processing
      <4>1. PICK q \in Requests : ScopeKey(q) = s /\ pc[q] \in {"run", "complete"}
        BY <1>0, <3>1, <3>2 DEF BeingProcessed
      <4>2. CASE q # r
        BY <1>0, <1>1, <4>1, <4>2, Locality
      <4>3. CASE q = r
        <5>1. holder'[r] # "none"
          BY <1>0, <1>1, <4>1, <4>3, Stays DEF Phases, PhasesOf
        <5>2. pc'[r] # "done"
          <6> SUFFICES ASSUME pc'[r] = "done" PROVE FALSE
            OBVIOUS
          <6>1. pc[r] = "complete" /\ cache'[s] = Outcome(r)
            BY <1>0, <1>1, <2>1, <4>1, <4>3, <5>1, ServingStep
          <6> QED
            BY <1>0, <2>1, <6>1, Storing, Shape
        <5> QED
          BY <1>0, <1>1, <4>1, <4>3, <5>2, GoesOn
      <4> QED
        BY <4>2, <4>3
    <3>3. CASE cache[s] # Processing
      <4>1. s = ScopeKey(r)
        BY <1>0, <1>1, <2>1, <3>3, Locality
      <4>2. pc'[r] = "run"
        BY <1>0, <1>1, <2>1, <3>3, <4>1, CacheStep, Storing, Shape
      <4> QED
        BY <4>1, <4>2
    <3> QED
      BY <3>2, <3>3
  <2> QED
    BY <2>1 DEF BeingProcessed
<1>2. ASSUME NEW s \in Scopes, RecordLapses(s) \/ DeleteExpired(s) PROVE BeingProcessed'
  BY <1>0, <1>2, Lapse DEF BeingProcessed
<1>3. CASE UNCHANGED guardVars
  BY <1>0, <1>3 DEF guardVars, BeingProcessed
<1> QED
  BY <1>1, <1>2, <1>3 DEF GuardNext, Step

LEMMA NextReplayIsOwn == GuardIInv /\ [GuardNext]_guardVars => ReplayIsOwn'
<1> SUFFICES ASSUME GuardIInv, [GuardNext]_guardVars PROVE ReplayIsOwn'
  OBVIOUS
<1>0. GuardTypeOK /\ Phases /\ RecordsTrue /\ ReplayIsOwn
  BY DEF GuardIInv
<1> DEFINE Own(r, q) == /\ Twins(r, q)
                        /\ Call[q].caller = Call[r].caller
                        /\ Call[q].route = Call[r].route
                        /\ Call[q].key = Call[r].key
<1>1. ASSUME NEW r \in Requests, Step(r) PROVE ReplayIsOwn'
  <2>1. ASSUME NEW a \in Requests, reply'[a].kind = "replay"
        PROVE  /\ Own(a, reply'[a].rec.of)
               /\ holder'[reply'[a].rec.of] # "none"
               /\ result'[reply'[a].rec.of] = reply'[a].rec.status
    <3>1. CASE reply'[a] = reply[a]
      <4>1. reply[a].rec \in Responses
        BY <1>0, <2>1, <3>1 DEF GuardTypeOK, Replies
      <4>2. /\ reply[a].rec.of \in Requests
            /\ reply[a].rec.status # "none"
        BY <4>1 DEF Responses
      <4>3. /\ Own(a, reply[a].rec.of)
            /\ holder[reply[a].rec.of] # "none"
            /\ result[reply[a].rec.of] = reply[a].rec.status
        BY <1>0, <2>1, <3>1 DEF ReplayIsOwn
      <4> QED
        BY <1>0, <1>1, <3>1, <4>2, <4>3, Locality, Stays
    <3>2. CASE reply'[a] # reply[a]
      <4> DEFINE rec == reply'[a].rec
      <4>1. a = r
        BY <1>0, <1>1, <3>2, Locality
      <4>2. /\ pc[r] \in {"redis", "select"}
            /\ rec \in Responses
            /\ rec \in {cache[ScopeKey(r)], table[ScopeKey(r)]}
        BY <1>0, <1>1, <2>1, <3>2, <4>1, ReplyStep
      <4>3. /\ rec.of \in Requests
            /\ rec.status # "none"
            /\ ScopeKey(rec.of) = ScopeKey(r)
            /\ holder[rec.of] # "none"
            /\ result[rec.of] = rec.status
        BY <1>0, <4>2, ScopeKeys DEF RecordsTrue, True, Responses
      <4>4. Guarded(r) /\ Guarded(rec.of) /\ r # rec.of
        BY <1>0, <4>2, <4>3 DEF Phases, PhasesOf
      <4>5. Own(r, rec.of)
        BY <4>3, <4>4 DEF Twins, ScopeKey
      <4> QED
        BY <1>0, <1>1, <4>1, <4>3, <4>4, <4>5, Locality
    <3> QED
      BY <3>1, <3>2
  <2> QED
    BY <2>1 DEF ReplayIsOwn, Twins
<1>2. ASSUME NEW s \in Scopes, RecordLapses(s) \/ DeleteExpired(s) PROVE ReplayIsOwn'
  BY <1>0, <1>2, Lapse DEF ReplayIsOwn, Twins
<1>3. CASE UNCHANGED guardVars
  BY <1>0, <1>3 DEF guardVars, ReplayIsOwn, Twins
<1> QED
  BY <1>1, <1>2, <1>3 DEF GuardNext, Step

LEMMA NextAnswerIsKept == GuardIInv /\ [GuardNext]_guardVars => AnswerIsKept'
<1> SUFFICES ASSUME GuardIInv, [GuardNext]_guardVars PROVE AnswerIsKept'
  OBVIOUS
<1>0. GuardTypeOK /\ Phases /\ StoreIsMutex /\ AnswerIsKept
  BY DEF GuardIInv
<1>1. ASSUME NEW r \in Requests, Step(r) PROVE AnswerIsKept'
  <2>1. ASSUME NEW a \in Requests, holder'[a] # "none", pc'[a] = "done",
               trouble'[ScopeKey(a)] = {}
        PROVE  cache'[ScopeKey(a)] = [status |-> result'[a], of |-> a]
    <3> DEFINE s == ScopeKey(a)
    <3>1. trouble[s] = {}
      BY <1>0, <1>1, <2>1, Locality, ScopeKeys
    <3>2. CASE a = r /\ pc[r] # "done"
      BY <1>0, <1>1, <2>1, <3>2, ServingStep DEF Outcome
    <3>3. CASE a # r \/ pc[r] = "done"
      <4>1. pc[a] = "done" /\ holder[a] = holder'[a] /\ result[a] = result'[a]
        <5>1. CASE a # r
          BY <1>0, <1>1, <2>1, <5>1, Locality
        <5>2. CASE a = r /\ pc[r] = "done"
          BY <1>0, <1>1, <5>2, DoneStays
        <5> QED
          BY <3>3, <5>1, <5>2
      <4>2. cache[s] = Outcome(a)
        BY <1>0, <2>1, <3>1, <4>1 DEF AnswerIsKept
      <4>3. cache[s] # NoRec
        BY <4>2, IdempotencyAssumption DEF Outcome, NoRec
      <4>4. ASSUME s = ScopeKey(r), pc[r] = "complete" PROVE FALSE
        \* Two twins that Redis let run, though nothing lapsed.
        <5>1. Twins(a, r)
          BY <1>0, <2>1, <4>1, <4>4 DEF Twins, Phases, PhasesOf
        <5>2. holder[a] = "redis" /\ holder[r] = "redis"
          BY <1>0, <2>1, <3>1, <4>1, <4>4 DEF GuardTypeOK, Phases, PhasesOf
        <5> QED
          BY <1>0, <3>1, <5>1, <5>2 DEF StoreIsMutex
      <4>5. cache'[s] = cache[s]
        BY <1>0, <1>1, <4>3, <4>4, Locality, CacheStep, ScopeKeys
      <4> QED
        BY <4>1, <4>2, <4>5 DEF Outcome
    <3> QED
      BY <3>2, <3>3
  <2> QED
    BY <2>1 DEF AnswerIsKept, Outcome
<1>2. ASSUME NEW s \in Scopes, RecordLapses(s) \/ DeleteExpired(s) PROVE AnswerIsKept'
  <2>1. ASSUME NEW a \in Requests, trouble'[ScopeKey(a)] = {}
        PROVE  ScopeKey(a) # s
    BY <1>0, <1>2, <2>1, Lapse
  <2> QED
    BY <1>0, <1>2, <2>1, Lapse, ScopeKeys DEF AnswerIsKept, Outcome
<1>3. CASE UNCHANGED guardVars
  BY <1>0, <1>3 DEF guardVars, AnswerIsKept, Outcome
<1> QED
  BY <1>1, <1>2, <1>3 DEF GuardNext, Step

-----------------------------------------------------------------------------
\* IInv is an invariant of the middleware and its stores.
THEOREM Invariant == GuardSpec => []GuardIInv
<1>1. GuardIInv /\ [GuardNext]_guardVars => GuardIInv'
  BY NextTypeOK, NextPhases, NextRecordsTrue, NextHeld, NextStoreIsMutex,
     NextBeingProcessed, NextReplayIsOwn, NextAnswerIsKept DEF GuardIInv
<1> QED
  BY GuardInitIInv, <1>1, PTL DEF GuardSpec

\* Every variable keeps its type; in particular a store never holds the half-written
\* response of a handler that panicked.
THEOREM GuardTypeCorrect == GuardSpec => []GuardTypeOK
<1>1. GuardIInv => GuardTypeOK
  BY DEF GuardIInv
<1> QED
  BY <1>1, Invariant, PTL

\* Each store by itself is a mutex: the script of RedisStore.Acquire and the index of
\* PostgresStore.Acquire let one request of a scope run until a record lapses.
THEOREM StoresAreMutexes == GuardSpec => []StoreIsMutex
<1>1. GuardIInv => StoreIsMutex
  BY DEF GuardIInv
<1> QED
  BY <1>1, Invariant, PTL

\* While Redis answers and keeps its records, the handler runs once per scope.
THEOREM Once == GuardSpec => []ExecutedOnce
<1>1. GuardIInv => ExecutedOnce
  <2> SUFFICES ASSUME GuardIInv, NEW r \in Requests, NEW q \in Requests, Twins(r, q),
                      Executed(r), Executed(q)
               PROVE  trouble[ScopeKey(r)] \cap {"redis", "lapse"} # {}
    BY DEF ExecutedOnce
  <2>1. CASE "redis" \in trouble[ScopeKey(r)]
    BY <2>1
  <2>2. CASE "redis" \notin trouble[ScopeKey(r)]
    <3>1. holder[r] = "redis" /\ holder[q] = "redis"
      BY <2>2 DEF GuardIInv, GuardTypeOK, Phases, PhasesOf, Twins
    <3> QED
      BY <3>1 DEF GuardIInv, StoreIsMutex
  <2> QED
    BY <2>1, <2>2
<1> QED
  BY <1>1, Invariant, PTL

\* A replayed response belongs to the caller, route and key it is replayed for.
THEOREM OwnReplays == GuardSpec => []ReplayIsOwn
<1>1. GuardIInv => ReplayIsOwn
  BY DEF GuardIInv
<1> QED
  BY <1>1, Invariant, PTL

\* A retry will get the answer that was given, if nothing went wrong around its scope.
THEOREM KeptAnswers == GuardSpec => []AnswerIsKept
<1>1. GuardIInv => AnswerIsKept
  BY DEF GuardIInv
<1> QED
  BY <1>1, Invariant, PTL

\* A request is refused as in flight only while a twin of it is, or after a trouble.
THEOREM TrueRefusals == GuardSpec => InFlightIsTrue
<1> DEFINE Refusal(r) ==
      reply'[r].kind = "in flight" /\ reply[r].kind # "in flight" =>
          \/ trouble'[ScopeKey(r)] # {}
          \/ \E q \in Requests : Twins(r, q) /\ pc[q] \in {"run", "complete"}
<1>1. GuardIInv /\ [GuardNext]_guardVars => [\A r \in Requests : Refusal(r)]_guardVars
  <2> SUFFICES ASSUME GuardIInv, [GuardNext]_guardVars, NEW r \in Requests,
                      reply'[r].kind = "in flight", reply[r].kind # "in flight",
                      trouble'[ScopeKey(r)] = {}
               PROVE  \E q \in Requests : Twins(r, q) /\ pc[q] \in {"run", "complete"}
    OBVIOUS
  <2>0. GuardTypeOK /\ Phases /\ BeingProcessed
    BY DEF GuardIInv
  <2>1. ASSUME NEW s \in Scopes, RecordLapses(s) \/ DeleteExpired(s) PROVE FALSE
    BY <2>0, <2>1, Lapse
  <2>2. PICK a \in Requests : Step(a)
    BY <2>1 DEF GuardNext, Step, guardVars
  <2>3. a = r
    BY <2>0, <2>2, Locality
  <2>4. trouble[ScopeKey(r)] = {}
    BY <2>0, <2>2, Locality, ScopeKeys
  <2>5. pc[r] = "redis" /\ cache[ScopeKey(r)] = Processing
    BY <2>0, <2>2, <2>3, <2>4, ReplyStep DEF Phases, PhasesOf
  <2>6. PICK q \in Requests : ScopeKey(q) = ScopeKey(r) /\ pc[q] \in {"run", "complete"}
    BY <2>0, <2>4, <2>5, ScopeKeys DEF BeingProcessed
  <2>7. Twins(r, q)
    BY <2>0, <2>5, <2>6 DEF Twins, Phases, PhasesOf
  <2> QED
    BY <2>6, <2>7
<1> QED
  BY <1>1, Invariant, PTL DEF GuardSpec, InFlightIsTrue
=============================================================================
