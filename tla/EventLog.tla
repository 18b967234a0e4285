------------------------------ MODULE EventLog ------------------------------
(***************************************************************************)
(* The progress events that an agent reports about one operation.          *)
(* ingest_events compares a batch with a read view of the event table and  *)
(* of the operation's last_event_sequence; append_events then locks the    *)
(* operation's row and stores the part of the batch that the view did not  *)
(* have.  Agents send a batch again when its answer was lost, extend it,   *)
(* and may serve it to several workers at once, so that batches overlap.   *)
(*                                                                         *)
(* The events of an answered batch are gone from the agent's own queue:    *)
(* told is what the Controller has taken responsibility for.               *)
(*                                                                         *)
(* A body stands for attempt, step, kind, details and created_at, that is  *)
(* for the body hash.  A batch is a function from its sequence numbers:    *)
(* one whose sequences are not strictly ascending is refused unread.       *)
(*                                                                         *)
(* Operators named Faulty... are wrong on purpose: each is the operator    *)
(* after it with a plausible bug, for showing that a property notices.     *)
(***************************************************************************)
EXTENDS Controller, Naturals, Sequences, FiniteSets

CONSTANTS
    Bodies,
    MaxSequence   \* bound: the highest sequence number an agent sends

ASSUME EventAssumption == MaxSequence \in Nat \ {0}

Event == [sequence: 1..MaxSequence, body: Bodies]
Batch == UNION {[S -> Bodies] : S \in SUBSET (1..MaxSequence) \ {{}}}

\* What a request reads: the rows of Operation Event, and the cursor.
Table == [rows: Seq(Event), cursor: Nat]

VARIABLES
    table,    \* the rows in the order of their insertion, and last_event_sequence
    batches,  \* the batch each worker serves with its read view, as a set
              \* that is empty when there is none
    told      \* the events that answered batches were made of

eventVars == <<table, batches, told>>

Events(batch) == {[sequence |-> s, body |-> batch[s]] : s \in DOMAIN batch}
Rows(tab) == {tab.rows[i] : i \in DOMAIN tab.rows}

EventsInit ==
    /\ table = [rows |-> <<>>, cursor |-> 0]
    /\ batches = [w \in Workers |-> {}]
    /\ told = {}

(***************************************************************************)
(* ingest_events: what a batch adds to a view of the table.                *)
(***************************************************************************)
Known(view, batch) == {s \in DOMAIN batch : \E e \in Rows(view) : e.sequence = s}
Pending(view, batch) == DOMAIN batch \ Known(view, batch)

\* Every event the table has must be the same and not beyond the cursor; the
\* others must follow the cursor without a gap.
Fits(view, batch) ==
    /\ \A s \in Known(view, batch) :
          s <= view.cursor /\ [sequence |-> s, body |-> batch[s]] \in Rows(view)
    /\ Pending(view, batch) = view.cursor + 1 .. view.cursor + Cardinality(Pending(view, batch))

\* An agent sends a batch about its operation: ingest_events takes the view.
Read(w, batch) ==
    /\ batches[w] = {}
    /\ Fits(table, batch)
    /\ batches' = [batches EXCEPT ![w] = {[batch |-> batch, view |-> table]}]
    /\ UNCHANGED <<table, told>>

\* The request ends, answered with a cursor that covers its batch.
Answer(w, batch) ==
    /\ batches' = [batches EXCEPT ![w] = {}]
    /\ told' = told \cup Events(batch)

\* Nothing is pending: no lock is taken.
AnswerKnown(w) ==
    \E r \in batches[w] :
        /\ Pending(r.view, r.batch) = {}
        /\ Answer(w, r.batch)
        /\ UNCHANGED table

\* append_events, when the locked row still has the view's cursor: the pending
\* events are inserted in order, each moving the cursor (OperationEvent).
FaultyCurrent(view) == TRUE
Current(view) == table.cursor = view.cursor

FaultyAddition(view, batch) ==
    [i \in 1..Cardinality(Pending(view, batch)) |->
        [sequence |-> view.cursor + i - 1, body |-> batch[view.cursor + i]]]
Addition(view, batch) ==
    [i \in 1..Cardinality(Pending(view, batch)) |->
        [sequence |-> view.cursor + i, body |-> batch[view.cursor + i]]]

AppendEvents(w) ==
    \E r \in batches[w] :
        /\ Pending(r.view, r.batch) # {}
        /\ Current(r.view)
        /\ table' = [rows |-> table.rows \o Addition(r.view, r.batch),
                     cursor |-> r.view.cursor + Cardinality(Pending(r.view, r.batch))]
        /\ Answer(w, r.batch)

\* append_events, when another request has moved the cursor: to exactly the end
\* of this batch, with the same events, or it is a conflict.
FaultyReplayed(view, batch) ==
    table.cursor = view.cursor + Cardinality(Pending(view, batch))
Replayed(view, batch) ==
    /\ table.cursor = view.cursor + Cardinality(Pending(view, batch))
    /\ \A s \in Pending(view, batch) : [sequence |-> s, body |-> batch[s]] \in Rows(table)

AnswerReplay(w) ==
    \E r \in batches[w] :
        /\ ~ SnapshotIsolation
        /\ Pending(r.view, r.batch) # {}
        /\ ~ Current(r.view)
        /\ Replayed(r.view, r.batch)
        /\ Answer(w, r.batch)
        /\ UNCHANGED table

\* Any request may fail: a conflict, a deadlock, a worker that dies.
DropBatch(w) ==
    /\ batches[w] # {}
    /\ batches' = [batches EXCEPT ![w] = {}]
    /\ UNCHANGED <<table, told>>

EventsStep(w) == AnswerKnown(w) \/ AppendEvents(w) \/ AnswerReplay(w) \/ DropBatch(w)

EventsNext ==
    \E w \in Workers : EventsStep(w) \/ \E batch \in Batch : Read(w, batch)

EventsSpec == EventsInit /\ [][EventsNext]_eventVars

-----------------------------------------------------------------------------
EventsTypeOK ==
    /\ table \in Table
    /\ batches \in [Workers -> SUBSET [batch: Batch, view: Table]]
    /\ told \subseteq Event

\* The history of an operation has every event once, in order, and the cursor
\* that the next batch is compared with is its end, whichever workers append
\* overlapping batches at the same time (append_events, frappe_repository.py:314).
Gapless ==
    /\ Len(table.rows) = table.cursor
    /\ \A i \in DOMAIN table.rows : table.rows[i].sequence = i

\* An answered batch is in the history as it was sent: an agent that forgets
\* what was answered loses nothing, even when the answer came from recognising
\* a replay (ingestion.py:96 and frappe_repository.py:327).
AnsweredIsStored == told \subseteq Rows(table)
=============================================================================
