---------------------------- MODULE CustomerSites ----------------------------
(***************************************************************************)
(* Sites that are created for customers.  create_production_site authors   *)
(* an operation and links it to the Customer; the agent executes it, sends *)
(* its result and hands over the credential, and reports the new site in a *)
(* heartbeat; every minute reconcile_customer_sites links the customers    *)
(* whose operation has succeeded to the site that the inventory shows.     *)
(* retry_operation gives a failed creation a successor, which takes over   *)
(* the Customer's link.                                                    *)
(*                                                                         *)
(* The execution of an operation belongs to OperationLifecycle; here it is *)
(* open until it succeeds, which takes the handover of the credential, or  *)
(* ends without success.  Creations that succeeded before releases with    *)
(* evidence of the handover have none, and stay unlinked for good.         *)
(*                                                                         *)
(* A request reads a view before it locks the customer; saving a Customer  *)
(* that changed since fails (check_if_latest, and a stale row with         *)
(* SnapshotIsolation): a request is two actions.  So is the job, which     *)
(* sets its cursor in the cache before its transaction commits.            *)
(*                                                                         *)
(* Operators named Faulty... are wrong on purpose: each is the operator    *)
(* after it with a plausible bug, for showing that a property notices.     *)
(***************************************************************************)
EXTENDS Inventory, Sequences, FiniteSetsExt

CONSTANTS
    Customers,      \* numbered in the order of their names
    Historic,       \* old creations in their order: the customer and the domain
    BatchSize,      \* customers that a run of the job looks at
    MaxAsks,        \* bound on submissions and retries
    MaxFaults,      \* bound on lost cursors and failed runs of the job
    MaxMoves,       \* bound on changes of the hosts by others
    MaxReports      \* bound on the heartbeats

ASSUME CustomerAssumption ==
    /\ Customers \subseteq Nat \ {0}
    /\ IsFiniteSet(Customers)
    /\ Historic \in Seq([customer: Customers, domain: Sites])
    /\ \A i \in DOMAIN Historic :
          /\ \E a \in Agents : Historic[i].domain \in SitesIn(Installed[a])
          /\ \A j \in DOMAIN Historic : Historic[i].customer = Historic[j].customer => i = j
    /\ BatchSize \in Nat \ {0}
    /\ {MaxAsks, MaxFaults, MaxMoves, MaxReports} \subseteq Nat

\* A Controller Operation of type site.create_blank.  made (has its agent created
\* the site?) and for (the customer it was authored for) are history.
Operation == [state: {"open", "unsuccessful", "succeeded"}, agent: Agents,
              bench: Benches, domain: Sites, retry_of: Nat, handover: BOOLEAN,
              made: BOOLEAN, for: Customers]
Customer == [operation: Nat, site: Sites \cup {None}]
Request == [kind: {"create"}, customer: Customers, agent: Agents, bench: Benches,
            domain: Sites]
               \cup [kind: {"retry"}, original: Nat]
Run == [cursor: Nat, ready: SUBSET Customers]

VARIABLES
    operations,  \* in the order of their creation; their place is their name
    customers,   \* the links of each Customer; operation 0 is null
    requests,    \* what each worker has read and is about to commit, as a set
    job,         \* the run of reconcile_customer_sites, as a set
    cursor,      \* the cursor in the cache; 0 is none
    hosts,       \* what is installed at each agent, as a snapshot
    visitors,    \* the customers for whom a site is asked
    asks,        \* submissions and retries that are still to come
    faults,      \* lost cursors and failed runs that are still to come
    moves,       \* changes of the hosts that are still to come
    reports      \* heartbeats that are still to come

records == <<operations, customers, requests, job, cursor, hosts>>
scene == <<visitors, asks, faults, moves, reports>>
vars == <<inventoryVars, records, scene>>

Unlinked == [operation |-> 0, site |-> None]

\* The historic creations have succeeded; their customers have no site yet.
Init ==
    LET AtOf(d) == CHOOSE a \in Agents : d \in SitesIn(Installed[a])
    IN  /\ InventoryInit
        /\ operations = [i \in DOMAIN Historic |->
               LET d == Historic[i].domain
               IN  [state |-> "succeeded", agent |-> AtOf(d),
                    bench |-> BenchOf(Installed[AtOf(d)], d), domain |-> d,
                    retry_of |-> 0, handover |-> FALSE, made |-> TRUE,
                    for |-> Historic[i].customer]]
        /\ customers = [c \in Customers |->
               IF \E i \in DOMAIN Historic : Historic[i].customer = c
               THEN [operation |-> CHOOSE i \in DOMAIN Historic : Historic[i].customer = c,
                     site |-> None]
               ELSE Unlinked]
        /\ requests = [w \in Workers |-> {}]
        /\ job = {}
        /\ cursor = 0
        /\ hosts = Installed
        /\ visitors \in SUBSET Customers
        /\ asks \in 0..MaxAsks
        /\ faults \in 0..MaxFaults
        /\ moves \in 0..MaxMoves
        /\ reports \in 0..MaxReports

(***************************************************************************)
(* Requests.                                                               *)
(***************************************************************************)
Idle(w) == requests[w] = {} /\ heartbeats[w] = {}
Begin(w, r) ==
    /\ asks > 0 /\ asks' = asks - 1
    /\ requests' = [requests EXCEPT ![w] = {r}]
End(w) == requests' = [requests EXCEPT ![w] = {}]

\* check_creation_readiness, as far as it is about the inventory.
Ready(a, b, d) == benches[b] = HeldBench(a) /\ sites[d].owner = None

\* create_production_site up to the authoring.  A customer with a link gets the
\* operation that there is, or is refused: nothing changes.
OpenCreate(w, c, a, b, d) ==
    /\ Idle(w)
    /\ customers[c] = Unlinked
    /\ Ready(a, b, d)
    /\ Begin(w, [kind |-> "create", customer |-> c, agent |-> a, bench |-> b, domain |-> d])
    /\ UNCHANGED <<operations, customers, job, cursor, hosts, visitors, faults,
                   moves, reports>>

Author(a, b, d, original, c) ==
    operations' = Append(operations,
        [state |-> "open", agent |-> a, bench |-> b, domain |-> d,
         retry_of |-> original, handover |-> FALSE, made |-> FALSE, for |-> c])

\* The save of the Customer finds it as it was read.
Unchanged(c) == customers[c] = Unlinked

CommitCreate(w) ==
    \E r \in requests[w] :
        /\ r.kind = "create"
        /\ Unchanged(r.customer)
        /\ Author(r.agent, r.bench, r.domain, 0, r.customer)
        /\ customers' = [customers EXCEPT ![r.customer].operation = Len(operations) + 1]
        /\ End(w)
        /\ UNCHANGED <<job, cursor, hosts, scene>>

\* retry_operation up to the locks.
OpenRetry(w, o) ==
    /\ Idle(w)
    /\ operations[o].state = "unsuccessful"
    /\ Ready(operations[o].agent, operations[o].bench, operations[o].domain)
    /\ Begin(w, [kind |-> "retry", original |-> o])
    /\ UNCHANGED <<operations, customers, job, cursor, hosts, visitors, faults,
                   moves, reports>>

\* The retry that the locking read finds; its answer is that operation.
FaultyRetried(o) == FALSE
Retried(o) == \E p \in DOMAIN operations : operations[p].retry_of = o

CommitRetry(w) ==
    \E r \in requests[w] :
        /\ r.kind = "retry"
        /\ ~ Retried(r.original)
        /\ LET o == operations[r.original]
           IN  Author(o.agent, o.bench, o.domain, r.original, o.for)
        /\ customers' = [c \in Customers |->
               IF customers[c].operation = r.original
               THEN [customers[c] EXCEPT !.operation = Len(operations) + 1]
               ELSE customers[c]]
        /\ End(w)
        /\ UNCHANGED <<job, cursor, hosts, scene>>

\* The request fails, or finds the operation that there already is.
DropRequest(w) ==
    /\ requests[w] # {}
    /\ End(w)
    /\ UNCHANGED <<operations, customers, job, cursor, hosts, scene>>

(***************************************************************************)
(* The agents: the site is created at most once on its bench; the result   *)
(* and the heartbeat with the new site come in either order.               *)
(***************************************************************************)
CreateSite(o) ==
    LET op == operations[o]
        here == hosts[op.agent]
    IN  /\ op.state = "open" /\ ~ op.made
        /\ op.bench \in DOMAIN here
        /\ op.domain \notin SitesIn(here)
        /\ hosts' = [hosts EXCEPT ![op.agent][op.bench] = @ \cup {op.domain}]
        /\ operations' = [operations EXCEPT ![o].made = TRUE]
        /\ UNCHANGED <<customers, requests, job, cursor, scene>>

Report(o) ==
    /\ operations[o].state = "open"
    /\ operations' \in {[operations EXCEPT ![o].state = "unsuccessful"]} \cup
           (IF operations[o].made
            THEN {[operations EXCEPT ![o].state = "succeeded", ![o].handover = TRUE]}
            ELSE {})
    /\ UNCHANGED <<customers, requests, job, cursor, hosts, scene>>

\* Somebody adds a bench or removes a bench or a site, past the Controller.
Move(a) ==
    /\ moves > 0
    /\ moves' = moves - 1
    /\ \/ \E b \in DOMAIN hosts[a] :
             \/ hosts' = [hosts EXCEPT ![a] = [c \in DOMAIN @ \ {b} |-> @[c]]]
             \/ \E d \in hosts[a][b] : hosts' = [hosts EXCEPT ![a][b] = @ \ {d}]
       \/ \E b \in Benches \ DOMAIN hosts[a] :
             hosts' = [hosts EXCEPT ![a] =
                 [c \in DOMAIN @ \cup {b} |-> IF c = b THEN {} ELSE @[c]]]
    /\ UNCHANGED <<operations, customers, requests, job, cursor, visitors, asks, faults, reports>>

(***************************************************************************)
(* reconcile_customer_sites.  All that it reads is one view; a candidate's *)
(* row does not change until it is linked, because no one else links, and  *)
(* only the operation of an unsuccessful creation is replaced.             *)
(***************************************************************************)
Eligible(c) ==
    \E o \in DOMAIN operations :
        /\ customers[c] = [operation |-> o, site |-> None]
        /\ operations[o].state = "succeeded"
        /\ sites[operations[o].domain] = HeldSite(operations[o].agent, operations[o].bench)

Handed(c) == operations[customers[c].operation].handover

Candidates == {c \in Customers : c > cursor /\ Eligible(c)}
Batch == {c \in Candidates : Cardinality({d \in Candidates : d <= c}) <= BatchSize}

\* The cursor that a run leaves: at the last of a full batch, or at the start.
FaultyNextCursor == Max(Batch \cup {cursor})
NextCursor == IF Cardinality(Batch) = BatchSize THEN Max(Batch) ELSE 0

FaultyReadyOnes == Batch
ReadyOnes == {c \in Batch : Handed(c)}

OpenRun ==
    /\ job = {}
    /\ job' = {[cursor |-> NextCursor, ready |-> ReadyOnes]}
    /\ UNCHANGED <<operations, customers, requests, cursor, hosts, scene>>

FinishRun ==
    \E run \in job :
        /\ customers' = [c \in Customers |->
               IF c \in run.ready
               THEN [customers[c] EXCEPT !.site = operations[customers[c].operation].domain]
               ELSE customers[c]]
        /\ cursor' = run.cursor
        /\ job' = {}
        /\ UNCHANGED <<operations, requests, hosts, scene>>

\* A customer cannot be locked or saved, or the commit fails: nothing is linked,
\* and the cursor has moved only in the second case.
FailRun ==
    \E run \in job :
        /\ faults > 0
        /\ faults' = faults - 1
        /\ cursor' \in {cursor, run.cursor}
        /\ job' = {}
        /\ UNCHANGED <<operations, customers, requests, hosts, visitors, asks, moves, reports>>

LoseCursor ==
    /\ cursor # 0
    /\ faults > 0
    /\ faults' = faults - 1
    /\ cursor' = 0
    /\ UNCHANGED <<operations, customers, requests, job, hosts, visitors, asks, moves, reports>>

-----------------------------------------------------------------------------
Serve ==
    \E w \in Workers :
        \/ \E c \in visitors, a \in Agents, b \in Benches, d \in Sites :
              OpenCreate(w, c, a, b, d)
        \/ \E o \in DOMAIN operations : OpenRetry(w, o)
        \/ CommitCreate(w) \/ CommitRetry(w) \/ DropRequest(w)

Next ==
    \/ /\ \/ Serve
          \/ \E o \in DOMAIN operations : CreateSite(o) \/ Report(o)
          \/ \E a \in Agents : Move(a)
          \/ OpenRun \/ FinishRun \/ FailRun \/ LoseCursor
       /\ UNCHANGED inventoryVars
    \/ \E w \in Workers, a \in Agents :
          /\ reports > 0 /\ reports' = reports - 1
          /\ requests[w] = {}
          /\ Reconcile(w, a, hosts[a])
          /\ UNCHANGED <<records, visitors, asks, faults, moves>>
    \/ \E w \in Workers : InventoryStep(w) /\ UNCHANGED <<records, scene>>

Spec == Init /\ [][Next]_vars

\* The scheduler starts the job every minute, and a worker finishes it.
Fairness ==
    /\ WF_vars(OpenRun /\ UNCHANGED inventoryVars)
    /\ WF_vars(FinishRun /\ UNCHANGED inventoryVars)

FairSpec == Spec /\ Fairness

-----------------------------------------------------------------------------
TypeOK ==
    /\ InventoryTypeOK
    /\ operations \in Seq(Operation)
    /\ customers \in [Customers -> Customer]
    /\ requests \in [Workers -> SUBSET Request]
    /\ job \subseteq Run
    /\ cursor \in Customers \cup {0}
    /\ hosts \in [Agents -> Snapshot]
    /\ visitors \subseteq Customers
    /\ asks \in 0..MaxAsks
    /\ faults \in 0..MaxFaults
    /\ moves \in 0..MaxMoves
    /\ reports \in 0..MaxReports

\* However submissions and retries overlap, the creations for a customer never
\* run beside each other, nor is one tried again that has succeeded: all but one
\* of them have ended without success, and that one has the customer's link
\* ("Preserve that order to avoid deadlocks and retain one tracked creation
\* lineage per Customer", api/operations.py:174).
OneCreation ==
    \A o \in DOMAIN operations :
        operations[o].state # "unsuccessful" =>
            customers[operations[o].for].operation = o

\* A customer is linked only to the site that its own creation made: that has
\* succeeded, its credential is handed over, and the row is still the one of the
\* agent and bench that the operation was for, whatever was reported since.
LinkIsTrue ==
    \A c \in Customers :
        customers[c].site # None =>
            \E o \in DOMAIN operations :
                /\ o = customers[c].operation
                /\ operations[o].for = c /\ operations[o].made /\ operations[o].handover
                /\ operations[o].state = "succeeded"
                /\ customers[c].site = operations[o].domain
                /\ sites[customers[c].site].owner = operations[o].agent
                /\ sites[customers[c].site].bench = operations[o].bench

\* No customer waits for ever behind others that are never linked, wherever the
\* cursor stands, and although it may be lost and runs may fail
\* (reconcile_customer_sites, api/customer_sites.py:101).
Waiting(c) == Eligible(c) /\ Handed(c)
EligibleIsLinked == \A c \in Customers : Waiting(c) ~> ~ Waiting(c)
=============================================================================
