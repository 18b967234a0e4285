----------------------------- MODULE Inventory -----------------------------
(***************************************************************************)
(* The benches and sites that agents report in their heartbeats.  A        *)
(* heartbeat carries the agent's whole inventory.  reconcile compares it   *)
(* with a read view: nothing in it may belong to another agent, and no     *)
(* site to another bench.  replace_inventory then locks the agent's row,   *)
(* goes on only if its inventory is still the view's, and writes a Bench   *)
(* or Managed Site row for everything reported and marks what has gone.    *)
(* A heartbeat is therefore two actions.  It locks only the agent's own    *)
(* row: two agents may claim one bench or domain at the same time.         *)
(*                                                                         *)
(* A snapshot is a function from the benches of an agent to their sites.   *)
(* It stands for its digest, which is a hash of it.  "active" stands for   *)
(* active and maintenance; names of rows are the bench ids and domains.    *)
(*                                                                         *)
(* Operators named Faulty... are wrong on purpose: each is the operator    *)
(* after it with a plausible bug, for showing that a property notices.     *)
(***************************************************************************)
EXTENDS Controller, Naturals, FiniteSets

CONSTANTS
    Agents,
    Benches,
    Sites,        \* domains
    Installed,    \* the snapshot of each agent at the start
    None

\* parse_heartbeat_state: no domain is on two benches of a snapshot.
Snapshot ==
    {s \in UNION {[B -> SUBSET Sites] : B \in SUBSET Benches} :
        \A b, c \in DOMAIN s : b # c => s[b] \cap s[c] = {}}

SitesIn(s) == UNION {s[b] : b \in DOMAIN s}

ASSUME InventoryAssumption ==
    /\ None \notin Agents \cup Benches
    /\ Benches \cap Sites = {}
    /\ Installed \in [Agents -> Snapshot]
    /\ \A a, b \in Agents : a # b =>
          /\ DOMAIN Installed[a] \cap DOMAIN Installed[b] = {}
          /\ SitesIn(Installed[a]) \cap SitesIn(Installed[b]) = {}

Server == [snapshot: Snapshot, revision: Nat]
Heartbeat == [agent: Agents, report: Snapshot, previous: Server,
              known: SUBSET (Benches \cup Sites)]

VARIABLES
    benches,    \* Bench rows; one without an owner does not exist
    sites,      \* Managed Site rows
    servers,    \* the inventory columns of the Server Agent rows
    heartbeats  \* what each worker reconciles, as a set: the report, and of
                \* the read view the agent's inventory and the rows there were

inventory == <<benches, sites, servers>>
inventoryVars == <<inventory, heartbeats>>

BenchOf(s, d) == CHOOSE b \in DOMAIN s : d \in s[b]

NoBench == [owner |-> None, enabled |-> FALSE]
HeldBench(a) == [owner |-> a, enabled |-> TRUE]
NoSite == [owner |-> None, bench |-> None, status |-> "absent"]
HeldSite(a, b) == [owner |-> a, bench |-> b, status |-> "active"]

BenchRow == {NoBench} \cup [owner: Agents, enabled: BOOLEAN]
SiteRow == {NoSite} \cup [owner: Agents, bench: Benches, status: {"active", "missing"}]

\* Everything installed has been reported once.
InventoryInit ==
    LET On(b) == {a \in Agents : b \in DOMAIN Installed[a]}
        At(d) == {a \in Agents : d \in SitesIn(Installed[a])}
    IN  /\ servers = [a \in Agents |-> [snapshot |-> Installed[a], revision |-> 0]]
        /\ benches = [b \in Benches |->
               IF On(b) = {} THEN NoBench ELSE HeldBench(CHOOSE a \in On(b) : TRUE)]
        /\ sites = [d \in Sites |->
               IF At(d) = {} THEN NoSite
               ELSE LET a == CHOOSE a \in At(d) : TRUE
                    IN  HeldSite(a, BenchOf(Installed[a], d))]
        /\ heartbeats = [w \in Workers |-> {}]

Rows == {b \in Benches : benches[b].owner # None} \cup {d \in Sites : sites[d].owner # None}

\* Nothing that a reports belongs to another agent, and no site to another bench.
Claimable(a, report) ==
    \A b \in DOMAIN report :
        /\ benches[b].owner \in {None, a}
        /\ \A d \in report[b] :
              sites[d].owner = None \/ (sites[d].owner = a /\ sites[d].bench = b)

Reconcile(w, a, report) ==
    /\ heartbeats[w] = {}
    /\ Claimable(a, report)
    /\ heartbeats' = [heartbeats EXCEPT ![w] =
           {[agent |-> a, report |-> report, previous |-> servers[a], known |-> Rows]}]
    /\ UNCHANGED inventory

\* The locked row of the agent still has the digest and revision of the view.
FaultyCurrent(h) == SnapshotIsolation => servers[h.agent] = h.previous
Current(h) == servers[h.agent] = h.previous

\* A row that the view does not have is inserted, which fails if there is one.
FaultyInsertable(h) ==
    SnapshotIsolation => Rows \cap (DOMAIN h.report \cup SitesIn(h.report)) \subseteq h.known
Insertable(h) == Rows \cap (DOMAIN h.report \cup SitesIn(h.report)) \subseteq h.known

\* The sites that the agent had and does not report any more.
FaultyGone(h) == Sites \ SitesIn(h.report)
Gone(h) == SitesIn(h.previous.snapshot) \ SitesIn(h.report)

Replaced(h) ==
    /\ benches' = [b \in Benches |->
           CASE b \in DOMAIN h.report -> HeldBench(h.agent)
             [] b \in DOMAIN h.previous.snapshot \ DOMAIN h.report ->
                    [benches[b] EXCEPT !.enabled = FALSE]
             [] OTHER -> benches[b]]
    /\ sites' = [d \in Sites |->
           CASE d \in SitesIn(h.report) ->
                    HeldSite(h.agent, BenchOf(h.report, d))
             [] d \in Gone(h) -> [sites[d] EXCEPT !.status = "missing"]
             [] OTHER -> sites[d]]

ReplaceInventory(w) ==
    \E h \in heartbeats[w] :
        /\ Current(h)
        /\ Insertable(h)
        /\ Replaced(h)
        /\ servers' = [servers EXCEPT ![h.agent] =
               [snapshot |-> h.report, revision |-> h.previous.revision + 1]]
        /\ heartbeats' = [heartbeats EXCEPT ![w] = {}]

\* A conflict, a duplicate row, a worker that dies: the transaction rolls back.
DropHeartbeat(w) ==
    /\ heartbeats[w] # {}
    /\ heartbeats' = [heartbeats EXCEPT ![w] = {}]
    /\ UNCHANGED inventory

InventoryStep(w) == ReplaceInventory(w) \/ DropHeartbeat(w)

-----------------------------------------------------------------------------
InventoryTypeOK ==
    /\ benches \in [Benches -> BenchRow]
    /\ sites \in [Sites -> SiteRow]
    /\ servers \in [Agents -> Server]
    /\ heartbeats \in [Workers -> SUBSET Heartbeat]

\* What the rows say is what their agents last reported: a bench is enabled, or
\* a site active, exactly if its owner's stored inventory has it there, and
\* nothing is in two inventories (replace_inventory; the CAS of the agent's row
\* is all that orders two heartbeats).
RowsMatch ==
    /\ \A a \in Agents, b \in Benches :
          b \in DOMAIN servers[a].snapshot
              <=> benches[b] = HeldBench(a)
    /\ \A a \in Agents, b \in Benches, d \in Sites :
          (b \in DOMAIN servers[a].snapshot /\ d \in servers[a].snapshot[b])
              <=> sites[d] = HeldSite(a, b)

\* A bench never passes to another agent, nor a site to another agent or bench,
\* although ownership is checked in a read view and written through set_value,
\* past the immutability of Bench and ManagedSite.
OwnersStay ==
    [][/\ \A b \in Benches :
             benches[b].owner # None => benches'[b].owner = benches[b].owner
       /\ \A d \in Sites : sites[d].owner # None =>
             sites'[d].owner = sites[d].owner /\ sites'[d].bench = sites[d].bench
      ]_inventoryVars
=============================================================================
