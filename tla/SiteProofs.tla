----------------------------- MODULE SiteProofs -----------------------------
(***************************************************************************)
(* Proofs about the inventory and the customers' sites.                    *)
(*                                                                         *)
(* A heartbeat is compared with a view of the rows and replaces them       *)
(* later, with a lock on its agent's row only.  What remains true of a     *)
(* heartbeat that is held: the rows that its view showed still exist, and  *)
(* those that it reports are its agent's, because rows do not change       *)
(* hands; a row that it reports and that came into being since makes the   *)
(* insertion fail.                                                         *)
(*                                                                         *)
(* A customer's creations form a line in which all but the last have       *)
(* failed and the last has the link.  What made a customer ready for its   *)
(* site persists: an operation that has ended does not change, the link to *)
(* one that has succeeded does not either, and the row keeps its owner.    *)
(***************************************************************************)
EXTENDS CustomerSites, SequenceTheorems, FiniteSetTheorems, WellFoundedInduction, TLAPS

\* The inventory's part of a step.
InventoryNext ==
    \E w \in Workers :
        \/ \E a \in Agents, report \in Snapshot : Reconcile(w, a, report)
        \/ InventoryStep(w)

\* The rows that a heartbeat reports and whose existence its view showed.
Sound(h) ==
    /\ h.known \subseteq Rows
    /\ \A b \in DOMAIN h.report \cap h.known : benches[b].owner = h.agent
    /\ \A b \in DOMAIN h.report : \A d \in h.report[b] \cap h.known :
          sites[d].owner = h.agent /\ sites[d].bench = b

Inv ==
    /\ InventoryTypeOK
    /\ RowsMatch
    /\ \A w \in Workers : \A h \in heartbeats[w] : Sound(h)

(***************************************************************************)
(* Snapshots.                                                              *)
(***************************************************************************)
\* A snapshot has every site on one of its benches only.
LEMMA SnapshotBenches ==
    ASSUME NEW s \in Snapshot
    PROVE  /\ DOMAIN s \subseteq Benches
           /\ \A b \in DOMAIN s : s[b] \subseteq Sites
           /\ SitesIn(s) \subseteq Sites
           /\ \A b \in DOMAIN s : \A d \in s[b] : d \in SitesIn(s) /\ BenchOf(s, d) = b
           /\ \A d \in SitesIn(s) : BenchOf(s, d) \in DOMAIN s /\ d \in s[BenchOf(s, d)]
<1>1. PICK B \in SUBSET Benches : s \in [B -> SUBSET Sites]
  BY DEF Snapshot
<1>2. \A b \in DOMAIN s : s[b] \subseteq Sites
  BY <1>1
<1>3. SitesIn(s) \subseteq Sites
  BY <1>2 DEF SitesIn
<1>4. \A b, c \in DOMAIN s : b # c => s[b] \cap s[c] = {}
  BY DEF Snapshot
<1>5. \A d \in SitesIn(s) : BenchOf(s, d) \in DOMAIN s /\ d \in s[BenchOf(s, d)]
  BY DEF SitesIn, BenchOf
<1>6. \A b \in DOMAIN s : \A d \in s[b] : d \in SitesIn(s)
  BY DEF SitesIn
<1>7. \A b \in DOMAIN s : \A d \in s[b] : BenchOf(s, d) = b
  BY <1>4, <1>5, <1>6
<1> QED
  BY <1>1, <1>2, <1>3, <1>5, <1>6, <1>7

(***************************************************************************)
(* The start.                                                              *)
(***************************************************************************)
LEMMA InventoryBegins == InventoryInit => Inv
<1> SUFFICES ASSUME InventoryInit PROVE Inv
  OBVIOUS
<1> DEFINE On(b) == {a \in Agents : b \in DOMAIN Installed[a]}
           At(d) == {a \in Agents : d \in SitesIn(Installed[a])}
<1>1. /\ servers = [a \in Agents |-> [snapshot |-> Installed[a], revision |-> 0]]
      /\ benches = [b \in Benches |->
             IF On(b) = {} THEN NoBench ELSE HeldBench(CHOOSE a \in On(b) : TRUE)]
      /\ sites = [d \in Sites |->
             IF At(d) = {} THEN NoSite
             ELSE LET a == CHOOSE a \in At(d) : TRUE
                  IN  HeldSite(a, BenchOf(Installed[a], d))]
      /\ heartbeats = [w \in Workers |-> {}]
  BY DEF InventoryInit
<1>2. \A a \in Agents : Installed[a] \in Snapshot
  BY InventoryAssumption
<1>3. \A a, b \in Agents : a # b =>
         /\ DOMAIN Installed[a] \cap DOMAIN Installed[b] = {}
         /\ SitesIn(Installed[a]) \cap SitesIn(Installed[b]) = {}
  BY InventoryAssumption
<1>4. ASSUME NEW b \in Benches, NEW a \in On(b) PROVE benches[b] = HeldBench(a)
  <2>1. \A x \in On(b) : x = a
    BY <1>3
  <2>2. (CHOOSE x \in On(b) : TRUE) = a
    BY <2>1
  <2> QED
    BY <1>1, <2>2
<1>5. ASSUME NEW d \in Sites, NEW a \in At(d)
      PROVE  sites[d] = HeldSite(a, BenchOf(Installed[a], d))
  <2>1. \A x \in At(d) : x = a
    BY <1>3
  <2>2. (CHOOSE x \in At(d) : TRUE) = a
    BY <2>1
  <2> QED
    BY <1>1, <2>2
<1>6. \A b \in Benches : On(b) = {} => benches[b] = NoBench
  BY <1>1
<1>7. \A d \in Sites : At(d) = {} => sites[d] = NoSite
  BY <1>1
<1>8. InventoryTypeOK
  <2>1. servers \in [Agents -> Server]
    BY <1>1, <1>2 DEF Server
  <2>2. ASSUME NEW b \in Benches PROVE benches[b] \in BenchRow
    <3>1. CASE On(b) = {}
      BY <1>6, <3>1 DEF BenchRow
    <3>2. ASSUME NEW a \in On(b) PROVE benches[b] \in BenchRow
      <4>1. a \in Agents
        BY <3>2
      <4>2. HeldBench(a) \in BenchRow
        BY <4>1 DEF BenchRow, HeldBench
      <4> QED
        BY <1>4, <3>2, <4>2
    <3> QED
      BY <3>1, <3>2
  <2>3. ASSUME NEW d \in Sites PROVE sites[d] \in SiteRow
    <3>1. CASE At(d) = {}
      BY <1>7, <3>1 DEF SiteRow
    <3>2. ASSUME NEW a \in At(d) PROVE sites[d] \in SiteRow
      <4>1. a \in Agents /\ d \in SitesIn(Installed[a])
        BY <3>2
      <4>2. BenchOf(Installed[a], d) \in Benches
        BY <1>2, <4>1, SnapshotBenches
      <4>3. HeldSite(a, BenchOf(Installed[a], d)) \in SiteRow
        BY <4>1, <4>2 DEF SiteRow, HeldSite
      <4> QED
        BY <1>5, <3>2, <4>3
    <3> QED
      BY <3>1, <3>2
  <2> QED
    BY <1>1, <2>1, <2>2, <2>3 DEF InventoryTypeOK
<1>9. RowsMatch
  <2>1. ASSUME NEW a \in Agents, NEW b \in Benches
        PROVE  b \in DOMAIN Installed[a] <=> benches[b] = HeldBench(a)
    <3>1. b \in DOMAIN Installed[a] => benches[b] = HeldBench(a)
      BY <1>4
    <3>2. ASSUME benches[b] = HeldBench(a) PROVE b \in DOMAIN Installed[a]
      <4>1. PICK x \in Agents : x \in On(b)
        BY <1>6, <3>2, InventoryAssumption DEF HeldBench, NoBench
      <4>2. HeldBench(x) = HeldBench(a)
        BY <1>4, <3>2, <4>1
      <4> QED
        BY <4>1, <4>2 DEF HeldBench
    <3> QED
      BY <3>1, <3>2
  <2>2. ASSUME NEW a \in Agents, NEW b \in Benches, NEW d \in Sites
        PROVE  (b \in DOMAIN Installed[a] /\ d \in Installed[a][b])
                   <=> sites[d] = HeldSite(a, b)
    <3>1. ASSUME b \in DOMAIN Installed[a], d \in Installed[a][b]
          PROVE  sites[d] = HeldSite(a, b)
      BY <1>2, <1>5, <3>1, SnapshotBenches
    <3>2. ASSUME sites[d] = HeldSite(a, b)
          PROVE  b \in DOMAIN Installed[a] /\ d \in Installed[a][b]
      <4>1. PICK x \in Agents : x \in At(d)
        BY <1>7, <3>2, InventoryAssumption DEF HeldSite, NoSite
      <4>2. HeldSite(x, BenchOf(Installed[x], d)) = HeldSite(a, b)
        BY <1>5, <3>2, <4>1
      <4>3. x = a /\ BenchOf(Installed[x], d) = b
        BY <4>2 DEF HeldSite
      <4> QED
        BY <1>2, <4>1, <4>3, SnapshotBenches
    <3> QED
      BY <3>1, <3>2
  <2> QED
    BY <1>1, <2>1, <2>2 DEF RowsMatch
<1> QED
  BY <1>1, <1>8, <1>9 DEF Inv

(***************************************************************************)
(* A heartbeat that is replaced.                                           *)
(***************************************************************************)
\* What a heartbeat that may still be inserted reports is its agent's, or new.
LEMMA Reported ==
    ASSUME Inv, NEW h \in Heartbeat, Sound(h), Insertable(h)
    PROVE  /\ \A b \in DOMAIN h.report : benches[b].owner \in {None, h.agent}
           /\ \A b \in DOMAIN h.report : \A d \in h.report[b] :
                 sites[d].owner # None => sites[d].owner = h.agent /\ sites[d].bench = b
<1>1. h.report \in Snapshot
  BY DEF Heartbeat
<1>2. ASSUME NEW b \in DOMAIN h.report, benches[b].owner # None
      PROVE  benches[b].owner = h.agent
  <2>1. b \in Rows
    BY <1>1, <1>2, SnapshotBenches DEF Rows
  <2>2. b \in h.known
    BY <2>1 DEF Insertable
  <2> QED
    BY <2>2 DEF Sound
<1>3. ASSUME NEW b \in DOMAIN h.report, NEW d \in h.report[b], sites[d].owner # None
      PROVE  sites[d].owner = h.agent /\ sites[d].bench = b
  <2>1. d \in Sites /\ d \in SitesIn(h.report)
    BY <1>1, SnapshotBenches
  <2>2. d \in Rows
    BY <1>3, <2>1 DEF Rows
  <2>3. d \in h.known
    BY <2>1, <2>2 DEF Insertable
  <2> QED
    BY <2>3 DEF Sound
<1> QED
  BY <1>2, <1>3

\* The rows that a heartbeat leaves.
LEMMA RowsAfter ==
    ASSUME Inv, NEW w \in Workers, NEW h \in heartbeats[w],
           Current(h), Insertable(h), Replaced(h)
    PROVE  /\ h \in Heartbeat /\ h.agent \in Agents /\ h.report \in Snapshot
           /\ h.previous = servers[h.agent]
           /\ \A b \in Benches :
                 /\ b \in DOMAIN h.report => benches'[b] = HeldBench(h.agent)
                 /\ b \in DOMAIN servers[h.agent].snapshot \ DOMAIN h.report =>
                       benches'[b] = [owner |-> h.agent, enabled |-> FALSE]
                 /\ b \notin DOMAIN servers[h.agent].snapshot \cup DOMAIN h.report =>
                       benches'[b] = benches[b]
           /\ \A b \in Benches, d \in Sites :
                 /\ b \in DOMAIN h.report /\ d \in h.report[b] =>
                       sites'[d] = HeldSite(h.agent, b)
                 /\ d \notin SitesIn(h.report) /\ sites[d] = HeldSite(h.agent, b) =>
                       sites'[d] = [owner |-> h.agent, bench |-> b, status |-> "missing"]
           /\ \A d \in Sites \ SitesIn(h.report) :
                 (\A b \in Benches : sites[d] # HeldSite(h.agent, b)) =>
                     sites'[d] = sites[d]
<1>1. h \in Heartbeat /\ h.previous = servers[h.agent]
  BY DEF Inv, InventoryTypeOK, Current
<1>2. h.agent \in Agents /\ h.report \in Snapshot
  BY <1>1 DEF Heartbeat
<1> DEFINE had == servers[h.agent].snapshot
<1>3. had \in Snapshot
  BY <1>2 DEF Inv, InventoryTypeOK, Server
<1>4. /\ benches' = [b \in Benches |->
             CASE b \in DOMAIN h.report -> HeldBench(h.agent)
               [] b \in DOMAIN had \ DOMAIN h.report -> [benches[b] EXCEPT !.enabled = FALSE]
               [] OTHER -> benches[b]]
      /\ sites' = [d \in Sites |->
             CASE d \in SitesIn(h.report) -> HeldSite(h.agent, BenchOf(h.report, d))
               [] d \in SitesIn(had) \ SitesIn(h.report) ->
                      [sites[d] EXCEPT !.status = "missing"]
               [] OTHER -> sites[d]]
  BY <1>1 DEF Replaced, Gone
<1>5. \A b \in Benches : b \in DOMAIN had <=> benches[b] = HeldBench(h.agent)
  BY <1>2 DEF Inv, RowsMatch
<1>6. \A b \in Benches, d \in Sites :
         (b \in DOMAIN had /\ d \in had[b]) <=> sites[d] = HeldSite(h.agent, b)
  BY <1>2 DEF Inv, RowsMatch
<1>7. \A d \in Sites : d \in SitesIn(had) <=>
         \E b \in Benches : sites[d] = HeldSite(h.agent, b)
  BY <1>3, <1>6, SnapshotBenches
<1> HIDE DEF had
<1>8. ASSUME NEW b \in Benches
      PROVE  /\ b \in DOMAIN h.report => benches'[b] = HeldBench(h.agent)
             /\ b \in DOMAIN had \ DOMAIN h.report =>
                   benches'[b] = [owner |-> h.agent, enabled |-> FALSE]
             /\ b \notin DOMAIN had \cup DOMAIN h.report => benches'[b] = benches[b]
  <2>1. CASE b \in DOMAIN h.report
    BY <1>4, <2>1
  <2>2. CASE b \in DOMAIN had \ DOMAIN h.report
    <3>1. benches'[b] = [benches[b] EXCEPT !.enabled = FALSE]
      BY <1>4, <2>2
    <3>2. benches[b] = [owner |-> h.agent, enabled |-> TRUE]
      BY <1>5, <2>2 DEF HeldBench
    <3>3. benches[b] \in [owner: Agents, enabled: BOOLEAN] /\ benches[b].owner = h.agent
      BY <1>2, <3>2
    <3>4. /\ benches'[b] \in [owner: Agents, enabled: BOOLEAN]
          /\ benches'[b].owner = h.agent /\ benches'[b].enabled = FALSE
      BY <3>1, <3>3
    <3>5. benches'[b] = [owner |-> h.agent, enabled |-> FALSE]
      BY <3>4
    <3> QED
      BY <2>2, <3>5
  <2>3. CASE b \notin DOMAIN had \cup DOMAIN h.report
    BY <1>4, <2>3
  <2> QED
    BY <2>1, <2>2, <2>3
<1>9. ASSUME NEW b \in Benches, NEW d \in Sites, b \in DOMAIN h.report, d \in h.report[b]
      PROVE  sites'[d] = HeldSite(h.agent, b)
  <2>1. d \in SitesIn(h.report) /\ BenchOf(h.report, d) = b
    BY <1>2, <1>9, SnapshotBenches
  <2> QED
    BY <1>4, <2>1
<1>10. ASSUME NEW b \in Benches, NEW d \in Sites,
              d \notin SitesIn(h.report), sites[d] = HeldSite(h.agent, b)
       PROVE  sites'[d] = [owner |-> h.agent, bench |-> b, status |-> "missing"]
  <2>1. sites'[d] = [sites[d] EXCEPT !.status = "missing"]
    BY <1>4, <1>7, <1>10
  <2> QED
    BY <1>10, <2>1 DEF HeldSite
<1>11. ASSUME NEW d \in Sites \ SitesIn(h.report),
              \A b \in Benches : sites[d] # HeldSite(h.agent, b)
       PROVE  sites'[d] = sites[d]
  BY <1>4, <1>7, <1>11
<1> QED
  BY <1>1, <1>2, <1>8, <1>9, <1>10, <1>11 DEF had

\* Rows keep their owners, and sites their bench.
SameOwners ==
    /\ \A b \in Benches : benches[b].owner # None => benches'[b].owner = benches[b].owner
    /\ \A d \in Sites : sites[d].owner # None =>
          sites'[d].owner = sites[d].owner /\ sites'[d].bench = sites[d].bench

\* A row that was active and is not reported any more, or that belonged to
\* another agent, or that nobody had: every site is one of them, or reported.
LEMMA ReplaceKeepsOwners ==
    ASSUME Inv, NEW w \in Workers, NEW h \in heartbeats[w],
           Current(h), Insertable(h), Replaced(h)
    PROVE  SameOwners
<1>1. h \in Heartbeat /\ h.report \in Snapshot /\ Sound(h)
  BY RowsAfter DEF Inv
<1>2. ASSUME NEW b \in Benches, benches[b].owner # None
      PROVE  benches'[b].owner = benches[b].owner
  <2>1. CASE b \in DOMAIN h.report
    <3>1. benches[b].owner = h.agent
      BY <1>1, <1>2, <2>1, Reported
    <3>2. benches'[b] = HeldBench(h.agent)
      BY <2>1, RowsAfter
    <3> QED
      BY <3>1, <3>2 DEF HeldBench
  <2>2. CASE b \in DOMAIN servers[h.agent].snapshot \ DOMAIN h.report
    <3>1. benches[b] = HeldBench(h.agent)
      BY <2>2, RowsAfter DEF Inv, RowsMatch
    <3>2. benches'[b] = [owner |-> h.agent, enabled |-> FALSE]
      BY <2>2, RowsAfter
    <3> QED
      BY <3>1, <3>2 DEF HeldBench
  <2>3. CASE b \notin DOMAIN servers[h.agent].snapshot \cup DOMAIN h.report
    BY <2>3, RowsAfter
  <2> QED
    BY <2>1, <2>2, <2>3
<1>3. ASSUME NEW d \in Sites, sites[d].owner # None
      PROVE  sites'[d].owner = sites[d].owner /\ sites'[d].bench = sites[d].bench
  <2>1. CASE d \in SitesIn(h.report)
    <3> DEFINE b == BenchOf(h.report, d)
    <3>1. b \in DOMAIN h.report /\ d \in h.report[b] /\ b \in Benches
      BY <1>1, <2>1, SnapshotBenches
    <3>2. sites[d].owner = h.agent /\ sites[d].bench = b
      BY <1>1, <1>3, <3>1, Reported
    <3>3. sites'[d] = HeldSite(h.agent, b)
      BY <3>1, RowsAfter
    <3> QED
      BY <3>2, <3>3 DEF HeldSite
  <2>2. ASSUME NEW b \in Benches, d \notin SitesIn(h.report), sites[d] = HeldSite(h.agent, b)
        PROVE  sites'[d].owner = sites[d].owner /\ sites'[d].bench = sites[d].bench
    <3>1. sites'[d] = [owner |-> h.agent, bench |-> b, status |-> "missing"]
      BY <2>2, RowsAfter
    <3> QED
      BY <2>2, <3>1 DEF HeldSite
  <2>3. CASE d \notin SitesIn(h.report) /\ \A b \in Benches : sites[d] # HeldSite(h.agent, b)
    BY <2>3, RowsAfter
  <2> QED
    BY <2>1, <2>2, <2>3
<1> QED
  BY <1>2, <1>3 DEF SameOwners

\* What is held stays sound while rows keep their owners.
LEMMA SoundStays ==
    ASSUME InventoryTypeOK, InventoryTypeOK', SameOwners, NEW h \in Heartbeat, Sound(h)
    PROVE  Sound(h)'
<1>1. h.known \subseteq Rows /\ h.report \in Snapshot
  BY DEF Sound, Heartbeat
<1>2. Rows \subseteq Rows'
  BY DEF Rows, SameOwners
<1>3. \A b \in DOMAIN h.report \cap h.known : benches[b].owner # None /\ b \in Benches
  BY <1>1, SnapshotBenches, InventoryAssumption DEF Rows
<1>4. \A b \in DOMAIN h.report : \A d \in h.report[b] \cap h.known :
         sites[d].owner # None /\ d \in Sites
  BY <1>1, SnapshotBenches, InventoryAssumption DEF Rows
<1>5. \A b \in DOMAIN h.report \cap h.known : benches'[b].owner = h.agent
  BY <1>3 DEF Sound, SameOwners
<1>6. \A b \in DOMAIN h.report : \A d \in h.report[b] \cap h.known :
         sites'[d].owner = h.agent /\ sites'[d].bench = b
  BY <1>4 DEF Sound, SameOwners
<1> QED
  BY <1>1, <1>2, <1>5, <1>6 DEF Sound

\* A heartbeat that is carried out leaves well-typed rows.
LEMMA ReplaceKeepsTypes ==
    ASSUME Inv, NEW w \in Workers, NEW h \in heartbeats[w],
           Current(h), Insertable(h), Replaced(h),
           servers' = [servers EXCEPT ![h.agent] =
               [snapshot |-> h.report, revision |-> h.previous.revision + 1]],
           heartbeats' = [heartbeats EXCEPT ![w] = {}]
    PROVE  InventoryTypeOK'
<1>1. h \in Heartbeat /\ h.agent \in Agents /\ h.report \in Snapshot
  BY RowsAfter
<1>2. servers' \in [Agents -> Server]
  <2>1. h.previous \in Server
    BY <1>1 DEF Heartbeat
  <2>2. [snapshot |-> h.report, revision |-> h.previous.revision + 1] \in Server
    BY <1>1, <2>1 DEF Server
  <2> QED
    BY <1>1, <2>2 DEF Inv, InventoryTypeOK
<1>3. ASSUME NEW b \in Benches PROVE benches'[b] \in BenchRow
  <2>1. HeldBench(h.agent) \in BenchRow /\ [owner |-> h.agent, enabled |-> FALSE] \in BenchRow
    BY <1>1 DEF HeldBench, BenchRow
  <2>2. benches[b] \in BenchRow
    BY DEF Inv, InventoryTypeOK
  <2> QED
    BY <2>1, <2>2, RowsAfter
<1>4. ASSUME NEW d \in Sites PROVE sites'[d] \in SiteRow
  <2>1. \A b \in Benches :
           /\ HeldSite(h.agent, b) \in SiteRow
           /\ [owner |-> h.agent, bench |-> b, status |-> "missing"] \in SiteRow
    BY <1>1 DEF HeldSite, SiteRow
  <2>2. sites[d] \in SiteRow
    BY DEF Inv, InventoryTypeOK
  <2>3. CASE d \in SitesIn(h.report)
    <3>1. BenchOf(h.report, d) \in DOMAIN h.report /\ d \in h.report[BenchOf(h.report, d)]
          /\ BenchOf(h.report, d) \in Benches
      BY <1>1, <2>3, SnapshotBenches
    <3> QED
      BY <2>1, <3>1, RowsAfter
  <2>4. ASSUME NEW b \in Benches, d \notin SitesIn(h.report), sites[d] = HeldSite(h.agent, b)
        PROVE  sites'[d] \in SiteRow
    <3>1. sites'[d] = [owner |-> h.agent, bench |-> b, status |-> "missing"]
      BY <2>4, RowsAfter
    <3> QED
      BY <2>1, <3>1
  <2>5. CASE d \notin SitesIn(h.report) /\ \A b \in Benches : sites[d] # HeldSite(h.agent, b)
    BY <2>2, <2>5, RowsAfter
  <2> QED
    BY <2>3, <2>4, <2>5
<1>5. benches' \in [Benches -> BenchRow] /\ sites' \in [Sites -> SiteRow]
  BY <1>3, <1>4 DEF Replaced
<1>6. heartbeats' \in [Workers -> SUBSET Heartbeat]
  BY DEF Inv, InventoryTypeOK
<1> QED
  BY <1>2, <1>5, <1>6 DEF InventoryTypeOK

\* The rows match, also the other agents': theirs are not among those written.
LEMMA ReplaceKeepsRows ==
    ASSUME Inv, NEW w \in Workers, NEW h \in heartbeats[w],
           Current(h), Insertable(h), Replaced(h),
           servers' = [servers EXCEPT ![h.agent] =
               [snapshot |-> h.report, revision |-> h.previous.revision + 1]]
    PROVE  RowsMatch'
<1>1. h \in Heartbeat /\ h.agent \in Agents /\ h.report \in Snapshot /\ Sound(h)
  BY RowsAfter DEF Inv
<1>2. servers'[h.agent].snapshot = h.report
  BY <1>1 DEF Inv, InventoryTypeOK
<1>3. \A a \in Agents \ {h.agent} : servers'[a] = servers[a]
  BY DEF Inv, InventoryTypeOK
<1>4. None \notin Agents
  BY InventoryAssumption
<1>5. ASSUME NEW a \in Agents, NEW b \in Benches
      PROVE  b \in DOMAIN servers'[a].snapshot <=> benches'[b] = HeldBench(a)
  <2>1. b \in DOMAIN servers[a].snapshot <=> benches[b] = HeldBench(a)
    BY DEF Inv, RowsMatch
  <2>2. CASE a = h.agent
    <3>1. CASE b \in DOMAIN h.report
      BY <1>2, <2>2, <3>1, RowsAfter
    <3>2. CASE b \in DOMAIN servers[a].snapshot \ DOMAIN h.report
      <4>1. benches'[b] = [owner |-> a, enabled |-> FALSE]
        BY <2>2, <3>2, RowsAfter
      <4> QED
        BY <1>2, <2>2, <3>2, <4>1 DEF HeldBench
    <3>3. CASE b \notin DOMAIN servers[a].snapshot \cup DOMAIN h.report
      BY <1>2, <2>1, <2>2, <3>3, RowsAfter
    <3> QED
      BY <3>1, <3>2, <3>3
  <2>3. CASE a # h.agent
    <3>1. b \in DOMAIN servers'[a].snapshot <=> benches[b] = HeldBench(a)
      BY <1>3, <2>1, <2>3
    <3>2. CASE b \in DOMAIN h.report
      <4>1. benches'[b] = HeldBench(h.agent)
        BY <3>2, RowsAfter
      <4>2. benches[b].owner \in {None, h.agent}
        BY <1>1, <3>2, Reported
      <4> QED
        BY <1>4, <2>3, <3>1, <4>1, <4>2 DEF HeldBench
    <3>3. CASE b \in DOMAIN servers[h.agent].snapshot \ DOMAIN h.report
      <4>1. benches'[b] = [owner |-> h.agent, enabled |-> FALSE]
        BY <3>3, RowsAfter
      <4>2. benches[b] = HeldBench(h.agent)
        BY <1>1, <3>3 DEF Inv, RowsMatch
      <4> QED
        BY <2>3, <3>1, <4>1, <4>2 DEF HeldBench
    <3>4. CASE b \notin DOMAIN servers[h.agent].snapshot \cup DOMAIN h.report
      BY <3>1, <3>4, RowsAfter
    <3> QED
      BY <3>2, <3>3, <3>4
  <2> QED
    BY <2>2, <2>3
<1>6. ASSUME NEW a \in Agents, NEW b \in Benches, NEW d \in Sites
      PROVE  (b \in DOMAIN servers'[a].snapshot /\ d \in servers'[a].snapshot[b])
                 <=> sites'[d] = HeldSite(a, b)
  <2>1. (b \in DOMAIN servers[a].snapshot /\ d \in servers[a].snapshot[b])
            <=> sites[d] = HeldSite(a, b)
    BY DEF Inv, RowsMatch
  <2>2. CASE d \in SitesIn(h.report)
    <3> DEFINE c == BenchOf(h.report, d)
    <3>1. /\ c \in DOMAIN h.report /\ d \in h.report[c] /\ c \in Benches
          /\ b \in DOMAIN h.report /\ d \in h.report[b] => b = c
      BY <1>1, <2>2, SnapshotBenches
    <3>2. sites'[d] = HeldSite(h.agent, c)
      BY <3>1, RowsAfter
    <3> HIDE DEF c
    <3>3. CASE a = h.agent
      BY <1>2, <3>1, <3>2, <3>3 DEF HeldSite
    <3>4. CASE a # h.agent
      <4>1. sites[d].owner # None => sites[d].owner = h.agent
        BY <1>1, <3>1, Reported
      <4>2. sites[d] # HeldSite(a, b) /\ sites'[d] # HeldSite(a, b)
        BY <1>4, <3>2, <3>4, <4>1 DEF HeldSite
      <4> QED
        BY <1>3, <2>1, <3>4, <4>2
    <3> QED
      BY <3>3, <3>4
  <2>3. ASSUME NEW c \in Benches, d \notin SitesIn(h.report), sites[d] = HeldSite(h.agent, c)
        PROVE  (b \in DOMAIN servers'[a].snapshot /\ d \in servers'[a].snapshot[b])
                   <=> sites'[d] = HeldSite(a, b)
    <3>1. sites'[d] = [owner |-> h.agent, bench |-> c, status |-> "missing"]
      BY <2>3, RowsAfter
    <3>2. sites'[d] # HeldSite(a, b)
      BY <3>1 DEF HeldSite
    <3>3. CASE a = h.agent
      BY <1>1, <1>2, <2>3, <3>2, <3>3, SnapshotBenches
    <3>4. CASE a # h.agent
      BY <1>3, <2>1, <2>3, <3>2, <3>4 DEF HeldSite
    <3> QED
      BY <3>3, <3>4
  <2>4. CASE d \notin SitesIn(h.report) /\ \A c \in Benches : sites[d] # HeldSite(h.agent, c)
    <3>1. sites'[d] = sites[d]
      BY <2>4, RowsAfter
    <3>2. CASE a = h.agent
      BY <1>1, <1>2, <2>4, <3>1, <3>2, SnapshotBenches
    <3>3. CASE a # h.agent
      BY <1>3, <2>1, <3>1, <3>3
    <3> QED
      BY <3>2, <3>3
  <2> QED
    BY <2>2, <2>3, <2>4
<1> QED
  BY <1>5, <1>6 DEF RowsMatch

(***************************************************************************)
(* The steps.                                                              *)
(***************************************************************************)
LEMMA ReplaceKeeps ==
    ASSUME Inv, NEW w \in Workers, ReplaceInventory(w)
    PROVE  Inv' /\ SameOwners
<1>1. PICK h \in heartbeats[w] :
         /\ Current(h) /\ Insertable(h) /\ Replaced(h)
         /\ servers' = [servers EXCEPT ![h.agent] =
                [snapshot |-> h.report, revision |-> h.previous.revision + 1]]
         /\ heartbeats' = [heartbeats EXCEPT ![w] = {}]
  BY DEF ReplaceInventory
<1>2. SameOwners
  BY <1>1, ReplaceKeepsOwners
<1>3. InventoryTypeOK'
  BY <1>1, ReplaceKeepsTypes
<1>4. RowsMatch'
  BY <1>1, ReplaceKeepsRows
<1>5. ASSUME NEW v \in Workers, NEW g \in heartbeats'[v] PROVE Sound(g)'
  <2>1. g \in heartbeats[v] /\ g \in Heartbeat
    BY <1>1 DEF Inv, InventoryTypeOK
  <2>2. Sound(g)
    BY <2>1 DEF Inv
  <2> QED
    BY <1>2, <1>3, <2>1, <2>2, SoundStays DEF Inv
<1> QED
  BY <1>2, <1>3, <1>4, <1>5 DEF Inv

\* Heartbeats begin and end without a change of the rows.
LEMMA OthersKeep ==
    ASSUME Inv, UNCHANGED inventory, heartbeats' \in [Workers -> SUBSET Heartbeat],
           \A v \in Workers : \A h \in heartbeats'[v] : h \in heartbeats[v] \/ Sound(h)
    PROVE  Inv' /\ SameOwners
<1>1. SameOwners
  BY DEF inventory, SameOwners
<1>2. InventoryTypeOK' /\ RowsMatch'
  BY DEF inventory, Inv, InventoryTypeOK, RowsMatch
<1>3. ASSUME NEW v \in Workers, NEW h \in heartbeats'[v] PROVE Sound(h)'
  BY <1>1, <1>2, <1>3, SoundStays DEF Inv
<1> QED
  BY <1>1, <1>2, <1>3 DEF Inv

\* A heartbeat that is taken on is one whose rows the view has compared.
LEMMA ReconcileKeeps ==
    ASSUME Inv, NEW w \in Workers, NEW a \in Agents, NEW report \in Snapshot,
           Reconcile(w, a, report)
    PROVE  Inv' /\ SameOwners
<1> DEFINE h == [agent |-> a, report |-> report, previous |-> servers[a], known |-> Rows]
<1>1. Rows \subseteq Benches \cup Sites /\ servers[a] \in Server
  BY DEF Rows, Inv, InventoryTypeOK
<1>2. h \in Heartbeat
  BY <1>1 DEF Heartbeat
<1>3. ASSUME NEW b \in DOMAIN report \cap Rows PROVE benches[b].owner = a
  <2>1. b \in Benches
    BY SnapshotBenches
  <2>2. benches[b].owner # None
    BY <2>1, InventoryAssumption DEF Rows
  <2> QED
    BY <2>2 DEF Reconcile, Claimable
<1>4. ASSUME NEW b \in DOMAIN report, NEW d \in report[b] \cap Rows
      PROVE  sites[d].owner = a /\ sites[d].bench = b
  <2>1. d \in Sites
    BY SnapshotBenches
  <2>2. sites[d].owner # None
    BY <2>1, InventoryAssumption DEF Rows
  <2> QED
    BY <2>2 DEF Reconcile, Claimable
<1>5. Sound(h)
  BY <1>3, <1>4 DEF Sound
<1>6. heartbeats' = [heartbeats EXCEPT ![w] = {h}] /\ UNCHANGED inventory
  BY DEF Reconcile
<1> HIDE DEF h
<1>7. /\ heartbeats' \in [Workers -> SUBSET Heartbeat]
      /\ \A v \in Workers : \A g \in heartbeats'[v] : g \in heartbeats[v] \/ g = h
  BY <1>2, <1>6 DEF Inv, InventoryTypeOK
<1> QED
  BY <1>5, <1>6, <1>7, OthersKeep

\* Every step of the inventory keeps the rows and their owners.
LEMMA InventoryKeeps == Inv /\ [InventoryNext]_inventoryVars => Inv' /\ SameOwners
<1> SUFFICES ASSUME Inv, [InventoryNext]_inventoryVars PROVE Inv' /\ SameOwners
  OBVIOUS
<1>1. CASE UNCHANGED inventoryVars
  BY <1>1, OthersKeep DEF inventoryVars, Inv, InventoryTypeOK
<1>2. ASSUME NEW w \in Workers, DropHeartbeat(w) PROVE Inv' /\ SameOwners
  BY <1>2, OthersKeep DEF DropHeartbeat, Inv, InventoryTypeOK
<1> QED
  BY <1>1, <1>2, ReplaceKeeps, ReconcileKeeps DEF InventoryNext, InventoryStep

(***************************************************************************)
(* Hosts change, but what is installed on one is always a snapshot.        *)
(***************************************************************************)
LEMMA SnapshotOf ==
    ASSUME NEW B \in SUBSET Benches, NEW s \in [B -> SUBSET Sites],
           \A b, c \in B : b # c => s[b] \cap s[c] = {}
    PROVE  s \in Snapshot
<1>1. s \in UNION {[C -> SUBSET Sites] : C \in SUBSET Benches}
  OBVIOUS
<1>2. DOMAIN s = B
  OBVIOUS
<1> QED
  BY <1>1, <1>2 DEF Snapshot

\* What a snapshot is.
LEMMA SnapshotParts ==
    ASSUME NEW s \in Snapshot
    PROVE  /\ DOMAIN s \in SUBSET Benches /\ s \in [DOMAIN s -> SUBSET Sites]
           /\ \A b, c \in DOMAIN s : b # c => s[b] \cap s[c] = {}
  BY DEF Snapshot

\* A site that is nowhere on a host is added to one of its benches.
LEMMA SiteAdded ==
    ASSUME NEW s \in Snapshot, NEW b \in DOMAIN s, NEW d \in Sites, d \notin SitesIn(s)
    PROVE  [s EXCEPT ![b] = @ \cup {d}] \in Snapshot
<1> DEFINE t == [s EXCEPT ![b] = @ \cup {d}]
<1>1. t \in [DOMAIN s -> SUBSET Sites] /\ DOMAIN s \in SUBSET Benches
  BY SnapshotParts
<1>2. \A c \in DOMAIN s : d \notin s[c]
  BY DEF SitesIn
<1>3. \A c \in DOMAIN s : t[c] = IF c = b THEN s[b] \cup {d} ELSE s[c]
  BY <1>1
<1>4. \A c, e \in DOMAIN s : c # e => t[c] \cap t[e] = {}
  BY <1>2, <1>3, SnapshotParts
<1> HIDE DEF t
<1> QED
  BY <1>1, <1>4, SnapshotOf DEF t

\* A site is removed.
LEMMA SiteRemoved ==
    ASSUME NEW s \in Snapshot, NEW b \in DOMAIN s, NEW d
    PROVE  [s EXCEPT ![b] = @ \ {d}] \in Snapshot
<1> DEFINE t == [s EXCEPT ![b] = @ \ {d}]
<1>1. t \in [DOMAIN s -> SUBSET Sites] /\ DOMAIN s \in SUBSET Benches
  BY SnapshotParts
<1>2. \A c \in DOMAIN s : t[c] \subseteq s[c]
  BY <1>1
<1>3. \A c, e \in DOMAIN s : c # e => t[c] \cap t[e] = {}
  BY <1>2, SnapshotParts
<1> HIDE DEF t
<1> QED
  BY <1>1, <1>3, SnapshotOf DEF t

\* A bench is removed with its sites.
LEMMA BenchRemoved ==
    ASSUME NEW s \in Snapshot, NEW b
    PROVE  [c \in DOMAIN s \ {b} |-> s[c]] \in Snapshot
<1> DEFINE t == [c \in DOMAIN s \ {b} |-> s[c]]
<1>1. t \in [DOMAIN s \ {b} -> SUBSET Sites] /\ DOMAIN s \ {b} \in SUBSET Benches
  BY SnapshotParts
<1>2. \A c, e \in DOMAIN s \ {b} : c # e => t[c] \cap t[e] = {}
  BY SnapshotParts
<1> HIDE DEF t
<1> QED
  BY <1>1, <1>2, SnapshotOf DEF t

\* An empty bench is added.
LEMMA BenchAdded ==
    ASSUME NEW s \in Snapshot, NEW b \in Benches
    PROVE  [c \in DOMAIN s \cup {b} |-> IF c = b THEN {} ELSE s[c]] \in Snapshot
<1> DEFINE t == [c \in DOMAIN s \cup {b} |-> IF c = b THEN {} ELSE s[c]]
<1>1. t \in [DOMAIN s \cup {b} -> SUBSET Sites] /\ DOMAIN s \cup {b} \in SUBSET Benches
  BY SnapshotParts
<1>2. \A c, e \in DOMAIN s \cup {b} : c # e => t[c] \cap t[e] = {}
  BY SnapshotParts
<1> HIDE DEF t
<1> QED
  BY <1>1, <1>2, SnapshotOf DEF t

HostsTypeOK == hosts \in [Agents -> Snapshot]

\* A host that is changed past the Controller is still well-typed.
LEMMA MoveKeepsHosts ==
    ASSUME HostsTypeOK, NEW a \in Agents, Move(a)
    PROVE  HostsTypeOK'
<1>1. hosts[a] \in Snapshot
  BY DEF HostsTypeOK
<1>2. ASSUME NEW s \in Snapshot, hosts' = [hosts EXCEPT ![a] = s] PROVE HostsTypeOK'
  BY <1>2 DEF HostsTypeOK
<1>3. ASSUME NEW b \in DOMAIN hosts[a],
             hosts' = [hosts EXCEPT ![a] = [c \in DOMAIN @ \ {b} |-> @[c]]]
      PROVE  HostsTypeOK'
  <2>1. hosts' = [hosts EXCEPT ![a] = [c \in DOMAIN hosts[a] \ {b} |-> hosts[a][c]]]
    BY <1>3 DEF HostsTypeOK
  <2> QED
    BY <1>1, <1>2, <2>1, BenchRemoved
<1>4. ASSUME NEW b \in DOMAIN hosts[a], NEW d \in hosts[a][b],
             hosts' = [hosts EXCEPT ![a][b] = @ \ {d}]
      PROVE  HostsTypeOK'
  <2>1. hosts' = [hosts EXCEPT ![a] = [hosts[a] EXCEPT ![b] = @ \ {d}]]
    BY <1>4 DEF HostsTypeOK
  <2> QED
    BY <1>1, <1>2, <2>1, SiteRemoved
<1>5. ASSUME NEW b \in Benches \ DOMAIN hosts[a],
             hosts' = [hosts EXCEPT ![a] =
                 [c \in DOMAIN @ \cup {b} |-> IF c = b THEN {} ELSE @[c]]]
      PROVE  HostsTypeOK'
  <2>1. hosts' = [hosts EXCEPT ![a] =
            [c \in DOMAIN hosts[a] \cup {b} |-> IF c = b THEN {} ELSE hosts[a][c]]]
    BY <1>5 DEF HostsTypeOK
  <2> QED
    BY <1>1, <1>2, <2>1, BenchAdded
<1> QED
  BY <1>3, <1>4, <1>5 DEF Move

(***************************************************************************)
(* Operations and the customers they are for.                              *)
(***************************************************************************)
SystemTypes ==
    /\ operations \in Seq(Operation)
    /\ customers \in [Customers -> Customer]
    /\ requests \in [Workers -> SUBSET Request]
    /\ HostsTypeOK

\* The last creation of a customer, the one without a retry, has the link.
Lineage ==
    /\ \A o \in DOMAIN operations :
          /\ operations[o].retry_of \in 0..Len(operations)
          /\ ~ Retried(o) => customers[operations[o].for].operation = o
          /\ Retried(o) => operations[o].state = "unsuccessful"
          /\ operations[o].state = "succeeded" => operations[o].made
    /\ \A c \in Customers : customers[c].operation # 0 =>
          /\ customers[c].operation \in DOMAIN operations
          /\ operations[customers[c].operation].for = c

\* An open retry is of an operation that has failed.
RetriesFailed ==
    \A w \in Workers : \A r \in requests[w] : r.kind = "retry" =>
        r.original \in DOMAIN operations /\ operations[r.original].state = "unsuccessful"

\* What has ended stays as it is, and so does the link to what has succeeded.
Persist ==
    /\ \A o \in DOMAIN operations :
          /\ o \in DOMAIN operations'
          /\ operations[o].state # "open" => operations'[o] = operations[o]
    /\ \A c \in Customers :
          /\ customers[c].operation \in DOMAIN operations
          /\ operations[customers[c].operation].state = "succeeded"
          => customers'[c].operation = customers[c].operation

\* The old creations have succeeded, and each customer has one at most.
LEMMA CoreInit == Init => SystemTypes /\ Lineage /\ RetriesFailed
<1> SUFFICES ASSUME Init PROVE SystemTypes /\ Lineage /\ RetriesFailed
  OBVIOUS
<1> DEFINE AtOf(d) == CHOOSE a \in Agents : d \in SitesIn(Installed[a])
           Mine(c) == {i \in DOMAIN Historic : Historic[i].customer = c}
<1>1. /\ operations = [i \in DOMAIN Historic |->
             [state |-> "succeeded", agent |-> AtOf(Historic[i].domain),
              bench |-> BenchOf(Installed[AtOf(Historic[i].domain)], Historic[i].domain),
              domain |-> Historic[i].domain, retry_of |-> 0, handover |-> FALSE,
              made |-> TRUE, for |-> Historic[i].customer]]
      /\ customers = [c \in Customers |->
             IF \E i \in DOMAIN Historic : Historic[i].customer = c
             THEN [operation |-> CHOOSE i \in DOMAIN Historic : Historic[i].customer = c,
                   site |-> None]
             ELSE Unlinked]
      /\ requests = [w \in Workers |-> {}]
      /\ hosts = Installed
  BY DEF Init
<1>2. /\ Len(Historic) \in Nat /\ DOMAIN Historic = 1..Len(Historic)
      /\ \A i \in DOMAIN Historic :
            /\ Historic[i] \in [customer: Customers, domain: Sites]
            /\ \E a \in Agents : Historic[i].domain \in SitesIn(Installed[a])
            /\ \A j \in DOMAIN Historic : Historic[i].customer = Historic[j].customer => i = j
  <2>1. Historic \in Seq([customer: Customers, domain: Sites])
    BY CustomerAssumption
  <2>2. Len(Historic) \in Nat /\ DOMAIN Historic = 1..Len(Historic)
    BY <2>1
  <2>3. \A i \in DOMAIN Historic : Historic[i] \in [customer: Customers, domain: Sites]
    BY <2>1, <2>2, ElementOfSeq
  <2> QED
    BY <2>2, <2>3, CustomerAssumption, Zenon
<1>3. ASSUME NEW i \in DOMAIN Historic PROVE operations[i] \in Operation
  <2> DEFINE d == Historic[i].domain
  <2>1. AtOf(d) \in Agents /\ d \in SitesIn(Installed[AtOf(d)])
    BY <1>2
  <2>2. BenchOf(Installed[AtOf(d)], d) \in Benches
    BY <2>1, SnapshotBenches, InventoryAssumption
  <2>3. d \in Sites /\ Historic[i].customer \in Customers
    BY <1>2
  <2> HIDE DEF d, AtOf
  <2> QED
    BY <1>1, <2>1, <2>2, <2>3 DEF Operation, d
<1>4. /\ DOMAIN operations = DOMAIN Historic
      /\ \A i \in DOMAIN Historic :
            /\ operations[i].retry_of = 0 /\ operations[i].made
            /\ operations[i].for = Historic[i].customer
  BY <1>1
<1>5. operations \in Seq(Operation) /\ Len(operations) = Len(Historic)
  <2>1. operations \in [1..Len(Historic) -> Operation]
    BY <1>1, <1>2, <1>3
  <2> QED
    BY <1>2, <2>1
<1>6. ASSUME NEW i \in DOMAIN Historic
      PROVE  customers[Historic[i].customer].operation = i
  <2>1. (CHOOSE j \in DOMAIN Historic : Historic[j].customer = Historic[i].customer) = i
    BY <1>2
  <2> QED
    BY <1>1, <1>2, <2>1
<1>7. ASSUME NEW c \in Customers
      PROVE  /\ customers[c] \in Customer
             /\ customers[c].operation # 0 =>
                   /\ customers[c].operation \in DOMAIN Historic
                   /\ Historic[customers[c].operation].customer = c
  <2>1. CASE \E i \in DOMAIN Historic : Historic[i].customer = c
    <3>1. PICK i \in DOMAIN Historic : Historic[i].customer = c
      BY <2>1
    <3>2. customers[c].operation = i /\ i \in Nat
      BY <1>2, <1>6, <3>1
    <3>3. customers[c].site = None /\ customers[c] = [operation |-> i, site |-> None]
      BY <1>1, <2>1, <3>2
    <3> QED
      BY <3>1, <3>2, <3>3 DEF Customer
  <2>2. CASE ~ \E i \in DOMAIN Historic : Historic[i].customer = c
    BY <1>1, <2>2 DEF Unlinked, Customer
  <2> QED
    BY <2>1, <2>2
<1>8. SystemTypes
  BY <1>1, <1>5, <1>7, InventoryAssumption DEF SystemTypes, HostsTypeOK
<1>9. Lineage
  <2>1. \A o \in DOMAIN operations : ~ Retried(o)
    BY <1>2, <1>4 DEF Retried
  <2> QED
    BY <1>2, <1>4, <1>5, <1>6, <1>7, <2>1 DEF Lineage
<1> QED
  BY <1>1, <1>8, <1>9 DEF RetriesFailed

\* A change of an open operation by its agent.
LEMMA ChangeKeeps ==
    ASSUME SystemTypes, Lineage, NEW o \in DOMAIN operations, NEW new \in Operation,
           operations[o].state = "open",
           new.retry_of = operations[o].retry_of, new.for = operations[o].for,
           new.state = "succeeded" => new.made,
           operations' = [operations EXCEPT ![o] = new],
           customers' = customers
    PROVE  operations' \in Seq(Operation) /\ Lineage' /\ Persist
<1>1. operations \in Seq(Operation) /\ Len(operations) \in Nat
      /\ DOMAIN operations = 1..Len(operations)
  BY DEF SystemTypes
<1>2. /\ operations' \in Seq(Operation) /\ Len(operations') = Len(operations)
      /\ DOMAIN operations' = DOMAIN operations
      /\ \A p \in DOMAIN operations :
            operations'[p] = IF p = o THEN new ELSE operations[p]
  BY <1>1
<1>3. \A p \in DOMAIN operations :
         operations'[p].retry_of = operations[p].retry_of
         /\ operations'[p].for = operations[p].for
  BY <1>2
<1>4. \A p \in DOMAIN operations : Retried(p)' <=> Retried(p)
  BY <1>2, <1>3 DEF Retried
<1>5. ~ Retried(o)
  BY DEF Lineage
<1>6. ASSUME NEW p \in DOMAIN operations'
      PROVE  /\ operations'[p].retry_of \in 0..Len(operations')
             /\ ~ Retried(p)' => customers'[operations'[p].for].operation = p
             /\ Retried(p)' => operations'[p].state = "unsuccessful"
             /\ operations'[p].state = "succeeded" => operations'[p].made
  BY <1>2, <1>3, <1>4, <1>5 DEF Lineage
<1>7. Lineage'
  BY <1>2, <1>3, <1>6 DEF Lineage
<1>8. Persist
  BY <1>2 DEF Persist
<1> QED
  BY <1>2, <1>7, <1>8

\* A new operation takes over the link of its customer: that customer had none,
\* or the operation that is retried.
LEMMA AuthorKeeps ==
    ASSUME SystemTypes, Lineage,
           NEW a \in Agents, NEW b \in Benches, NEW d \in Sites, NEW c \in Customers,
           NEW original \in 0..Len(operations), Author(a, b, d, original, c),
           original # 0 =>
               /\ ~ Retried(original) /\ operations[original].for = c
               /\ operations[original].state = "unsuccessful",
           customers[c].operation = original,
           customers' \in [Customers -> Customer],
           customers'[c].operation = Len(operations) + 1,
           \A x \in Customers \ {c} : customers'[x] = customers[x]
    PROVE  operations' \in Seq(Operation) /\ Lineage' /\ Persist
<1>0. PICK n \in Nat : n = Len(operations)
  BY DEF SystemTypes
<1> DEFINE new == [state |-> "open", agent |-> a, bench |-> b, domain |-> d,
                   retry_of |-> original, handover |-> FALSE, made |-> FALSE, for |-> c]
<1>1. /\ operations \in Seq(Operation) /\ DOMAIN operations = 1..n
      /\ n = Len(operations) /\ n \in Nat
  BY <1>0 DEF SystemTypes
<1>2. original \in Nat /\ new \in Operation
  BY <1>1 DEF Operation
<1>3. /\ operations' \in Seq(Operation) /\ Len(operations') = n + 1
      /\ \A p \in 1..n : operations'[p] = operations[p]
      /\ operations'[n + 1] = new
  BY <1>1, <1>2, AppendProperties DEF Author
<1>4. DOMAIN operations' = 1..(n + 1) /\ \A p \in 1..(n + 1) : p \in 1..n \/ p = n + 1
  BY <1>1, <1>3
<1>5. /\ new.state = "open" /\ new.retry_of = original /\ new.for = c
  OBVIOUS
<1> HIDE DEF new
<1>6. \A p \in 1..n : operations[p].retry_of \in 0..n
  BY <1>1 DEF Lineage
<1>7. \A p \in 1..n : Retried(p)' <=> Retried(p) \/ p = original
  BY <1>1, <1>3, <1>4, <1>5 DEF Retried
<1>8. ~ Retried(n + 1)'
  <2>1. \A p \in 1..n : operations'[p].retry_of # n + 1
    BY <1>1, <1>3, <1>6
  <2>2. operations'[n + 1].retry_of # n + 1
    BY <1>1, <1>3, <1>5
  <2> QED
    BY <1>4, <2>1, <2>2 DEF Retried
<1>9. ASSUME NEW p \in 1..n
      PROVE  /\ operations'[p].retry_of \in 0..(n + 1)
             /\ ~ Retried(p)' => customers'[operations'[p].for].operation = p
             /\ Retried(p)' => operations'[p].state = "unsuccessful"
             /\ operations'[p].state = "succeeded" => operations'[p].made
  <2>1. operations'[p] = operations[p] /\ operations[p] \in Operation
    BY <1>1, <1>3
  <2>2. operations'[p].retry_of \in 0..(n + 1)
    BY <1>1, <1>6, <2>1
  <2>3. Retried(p)' => operations'[p].state = "unsuccessful"
    <3>1. CASE Retried(p)
      BY <1>1, <2>1, <3>1 DEF Lineage
    <3>2. CASE p = original
      <4>1. original # 0
        BY <1>1, <3>2
      <4> QED
        BY <2>1, <3>2, <4>1
    <3> QED
      BY <1>7, <3>1, <3>2
  <2>4. ASSUME ~ Retried(p)' PROVE customers'[operations'[p].for].operation = p
    <3>1. ~ Retried(p) /\ p # original
      BY <1>7, <2>4
    <3>2. customers[operations[p].for].operation = p
      BY <1>1, <3>1 DEF Lineage
    <3>3. operations[p].for \in Customers /\ operations[p].for # c
      BY <2>1, <3>1, <3>2 DEF Operation
    <3> QED
      BY <2>1, <3>2, <3>3
  <2>5. operations'[p].state = "succeeded" => operations'[p].made
    BY <1>1, <2>1 DEF Lineage
  <2> QED
    BY <2>2, <2>3, <2>4, <2>5
<1>10. /\ operations'[n + 1].retry_of \in 0..(n + 1)
       /\ customers'[operations'[n + 1].for].operation = n + 1
       /\ operations'[n + 1].state = "open"
  BY <1>1, <1>3, <1>5
<1>11. ASSUME NEW x \in Customers, customers'[x].operation # 0
       PROVE  /\ customers'[x].operation \in 1..(n + 1)
              /\ operations'[customers'[x].operation].for = x
  <2>1. CASE x = c
    BY <1>1, <1>3, <1>5, <2>1
  <2>2. CASE x # c
    <3>1. customers[x].operation \in 1..n /\ operations[customers[x].operation].for = x
      BY <1>1, <1>11, <2>2 DEF Lineage
    <3> QED
      BY <1>1, <1>3, <2>2, <3>1
  <2> QED
    BY <2>1, <2>2
<1>12. Lineage'
  BY <1>3, <1>4, <1>8, <1>9, <1>10, <1>11 DEF Lineage
<1>13. Persist
  <2>1. ASSUME NEW x \in Customers, customers[x].operation \in 1..n,
               operations[customers[x].operation].state = "succeeded"
        PROVE  customers'[x].operation = customers[x].operation
    <3>1. x # c
      BY <1>1, <2>1
    <3> QED
      BY <3>1
  <2> QED
    BY <1>1, <1>3, <1>4, <2>1 DEF Persist
<1> QED
  BY <1>3, <1>12, <1>13

(***************************************************************************)
(* Links.                                                                  *)
(***************************************************************************)
\* A customer's creation has succeeded with its credential handed over, and the
\* row of its site is the one of its agent and bench.
Linkable(c) ==
    LET o == customers[c].operation
    IN  /\ o \in DOMAIN operations
        /\ operations[o].state = "succeeded" /\ operations[o].handover
        /\ sites[operations[o].domain].owner = operations[o].agent
        /\ sites[operations[o].domain].bench = operations[o].bench

Links ==
    /\ \A c \in Customers : customers[c].site # None =>
          Linkable(c) /\ customers[c].site = operations[customers[c].operation].domain
    /\ \A run \in job : \A c \in run.ready \cap Customers : Linkable(c)

SystemInv ==
    /\ Inv
    /\ SystemTypes
    /\ visitors \subseteq Customers
    /\ Lineage
    /\ RetriesFailed
    /\ Links

\* A customer that can be linked can be linked from then on, to the same site.
LEMMA LinkableStays ==
    ASSUME SystemTypes, Persist, SameOwners, NEW c \in Customers, Linkable(c)
    PROVE  /\ Linkable(c)'
           /\ operations'[customers'[c].operation].domain
                  = operations[customers[c].operation].domain
<1> DEFINE o == customers[c].operation
           op == operations[o]
<1>1. o \in DOMAIN operations /\ op.state = "succeeded" /\ op.handover
      /\ sites[op.domain].owner = op.agent /\ sites[op.domain].bench = op.bench
  BY DEF Linkable
<1>2. op \in Operation
  BY <1>1, ElementOfSeq DEF SystemTypes
<1>3. op.domain \in Sites /\ op.agent # None
  BY <1>2, InventoryAssumption DEF Operation
<1>4. customers'[c].operation = o /\ o \in DOMAIN operations' /\ operations'[o] = op
  BY <1>1 DEF Persist
<1>5. sites'[op.domain].owner = op.agent /\ sites'[op.domain].bench = op.bench
  BY <1>1, <1>3 DEF SameOwners
<1> QED
  BY <1>1, <1>4, <1>5 DEF Linkable

(***************************************************************************)
(* What the steps do to operations, customers, requests and the job.       *)
(***************************************************************************)
Effects ==
    /\ SystemTypes' /\ Lineage' /\ Persist
    /\ \A w \in Workers : \A r \in requests'[w] :
          \/ r \in requests[w]
          \/ r.kind = "retry" =>
                r.original \in DOMAIN operations
                /\ operations[r.original].state = "unsuccessful"
    /\ \A c \in Customers :
          \/ customers'[c].site = customers[c].site
          \/ /\ Linkable(c)
             /\ customers'[c].site = operations[customers[c].operation].domain
    /\ \A run \in job' : run \in job \/ \A c \in run.ready \cap Customers : Linkable(c)

\* A step that leaves operations and customers alone.
LEMMA QuietEffects ==
    ASSUME SystemInv, UNCHANGED <<operations, customers>>, HostsTypeOK',
           requests' \in [Workers -> SUBSET Request],
           \A w \in Workers : \A r \in requests'[w] :
              \/ r \in requests[w]
              \/ r.kind = "retry" =>
                    r.original \in DOMAIN operations
                    /\ operations[r.original].state = "unsuccessful",
           \A run \in job' : run \in job \/ \A c \in run.ready \cap Customers : Linkable(c)
    PROVE  Effects
<1>1. SystemTypes'
  BY DEF SystemInv, SystemTypes
<1>2. Lineage' /\ Persist
  BY DEF SystemInv, Lineage, Persist, Retried
<1> QED
  BY <1>1, <1>2 DEF Effects

\* A request that ends leaves those of the others.
LEMMA EndTypes ==
    ASSUME SystemTypes, NEW w \in Workers, End(w)
    PROVE  /\ requests' \in [Workers -> SUBSET Request]
           /\ \A v \in Workers : \A r \in requests'[v] : r \in requests[v]
  BY DEF SystemTypes, End

\* A request that begins is the only new one.
LEMMA BeginTypes ==
    ASSUME SystemTypes, NEW w \in Workers, NEW q \in Request, Begin(w, q)
    PROVE  /\ requests' \in [Workers -> SUBSET Request]
           /\ \A v \in Workers : \A r \in requests'[v] : r \in requests[v] \/ r = q
  BY DEF SystemTypes, Begin

\* A creation that is asked for.
LEMMA OpenCreateEffects ==
    ASSUME SystemInv, NEW w \in Workers, NEW c \in Customers, NEW a \in Agents,
           NEW b \in Benches, NEW d \in Sites, OpenCreate(w, c, a, b, d)
    PROVE  Effects
<1> DEFINE q == [kind |-> "create", customer |-> c, agent |-> a, bench |-> b, domain |-> d]
<1>1. q \in Request /\ q.kind = "create"
  BY DEF Request
<1>2. Begin(w, q) /\ UNCHANGED <<operations, customers, job, hosts>>
  BY DEF OpenCreate
<1> HIDE DEF q
<1>3. /\ requests' \in [Workers -> SUBSET Request]
      /\ \A v \in Workers : \A r \in requests'[v] : r \in requests[v] \/ r = q
  BY <1>1, <1>2, BeginTypes DEF SystemInv
<1>4. HostsTypeOK'
  BY <1>2 DEF SystemInv, SystemTypes, HostsTypeOK
<1> QED
  BY <1>1, <1>2, <1>3, <1>4, QuietEffects

\* A retry that is asked for: its original has failed.
LEMMA OpenRetryEffects ==
    ASSUME SystemInv, NEW w \in Workers, NEW o \in DOMAIN operations, OpenRetry(w, o)
    PROVE  Effects
<1> DEFINE q == [kind |-> "retry", original |-> o]
<1>1. o \in Nat /\ operations[o].state = "unsuccessful"
  BY DEF OpenRetry, SystemInv, SystemTypes
<1>2. q \in Request /\ q.original = o
  BY <1>1 DEF Request
<1>3. Begin(w, q) /\ UNCHANGED <<operations, customers, job, hosts>>
  BY DEF OpenRetry
<1> HIDE DEF q
<1>4. /\ requests' \in [Workers -> SUBSET Request]
      /\ \A v \in Workers : \A r \in requests'[v] : r \in requests[v] \/ r = q
  BY <1>2, <1>3, BeginTypes DEF SystemInv
<1>5. HostsTypeOK'
  BY <1>3 DEF SystemInv, SystemTypes, HostsTypeOK
<1> QED
  BY <1>1, <1>2, <1>3, <1>4, <1>5, QuietEffects

\* A creation is authored for a customer without a link.
LEMMA CommitCreateEffects ==
    ASSUME SystemInv, NEW w \in Workers, CommitCreate(w)
    PROVE  Effects
<1>1. PICK r \in requests[w] :
         /\ r.kind = "create"
         /\ Unchanged(r.customer)
         /\ Author(r.agent, r.bench, r.domain, 0, r.customer)
         /\ customers' = [customers EXCEPT ![r.customer].operation = Len(operations) + 1]
         /\ End(w) /\ UNCHANGED <<job, hosts>>
  BY DEF CommitCreate
<1>2. r \in Request
  BY DEF SystemInv, SystemTypes
<1>3. /\ r.customer \in Customers /\ r.agent \in Agents /\ r.bench \in Benches
      /\ r.domain \in Sites
  BY <1>1, <1>2 DEF Request
<1>4. Len(operations) \in Nat /\ 0 \in 0..Len(operations)
  BY DEF SystemInv, SystemTypes
<1>5. customers[r.customer].operation = 0
  BY <1>1 DEF Unchanged, Unlinked
<1>6. /\ customers' \in [Customers -> Customer]
      /\ customers'[r.customer].operation = Len(operations) + 1
      /\ \A x \in Customers \ {r.customer} : customers'[x] = customers[x]
      /\ \A x \in Customers : customers'[x].site = customers[x].site
  <2>1. PICK c \in Customers : c = r.customer
    BY <1>3
  <2>2. PICK n \in Nat : n = Len(operations) + 1
    BY <1>4
  <2>3. customers' = [customers EXCEPT ![c].operation = n]
    BY <1>1, <2>1, <2>2
  <2>4. customers \in [Customers -> Customer]
    BY DEF SystemInv, SystemTypes
  <2>5. /\ \A x \in Customers : customers'[x] =
               IF x = c THEN [customers[c] EXCEPT !.operation = n] ELSE customers[x]
        /\ customers' = [x \in Customers |-> customers'[x]]
    BY <2>3, <2>4
  <2>6. \A x \in Customers : customers[x] \in Customer
    BY <2>4
  <2>7. /\ [customers[c] EXCEPT !.operation = n] \in Customer
        /\ [customers[c] EXCEPT !.operation = n].operation = n
        /\ [customers[c] EXCEPT !.operation = n].site = customers[c].site
    BY <2>6 DEF Customer
  <2>8. \A x \in Customers : customers'[x] \in Customer
    BY <2>5, <2>6, <2>7
  <2> QED
    BY <2>1, <2>2, <2>5, <2>7, <2>8
<1>7. operations' \in Seq(Operation) /\ Lineage' /\ Persist
  BY <1>1, <1>3, <1>4, <1>5, <1>6, AuthorKeeps DEF SystemInv
<1>8. SystemTypes'
  BY <1>1, <1>6, <1>7, EndTypes DEF SystemInv, SystemTypes, HostsTypeOK
<1> QED
  BY <1>1, <1>6, <1>7, <1>8, EndTypes DEF Effects, SystemInv

\* A retry is authored for the one customer that has the original.
LEMMA CommitRetryEffects ==
    ASSUME SystemInv, NEW w \in Workers, CommitRetry(w)
    PROVE  Effects
<1>1. PICK r \in requests[w] :
         /\ r.kind = "retry"
         /\ ~ Retried(r.original)
         /\ Author(operations[r.original].agent, operations[r.original].bench,
                   operations[r.original].domain, r.original, operations[r.original].for)
         /\ customers' = [c \in Customers |->
                IF customers[c].operation = r.original
                THEN [customers[c] EXCEPT !.operation = Len(operations) + 1]
                ELSE customers[c]]
         /\ End(w) /\ UNCHANGED <<job, hosts>>
  BY DEF CommitRetry
<1> DEFINE o == r.original
           c == operations[o].for
<1>2. o \in DOMAIN operations /\ operations[o].state = "unsuccessful"
  BY <1>1 DEF SystemInv, RetriesFailed
<1>3. operations[o] \in Operation
  BY <1>2, ElementOfSeq DEF SystemInv, SystemTypes
<1>4. /\ c \in Customers /\ operations[o].agent \in Agents /\ operations[o].bench \in Benches
      /\ operations[o].domain \in Sites
  BY <1>3 DEF Operation
<1>5. Len(operations) \in Nat /\ o \in 0..Len(operations) /\ o # 0
  BY <1>2 DEF SystemInv, SystemTypes
<1>6. customers[c].operation = o
  BY <1>1, <1>2 DEF SystemInv, Lineage
<1>7. \A x \in Customers \ {c} : customers[x].operation # o
  BY <1>5 DEF SystemInv, Lineage
<1>8. \A x \in Customers : customers[x] \in Customer
  BY DEF SystemInv, SystemTypes
<1> HIDE DEF c, o
<1>9. /\ customers' \in [Customers -> Customer]
      /\ customers'[c].operation = Len(operations) + 1
      /\ \A x \in Customers \ {c} : customers'[x] = customers[x]
      /\ \A x \in Customers : customers'[x].site = customers[x].site
  BY <1>1, <1>4, <1>5, <1>6, <1>7, <1>8 DEF Customer, o
<1>10. operations' \in Seq(Operation) /\ Lineage' /\ Persist
  BY <1>1, <1>2, <1>4, <1>5, <1>6, <1>9, AuthorKeeps DEF SystemInv, c, o
<1>11. SystemTypes'
  BY <1>1, <1>9, <1>10, EndTypes DEF SystemInv, SystemTypes, HostsTypeOK
<1> QED
  BY <1>1, <1>9, <1>10, <1>11, EndTypes DEF Effects, SystemInv

\* An agent creates the site.
LEMMA CreateSiteEffects ==
    ASSUME SystemInv, NEW o \in DOMAIN operations, CreateSite(o)
    PROVE  Effects
<1>1. PICK op \in Operation : op = operations[o]
  BY ElementOfSeq DEF SystemInv, SystemTypes
<1>2. /\ op.state = "open" /\ op.bench \in DOMAIN hosts[op.agent]
      /\ op.domain \notin SitesIn(hosts[op.agent])
      /\ hosts' = [hosts EXCEPT ![op.agent][op.bench] = @ \cup {op.domain}]
      /\ operations' = [operations EXCEPT ![o].made = TRUE]
      /\ UNCHANGED <<customers, requests, job>>
  BY <1>1 DEF CreateSite
<1>3. op.agent \in Agents /\ op.bench \in Benches /\ op.domain \in Sites
  BY DEF Operation
<1>4. HostsTypeOK'
  <2>1. hosts \in [Agents -> Snapshot]
    BY DEF SystemInv, SystemTypes, HostsTypeOK
  <2>2. [hosts[op.agent] EXCEPT ![op.bench] = @ \cup {op.domain}] \in Snapshot
    BY <1>2, <1>3, <2>1, SiteAdded
  <2>3. hosts' = [hosts EXCEPT ![op.agent] =
            [hosts[op.agent] EXCEPT ![op.bench] = @ \cup {op.domain}]]
    BY <1>2, <1>3, <2>1
  <2> QED
    BY <1>3, <2>1, <2>2, <2>3 DEF HostsTypeOK
<1>5. PICK new \in Operation :
         /\ operations' = [operations EXCEPT ![o] = new]
         /\ new.retry_of = op.retry_of /\ new.for = op.for /\ new.made
  <2>1. [op EXCEPT !.made = TRUE] \in Operation
    BY DEF Operation
  <2>2. operations' = [operations EXCEPT ![o] = [op EXCEPT !.made = TRUE]]
    BY <1>1, <1>2
  <2>3. /\ [op EXCEPT !.made = TRUE].retry_of = op.retry_of
        /\ [op EXCEPT !.made = TRUE].for = op.for
        /\ [op EXCEPT !.made = TRUE].made
    BY DEF Operation
  <2> QED
    BY <2>1, <2>2, <2>3
<1>6. operations' \in Seq(Operation) /\ Lineage' /\ Persist
  BY <1>1, <1>2, <1>5, ChangeKeeps DEF SystemInv
<1> QED
  BY <1>2, <1>4, <1>6 DEF Effects, SystemInv, SystemTypes

\* An agent reports the outcome.
LEMMA ReportEffects ==
    ASSUME SystemInv, NEW o \in DOMAIN operations, Report(o)
    PROVE  Effects
<1>1. PICK op \in Operation : op = operations[o]
  BY ElementOfSeq DEF SystemInv, SystemTypes
<1>2. op.state = "open" /\ UNCHANGED <<customers, requests, job, hosts>>
  BY <1>1 DEF Report
<1>3. PICK new \in Operation :
         /\ operations' = [operations EXCEPT ![o] = new]
         /\ new.retry_of = op.retry_of /\ new.for = op.for
         /\ new.state = "succeeded" => new.made
  <2>1. CASE operations' = [operations EXCEPT ![o].state = "unsuccessful"]
    <3>1. [op EXCEPT !.state = "unsuccessful"] \in Operation
      BY DEF Operation
    <3>2. operations' = [operations EXCEPT ![o] = [op EXCEPT !.state = "unsuccessful"]]
      BY <1>1, <2>1
    <3>3. /\ [op EXCEPT !.state = "unsuccessful"].retry_of = op.retry_of
          /\ [op EXCEPT !.state = "unsuccessful"].for = op.for
          /\ [op EXCEPT !.state = "unsuccessful"].state = "unsuccessful"
      BY DEF Operation
    <3> QED
      BY <3>1, <3>2, <3>3
  <2>2. CASE /\ op.made
             /\ operations' = [operations EXCEPT ![o].state = "succeeded",
                                                 ![o].handover = TRUE]
    <3> DEFINE done == [op EXCEPT !.state = "succeeded", !.handover = TRUE]
    <3>1. done \in Operation
      BY DEF Operation
    <3>2. operations' = [operations EXCEPT ![o] = done]
      <4>1. operations \in Seq(Operation)
        BY DEF SystemInv, SystemTypes
      <4> QED
        BY <1>1, <2>2, <4>1
    <3>3. done.retry_of = op.retry_of /\ done.for = op.for /\ done.made
      BY <2>2 DEF Operation
    <3> HIDE DEF done
    <3> QED
      BY <3>1, <3>2, <3>3
  <2> QED
    BY <1>1, <2>1, <2>2 DEF Report
<1>4. operations' \in Seq(Operation) /\ Lineage' /\ Persist
  BY <1>1, <1>2, <1>3, ChangeKeeps DEF SystemInv
<1> QED
  BY <1>2, <1>4 DEF Effects, SystemInv, SystemTypes, HostsTypeOK

\* A customer that a run finds ready can be linked.
LEMMA ReadyIsLinkable ==
    ASSUME SystemInv, NEW c \in Customers, Eligible(c), Handed(c)
    PROVE  Linkable(c)
<1>1. PICK o \in DOMAIN operations :
         /\ customers[c] = [operation |-> o, site |-> None]
         /\ operations[o].state = "succeeded"
         /\ sites[operations[o].domain] = HeldSite(operations[o].agent, operations[o].bench)
  BY DEF Eligible
<1>2. customers[c].operation = o /\ operations[o].handover
  BY <1>1 DEF Handed
<1>3. /\ sites[operations[o].domain].owner = operations[o].agent
      /\ sites[operations[o].domain].bench = operations[o].bench
  BY <1>1 DEF HeldSite
<1> QED
  BY <1>1, <1>2, <1>3 DEF Linkable

\* A run of the job finds customers that are ready.
LEMMA OpenRunEffects == ASSUME SystemInv, OpenRun PROVE Effects
<1>1. job' = {[cursor |-> NextCursor, ready |-> ReadyOnes]}
      /\ UNCHANGED <<operations, customers, requests, hosts>>
  BY DEF OpenRun
<1>2. \A c \in ReadyOnes \cap Customers : Linkable(c)
  BY ReadyIsLinkable DEF ReadyOnes, Batch, Candidates
<1>3. \A run \in job' : \A c \in run.ready \cap Customers : Linkable(c)
  BY <1>1, <1>2
<1>4. HostsTypeOK' /\ requests' \in [Workers -> SUBSET Request]
  BY <1>1 DEF SystemInv, SystemTypes, HostsTypeOK
<1> QED
  BY <1>1, <1>3, <1>4, QuietEffects

\* A run links the customers that were ready when it began.
LEMMA FinishRunEffects == ASSUME SystemInv, FinishRun PROVE Effects
<1>1. PICK run \in job :
         /\ customers' = [c \in Customers |->
                IF c \in run.ready
                THEN [customers[c] EXCEPT !.site = operations[customers[c].operation].domain]
                ELSE customers[c]]
         /\ job' = {} /\ UNCHANGED <<operations, requests, hosts>>
  BY DEF FinishRun
<1>2. \A c \in run.ready \cap Customers : Linkable(c)
  BY DEF SystemInv, Links
<1>3. ASSUME NEW c \in Customers
      PROVE  /\ customers'[c] \in Customer
             /\ customers'[c].operation = customers[c].operation
             /\ \/ customers'[c].site = customers[c].site
                \/ /\ Linkable(c)
                   /\ customers'[c].site = operations[customers[c].operation].domain
  <2>1. customers[c] \in Customer
    BY DEF SystemInv, SystemTypes
  <2>2. CASE c \in run.ready
    <3>1. PICK d : d = operations[customers[c].operation].domain
      OBVIOUS
    <3>2. Linkable(c)
      BY <1>2, <2>2
    <3>3. operations[customers[c].operation] \in Operation
      BY <3>2, ElementOfSeq DEF Linkable, SystemInv, SystemTypes
    <3>4. d \in Sites
      BY <3>1, <3>3 DEF Operation
    <3>5. customers'[c] = [customers[c] EXCEPT !.site = d]
      BY <1>1, <2>2, <3>1
    <3> QED
      BY <2>1, <3>1, <3>2, <3>4, <3>5 DEF Customer
  <2>3. CASE c \notin run.ready
    BY <1>1, <2>1, <2>3
  <2> QED
    BY <2>2, <2>3
<1>4. customers' \in [Customers -> Customer]
  BY <1>1, <1>3
<1>5. SystemTypes'
  BY <1>1, <1>4 DEF SystemInv, SystemTypes, HostsTypeOK
<1>6. \A o \in DOMAIN operations : operations[o].for \in Customers
  <2>1. \A o \in DOMAIN operations : operations[o] \in Operation
    BY ElementOfSeq DEF SystemInv, SystemTypes
  <2> QED
    BY <2>1 DEF Operation
<1>7. Lineage'
  BY <1>1, <1>3, <1>6 DEF SystemInv, Lineage, Retried
<1>8. Persist
  BY <1>1, <1>3 DEF Persist
<1> QED
  BY <1>1, <1>3, <1>5, <1>7, <1>8 DEF Effects

\* A step that leaves the requests alone too, and begins no run.
LEMMA Quiet ==
    ASSUME SystemInv, UNCHANGED <<operations, customers, requests>>, HostsTypeOK',
           job' \subseteq job
    PROVE  Effects
<1>1. requests' \in [Workers -> SUBSET Request]
  BY DEF SystemInv, SystemTypes
<1> QED
  BY <1>1, QuietEffects

\* Every step is one of these.
LEMMA StepEffects == SystemInv /\ [Next]_vars => Effects
<1> SUFFICES ASSUME SystemInv, [Next]_vars PROVE Effects
  OBVIOUS
<1>0. HostsTypeOK
  BY DEF SystemInv, SystemTypes
<1>1. CASE UNCHANGED records
  <2>1. UNCHANGED <<operations, customers, requests, job, hosts>>
    BY <1>1 DEF records
  <2> QED
    BY <1>0, <2>1, Quiet DEF HostsTypeOK
<1>2. CASE Serve
  <2>1. ASSUME NEW w \in Workers, DropRequest(w) PROVE Effects
    <3>1. UNCHANGED <<operations, customers, job, hosts>> /\ End(w)
      BY <2>1 DEF DropRequest
    <3>2. HostsTypeOK'
      BY <1>0, <3>1 DEF HostsTypeOK
    <3> QED
      BY <3>1, <3>2, EndTypes, QuietEffects DEF SystemInv
  <2>2. visitors \subseteq Customers
    BY DEF SystemInv
  <2> QED
    BY <1>2, <2>1, <2>2, OpenCreateEffects, OpenRetryEffects, CommitCreateEffects,
       CommitRetryEffects DEF Serve
<1>3. ASSUME NEW a \in Agents, Move(a) PROVE Effects
  <2>1. HostsTypeOK' /\ UNCHANGED <<operations, customers, requests, job>>
    BY <1>0, <1>3, MoveKeepsHosts DEF Move
  <2> QED
    BY <2>1, Quiet
<1>4. CASE FailRun \/ LoseCursor
  <2>1. HostsTypeOK' /\ UNCHANGED <<operations, customers, requests>> /\ job' \subseteq job
    BY <1>0, <1>4 DEF FailRun, LoseCursor, HostsTypeOK
  <2> QED
    BY <2>1, Quiet
<1>5. CASE UNCHANGED vars
  BY <1>1, <1>5 DEF vars
<1> QED
  BY <1>1, <1>2, <1>3, <1>4, <1>5, CreateSiteEffects, ReportEffects, OpenRunEffects,
     FinishRunEffects DEF Next

(***************************************************************************)
(* The inventory within its system: agents report what is on their hosts.  *)
(***************************************************************************)
LEMMA InventoryParts == HostsTypeOK /\ [Next]_vars => [InventoryNext]_inventoryVars
<1> SUFFICES ASSUME HostsTypeOK, [Next]_vars PROVE [InventoryNext]_inventoryVars
  OBVIOUS
<1>1. CASE UNCHANGED vars
  BY <1>1 DEF vars
<1>2. ASSUME NEW w \in Workers, NEW a \in Agents, Reconcile(w, a, hosts[a])
      PROVE  [InventoryNext]_inventoryVars
  BY <1>2 DEF HostsTypeOK, InventoryNext
<1>3. ASSUME NEW w \in Workers, InventoryStep(w) PROVE [InventoryNext]_inventoryVars
  BY <1>3 DEF InventoryNext
<1> QED
  BY <1>1, <1>2, <1>3 DEF Next

\* Who may ask is settled at the start.
LEMMA VisitorsStay == [Next]_vars => UNCHANGED visitors
<1> SUFFICES ASSUME [Next]_vars PROVE UNCHANGED visitors
  OBVIOUS
<1>1. CASE UNCHANGED vars
  BY <1>1 DEF vars, scene
<1>2. CASE Serve
  BY <1>2 DEF Serve, OpenCreate, OpenRetry, CommitCreate, CommitRetry, DropRequest, scene
<1>3. ASSUME NEW o \in DOMAIN operations, CreateSite(o) \/ Report(o)
      PROVE  UNCHANGED visitors
  BY <1>3 DEF CreateSite, Report, scene
<1>4. ASSUME NEW a \in Agents, Move(a) PROVE UNCHANGED visitors
  BY <1>4 DEF Move
<1>5. CASE OpenRun \/ FinishRun \/ FailRun \/ LoseCursor
  BY <1>5 DEF OpenRun, FinishRun, FailRun, LoseCursor, scene
<1> QED
  BY <1>1, <1>2, <1>3, <1>4, <1>5 DEF Next, scene

\* The start is sound.
LEMMA SystemBegins == Init => SystemInv
<1> SUFFICES ASSUME Init PROVE SystemInv
  OBVIOUS
<1>1. Inv
  BY InventoryBegins DEF Init
<1>2. job = {} /\ visitors \subseteq Customers
  BY DEF Init
<1>3. ASSUME NEW c \in Customers PROVE customers[c].site = None
  <2>1. PICK n : customers[c] = [operation |-> n, site |-> None]
    BY DEF Init, Unlinked
  <2> QED
    BY <2>1
<1> QED
  BY <1>1, <1>2, <1>3, CoreInit DEF SystemInv, Links

\* Every step keeps the system sound and the owners of the rows.
LEMMA SystemKeeps == SystemInv /\ [Next]_vars => SystemInv' /\ SameOwners
<1> SUFFICES ASSUME SystemInv, [Next]_vars PROVE SystemInv' /\ SameOwners
  OBVIOUS
<1>1. Inv' /\ SameOwners
  BY InventoryParts, InventoryKeeps DEF SystemInv, SystemTypes
<1>2. Effects
  BY StepEffects
<1>3. visitors' \subseteq Customers
  BY VisitorsStay DEF SystemInv
<1>4. RetriesFailed'
  <2> SUFFICES ASSUME NEW w \in Workers, NEW r \in requests'[w], r.kind = "retry"
               PROVE  /\ r.original \in DOMAIN operations'
                      /\ operations'[r.original].state = "unsuccessful"
    BY DEF RetriesFailed
  <2>1. r.original \in DOMAIN operations /\ operations[r.original].state = "unsuccessful"
    BY <1>2 DEF Effects, SystemInv, RetriesFailed
  <2> QED
    BY <1>2, <2>1 DEF Effects, Persist
<1>5. ASSUME NEW c \in Customers, Linkable(c)
      PROVE  /\ Linkable(c)'
             /\ operations'[customers'[c].operation].domain
                    = operations[customers[c].operation].domain
  BY <1>1, <1>2, <1>5, LinkableStays DEF Effects, SystemInv
<1>6. ASSUME NEW c \in Customers, customers'[c].site # None
      PROVE  /\ Linkable(c)'
             /\ customers'[c].site = operations'[customers'[c].operation].domain
  <2>1. Linkable(c) /\ customers'[c].site = operations[customers[c].operation].domain
    BY <1>2, <1>6 DEF Effects, SystemInv, Links
  <2> QED
    BY <1>5, <2>1
<1>7. ASSUME NEW run \in job', NEW c \in run.ready \cap Customers PROVE Linkable(c)'
  <2>1. Linkable(c)
    BY <1>2 DEF Effects, SystemInv, Links
  <2> QED
    BY <1>5, <2>1
<1>8. Links'
  BY <1>6, <1>7 DEF Links
<1> QED
  BY <1>1, <1>2, <1>3, <1>4, <1>8 DEF SystemInv, Effects

\* The system is sound in every state.
LEMMA SystemAlways == Spec => []SystemInv
<1>1. Init => SystemInv
  BY SystemBegins
<1>2. SystemInv /\ [Next]_vars => SystemInv'
  BY SystemKeeps
<1> QED
  BY <1>1, <1>2, PTL DEF Spec

(***************************************************************************)
(* The rest of the types: the job's cursor and the bounds.                 *)
(***************************************************************************)
\* A finite set of natural numbers that is not empty has a greatest one: the one
\* with the fewest above it.
LEMMA GreatestNumber ==
    ASSUME NEW S \in SUBSET Nat, IsFiniteSet(S), S # {}
    PROVE  \E m \in S : \A k \in S : m >= k
<1> DEFINE Above(m) == {k \in S : k > m}
           T == {Cardinality(Above(m)) : m \in S}
           R == {ss \in Nat \X Nat : ss[1] < ss[2]}
<1>1. \A m \in S : IsFiniteSet(Above(m)) /\ Cardinality(Above(m)) \in Nat
  <2> SUFFICES ASSUME NEW m \in S
               PROVE  IsFiniteSet(Above(m)) /\ Cardinality(Above(m)) \in Nat
    OBVIOUS
  <2>1. Above(m) \in SUBSET S
    OBVIOUS
  <2> HIDE DEF Above
  <2> QED
    BY <2>1, FS_Subset, FS_CardinalityType
<1>2. IsWellFoundedOn(R, Nat)
  BY NatLessThanWellFounded DEF OpToRel
<1>3. PICK x \in T : \A y \in T : <<y, x>> \notin R
  <2>1. T \in SUBSET Nat /\ T # {}
    BY <1>1
  <2> HIDE DEF R, T
  <2> QED
    BY <1>2, <2>1, WFMin
<1>4. PICK m \in S : x = Cardinality(Above(m))
  OBVIOUS
<1>5. \A k \in S : ~ (Cardinality(Above(k)) < Cardinality(Above(m)))
  BY <1>1, <1>3, <1>4
<1>6. ASSUME NEW k \in S, k > m
      PROVE  FALSE
  <2>1. Above(k) \in SUBSET Above(m) /\ k \in Above(m) /\ k \notin Above(k)
    <3>1. \A y \in S : y \in Nat
      OBVIOUS
    <3>2. ~ (k > k) /\ \A y \in S : y > k => y > m
      BY <1>6, <3>1
    <3> QED
      BY <1>6, <3>2
  <2>2. Above(k) # Above(m)
    BY <2>1
  <2> HIDE DEF Above
  <2>3. /\ Cardinality(Above(k)) <= Cardinality(Above(m))
        /\ Cardinality(Above(m)) = Cardinality(Above(k)) => Above(m) = Above(k)
    BY <1>1, <2>1, FS_Subset
  <2> QED
    BY <1>1, <1>5, <2>2, <2>3
<1> QED
  BY <1>6

\* The cursor is a customer, or none.
LEMMA CursorType == NextCursor \in Customers \cup {0}
<1>1. CASE Cardinality(Batch) = BatchSize
  <2>1. Batch \in SUBSET Customers
    BY DEF Batch, Candidates
  <2>2. Batch # {}
    BY <1>1, FS_EmptySet, CustomerAssumption
  <2>3. Batch \in SUBSET Nat /\ IsFiniteSet(Batch)
    BY <2>1, CustomerAssumption, FS_Subset
  <2>4. \E m \in Batch : \A k \in Batch : m >= k
    BY <2>2, <2>3, GreatestNumber
  <2>5. Max(Batch) \in Batch
    BY <2>4 DEF Max
  <2> QED
    BY <1>1, <2>1, <2>5 DEF NextCursor
<1>2. CASE Cardinality(Batch) # BatchSize
  BY <1>2 DEF NextCursor
<1> QED
  BY <1>1, <1>2

\* What the job and the environment count.
CountersTypeOK ==
    /\ \A run \in job : run \in Run /\ run.cursor \in Customers \cup {0}
    /\ cursor \in Customers \cup {0}
    /\ asks \in 0..MaxAsks
    /\ faults \in 0..MaxFaults
    /\ moves \in 0..MaxMoves
    /\ reports \in 0..MaxReports

\* No step leaves these bounds.
LEMMA CountersKept == CountersTypeOK /\ [Next]_vars => CountersTypeOK'
<1> SUFFICES ASSUME CountersTypeOK, [Next]_vars
             PROVE  CountersTypeOK'
  OBVIOUS
<1>0. {MaxAsks, MaxFaults, MaxMoves, MaxReports} \subseteq Nat /\ Customers \subseteq Nat
  BY CustomerAssumption
<1>1. CASE OpenRun
  <2>1. NextCursor \in Customers \cup {0}
    BY CursorType
  <2>2. ReadyOnes \subseteq Customers
    BY DEF ReadyOnes, Batch, Candidates
  <2> DEFINE run == [cursor |-> NextCursor, ready |-> ReadyOnes]
  <2>3. run \in Run /\ run.cursor \in Customers \cup {0}
    <3>1. NextCursor \in Nat
      BY <1>0, <2>1
    <3>2. run.cursor = NextCursor
      OBVIOUS
    <3>3. run \in Run
      <4> HIDE DEF NextCursor, ReadyOnes
      <4> QED
        BY <2>2, <3>1 DEF Run
    <3> QED
      BY <2>1, <3>2, <3>3
  <2>4. job' = {run} /\ UNCHANGED <<cursor, asks, faults, moves, reports>>
    BY <1>1 DEF OpenRun, scene
  <2> HIDE DEF run
  <2> QED
    BY <2>3, <2>4 DEF CountersTypeOK
<1>2. CASE FinishRun \/ FailRun \/ LoseCursor
  BY <1>0, <1>2 DEF FinishRun, FailRun, LoseCursor, CountersTypeOK, scene
<1>3. CASE UNCHANGED <<job, cursor, asks, faults, moves, reports>>
  BY <1>3 DEF CountersTypeOK
<1>4. CASE Serve
  <2>1. /\ job' = job /\ cursor' = cursor
        /\ faults' = faults /\ moves' = moves /\ reports' = reports
        /\ asks' = asks \/ (asks > 0 /\ asks' = asks - 1)
    BY <1>4 DEF Serve, OpenCreate, OpenRetry, CommitCreate, CommitRetry, DropRequest,
                Begin, scene
  <2>2. asks' \in 0..MaxAsks
    <3>1. asks \in 0..MaxAsks /\ MaxAsks \in Nat
      BY <1>0 DEF CountersTypeOK
    <3> QED
      BY <2>1, <3>1
  <2> QED
    BY <2>1, <2>2 DEF CountersTypeOK
<1>5. ASSUME NEW o \in DOMAIN operations, CreateSite(o) \/ Report(o)
      PROVE  CountersTypeOK'
  BY <1>3, <1>5 DEF CreateSite, Report, scene
<1>6. ASSUME NEW a \in Agents, Move(a)
      PROVE  CountersTypeOK'
  BY <1>0, <1>6 DEF Move, CountersTypeOK
<1>7. ASSUME reports > 0, reports' = reports - 1,
             UNCHANGED <<records, visitors, asks, faults, moves>>
      PROVE  CountersTypeOK'
  BY <1>0, <1>7 DEF CountersTypeOK, records
<1>8. ASSUME UNCHANGED <<records, scene>>
      PROVE  CountersTypeOK'
  BY <1>3, <1>8 DEF records, scene
<1>9. CASE UNCHANGED vars
  BY <1>8, <1>9 DEF vars
<1> QED
  BY <1>1, <1>2, <1>4, <1>5, <1>6, <1>7, <1>8, <1>9 DEF Next

\* Rows, open requests, heartbeats and the job's cursor stay well-typed: in
\* particular the cursor is always a customer, or none (reconcile_customer_sites).
THEOREM SitesTypeCorrect == Spec => []TypeOK
<1>1. Init => CountersTypeOK
  BY CustomerAssumption DEF Init, CountersTypeOK
<1>2. CountersTypeOK /\ [Next]_vars => CountersTypeOK'
  BY CountersKept
<1>3. Spec => []CountersTypeOK
  BY <1>1, <1>2, PTL DEF Spec
<1>4. SystemInv /\ CountersTypeOK => TypeOK
  <2> SUFFICES ASSUME SystemInv, CountersTypeOK
               PROVE  TypeOK
    OBVIOUS
  <2>1. InventoryTypeOK
    BY DEF SystemInv, Inv
  <2> QED
    BY <2>1 DEF SystemInv, SystemTypes, HostsTypeOK, CountersTypeOK, TypeOK
<1> QED
  BY <1>3, <1>4, SystemAlways, PTL

\* The rows of benches and sites are what their agents have last reported, in the
\* system where the heartbeats carry what is on the hosts (replace_inventory).
THEOREM RowsAreReported == Spec => []RowsMatch
<1>1. SystemInv => RowsMatch
  BY DEF SystemInv, Inv
<1> QED
  BY <1>1, SystemAlways, PTL

\* No bench and no site ever passes to another agent (replace_inventory).
THEOREM OwnersAreFinal == Spec => OwnersStay
<1>1. SystemInv /\ [Next]_vars =>
        [/\ \A b \in Benches :
               benches[b].owner # None => benches'[b].owner = benches[b].owner
         /\ \A d \in Sites : sites[d].owner # None =>
               sites'[d].owner = sites[d].owner /\ sites'[d].bench = sites[d].bench
        ]_inventoryVars
  BY SystemKeeps DEF SameOwners
<1> QED
  BY <1>1, SystemAlways, PTL DEF Spec, OwnersStay

\* A creation that has not ended without success has the link of its customer, so
\* that no customer has two (create_production_site, retry_operation).
THEOREM CreationsDoNotMultiply == Spec => []OneCreation
<1>1. SystemInv => OneCreation
  BY DEF SystemInv, Lineage, OneCreation
<1> QED
  BY <1>1, SystemAlways, PTL

\* A linked site is the one that the customer's own creation has made, and belongs
\* to that agent and bench ever after (reconcile_customer_sites).
THEOREM LinksAreTrue == Spec => []LinkIsTrue
<1>1. SystemInv => LinkIsTrue
  <2> SUFFICES ASSUME SystemInv, NEW c \in Customers, customers[c].site # None
               PROVE  \E o \in DOMAIN operations :
                          /\ o = customers[c].operation
                          /\ operations[o].for = c
                          /\ operations[o].made /\ operations[o].handover
                          /\ operations[o].state = "succeeded"
                          /\ customers[c].site = operations[o].domain
                          /\ sites[customers[c].site].owner = operations[o].agent
                          /\ sites[customers[c].site].bench = operations[o].bench
    BY DEF LinkIsTrue
  <2> DEFINE o == customers[c].operation
  <2>1. Linkable(c) /\ customers[c].site = operations[o].domain
    BY DEF SystemInv, Links
  <2>2. o \in DOMAIN operations /\ operations[o].state = "succeeded"
        /\ operations[o].handover
        /\ sites[operations[o].domain].owner = operations[o].agent
        /\ sites[operations[o].domain].bench = operations[o].bench
    BY <2>1 DEF Linkable
  <2>3. operations[o].made
    BY <2>2 DEF SystemInv, Lineage
  <2>4. o # 0
    BY <2>2 DEF SystemInv, SystemTypes
  <2>5. operations[o].for = c
    BY <2>4 DEF SystemInv, Lineage
  <2> QED
    BY <2>1, <2>2, <2>3, <2>5
<1> QED
  BY <1>1, SystemAlways, PTL
=============================================================================
