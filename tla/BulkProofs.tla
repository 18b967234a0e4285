----------------------------- MODULE BulkProofs -----------------------------
(***************************************************************************)
(* Proofs about bulk orchestration.                                        *)
(*                                                                         *)
(* The job's work on a view is a loop over the parents, and within it a    *)
(* loop over a parent's targets.  Both are recursive functions: Recursion  *)
(* shows that such a function exists, from the least-number principle, and *)
(* LoopInduction reasons about it.  What the work amounts to is Sound; the *)
(* invariant says it of the job that is open, with what has not changed    *)
(* since it has read, and the commit makes it true of the rows.            *)
(***************************************************************************)
EXTENDS BulkProperties, SequenceTheorems, FiniteSetTheorems, WellFoundedInduction, TLAPS

-----------------------------------------------------------------------------
(***************************************************************************)
(* Loops.                                                                  *)
(***************************************************************************)
\* A set of natural numbers that is not empty has a least one.
LEMMA LeastNumber ==
    ASSUME NEW T \in SUBSET Nat, T # {}
    PROVE  \E m \in T : \A k \in T : m <= k
<1> DEFINE R == {ss \in Nat \X Nat : ss[1] < ss[2]}
<1>1. IsWellFoundedOn(R, Nat)
  BY NatLessThanWellFounded DEF OpToRel
<1>2. PICK m \in T : \A k \in T : <<k, m>> \notin R
  <2> HIDE DEF R
  <2> QED
    BY <1>1, WFMin
<1>3. \A k \in T : ~ (k < m)
  BY <1>2
<1> QED
  BY <1>3

\* What holds at the start of a loop and is kept by every turn holds at the end.
LEMMA LoopInduction ==
    ASSUME NEW n \in Nat, NEW S, 0 \in S, \A i \in 1..n : i - 1 \in S => i \in S
    PROVE  \A i \in 0..n : i \in S
<1> DEFINE T == (0..n) \ S
<1> SUFFICES ASSUME T # {} PROVE FALSE
  OBVIOUS
<1>1. T \in SUBSET Nat
  OBVIOUS
<1>2. PICK m \in T : \A k \in T : m <= k
  <2> HIDE DEF T
  <2> QED
    BY <1>1, LeastNumber
<1>3. m \in 1..n /\ m - 1 \in 0..n
  OBVIOUS
<1>4. m - 1 \in S
  BY <1>2, <1>3
<1> QED
  BY <1>3, <1>4

\* The i-th turn of the loop F makes g[i] of g[i - 1].
Turns(F, g, n) == \A i \in 1..n : g[i] = F[<<g[i - 1], i>>]

\* A loop that turns what is in X into what is in X has its results.
LEMMA Recursion ==
    ASSUME NEW X, NEW c \in X, NEW n \in Nat, NEW F \in [X \X (1..n) -> X]
    PROVE  \E g \in [0..n -> X] : g[0] = c /\ Turns(F, g, n)
<1> DEFINE Upto(m, g) ==
               g \in [0..m -> X] /\ g[0] = c /\ Turns(F, g, m)
           S == {m \in 0..n : \E g : Upto(m, g)}
<1>1. 0 \in S
  <2> DEFINE g == [i \in 0..0 |-> c]
  <2>1. g \in [0..0 -> X] /\ g[0] = c /\ 1..0 = {}
    OBVIOUS
  <2> HIDE DEF g
  <2>2. Upto(0, g)
    BY <2>1 DEF Turns
  <2> QED
    BY <2>2
<1>2. ASSUME NEW m \in 1..n, m - 1 \in S
      PROVE  m \in S
  <2>1. PICK g : Upto(m - 1, g)
    BY <1>2
  <2> DEFINE h == [i \in 0..m |-> IF i = m THEN F[<<g[m - 1], m>>] ELSE g[i]]
  <2>2. g[m - 1] \in X /\ F[<<g[m - 1], m>>] \in X
    BY <2>1
  <2>3. h \in [0..m -> X] /\ h[0] = c
    BY <2>1, <2>2
  <2>4. /\ \A i \in 0..(m - 1) : h[i] = g[i]
        /\ h[m] = F[<<g[m - 1], m>>]
    OBVIOUS
  <2> HIDE DEF h
  <2>5. \A i \in 1..m : h[i] = F[<<h[i - 1], i>>]
    <3> SUFFICES ASSUME NEW i \in 1..m
                 PROVE  h[i] = F[<<h[i - 1], i>>]
      OBVIOUS
    <3>1. i - 1 \in 0..(m - 1) /\ h[i - 1] = g[i - 1]
      BY <2>4
    <3>2. i # m => i \in 1..(m - 1) /\ h[i] = g[i]
      BY <2>4
    <3> QED
      BY <2>1, <2>4, <3>1, <3>2 DEF Turns
  <2>6. Upto(m, h)
    BY <2>3, <2>5 DEF Turns
  <2> QED
    BY <2>6
<1>3. n \in S
  <2> HIDE DEF S
  <2> QED
    BY <1>1, <1>2, LoopInduction
<1> QED
  BY <1>3

-----------------------------------------------------------------------------
(***************************************************************************)
(* Sequences.                                                              *)
(***************************************************************************)
\* What the loop that filters has after each of its turns.
Filters(F, s, chosen) ==
    /\ F[0] = <<>>
    /\ \A i \in 1..Len(s) :
          F[i] = IF s[i] \in chosen THEN Append(F[i - 1], s[i]) ELSE F[i - 1]

\* The loop that filters.
LEMMA FilterLoop ==
    ASSUME NEW S, NEW s \in Seq(S), NEW chosen
    PROVE  \E F \in [0..Len(s) -> Seq(S)] :
              Filters(F, s, chosen) /\ Filter(s, chosen) = F[Len(s)]
<1>1. /\ Len(s) \in Nat /\ <<>> \in Seq(S)
      /\ \A i \in 1..Len(s) : s[i] \in S
  BY LenProperties, ElementOfSeq
<1>2. \A x \in Seq(S) : \A e \in S : Append(x, e) \in Seq(S)
  BY AppendProperties
<1>3. \E g \in [0..Len(s) -> Seq(S)] : Filters(g, s, chosen)
  <2>0. PICK X, c : X = Seq(S) /\ c = <<>>
    OBVIOUS
  <2> DEFINE Turn == [x \in X \X (1..Len(s)) |->
                         IF s[x[2]] \in chosen THEN Append(x[1], s[x[2]]) ELSE x[1]]
  <2>1. Turn \in [X \X (1..Len(s)) -> X]
    BY <1>1, <1>2, <2>0
  <2>2. \A x \in X : \A i \in 1..Len(s) :
           Turn[<<x, i>>] = IF s[i] \in chosen THEN Append(x, s[i]) ELSE x
    OBVIOUS
  <2> HIDE DEF Turn
  <2>3. PICK g \in [0..Len(s) -> X] : g[0] = c /\ Turns(Turn, g, Len(s))
    <3>1. c \in X /\ Len(s) \in Nat
      BY <1>1, <2>0
    <3> QED
      BY <2>1, <3>1, Recursion, Zenon
  <2>4. \A i \in 1..Len(s) : g[i - 1] \in X
    BY <1>1
  <2> QED
    <3>1. Filters(g, s, chosen)
      BY <2>0, <2>2, <2>3, <2>4 DEF Turns, Filters
    <3> QED
      BY <2>0, <2>3, <3>1, Zenon
<1> DEFINE F == CHOOSE F : F = [i \in 0..Len(s) |->
                    IF i = 0 THEN <<>>
                    ELSE IF s[i] \in chosen THEN Append(F[i - 1], s[i])
                    ELSE F[i - 1]]
<1>4. Filter(s, chosen) = F[Len(s)]
  BY Zenon DEF Filter
<1>5. F = [i \in 0..Len(s) |->
              IF i = 0 THEN <<>>
              ELSE IF s[i] \in chosen THEN Append(F[i - 1], s[i])
              ELSE F[i - 1]]
  <2>1. PICK g \in [0..Len(s) -> Seq(S)] : Filters(g, s, chosen)
    BY <1>3
  <2> DEFINE h == [i \in 0..Len(s) |->
                      IF i = 0 THEN <<>>
                      ELSE IF s[i] \in chosen THEN Append(g[i - 1], s[i])
                      ELSE g[i - 1]]
  <2>2. \A i \in 0..Len(s) : g[i] = h[i]
    <3> SUFFICES ASSUME NEW i \in 0..Len(s)
                 PROVE  g[i] = h[i]
      OBVIOUS
    <3>1. i # 0 => i \in 1..Len(s)
      BY <1>1
    <3> QED
      BY <2>1, <3>1 DEF Filters
  <2>3. g = h
    BY <2>1, <2>2
  <2> QED
    BY <2>3, Zenon
<1> HIDE DEF F
<1>6. Filters(F, s, chosen)
  <2>1. \A i \in 0..Len(s) :
           F[i] = IF i = 0 THEN <<>>
                  ELSE IF s[i] \in chosen THEN Append(F[i - 1], s[i]) ELSE F[i - 1]
    BY <1>5
  <2> QED
    BY <1>1, <2>1 DEF Filters
<1>7. \A i \in 0..Len(s) : F[i] \in Seq(S)
  <2> DEFINE T == {i \in 0..Len(s) : F[i] \in Seq(S)}
  <2>1. 0 \in T
    <3>1. F[0] \in Seq(S) /\ 0 \in 0..Len(s)
      BY <1>1, <1>6 DEF Filters
    <3> QED
      BY <3>1
  <2>2. ASSUME NEW i \in 1..Len(s), i - 1 \in T
        PROVE  i \in T
    <3>1. F[i - 1] \in Seq(S) /\ s[i] \in S
      BY <1>1, <2>2
    <3>2. Append(F[i - 1], s[i]) \in Seq(S)
      BY <1>2, <3>1
    <3>3. F[i] \in Seq(S)
      BY <1>6, <3>1, <3>2 DEF Filters
    <3> QED
      BY <3>3
  <2>3. \A i \in 0..Len(s) : i \in T
    <3> HIDE DEF T
    <3> QED
      BY <1>1, <2>1, <2>2, LoopInduction
  <2> QED
    BY <2>3
<1>8. F \in [0..Len(s) -> Seq(S)]
  BY <1>5, <1>7
<1> WITNESS F \in [0..Len(s) -> Seq(S)]
<1> QED
  BY <1>4, <1>6

\* What a filter lets through is chosen.
LEMMA FilterFacts ==
    ASSUME NEW S, NEW s \in Seq(S), NEW chosen
    PROVE  /\ Filter(s, chosen) \in Seq(S)
           /\ \A i \in DOMAIN Filter(s, chosen) : Filter(s, chosen)[i] \in S \cap chosen
<1>1. PICK F \in [0..Len(s) -> Seq(S)] :
         Filters(F, s, chosen) /\ Filter(s, chosen) = F[Len(s)]
  BY FilterLoop, Zenon
<1> DEFINE n == Len(s)
           T == {j \in 0..n : \A i \in 1..Len(F[j]) : F[j][i] \in chosen}
<1>2. n \in Nat
  BY LenProperties
<1>3. 0 \in T
  BY <1>1, <1>2 DEF Filters
<1>4. ASSUME NEW j \in 1..n, j - 1 \in T
      PROVE  j \in T
  <2>1. F[j - 1] \in Seq(S) /\ s[j] \in S
    BY <1>1, <1>2, ElementOfSeq
  <2>2. CASE s[j] \in chosen
    <3>1. F[j] = Append(F[j - 1], s[j])
      BY <1>1, <2>2 DEF Filters
    <3> QED
      BY <1>4, <2>1, <2>2, <3>1, AppendProperties, LenProperties
  <2>3. CASE s[j] \notin chosen
    BY <1>1, <1>4, <2>3 DEF Filters
  <2> QED
    BY <2>2, <2>3
<1>5. n \in T
  <2> HIDE DEF T, n
  <2> QED
    BY <1>2, <1>3, <1>4, LoopInduction
<1>6. Filter(s, chosen) \in Seq(S)
  BY <1>1, <1>2
<1>7. DOMAIN Filter(s, chosen) = 1..Len(Filter(s, chosen))
  BY <1>6, LenProperties
<1> QED
  BY <1>1, <1>5, <1>6, <1>7, ElementOfSeq

-----------------------------------------------------------------------------
(***************************************************************************)
(* The fleet.                                                              *)
(***************************************************************************)
\* Every parent has a target, and every target is on a bench of an agent.
LEMMA FleetFacts ==
    /\ Len(Selections) \in Nat /\ Parents = 1..Len(Selections)
    /\ \A p \in Parents :
          /\ Selections[p] \in Seq(Sites) /\ Len(Selections[p]) \in Nat
          /\ DOMAIN Selections[p] = 1..Len(Selections[p])
          /\ 1 \in DOMAIN Selections[p]
          /\ TargetsOf(p) = {p} \X DOMAIN Selections[p]
    /\ \A t \in Targets :
          /\ t[1] \in Parents /\ t[2] \in DOMAIN Selections[t[1]]
          /\ t = <<t[1], t[2]>> /\ t \in TargetsOf(t[1])
          /\ Bench(t) \in Benches /\ Agent(t) \in Agents
<1>1. Len(Selections) \in Nat /\ Parents = 1..Len(Selections)
  BY FleetAssumption, LenProperties DEF Parents
<1>2. \A p \in Parents : Selections[p] \in Seq(Sites) \ {<<>>}
  BY <1>1, FleetAssumption, ElementOfSeq
<1>3. ASSUME NEW p \in Parents
      PROVE  /\ Selections[p] \in Seq(Sites) /\ Len(Selections[p]) \in Nat
             /\ DOMAIN Selections[p] = 1..Len(Selections[p])
             /\ 1 \in DOMAIN Selections[p]
  BY <1>2, EmptySeq, LenProperties
<1>4. ASSUME NEW t \in Targets
      PROVE  /\ t[1] \in Parents /\ t[2] \in DOMAIN Selections[t[1]]
             /\ t = <<t[1], t[2]>>
  BY DEF Targets
<1>5. ASSUME NEW p \in Parents
      PROVE  TargetsOf(p) = {p} \X DOMAIN Selections[p]
  BY DEF TargetsOf, Targets
<1>6. ASSUME NEW t \in Targets
      PROVE  Bench(t) \in Benches /\ Agent(t) \in Agents
  <2>1. Site(t) \in Sites
    BY <1>3, <1>4, ElementOfSeq DEF Site
  <2> QED
    BY <2>1, FleetAssumption DEF Bench, Agent
<1> QED
  BY <1>1, <1>3, <1>4, <1>5, <1>6 DEF TargetsOf

\* Targets and users are finitely many.
LEMMA FleetIsFinite ==
    /\ IsFiniteSet(Targets)
    /\ \A S \in SUBSET Targets : IsFiniteSet(S) /\ Cardinality(S) \in Nat
    /\ \A S \in SUBSET Commands : IsFiniteSet(S) /\ Cardinality(S) \in Nat
<1> DEFINE U == {{p} \X DOMAIN Selections[p] : p \in Parents}
<1>1. IsFiniteSet(Parents)
  BY FleetFacts, FS_Interval
<1>2. \A p \in Parents : IsFiniteSet({p} \X DOMAIN Selections[p])
  <2> SUFFICES ASSUME NEW p \in Parents
               PROVE  IsFiniteSet({p} \X DOMAIN Selections[p])
    OBVIOUS
  <2>1. IsFiniteSet(DOMAIN Selections[p])
    <3>1. Len(Selections[p]) \in Int /\ DOMAIN Selections[p] = 1..Len(Selections[p])
      BY FleetFacts
    <3>2. IsFiniteSet(1..Len(Selections[p]))
      BY <3>1, FS_Interval
    <3> QED
      BY <3>1, <3>2
  <2>2. IsFiniteSet({p})
    BY FS_Singleton
  <2> QED
    BY <2>1, <2>2, FS_Product
<1>3. IsFiniteSet(U)
  <2> DEFINE f == [p \in Parents |-> {p} \X DOMAIN Selections[p]]
  <2>1. U = {f[p] : p \in Parents}
    OBVIOUS
  <2>2. f \in Surjection(Parents, U)
    BY <2>1 DEF Surjection
  <2> HIDE DEF f, U
  <2> QED
    BY <1>1, <2>2, FS_Surjection
<1>4. IsFiniteSet(UNION U)
  <2>1. \A T \in U : IsFiniteSet(T)
    BY <1>2
  <2> HIDE DEF U
  <2> QED
    BY <1>3, <2>1, FS_UNION
<1>5. IsFiniteSet(Targets)
  BY <1>4 DEF Targets
<1>6. IsFiniteSet({"child", "cancel"})
  <2>1. IsFiniteSet({"child"})
    BY FS_Singleton
  <2>2. IsFiniteSet({"child"} \cup {"cancel"})
    BY <2>1, FS_AddElement
  <2>3. {"child", "cancel"} = {"child"} \cup {"cancel"}
    OBVIOUS
  <2> QED
    BY <2>2, <2>3
<1>7. IsFiniteSet(Commands)
  BY <1>5, <1>6, FS_Product DEF Commands
<1> QED
  BY <1>5, <1>7, FS_Subset, FS_CardinalityType

\* Commands are of a kind and of a target.
LEMMA CommandFacts ==
    /\ \A c \in Commands : /\ c[1] \in {"child", "cancel"} /\ c[2] \in Targets
                           /\ c = <<c[1], c[2]>>
    /\ \A t \in Targets : <<"child", t>> \in Commands /\ <<"cancel", t>> \in Commands
BY DEF Commands

-----------------------------------------------------------------------------
(***************************************************************************)
(* What each part of the job makes of what it has so far.                  *)
(***************************************************************************)
\* The states that the job may write.
Shown == {"canary", "running", "paused", "cancelling", "succeeded", "cancelled",
          "partial", "needs_intervention"}

\* e differs from d in the state of p only.
Restates(d, e, p) ==
    /\ e \in View
    /\ e.targets = d.targets /\ e.agents = d.agents /\ e.inflight = d.inflight
    /\ e.cancelling = d.cancelling /\ e.new = d.new /\ e.raised = d.raised
    /\ \A q \in Parents \ {p} : e.parents[q] = d.parents[q]
    /\ \E s \in Shown : e.parents[p] = [d.parents[p] EXCEPT !.state = s]

\* Writing a state.
LEMMA RestateFacts ==
    ASSUME NEW d \in View, NEW p \in Parents, NEW s \in Shown
    PROVE  /\ Restates(d, [d EXCEPT !.parents[p].state = s], p)
           /\ [d EXCEPT !.parents[p].state = s].parents[p].state = s
<1>1. s \in ParentStates
  BY DEF Shown, ParentStates, Reconciled, ParentTerminal
<1>2. d.parents \in [Parents -> ParentRow]
  BY DEF View
<1>3. [d.parents[p] EXCEPT !.state = s] \in ParentRow
  BY <1>1, <1>2 DEF ParentRow
<1>4. [d.parents[p] EXCEPT !.state = s].state = s
  BY <1>2 DEF ParentRow
<1> DEFINE rows == [d.parents EXCEPT ![p].state = s]
           e == [d EXCEPT !.parents = rows]
<1>5. rows \in [Parents -> ParentRow] /\ rows[p] = [d.parents[p] EXCEPT !.state = s]
  BY <1>2, <1>3
<1>6. \A q \in Parents \ {p} : rows[q] = d.parents[q]
  BY <1>2
<1> HIDE DEF rows
<1>7. /\ e \in View /\ e.parents = rows
      /\ e.targets = d.targets /\ e.agents = d.agents /\ e.inflight = d.inflight
      /\ e.cancelling = d.cancelling /\ e.new = d.new /\ e.raised = d.raised
  BY <1>5 DEF View
<1>8. e = [d EXCEPT !.parents[p].state = s]
  BY DEF rows
<1> QED
  BY <1>4, <1>5, <1>6, <1>7, <1>8 DEF Restates

\* An exception changes nothing else.
LEMMA RaiseFacts ==
    ASSUME NEW d \in View
    PROVE  Raise(d) \in View /\ Raise(d).raised
BY DEF Raise, View

\* The state of p is true of its targets in d.
TrueOf(d, p) ==
    LET states == {d.targets[t].state : t \in TargetsOf(p)}
    IN /\ d.parents[p].state = "succeeded" => states = {"succeeded"}
       /\ d.parents[p].state = "cancelled" => states = {"cancelled"}
       /\ d.parents[p].state = "partial" =>
              /\ states \subseteq Terminal
              /\ states \notin {{"succeeded"}, {"cancelled"}}

\* The outcome that _update shows is true.
LEMMA UpdateFacts ==
    ASSUME NEW d \in View, NEW p \in Parents,
           NEW active \in {"canary", "running", "paused", "cancelling"},
           NEW e, e = Update(d, p, active)
    PROVE  /\ e \in View
           /\ e.raised \/ (Restates(d, e, p) /\ TrueOf(e, p))
<1> DEFINE states == {d.targets[t].state : t \in TargetsOf(p)}
           s == IF ~ states \subseteq Terminal THEN active
                ELSE IF states \subseteq {"succeeded"} THEN "succeeded"
                ELSE IF states \subseteq {"cancelled"} THEN "cancelled"
                ELSE "partial"
           f == [d EXCEPT !.parents[p].state = s]
<1>1. s \in Shown
  BY DEF Shown
<1>2. e = IF s \in {d.parents[p].state} \cup Transitions[d.parents[p].state]
          THEN f ELSE Raise(d)
  BY DEF Update, Save
<1>3. states # {}
  <2>1. <<p, 1>> \in TargetsOf(p)
    BY FleetFacts
  <2> QED
    BY <2>1
<1>4. /\ s = "succeeded" => states = {"succeeded"}
      /\ s = "cancelled" => states = {"cancelled"}
      /\ s = "partial" => states \subseteq Terminal /\ states \notin {{"succeeded"}, {"cancelled"}}
  BY <1>3
<1> HIDE DEF s
<1>5. Restates(d, f, p) /\ f.parents[p].state = s
  BY <1>1, RestateFacts
<1>6. f.targets = d.targets
  BY <1>5 DEF Restates
<1> HIDE DEF f
<1>7. TrueOf(f, p)
  BY <1>4, <1>5, <1>6 DEF TrueOf
<1>8. f \in View
  BY <1>5 DEF Restates
<1> QED
  BY <1>2, <1>5, <1>7, <1>8, RaiseFacts

\* A parent that fails closed is shown to need intervention.
LEMMA FailClosedFacts ==
    ASSUME NEW d \in View, NEW p \in Parents, NEW e, e = FailClosed(d, p)
    PROVE  e \in View /\ Restates(d, e, p) /\ TrueOf(e, p)
<1>1. "needs_intervention" \in Shown
  BY DEF Shown
<1>2. Restates(d, e, p) /\ e.parents[p].state = "needs_intervention"
  BY <1>1, RestateFacts DEF FailClosed
<1> QED
  BY <1>2 DEF TrueOf, Restates

\* What the creation of commands makes of d.
Enqueued(d, e, kind, chosen) ==
    /\ e \in View
    /\ e.targets = d.targets /\ e.agents = d.agents /\ e.parents = d.parents
    /\ e.cancelling = d.cancelling /\ e.raised = d.raised
    /\ d.inflight \subseteq e.inflight
    /\ e.inflight \subseteq d.inflight \cup ({kind} \X chosen)
    /\ \A i \in DOMAIN e.new :
          \/ i \in DOMAIN d.new /\ e.new[i] = d.new[i]
          \/ e.new[i] \in {kind} \X chosen /\ e.new[i] \in e.inflight

\* The dispatcher creates a command for every target of the list.
LEMMA EnqueueFacts ==
    ASSUME NEW d \in View, NEW kind \in {"child", "cancel"}, NEW p \in Parents,
           NEW chosen \in SUBSET Targets
    PROVE  Enqueued(d, Enqueue(d, kind, InOrder(p, chosen)), kind, chosen)
<1> DEFINE all == [i \in DOMAIN Selections[p] |-> <<p, i>>]
<1>1. all \in Seq(Targets)
  <2>1. \A i \in 1..Len(Selections[p]) : <<p, i>> \in Targets
    BY FleetFacts DEF TargetsOf
  <2> QED
    BY <2>1, FleetFacts, IsASeq
<1>2. PICK ts \in Seq(Targets) :
         /\ ts = InOrder(p, chosen)
         /\ \A i \in DOMAIN ts : ts[i] \in chosen
  BY <1>1, FilterFacts DEF InOrder
<1> DEFINE created == [i \in DOMAIN ts |-> <<kind, ts[i]>>]
<1>3. DOMAIN ts = 1..Len(ts) /\ Len(ts) \in Nat
  BY LenProperties
<1>4. /\ created \in Seq(Commands) /\ DOMAIN created = DOMAIN ts
      /\ \A i \in DOMAIN ts : created[i] \in {kind} \X chosen
  <2>1. \A i \in 1..Len(ts) : <<kind, ts[i]>> \in Commands
    BY <1>2, <1>3 DEF Commands
  <2>2. created \in Seq(Commands)
    BY <1>3, <2>1, IsASeq
  <2> QED
    BY <1>2, <2>2
<1> DEFINE inflight == d.inflight \cup {created[i] : i \in DOMAIN ts}
           new == d.new \o created
           e == [d EXCEPT !.inflight = inflight, !.new = new]
<1>5. Enqueue(d, kind, InOrder(p, chosen)) = e
  BY <1>2 DEF Enqueue
<1>6. d.new \in Seq(Commands) /\ d.inflight \subseteq Commands
  BY DEF View
<1>7. \A i \in DOMAIN created : created[i] \in {kind} \X chosen
  BY <1>4
<1>8. inflight \subseteq Commands /\ inflight \subseteq d.inflight \cup ({kind} \X chosen)
  BY <1>4, <1>6 DEF Commands
<1>9. \A i \in DOMAIN created : created[i] \in inflight
  BY <1>4
<1> HIDE DEF created
<1>10. new \in Seq(Commands)
  BY <1>4, <1>6, ConcatProperties
<1>11. \A i \in DOMAIN new :
          \/ i \in DOMAIN d.new /\ new[i] = d.new[i]
          \/ \E j \in DOMAIN created : new[i] = created[j]
  <2>1. /\ Len(new) = Len(d.new) + Len(created)
        /\ \A i \in 1..Len(d.new) : new[i] = d.new[i]
        /\ \A i \in (Len(d.new) + 1)..(Len(d.new) + Len(created)) :
              new[i] = created[i - Len(d.new)]
    BY <1>4, <1>6, ConcatProperties
  <2>2. /\ DOMAIN new = 1..Len(new) /\ DOMAIN d.new = 1..Len(d.new)
        /\ DOMAIN created = 1..Len(created)
        /\ Len(d.new) \in Nat /\ Len(created) \in Nat
    BY <1>4, <1>6, <1>10, LenProperties
  <2> HIDE DEF new
  <2> SUFFICES ASSUME NEW i \in DOMAIN new, i \notin DOMAIN d.new
               PROVE  \E j \in DOMAIN created : new[i] = created[j]
    BY <2>1, <2>2
  <2>3. i - Len(d.new) \in DOMAIN created /\ new[i] = created[i - Len(d.new)]
    BY <2>1, <2>2
  <2> QED
    BY <2>3
<1> HIDE DEF new
<1>12. \A i \in DOMAIN new :
          \/ i \in DOMAIN d.new /\ new[i] = d.new[i]
          \/ new[i] \in {kind} \X chosen /\ new[i] \in inflight
  BY <1>7, <1>9, <1>11
<1>13. d.inflight \subseteq inflight
  OBVIOUS
<1> HIDE DEF inflight
<1>14. /\ e \in View /\ e.inflight = inflight /\ e.new = new
       /\ e.targets = d.targets /\ e.agents = d.agents /\ e.parents = d.parents
       /\ e.cancelling = d.cancelling /\ e.raised = d.raised
  BY <1>8, <1>10 DEF View
<1> HIDE DEF e
<1> QED
  BY <1>5, <1>8, <1>12, <1>13, <1>14 DEF Enqueued

-----------------------------------------------------------------------------
(***************************************************************************)
(* The targets that a reconciliation starts.                               *)
(***************************************************************************)
Eligible(d, p) == IF CanaryTerminal(d, p) THEN TargetsOf(p) ELSE Canaries(p)

\* The i-th target of p is started after those in T.
Starts(d, p, T, i) ==
    LET t == <<p, i>>
    IN /\ t \in Eligible(d, p)
       /\ d.targets[t].state = "planned"
       /\ d.agents[Agent(t)].accepting
       /\ BelowLimits(d, T, t)

\* What the loop has started after each of its turns.
Starting(S, d, p) ==
    /\ S[0] = {}
    /\ \A i \in 1..Len(Selections[p]) :
          S[i] = IF Starts(d, p, S[i - 1], i) THEN S[i - 1] \cup {<<p, i>>} ELSE S[i - 1]

\* The loop that starts targets.
LEMMA StartedLoop ==
    ASSUME NEW d, NEW p \in Parents
    PROVE  \E S \in [0..Len(Selections[p]) -> SUBSET TargetsOf(p)] :
              Starting(S, d, p) /\ Started(d, p) = S[Len(Selections[p])]
<1>1. /\ Len(Selections[p]) \in Nat
      /\ \A i \in 1..Len(Selections[p]) : <<p, i>> \in TargetsOf(p)
  BY FleetFacts
<1>2. \E g \in [0..Len(Selections[p]) -> SUBSET TargetsOf(p)] : Starting(g, d, p)
  <2>0. PICK X, c : X = SUBSET TargetsOf(p) /\ c = {}
    OBVIOUS
  <2> DEFINE Turn == [x \in X \X (1..Len(Selections[p])) |->
                         IF Starts(d, p, x[1], x[2]) THEN x[1] \cup {<<p, x[2]>>}
                         ELSE x[1]]
  <2>1. Turn \in [X \X (1..Len(Selections[p])) -> X]
    <3>1. \A x \in X, i \in 1..Len(Selections[p]) : x \cup {<<p, i>>} \in X
      BY <1>1, <2>0
    <3> QED
      BY <3>1
  <2>2. \A x \in X : \A i \in 1..Len(Selections[p]) :
           Turn[<<x, i>>] = IF Starts(d, p, x, i) THEN x \cup {<<p, i>>} ELSE x
    OBVIOUS
  <2> HIDE DEF Turn
  <2>3. PICK g \in [0..Len(Selections[p]) -> X] :
           g[0] = c /\ Turns(Turn, g, Len(Selections[p]))
    <3>1. c \in X
      BY <2>0
    <3> QED
      BY <1>1, <2>1, <3>1, Recursion, Zenon
  <2>4. \A i \in 1..Len(Selections[p]) : g[i - 1] \in X
    BY <1>1
  <2>5. Starting(g, d, p)
    BY <2>0, <2>2, <2>3, <2>4 DEF Turns, Starting
  <2> QED
    BY <2>0, <2>5
<1> DEFINE S == CHOOSE S : S = [i \in 0..Len(Selections[p]) |->
                    IF i = 0 THEN {}
                    ELSE IF Starts(d, p, S[i - 1], i) THEN S[i - 1] \cup {<<p, i>>}
                    ELSE S[i - 1]]
<1>3. Started(d, p) = S[Len(Selections[p])]
  BY Zenon DEF Started, Starts, Eligible
<1>4. S = [i \in 0..Len(Selections[p]) |->
              IF i = 0 THEN {}
              ELSE IF Starts(d, p, S[i - 1], i) THEN S[i - 1] \cup {<<p, i>>}
              ELSE S[i - 1]]
  <2>1. PICK g \in [0..Len(Selections[p]) -> SUBSET TargetsOf(p)] : Starting(g, d, p)
    BY <1>2
  <2> DEFINE h == [i \in 0..Len(Selections[p]) |->
                      IF i = 0 THEN {}
                      ELSE IF Starts(d, p, g[i - 1], i) THEN g[i - 1] \cup {<<p, i>>}
                      ELSE g[i - 1]]
  <2>2. ASSUME NEW i \in 0..Len(Selections[p])
        PROVE  g[i] = h[i]
    <3>1. i # 0 => i \in 1..Len(Selections[p])
      BY <1>1
    <3> QED
      BY <2>1, <3>1 DEF Starting
  <2>3. g = h
    BY <2>1, <2>2
  <2> QED
    BY <2>3, Zenon
<1> HIDE DEF S
<1>5. Starting(S, d, p)
  <2>1. \A i \in 0..Len(Selections[p]) :
           S[i] = IF i = 0 THEN {}
                  ELSE IF Starts(d, p, S[i - 1], i) THEN S[i - 1] \cup {<<p, i>>}
                  ELSE S[i - 1]
    BY <1>4
  <2>2. S[0] = {}
    <3>1. 0 \in 0..Len(Selections[p])
      BY <1>1
    <3> QED
      BY <2>1, <3>1, Zenon
  <2>3. ASSUME NEW i \in 1..Len(Selections[p])
        PROVE  S[i] = IF Starts(d, p, S[i - 1], i) THEN S[i - 1] \cup {<<p, i>>}
                      ELSE S[i - 1]
    <3>1. i \in 0..Len(Selections[p]) /\ i # 0
      BY <1>1
    <3> QED
      BY <2>1, <3>1, Zenon
  <2> QED
    BY <2>2, <2>3 DEF Starting
<1>6. \A i \in 0..Len(Selections[p]) : S[i] \in SUBSET TargetsOf(p)
  <2> DEFINE T == {i \in 0..Len(Selections[p]) : S[i] \in SUBSET TargetsOf(p)}
  <2>1. 0 \in T
    <3>1. S[0] \in SUBSET TargetsOf(p) /\ 0 \in 0..Len(Selections[p])
      BY <1>1, <1>5 DEF Starting
    <3> QED
      BY <3>1
  <2>2. ASSUME NEW i \in 1..Len(Selections[p]), i - 1 \in T
        PROVE  i \in T
    <3>1. S[i] \in {S[i - 1], S[i - 1] \cup {<<p, i>>}}
      BY <1>5 DEF Starting
    <3> QED
      BY <1>1, <2>2, <3>1
  <2>3. \A i \in 0..Len(Selections[p]) : i \in T
    <3> HIDE DEF T
    <3> QED
      BY <1>1, <2>1, <2>2, LoopInduction
  <2> QED
    BY <2>3
<1>7. S \in [0..Len(Selections[p]) -> SUBSET TargetsOf(p)]
  BY <1>4, <1>6
<1> WITNESS S \in [0..Len(Selections[p]) -> SUBSET TargetsOf(p)]
<1> QED
  BY <1>3, <1>5

OnAgent(a) == {t \in Targets : Agent(t) = a}
OnBench(b) == {t \in Targets : Bench(t) = b}

\* If one of T is in ts, then no more are in flight there than the limit says.
Within(d, T, ts, limit) == T \cap ts # {} => InFlightOn(d, T, ts) <= limit

\* What may be started together.
MayStartAll(d, p, T) ==
    /\ \A t \in T : /\ t \in Eligible(d, p)
                    /\ d.targets[t].state = "planned"
                    /\ d.agents[Agent(t)].accepting
    /\ Within(d, T, Targets, GlobalConcurrency)
    /\ \A a \in Agents : Within(d, T, OnAgent(a), AgentConcurrency)
    /\ \A b \in Benches : Within(d, T, OnBench(b), BenchConcurrency)

\* One more target below a limit.
LEMMA OneMoreWithin ==
    ASSUME NEW d \in View, NEW T \in SUBSET Targets, NEW t \in Targets,
           NEW ts \in SUBSET Targets, NEW limit \in Nat,
           Within(d, T, ts, limit), t \in ts => InFlightOn(d, T, ts) < limit
    PROVE  Within(d, T \cup {t}, ts, limit)
<1> DEFINE busy == Cardinality({c \in d.inflight : c[2] \in ts})
<1>1. busy \in Nat
  <2>1. {c \in d.inflight : c[2] \in ts} \in SUBSET Commands
    BY DEF View
  <2> QED
    BY <2>1, FleetIsFinite
<1>2. Cardinality(T \cap ts) \in Nat /\ IsFiniteSet(T \cap ts)
  BY FleetIsFinite
<1>3. CASE t \notin ts
  <2>1. (T \cup {t}) \cap ts = T \cap ts
    BY <1>3
  <2> QED
    BY <2>1 DEF Within, InFlightOn
<1>4. CASE t \in ts
  <2>1. (T \cup {t}) \cap ts = (T \cap ts) \cup {t}
    BY <1>4
  <2>2. Cardinality((T \cap ts) \cup {t}) \in
           {Cardinality(T \cap ts), Cardinality(T \cap ts) + 1}
    BY <1>2, FS_AddElement
  <2>3. busy + Cardinality(T \cap ts) < limit
    BY <1>4 DEF InFlightOn
  <2>4. busy + Cardinality((T \cap ts) \cup {t}) <= limit
    BY <1>1, <1>2, <2>2, <2>3
  <2> QED
    BY <2>1, <2>4 DEF Within, InFlightOn
<1> QED
  BY <1>3, <1>4

\* A turn of the loop starts only what may be started.
LEMMA StartsOneMore ==
    ASSUME NEW d \in View, NEW p \in Parents, NEW i \in 1..Len(Selections[p]),
           NEW T \in SUBSET Targets, MayStartAll(d, p, T), Starts(d, p, T, i)
    PROVE  MayStartAll(d, p, T \cup {<<p, i>>})
<1> DEFINE t == <<p, i>>
           total == Len(Selections[t[1]])
<1>1. t \in Targets /\ total \in Nat
  BY FleetFacts DEF TargetsOf
<1>2. {GlobalConcurrency, AgentConcurrency, BenchConcurrency} \subseteq Nat
  BY PolicyAssumption
<1>3. /\ InFlightOn(d, T, Targets) < Least(GlobalConcurrency, total)
      /\ InFlightOn(d, T, OnAgent(Agent(t))) < Least(AgentConcurrency, total)
      /\ InFlightOn(d, T, OnBench(Bench(t))) < BenchConcurrency
  BY DEF Starts, BelowLimits, OnAgent, OnBench
<1>4. \A ts \in SUBSET Targets : InFlightOn(d, T, ts) \in Nat
  <2> SUFFICES ASSUME NEW ts \in SUBSET Targets PROVE InFlightOn(d, T, ts) \in Nat
    OBVIOUS
  <2>1. {c \in d.inflight : c[2] \in ts} \in SUBSET Commands
    BY DEF View
  <2> QED
    BY <2>1, FleetIsFinite DEF InFlightOn
<1>5. /\ \A a : OnAgent(a) \in SUBSET Targets
      /\ \A b : OnBench(b) \in SUBSET Targets
  BY DEF OnAgent, OnBench
<1> HIDE DEF t, total
<1>6. \A m \in Nat : Least(m, total) <= m /\ Least(m, total) \in Nat
  BY <1>1 DEF Least
<1>7. /\ InFlightOn(d, T, Targets) < GlobalConcurrency
      /\ InFlightOn(d, T, OnAgent(Agent(t))) < AgentConcurrency
  <2>1. InFlightOn(d, T, Targets) \in Nat /\ InFlightOn(d, T, OnAgent(Agent(t))) \in Nat
    BY <1>4, <1>5
  <2>2. /\ GlobalConcurrency \in Nat /\ AgentConcurrency \in Nat
        /\ Least(GlobalConcurrency, total) <= GlobalConcurrency
        /\ Least(GlobalConcurrency, total) \in Nat
        /\ Least(AgentConcurrency, total) <= AgentConcurrency
        /\ Least(AgentConcurrency, total) \in Nat
    BY <1>2, <1>6
  <2> QED
    BY <1>3, <2>1, <2>2
<1>8. Within(d, T \cup {t}, Targets, GlobalConcurrency)
  BY <1>1, <1>2, <1>7, OneMoreWithin DEF MayStartAll
<1>9. ASSUME NEW a \in Agents
      PROVE  Within(d, T \cup {t}, OnAgent(a), AgentConcurrency)
  <2>1. t \in OnAgent(a) => a = Agent(t)
    BY DEF OnAgent
  <2> QED
    BY <1>1, <1>2, <1>5, <1>7, <2>1, OneMoreWithin DEF MayStartAll
<1>10. ASSUME NEW b \in Benches
       PROVE  Within(d, T \cup {t}, OnBench(b), BenchConcurrency)
  <2>1. t \in OnBench(b) => b = Bench(t)
    BY DEF OnBench
  <2> QED
    BY <1>1, <1>2, <1>3, <1>5, <2>1, OneMoreWithin DEF MayStartAll
<1>11. \A u \in T \cup {t} : /\ u \in Eligible(d, p)
                             /\ d.targets[u].state = "planned"
                             /\ d.agents[Agent(u)].accepting
  BY DEF MayStartAll, Starts, t
<1> QED
  BY <1>8, <1>9, <1>10, <1>11 DEF MayStartAll, t

\* What a reconciliation starts may be started together.
LEMMA StartedFacts ==
    ASSUME NEW d \in View, NEW p \in Parents
    PROVE  Started(d, p) \subseteq TargetsOf(p) /\ MayStartAll(d, p, Started(d, p))
<1>1. PICK S \in [0..Len(Selections[p]) -> SUBSET TargetsOf(p)] :
         Starting(S, d, p) /\ Started(d, p) = S[Len(Selections[p])]
  BY StartedLoop
<1>2. Len(Selections[p]) \in Nat /\ TargetsOf(p) \subseteq Targets
  BY FleetFacts DEF TargetsOf
<1> DEFINE T == {i \in 0..Len(Selections[p]) : MayStartAll(d, p, S[i])}
<1>3. 0 \in T
  <2>1. S[0] = {} /\ 0 \in 0..Len(Selections[p])
    BY <1>1, <1>2 DEF Starting
  <2>2. MayStartAll(d, p, S[0])
    BY <2>1 DEF MayStartAll, Within
  <2> QED
    BY <2>1, <2>2
<1>4. ASSUME NEW i \in 1..Len(Selections[p]), i - 1 \in T
      PROVE  i \in T
  <2>1. i - 1 \in 0..Len(Selections[p]) /\ MayStartAll(d, p, S[i - 1])
    BY <1>4
  <2>2. S[i - 1] \in SUBSET Targets
    BY <1>2, <2>1
  <2>3. S[i] = IF Starts(d, p, S[i - 1], i) THEN S[i - 1] \cup {<<p, i>>} ELSE S[i - 1]
    BY <1>1 DEF Starting
  <2>4. MayStartAll(d, p, S[i])
    BY <2>1, <2>2, <2>3, StartsOneMore
  <2> QED
    BY <2>4
<1>5. \A i \in 0..Len(Selections[p]) : i \in T
  <2> HIDE DEF T
  <2> QED
    BY <1>2, <1>3, <1>4, LoopInduction
<1> QED
  BY <1>1, <1>2, <1>5

-----------------------------------------------------------------------------
(***************************************************************************)
(* What the job makes of its view.                                         *)
(***************************************************************************)
\* t may be started by a job that has seen the view v.
MayBegin(v, t) ==
    /\ t[1] \in Listed(v) /\ MayStart(v, t[1])
    /\ ~ v.parents[t[1]].pause /\ ~ v.parents[t[1]].cancel
    /\ v.agents[Agent(t)].accepting
    /\ v.targets[t].inventory = v.agents[Agent(t)].inventory
    /\ t \notin Canaries(t[1]) =>
           \A u \in Canaries(t[1]) : v.targets[u].state \in Terminal \ Failing

\* The targets of which d has a child in flight.
Kids(d) == {t \in Targets : <<"child", t>> \in d.inflight}

\* The concurrency limits hold of the targets kids.
Bounded(kids) ==
    /\ Cardinality(kids) <= GlobalConcurrency
    /\ \A a \in Agents : Cardinality(kids \cap OnAgent(a)) <= AgentConcurrency
    /\ \A b \in Benches : Cardinality(kids \cap OnBench(b)) <= BenchConcurrency

\* A planned target of d is queued or cancelled in e.
Moved(d, e, t) ==
    /\ d.targets[t].state = "planned"
    /\ e.targets[t].state \in {"queued", "cancelled"}
    /\ e.targets[t].inventory = d.targets[t].inventory

\* The command c may be created by a job that has seen v, and is in d.
CommandSound(v, d, c) ==
    /\ c \in d.inflight
    /\ c[1] = "child" => MayBegin(v, c[2]) /\ d.targets[c[2]].state = "queued"

\* What d has of p, when the first n parents are reconciled, is true.
ParentSound(v, d, n, p) ==
    \/ d.parents[p] = v.parents[p]
    \/ /\ p \in Listed(v) /\ p <= n /\ TrueOf(d, p)
       /\ \E s \in Shown : d.parents[p] = [v.parents[p] EXCEPT !.state = s]

\* d is what the job makes of the view v by reconciling the first n parents.
Sound(v, d, n) ==
    /\ d \in View /\ d.agents = v.agents
    /\ v.inflight \subseteq d.inflight /\ Bounded(Kids(d))
    /\ \A p \in Parents : ParentSound(v, d, n, p)
    /\ \A t \in Targets :
          \/ d.targets[t] = v.targets[t]
          \/ t[1] \in Listed(v) /\ t[1] <= n /\ Moved(v, d, t)
    /\ \A i \in DOMAIN d.new : CommandSound(v, d, d.new[i])

\* e is what d becomes by the work on the targets of p.
Works(v, d, e, p) ==
    /\ e \in View /\ e.parents = d.parents /\ e.agents = d.agents
    /\ d.inflight \subseteq e.inflight /\ Bounded(Kids(e))
    /\ \A t \in Targets : \/ e.targets[t] = d.targets[t]
                          \/ t[1] = p /\ Moved(d, e, t)
    /\ \A i \in DOMAIN e.new : \/ i \in DOMAIN d.new /\ e.new[i] = d.new[i]
                               \/ CommandSound(v, e, e.new[i])

\* Reconciling the next parent, p, keeps Sound.
LEMMA WorkIsSound ==
    ASSUME NEW v \in View, NEW d, NEW e, NEW f, NEW p \in Listed(v),
           Sound(v, d, p - 1), Works(v, d, e, p), Restates(e, f, p), TrueOf(f, p)
    PROVE  Sound(v, f, p)
<1>1. /\ p \in Parents /\ p \in Nat
      /\ \A t \in Targets : t[1] \in Parents /\ t[1] \in Nat
      /\ \A q \in Parents : q \in Nat
  BY FleetFacts DEF Listed
<1>2. /\ f \in View /\ f.targets = e.targets /\ f.agents = e.agents
      /\ f.inflight = e.inflight /\ f.new = e.new
  BY DEF Restates
<1>3. /\ d \in View /\ e \in View /\ d.agents = v.agents /\ e.agents = d.agents
      /\ v.inflight \subseteq d.inflight /\ d.inflight \subseteq e.inflight
      /\ Bounded(Kids(e)) /\ e.parents = d.parents
  BY DEF Sound, Works
<1>4. \A t \in Targets : \/ e.targets[t] = d.targets[t]
                         \/ t[1] = p /\ Moved(d, e, t)
  BY DEF Works
<1>5. ASSUME NEW t \in Targets
      PROVE  \/ f.targets[t] = v.targets[t]
             \/ t[1] \in Listed(v) /\ t[1] <= p /\ Moved(v, f, t)
  <2>1. \/ d.targets[t] = v.targets[t]
        \/ t[1] \in Listed(v) /\ t[1] <= p - 1 /\ Moved(v, d, t)
    BY DEF Sound
  <2>2. CASE e.targets[t] = d.targets[t]
    BY <1>1, <1>2, <2>1, <2>2 DEF Moved
  <2>3. CASE t[1] = p /\ Moved(d, e, t)
    BY <1>1, <1>2, <2>1, <2>3 DEF Moved
  <2> QED
    BY <1>4, <2>2, <2>3
<1>6. ASSUME NEW i \in DOMAIN f.new
      PROVE  CommandSound(v, f, f.new[i])
  <2>1. CASE i \in DOMAIN d.new /\ e.new[i] = d.new[i]
    <3>1. CommandSound(v, d, d.new[i]) /\ d.new[i] \in Commands
      BY <1>3, <2>1, ElementOfSeq, LenProperties DEF Sound, View
    <3>2. d.new[i][2] \in Targets
      BY <3>1, CommandFacts
    <3>3. d.targets[d.new[i][2]].state = "queued" =>
             e.targets[d.new[i][2]].state = "queued"
      BY <1>4, <3>2 DEF Moved
    <3> QED
      BY <1>2, <1>3, <2>1, <3>1, <3>3 DEF CommandSound
  <2>2. CASE CommandSound(v, e, e.new[i])
    BY <1>2, <2>2 DEF CommandSound
  <2> QED
    BY <1>2, <2>1, <2>2 DEF Works
<1>7. ASSUME NEW q \in Parents
      PROVE  ParentSound(v, f, p, q)
  <2>1. ParentSound(v, d, p - 1, q)
    BY DEF Sound
  <2>2. CASE q = p
    <3>1. d.parents[p] = v.parents[p]
      BY <1>1, <2>1, <2>2 DEF ParentSound
    <3> QED
      BY <1>1, <1>3, <2>2, <3>1 DEF ParentSound, Restates
  <2>3. CASE q # p
    <3>1. f.parents[q] = d.parents[q]
      BY <1>3, <2>3 DEF Restates
    <3>2. \A t \in TargetsOf(q) : f.targets[t] = d.targets[t]
      BY <1>2, <1>4, <2>3 DEF TargetsOf
    <3>3. {f.targets[t].state : t \in TargetsOf(q)} =
             {d.targets[t].state : t \in TargetsOf(q)}
      BY <3>2
    <3>4. TrueOf(d, q) => TrueOf(f, q)
      BY <3>1, <3>3 DEF TrueOf
    <3> QED
      BY <1>1, <2>1, <3>1, <3>4 DEF ParentSound
  <2> QED
    BY <2>2, <2>3
<1> QED
  BY <1>2, <1>3, <1>5, <1>6, <1>7 DEF Sound, Kids

\* Children in flight on ts stay within a limit, if those started do.
LEMMA KidsWithin ==
    ASSUME NEW d \in View, NEW T \in SUBSET Targets, NEW ts \in SUBSET Targets,
           NEW limit \in Nat, Within(d, T, ts, limit),
           Cardinality(Kids(d) \cap ts) <= limit,
           NEW kids, kids \subseteq Kids(d) \cup T
    PROVE  Cardinality(kids \cap ts) <= limit
<1> DEFINE busy == {c \in d.inflight : c[2] \in ts}
           K == Kids(d) \cap ts
<1>1. /\ busy \in SUBSET Commands
      /\ K \in SUBSET Targets /\ T \cap ts \in SUBSET Targets
      /\ kids \cap ts \in SUBSET Targets
  BY DEF View, Kids
<1>2. /\ IsFiniteSet(busy) /\ Cardinality(busy) \in Nat
      /\ IsFiniteSet(K) /\ Cardinality(K) \in Nat
      /\ IsFiniteSet(T \cap ts) /\ Cardinality(T \cap ts) \in Nat
      /\ IsFiniteSet(kids \cap ts) /\ Cardinality(kids \cap ts) \in Nat
      /\ IsFiniteSet(K \cup (T \cap ts)) /\ Cardinality(K \cup (T \cap ts)) \in Nat
      /\ Cardinality(K \cap (T \cap ts)) \in Nat
  <2>1. K \cup (T \cap ts) \in SUBSET Targets /\ K \cap (T \cap ts) \in SUBSET Targets
    BY <1>1
  <2> HIDE DEF K, busy
  <2> QED
    BY <1>1, <2>1, FleetIsFinite
<1>3. Cardinality(K) <= Cardinality(busy)
  <2> DEFINE B == {c \in busy : c[1] = "child"}
             f == [c \in B |-> c[2]]
  <2>1. f \in Surjection(B, K)
    <3>1. \A c \in B : c[2] \in K
      BY <1>1, CommandFacts DEF Kids
    <3>2. \A t \in K : <<"child", t>> \in B /\ f[<<"child", t>>] = t
      BY DEF Kids
    <3> QED
      BY <3>1, <3>2 DEF Surjection
  <2>2. IsFiniteSet(B) /\ Cardinality(B) <= Cardinality(busy) /\ Cardinality(B) \in Nat
    <3>1. B \in SUBSET busy
      OBVIOUS
    <3> HIDE DEF B, busy
    <3> QED
      BY <1>2, <3>1, FS_Subset, FS_CardinalityType
  <2>3. Cardinality(K) <= Cardinality(B)
    <3> HIDE DEF B, K, f
    <3> QED
      BY <2>1, <2>2, FS_Surjection
  <2> HIDE DEF B, K, busy
  <2> QED
    BY <1>2, <2>2, <2>3
<1>4. CASE T \cap ts = {}
  <2>1. kids \cap ts \in SUBSET K
    BY <1>4
  <2>2. Cardinality(kids \cap ts) <= Cardinality(K)
    <3> HIDE DEF K
    <3> QED
      BY <1>2, <2>1, FS_Subset
  <2> QED
    BY <1>2, <2>2
<1>5. CASE T \cap ts # {}
  <2>1. Cardinality(busy) + Cardinality(T \cap ts) <= limit
    BY <1>5 DEF Within, InFlightOn
  <2>2. kids \cap ts \in SUBSET (K \cup (T \cap ts))
    OBVIOUS
  <2> HIDE DEF K, busy
  <2>3. Cardinality(kids \cap ts) <= Cardinality(K \cup (T \cap ts))
    BY <1>2, <2>2, FS_Subset
  <2>4. Cardinality(K \cup (T \cap ts)) =
           Cardinality(K) + Cardinality(T \cap ts) - Cardinality(K \cap (T \cap ts))
    BY <1>2, FS_Union
  <2> QED
    BY <1>2, <1>3, <2>1, <2>3, <2>4
<1> QED
  BY <1>4, <1>5

\* Without work on the targets.
LEMMA NoWork ==
    ASSUME NEW v, NEW d, NEW n, NEW p, Sound(v, d, n)
    PROVE  Works(v, d, d, p)
BY DEF Sound, Works

\* The rows of p and of its targets are as the job has seen them until it
\* comes to p.
LEMMA NotYet ==
    ASSUME NEW v \in View, NEW d, NEW p \in Listed(v), Sound(v, d, p - 1)
    PROVE  /\ p \in Parents /\ d.parents[p] = v.parents[p]
           /\ \A t \in TargetsOf(p) : t \in Targets /\ d.targets[t] = v.targets[t]
<1>1. p \in Parents /\ p \in Nat
  BY FleetFacts DEF Listed
<1>2. ParentSound(v, d, p - 1, p)
  BY <1>1 DEF Sound
<1>3. ~ (p <= p - 1)
  BY <1>1
<1>4. ASSUME NEW t \in TargetsOf(p)
      PROVE  t \in Targets /\ d.targets[t] = v.targets[t]
  BY <1>3 DEF Sound, TargetsOf
<1> QED
  BY <1>1, <1>2, <1>3, <1>4 DEF ParentSound

\* Writing the states of targets.
LEMMA RowsFacts ==
    ASSUME NEW d \in View, NEW rows \in [Targets -> TargetRow]
    PROVE  LET e == [d EXCEPT !.targets = rows]
           IN  /\ e \in View /\ e.targets = rows
               /\ e.parents = d.parents /\ e.agents = d.agents
               /\ e.inflight = d.inflight /\ e.new = d.new
BY DEF View

\* The states that job gives to planned targets are states of targets.
LEMMA MovedRow ==
    ASSUME NEW r \in TargetRow, NEW s \in {"queued", "cancelled"}
    PROVE  /\ [r EXCEPT !.state = s] \in TargetRow
           /\ [r EXCEPT !.state = s].state = s
           /\ [r EXCEPT !.state = s].inventory = r.inventory
BY DEF TargetRow, TargetStates, Terminal

\* Creating children of p keeps the limits and starts only what may begin.
LEMMA ChildrenWork ==
    ASSUME NEW v \in View, NEW d, NEW p \in Listed(v), Sound(v, d, p - 1),
           ~ d.parents[p].cancel, ~ d.parents[p].pause,
           ~ (CanaryTerminal(d, p) /\ BudgetExhausted(d, Canaries(p))),
           Started(d, p) = {} \/ MayStart(d, p),
           NEW e, e = WithChildren(d, p)
    PROVE  e \in View /\ (e.raised \/ Works(v, d, e, p))
<1> DEFINE started == Started(d, p)
           rows == [t \in Targets |-> IF t \in started
                                      THEN [d.targets[t] EXCEPT !.state = "queued"]
                                      ELSE d.targets[t]]
           f == [d EXCEPT !.targets = rows]
           stale == \E t \in started : d.targets[t].inventory # d.agents[Agent(t)].inventory
           g == Enqueue(f, "child", InOrder(p, started))
<1>1. /\ p \in Parents /\ d.parents[p] = v.parents[p]
      /\ \A t \in TargetsOf(p) : t \in Targets /\ d.targets[t] = v.targets[t]
  BY NotYet
<1>2. d \in View /\ d.agents = v.agents /\ Bounded(Kids(d))
  BY DEF Sound
<1>3. /\ started \subseteq TargetsOf(p) /\ started \in SUBSET Targets
      /\ MayStartAll(d, p, started)
  <2>1. started \subseteq TargetsOf(p) /\ MayStartAll(d, p, started)
    BY <1>1, <1>2, StartedFacts
  <2> QED
    BY <1>1, <2>1
<1>4. e = IF stale THEN Raise(d) ELSE g
  BY DEF WithChildren
<1>5. CASE stale
  BY <1>2, <1>4, <1>5, RaiseFacts
<1>6. CASE ~ stale
  <2>1. ASSUME NEW t \in Targets
        PROVE  /\ rows[t] \in TargetRow
               /\ t \in started => /\ rows[t].state = "queued"
                                   /\ rows[t].inventory = d.targets[t].inventory
               /\ t \notin started => rows[t] = d.targets[t]
    <3>1. d.targets[t] \in TargetRow
      BY <1>2 DEF View
    <3> QED
      BY <3>1, MovedRow
  <2>2. rows \in [Targets -> TargetRow]
    BY <2>1
  <2> HIDE DEF rows, started, stale
  <2>3. /\ f \in View /\ f.targets = rows
        /\ f.parents = d.parents /\ f.agents = d.agents
        /\ f.inflight = d.inflight /\ f.new = d.new
    BY <1>2, <2>2, RowsFacts
  <2> HIDE DEF f
  <2>4. Enqueued(f, g, "child", started)
    BY <1>1, <1>3, <2>3, EnqueueFacts
  <2>5. e = g
    BY <1>4, <1>6
  <2> HIDE DEF g
  <2>6. /\ e \in View /\ e.targets = rows /\ e.agents = d.agents
        /\ e.parents = d.parents /\ d.inflight \subseteq e.inflight
        /\ e.inflight \subseteq d.inflight \cup ({"child"} \X started)
        /\ \A i \in DOMAIN e.new :
              \/ i \in DOMAIN d.new /\ e.new[i] = d.new[i]
              \/ e.new[i] \in {"child"} \X started /\ e.new[i] \in e.inflight
    BY <2>3, <2>4, <2>5 DEF Enqueued
  <2>7. Bounded(Kids(e))
    <3>1. Kids(e) \subseteq Kids(d) \cup started /\ Kids(e) \in SUBSET Targets
      BY <2>6 DEF Kids
    <3>2. /\ GlobalConcurrency \in Nat /\ AgentConcurrency \in Nat
          /\ BenchConcurrency \in Nat
      BY PolicyAssumption
    <3>3. \A K \in SUBSET Targets : K \cap Targets = K
      OBVIOUS
    <3>4. Kids(d) \in SUBSET Targets
      BY DEF Kids
    <3>5. Cardinality(Kids(e)) <= GlobalConcurrency
      <4>1. Within(d, started, Targets, GlobalConcurrency)
        BY <1>3 DEF MayStartAll
      <4>2. Cardinality(Kids(d) \cap Targets) <= GlobalConcurrency
        BY <1>2, <3>3, <3>4 DEF Bounded
      <4>3. Cardinality(Kids(e) \cap Targets) <= GlobalConcurrency
        BY <1>2, <1>3, <3>1, <3>2, <4>1, <4>2, KidsWithin
      <4> QED
        BY <3>1, <3>3, <4>3
    <3>6. ASSUME NEW a \in Agents
          PROVE  Cardinality(Kids(e) \cap OnAgent(a)) <= AgentConcurrency
      <4>1. Within(d, started, OnAgent(a), AgentConcurrency)
        BY <1>3 DEF MayStartAll
      <4>2. OnAgent(a) \in SUBSET Targets
        BY DEF OnAgent
      <4>3. Cardinality(Kids(d) \cap OnAgent(a)) <= AgentConcurrency
        BY <1>2 DEF Bounded
      <4> QED
        BY <1>2, <1>3, <3>1, <3>2, <4>1, <4>2, <4>3, KidsWithin
    <3>7. ASSUME NEW b \in Benches
          PROVE  Cardinality(Kids(e) \cap OnBench(b)) <= BenchConcurrency
      <4>1. Within(d, started, OnBench(b), BenchConcurrency)
        BY <1>3 DEF MayStartAll
      <4>2. OnBench(b) \in SUBSET Targets
        BY DEF OnBench
      <4>3. Cardinality(Kids(d) \cap OnBench(b)) <= BenchConcurrency
        BY <1>2 DEF Bounded
      <4> QED
        BY <1>2, <1>3, <3>1, <3>2, <4>1, <4>2, <4>3, KidsWithin
    <3> QED
      BY <3>5, <3>6, <3>7 DEF Bounded
  <2>8. ASSUME NEW t \in Targets
        PROVE  \/ e.targets[t] = d.targets[t]
               \/ t[1] = p /\ Moved(d, e, t)
    <3>1. t \in started => t[1] = p /\ d.targets[t].state = "planned"
      BY <1>3 DEF MayStartAll, TargetsOf
    <3> QED
      BY <2>1, <2>6, <3>1 DEF Moved
  <2>9. ASSUME NEW t \in started
        PROVE  MayBegin(v, t) /\ e.targets[t].state = "queued"
    <3>1. t \in Targets /\ t[1] = p /\ d.targets[t] = v.targets[t]
      BY <1>1, <1>3 DEF TargetsOf
    <3>2. /\ t \in Eligible(d, p) /\ d.agents[Agent(t)].accepting
          /\ d.targets[t].inventory = d.agents[Agent(t)].inventory
      BY <1>3, <1>6 DEF MayStartAll, stale
    <3>3. MayStart(v, p)
      BY <1>1 DEF MayStart, started
    <3>4. t \notin Canaries(p) =>
             \A u \in Canaries(p) : v.targets[u].state \in Terminal \ Failing
      <4> SUFFICES ASSUME t \notin Canaries(p), NEW u \in Canaries(p)
                   PROVE  v.targets[u].state \in Terminal \ Failing
        OBVIOUS
      <4>1. CanaryTerminal(d, p)
        BY <3>2 DEF Eligible
      <4>2. u \in TargetsOf(p) /\ d.targets[u].state \in Terminal
        BY <4>1 DEF CanaryTerminal, Canaries
      <4>3. d.targets[u].state \notin Failing
        BY <4>1 DEF BudgetExhausted
      <4> QED
        BY <1>1, <4>2, <4>3
    <3> QED
      BY <1>1, <1>2, <2>1, <2>6, <3>1, <3>2, <3>3, <3>4 DEF MayBegin
  <2>10. ASSUME NEW i \in DOMAIN e.new
         PROVE  \/ i \in DOMAIN d.new /\ e.new[i] = d.new[i]
                \/ CommandSound(v, e, e.new[i])
    <3>1. CASE e.new[i] \in {"child"} \X started /\ e.new[i] \in e.inflight
      <4>1. e.new[i][2] \in started
        BY <3>1
      <4> QED
        BY <2>9, <3>1, <4>1 DEF CommandSound
    <3> QED
      BY <2>6, <3>1
  <2> QED
    BY <2>6, <2>7, <2>8, <2>10 DEF Works
<1> QED
  BY <1>5, <1>6

\* Cancelling targets of p starts none.
LEMMA CancellationsWork ==
    ASSUME NEW v \in View, NEW d, NEW p \in Listed(v), Sound(v, d, p - 1),
           NEW e, e = WithCancellations(d, p)
    PROVE  e \in View /\ (e.raised \/ Works(v, d, e, p))
<1> DEFINE asked == {t \in TargetsOf(p) :
                        /\ d.targets[t].state \notin Terminal \cup {"planned"}
                        /\ t \notin d.cancelling}
           rows == [t \in Targets |->
                      IF t \in TargetsOf(p) /\ d.targets[t].state = "planned"
                      THEN [d.targets[t] EXCEPT !.state = "cancelled"]
                      ELSE d.targets[t]]
           f == [d EXCEPT !.targets = rows]
           drained == \E t \in asked : ~ d.agents[Agent(t)].accepting
           g == Enqueue(f, "cancel", InOrder(p, asked))
<1>1. p \in Parents /\ asked \in SUBSET Targets
  BY NotYet DEF TargetsOf
<1>2. d \in View /\ d.agents = v.agents /\ Bounded(Kids(d))
  BY DEF Sound
<1>3. e = IF drained THEN Raise(d) ELSE g
  BY DEF WithCancellations
<1>4. CASE drained
  BY <1>2, <1>3, <1>4, RaiseFacts
<1>5. CASE ~ drained
  <2>1. ASSUME NEW t \in Targets
        PROVE  /\ rows[t] \in TargetRow
               /\ \/ rows[t] = d.targets[t]
                  \/ /\ t[1] = p /\ d.targets[t].state = "planned"
                     /\ rows[t].state = "cancelled"
                     /\ rows[t].inventory = d.targets[t].inventory
    <3>1. d.targets[t] \in TargetRow
      BY <1>2 DEF View
    <3>2. t \in TargetsOf(p) => t[1] = p
      BY DEF TargetsOf
    <3> QED
      BY <3>1, <3>2, MovedRow
  <2>2. rows \in [Targets -> TargetRow]
    BY <2>1
  <2> HIDE DEF rows, asked, drained
  <2>3. /\ f \in View /\ f.targets = rows
        /\ f.parents = d.parents /\ f.agents = d.agents
        /\ f.inflight = d.inflight /\ f.new = d.new
    BY <1>2, <2>2, RowsFacts
  <2> HIDE DEF f
  <2>4. Enqueued(f, g, "cancel", asked)
    BY <1>1, <2>3, EnqueueFacts
  <2>5. e = g
    BY <1>3, <1>5
  <2> HIDE DEF g
  <2>6. /\ e \in View /\ e.targets = rows /\ e.agents = d.agents
        /\ e.parents = d.parents /\ d.inflight \subseteq e.inflight
        /\ e.inflight \subseteq d.inflight \cup ({"cancel"} \X asked)
        /\ \A i \in DOMAIN e.new :
              \/ i \in DOMAIN d.new /\ e.new[i] = d.new[i]
              \/ e.new[i] \in {"cancel"} \X asked /\ e.new[i] \in e.inflight
    BY <2>3, <2>4, <2>5 DEF Enqueued
  <2>7. Kids(e) = Kids(d)
    BY <2>6 DEF Kids
  <2>8. \A t \in Targets : \/ e.targets[t] = d.targets[t]
                           \/ t[1] = p /\ Moved(d, e, t)
    BY <2>1, <2>6 DEF Moved
  <2>9. ASSUME NEW i \in DOMAIN e.new
        PROVE  \/ i \in DOMAIN d.new /\ e.new[i] = d.new[i]
               \/ CommandSound(v, e, e.new[i])
    BY <2>6 DEF CommandSound
  <2> QED
    BY <1>2, <2>6, <2>7, <2>8, <2>9 DEF Works
<1> QED
  BY <1>4, <1>5

\* Reconciling the next parent keeps Sound, or ends in an exception.
LEMMA ReconcileSound ==
    ASSUME NEW v \in View, NEW d, NEW p \in Listed(v), Sound(v, d, p - 1),
           NEW f, f = Reconcile(d, p)
    PROVE  f \in View /\ (f.raised \/ Sound(v, f, p))
<1>1. d \in View /\ p \in Parents
  BY NotYet DEF Sound
<1>2. Works(v, d, d, p)
  BY NoWork
<1>3. ASSUME NEW e \in View, Works(v, d, e, p),
             NEW active \in {"canary", "running", "paused", "cancelling"},
             f = Update(e, p, active)
      PROVE  f \in View /\ (f.raised \/ Sound(v, f, p))
  <2>1. /\ f \in View
        /\ f.raised \/ (Restates(e, f, p) /\ TrueOf(f, p))
    BY <1>1, <1>3, UpdateFacts
  <2> QED
    BY <1>3, <2>1, WorkIsSound
<1>4. CASE d.parents[p].cancel
  <2> DEFINE e == WithCancellations(d, p)
  <2>1. f = IF e.raised THEN e ELSE Update(e, p, "cancelling")
    BY <1>4 DEF Reconcile, Stop
  <2>2. e \in View /\ (e.raised \/ Works(v, d, e, p))
    BY CancellationsWork
  <2> HIDE DEF e
  <2> QED
    BY <1>3, <2>1, <2>2
<1>5. CASE f = Update(d, p, "paused")
  BY <1>1, <1>2, <1>3, <1>5
<1>6. CASE /\ ~ d.parents[p].cancel /\ ~ d.parents[p].pause
           /\ ~ (CanaryTerminal(d, p) /\ BudgetExhausted(d, Canaries(p)))
  <2> DEFINE e == WithChildren(d, p)
             closed == Started(d, p) # {} /\ ~ MayStart(d, p)
             active == IF BudgetExhausted(e, TargetsOf(p)) THEN "paused"
                       ELSE IF CanaryTerminal(d, p) THEN "running" ELSE "canary"
  <2>1. f = IF closed THEN FailClosed(d, p)
            ELSE IF e.raised THEN e ELSE Update(e, p, active)
    BY <1>6 DEF Reconcile, Advance
  <2>2. CASE closed
    <3>1. f \in View /\ Restates(d, f, p) /\ TrueOf(f, p)
      BY <1>1, <2>1, <2>2, FailClosedFacts
    <3> QED
      BY <1>2, <3>1, WorkIsSound
  <2>3. CASE ~ closed
    <3>1. e \in View /\ (e.raised \/ Works(v, d, e, p))
      BY <1>6, <2>3, ChildrenWork
    <3>2. active \in {"canary", "running", "paused", "cancelling"}
      OBVIOUS
    <3> HIDE DEF e, active, closed
    <3> QED
      BY <1>3, <2>1, <2>3, <3>1, <3>2
  <2> QED
    BY <2>2, <2>3
<1> QED
  BY <1>4, <1>5, <1>6 DEF Reconcile

\* A parent that is not listed is passed over.
LEMMA PassedOver ==
    ASSUME NEW v, NEW d, NEW n \in 1..Len(Selections), Sound(v, d, n - 1)
    PROVE  Sound(v, d, n)
<1>1. /\ \A p \in Parents : p \in Nat
      /\ \A t \in Targets : t[1] \in Nat
  BY FleetFacts
<1>2. \A p \in Parents : p <= n - 1 => p <= n
  BY <1>1
<1>3. \A t \in Targets : t[1] <= n - 1 => t[1] <= n
  BY <1>1
<1>4. \A p \in Parents : ParentSound(v, d, n, p)
  BY <1>2 DEF Sound, ParentSound
<1>5. \A t \in Targets :
         \/ d.targets[t] = v.targets[t]
         \/ t[1] \in Listed(v) /\ t[1] <= n /\ Moved(v, d, t)
  BY <1>3 DEF Sound
<1> QED
  BY <1>4, <1>5 DEF Sound

\* A turn of the job: p is reconciled if it is listed and nothing was raised.
Turn(v, d, p) ==
    IF p \notin Listed(v) \/ d.raised THEN d ELSE Reconcile(d, p)

\* d is Sound, if it has not ended in an exception.
SoundOrRaised(v, d, n) == d \in View /\ (d.raised \/ Sound(v, d, n))

\* A turn keeps that.
LEMMA TurnSound ==
    ASSUME NEW v \in View, NEW d, NEW n \in 1..Len(Selections),
           SoundOrRaised(v, d, n - 1)
    PROVE  SoundOrRaised(v, Turn(v, d, n), n)
<1>1. CASE d.raised
  BY <1>1 DEF Turn, SoundOrRaised
<1>2. CASE ~ d.raised /\ n \notin Listed(v)
  BY <1>2, PassedOver DEF Turn, SoundOrRaised
<1>3. CASE ~ d.raised /\ n \in Listed(v)
  <2>1. Turn(v, d, n) = Reconcile(d, n) /\ Sound(v, d, n - 1)
    BY <1>3 DEF Turn, SoundOrRaised
  <2> QED
    BY <1>3, <2>1, ReconcileSound DEF SoundOrRaised
<1> QED
  BY <1>1, <1>2, <1>3

\* What the job has after each turn.
Jobs(F, v) ==
    F[0] = v /\ \A n \in 1..Len(Selections) : F[n] = Turn(v, F[n - 1], n)

\* The loop over the parents.  Its turns are defined on views only, which is
\* enough since it starts with one.
LEMMA JobLoop ==
    ASSUME NEW v \in View, Sound(v, v, 0)
    PROVE  \E g \in [0..Len(Selections) -> View] : Jobs(g, v)
<1> DEFINE N == Len(Selections)
           T == [x \in View \X (1..N) |-> IF Turn(v, x[1], x[2]) \in View
                                          THEN Turn(v, x[1], x[2]) ELSE x[1]]
<1>1. N \in Nat
  BY FleetFacts
<1>2. T \in [View \X (1..N) -> View]
  OBVIOUS
<1>3. \A d \in View : \A n \in 1..N :
         Turn(v, d, n) \in View => T[<<d, n>>] = Turn(v, d, n)
  OBVIOUS
<1> HIDE DEF T
<1>4. PICK g \in [0..N -> View] : g[0] = v /\ Turns(T, g, N)
  BY <1>1, <1>2, Recursion, Zenon
<1> DEFINE S == {n \in 0..N : SoundOrRaised(v, g[n], n)}
<1>5. 0 \in S
  BY <1>1, <1>4 DEF SoundOrRaised
<1>6. ASSUME NEW n \in 1..N, n - 1 \in S
      PROVE  n \in S /\ g[n] = Turn(v, g[n - 1], n)
  <2>1. SoundOrRaised(v, g[n - 1], n - 1) /\ g[n - 1] \in View
    BY <1>6 DEF SoundOrRaised
  <2>2. SoundOrRaised(v, Turn(v, g[n - 1], n), n)
    BY <2>1, TurnSound
  <2>3. g[n] = T[<<g[n - 1], n>>]
    BY <1>4 DEF Turns
  <2>4. g[n] = Turn(v, g[n - 1], n)
    BY <1>3, <2>1, <2>2, <2>3 DEF SoundOrRaised
  <2> QED
    BY <1>1, <2>2, <2>4
<1>7. \A n \in 0..N : n \in S
  <2> HIDE DEF S, N
  <2> QED
    BY <1>1, <1>5, <1>6, LoopInduction
<1>8. Jobs(g, v)
  <2>1. \A n \in 1..N : n - 1 \in 0..N
    BY <1>1
  <2> HIDE DEF S
  <2> QED
    BY <1>4, <1>6, <1>7, <2>1 DEF Jobs
<1> QED
  BY <1>4, <1>8

\* What the job has in the end is Sound, if it has not ended in an exception.
LEMMA OutcomeSound ==
    ASSUME NEW v \in View, Sound(v, v, 0)
    PROVE  SoundOrRaised(v, Outcome(v), Len(Selections))
<1> DEFINE N == Len(Selections)
           F == CHOOSE F : F = [n \in 0..Len(Selections) |->
                    IF n = 0 THEN v
                    ELSE IF n \notin Listed(v) \/ F[n - 1].raised THEN F[n - 1]
                    ELSE Reconcile(F[n - 1], n)]
<1>1. N \in Nat
  BY FleetFacts
<1>2. Outcome(v) = F[Len(Selections)]
  BY Zenon DEF Outcome
<1>3. F = [n \in 0..Len(Selections) |->
              IF n = 0 THEN v
              ELSE IF n \notin Listed(v) \/ F[n - 1].raised THEN F[n - 1]
              ELSE Reconcile(F[n - 1], n)]
  <2>1. PICK g \in [0..Len(Selections) -> View] : Jobs(g, v)
    BY JobLoop
  <2> DEFINE h == [n \in 0..Len(Selections) |->
                      IF n = 0 THEN v
                      ELSE IF n \notin Listed(v) \/ g[n - 1].raised THEN g[n - 1]
                      ELSE Reconcile(g[n - 1], n)]
  <2>2. ASSUME NEW n \in 0..Len(Selections)
        PROVE  g[n] = h[n]
    <3>1. n # 0 => n \in 1..Len(Selections)
      BY <1>1
    <3> QED
      BY <2>1, <3>1 DEF Jobs, Turn
  <2>3. g = h
    BY <2>1, <2>2
  <2> QED
    BY <2>3, Zenon
<1> HIDE DEF F
<1>4. Jobs(F, v)
  <2>1. \A n \in 0..Len(Selections) :
           F[n] = IF n = 0 THEN v ELSE Turn(v, F[n - 1], n)
    BY <1>3 DEF Turn
  <2>2. F[0] = v
    <3>1. 0 \in 0..Len(Selections)
      BY <1>1
    <3> QED
      BY <2>1, <3>1, Zenon
  <2>3. ASSUME NEW n \in 1..Len(Selections)
        PROVE  F[n] = Turn(v, F[n - 1], n)
    <3>1. n \in 0..Len(Selections) /\ n # 0
      BY <1>1
    <3> QED
      BY <2>1, <3>1, Zenon
  <2> QED
    BY <2>2, <2>3 DEF Jobs
<1> DEFINE S == {n \in 0..N : SoundOrRaised(v, F[n], n)}
<1>5. 0 \in S
  BY <1>1, <1>4 DEF SoundOrRaised, Jobs
<1>6. ASSUME NEW n \in 1..N, n - 1 \in S
      PROVE  n \in S
  <2>1. SoundOrRaised(v, F[n - 1], n - 1)
    BY <1>6
  <2>2. SoundOrRaised(v, F[n], n)
    BY <1>4, <2>1, TurnSound DEF Jobs
  <2> QED
    BY <1>1, <2>2
<1>7. N \in S
  <2> HIDE DEF S, N
  <2> QED
    BY <1>1, <1>5, <1>6, LoopInduction
<1> QED
  BY <1>2, <1>7

-----------------------------------------------------------------------------
(***************************************************************************)
(* Every row stays well-typed.                                             *)
(***************************************************************************)
\* The view of a transaction that begins is a view.
LEMMA ReadViewType ==
    ASSUME TypeOK
    PROVE  ReadView \in View
<1>1. <<>> \in Seq(Commands)
  BY EmptySeq
<1> QED
  BY <1>1 DEF ReadView, View, TypeOK

\* A job that begins keeps the limits.
LEMMA ReadViewSound ==
    ASSUME TypeOK, WithinLimits
    PROVE  ReadView \in View /\ Sound(ReadView, ReadView, 0)
<1>1. ReadView \in View
  BY ReadViewType
<1>2. Kids(ReadView) = Live(Targets)
  BY CommandFacts DEF Kids, ReadView, Live
<1>3. \A a \in Agents : Kids(ReadView) \cap OnAgent(a) = Live({t \in Targets : Agent(t) = a})
  BY CommandFacts DEF Kids, ReadView, Live, OnAgent
<1>4. \A b \in Benches : Kids(ReadView) \cap OnBench(b) = Live({t \in Targets : Bench(t) = b})
  BY CommandFacts DEF Kids, ReadView, Live, OnBench
<1>5. Bounded(Kids(ReadView))
  BY <1>2, <1>3, <1>4 DEF Bounded, WithinLimits
<1>6. ReadView.new = <<>>
  BY DEF ReadView
<1>7. DOMAIN ReadView.new = {}
  BY <1>6
<1> QED
  BY <1>1, <1>5, <1>7 DEF Sound, ParentSound

\* A running job is of a view and what it has made of it.
LEMMA JobType ==
    ASSUME TypeOK, job # NoJob
    PROVE  job.seen \in View /\ job.done \in View
BY DEF TypeOK

\* What the commit creates was created by the job.
LEMMA CreatedFacts ==
    ASSUME TypeOK, job # NoJob
    PROVE  /\ job.done.new \in Seq(Commands)
           /\ \A c \in Created : c \in Commands /\ \E i \in DOMAIN job.done.new : c = job.done.new[i]
<1>1. job.done.new \in Seq(Commands)
  BY JobType DEF View
<1>2. \A i \in DOMAIN job.done.new : job.done.new[i] \in Commands
  BY <1>1, LenProperties, ElementOfSeq
<1> QED
  BY <1>1, <1>2 DEF Created

\* The writes of the commit are rows and commands.
LEMMA CommitType ==
    ASSUME TypeOK, CommitJob
    PROVE  TypeOK'
<1>1. job.seen \in View /\ job.done \in View /\ job.done.new \in Seq(Commands)
  BY JobType, CreatedFacts DEF CommitJob
<1>2. parents' \in [Parents -> ParentRow]
  BY <1>1 DEF CommitJob, TypeOK, View
<1>3. targets' \in [Targets -> TargetRow]
  BY <1>1 DEF CommitJob, TypeOK, View
<1>4. commands' \in [Commands -> CommandStates]
  BY DEF CommitJob, TypeOK, CommandStates
<1>5. queue' \in [Agents -> Seq(Commands)]
  <2>1. \A a \in Agents :
           Filter(job.done.new, {c \in Commands : Agent(c[2]) = a}) \in Seq(Commands)
    BY <1>1, FilterFacts
  <2>2. \A s, u \in Seq(Commands) : s \o u \in Seq(Commands)
    BY ConcatProperties
  <2> QED
    BY <2>1, <2>2 DEF CommitJob, TypeOK
<1>6. agents' \in [Agents -> AgentRow] /\ job' \in [seen: View, done: View] \cup {NoJob}
  BY DEF CommitJob, TypeOK
<1> QED
  BY <1>2, <1>3, <1>4, <1>5, <1>6 DEF TypeOK

\* The command that a poll leases is queued or expired.
LEMMA PolledCommand ==
    ASSUME TypeOK, NEW a \in Agents, Pollable(a) # <<>>
    PROVE  /\ Head(Pollable(a)) \in Commands
           /\ commands[Head(Pollable(a))] \in {"queued", "expired"}
<1> DEFINE chosen == {c \in Commands : commands[c] \in {"queued", "expired"}}
<1>1. queue[a] \in Seq(Commands)
  BY DEF TypeOK
<1>2. /\ Pollable(a) \in Seq(Commands)
      /\ \A i \in DOMAIN Pollable(a) : Pollable(a)[i] \in Commands \cap chosen
  BY <1>1, FilterFacts DEF Pollable
<1>3. 1 \in DOMAIN Pollable(a) /\ Head(Pollable(a)) = Pollable(a)[1]
  BY <1>2, EmptySeq, LenProperties
<1> QED
  BY <1>2, <1>3

\* A report is one of those that agents make.
LEMMA ReportType ==
    ASSUME TypeOK, NEW c \in Commands, NEW status \in Reports, Report(c, status)
    PROVE  TypeOK'
<1>1. /\ c[2] \in Targets /\ Agent(c[2]) \in Agents
      /\ status \in TargetStates /\ status \in CommandStates
  BY CommandFacts, FleetFacts, ReportsAssumption DEF TargetStates, CommandStates
<1>2. commands' \in [Commands -> CommandStates]
  BY <1>1 DEF Report, TypeOK
<1>3. targets' \in [Targets -> TargetRow]
  <2>1. targets[c[2]] \in TargetRow
    BY <1>1 DEF TypeOK
  <2>2. [targets[c[2]] EXCEPT !.state = status] \in TargetRow
    BY <1>1, <2>1 DEF TargetRow
  <2> QED
    BY <1>1, <2>2 DEF Report, TypeOK
<1>4. queue' \in [Agents -> Seq(Commands)]
  <2>1. Filter(queue[Agent(c[2])], Commands \ {c}) \in Seq(Commands)
    BY <1>1, FilterFacts DEF TypeOK
  <2> QED
    BY <1>1, <2>1 DEF Report, TypeOK
<1> QED
  BY <1>2, <1>3, <1>4 DEF Report, TypeOK

\* A new parent and its targets.
LEMMA InsertType ==
    ASSUME TypeOK, NEW p \in Parents, NEW source \in {0} \cup Parents,
           Insert(p, source)
    PROVE  TypeOK'
<1> DEFINE row == [parents[p] EXCEPT !.state = "awaiting_approval", !.retry_of = source]
<1>1. parents[p] \in ParentRow /\ "awaiting_approval" \in ParentStates
  BY DEF TypeOK, ParentStates
<1>2. row \in ParentRow
  BY <1>1 DEF ParentRow
<1>3. parents' = [parents EXCEPT ![p] = row]
  BY DEF Insert, TypeOK
<1> HIDE DEF row
<1>4. parents' \in [Parents -> ParentRow]
  BY <1>2, <1>3 DEF TypeOK
<1>5. targets' \in [Targets -> TargetRow]
  <2> SUFFICES ASSUME NEW t \in Targets
               PROVE  [state |-> "planned", inventory |-> agents[Agent(t)].inventory]
                         \in TargetRow
    BY DEF Insert, TypeOK
  <2>1. agents[Agent(t)] \in AgentRow
    BY FleetFacts DEF TypeOK
  <2>2. agents[Agent(t)].inventory \in 0..MaxInventory
    BY <2>1, PolicyAssumption DEF AgentRow
  <2> QED
    BY <2>2 DEF TargetRow, TargetStates
<1> QED
  BY <1>4, <1>5 DEF Insert, TypeOK

\* A request of a user that writes the row of a parent.
LEMMA UserType ==
    ASSUME TypeOK, NEW p \in Parents,
           \/ Pause(p) \/ Resume(p) \/ Cancel(p)
           \/ \E u \in Approvers, decision \in {"approved", "rejected"} :
                 Decide(p, u, decision)
    PROVE  TypeOK'
<1>1. /\ parents \in [Parents -> ParentRow] /\ parents[p] \in ParentRow
      /\ {"approved", "rejected", "canary", "running"} \subseteq ParentStates
  BY DEF TypeOK, ParentStates, Reconciled, ParentTerminal
<1>2. \A row \in ParentRow : [parents EXCEPT ![p] = row] \in [Parents -> ParentRow]
  BY <1>1
<1>3. CASE Pause(p)
  <2>1. [parents[p] EXCEPT !.pause = TRUE] \in ParentRow
    BY <1>1 DEF ParentRow
  <2> QED
    BY <1>1, <1>2, <1>3, <2>1 DEF Pause, TypeOK
<1>4. CASE Cancel(p)
  <2>1. [parents[p] EXCEPT !.cancel = TRUE] \in ParentRow
    BY <1>1 DEF ParentRow
  <2> QED
    BY <1>1, <1>2, <1>4, <2>1 DEF Cancel, TypeOK
<1>5. CASE Resume(p)
  <2>1. PICK s \in {"canary", "running"} :
           parents' = [parents EXCEPT ![p].state = s, ![p].pause = FALSE]
    BY <1>5 DEF Resume
  <2>2. [parents[p] EXCEPT !.state = s, !.pause = FALSE] \in ParentRow
    BY <1>1 DEF ParentRow
  <2>3. parents' = [parents EXCEPT ![p] = [parents[p] EXCEPT !.state = s, !.pause = FALSE]]
    BY <1>1, <2>1
  <2>4. parents' \in [Parents -> ParentRow]
    BY <1>2, <2>2, <2>3
  <2> QED
    BY <1>5, <2>4 DEF Resume, TypeOK
<1>6. ASSUME NEW u \in Approvers, NEW decision \in {"approved", "rejected"},
             Decide(p, u, decision)
      PROVE  TypeOK'
  <2>1. CASE decision = "rejected"
    <3>1. [parents[p] EXCEPT !.state = "rejected"] \in ParentRow
      BY <1>1 DEF ParentRow
    <3> QED
      BY <1>1, <1>2, <1>6, <2>1, <3>1 DEF Decide, TypeOK
  <2>2. CASE decision # "rejected"
    <3> DEFINE approvals == parents[p].approvals \cup {u}
               s == IF Cardinality(approvals) >= RequiredApprovals
                    THEN "approved" ELSE parents[p].state
               row == [parents[p] EXCEPT !.approvals = approvals, !.state = s]
    <3>1. approvals \in SUBSET Approvers /\ s \in ParentStates
      BY <1>1 DEF ParentRow
    <3>2. parents' = [parents EXCEPT ![p] = row]
      BY <1>1, <1>6, <2>2 DEF Decide
    <3> HIDE DEF approvals, s
    <3>3. row \in ParentRow
      BY <1>1, <3>1 DEF ParentRow
    <3> HIDE DEF row
    <3>4. parents' \in [Parents -> ParentRow]
      BY <1>2, <3>2, <3>3
    <3> QED
      BY <1>6, <3>4 DEF Decide, TypeOK
  <2> QED
    BY <2>1, <2>2
<1> QED
  BY <1>3, <1>4, <1>5, <1>6

\* Every step keeps every row well-typed.  That the job's view is one needs its
\* soundness, and so the limits.
LEMMA TypeStep ==
    ASSUME TypeOK, WithinLimits, [Next]_vars
    PROVE  TypeOK'
<1>1. ASSUME NEW p \in Parents, NEW source \in {0} \cup Parents, Insert(p, source)
      PROVE  TypeOK'
  BY <1>1, InsertType
<1>2. ASSUME NEW p \in Parents,
             \/ Pause(p) \/ Resume(p) \/ Cancel(p)
             \/ \E u \in Approvers, decision \in {"approved", "rejected"} :
                   Decide(p, u, decision)
      PROVE  TypeOK'
  BY <1>2, UserType
<1>3. CASE OpenJob
  <2>1. ReadView \in View /\ Outcome(ReadView) \in View
    BY ReadViewSound, OutcomeSound DEF SoundOrRaised
  <2> QED
    BY <1>3, <2>1 DEF OpenJob, TypeOK
<1>4. CASE CommitJob
  BY <1>4, CommitType
<1>5. CASE AbortJob
  BY <1>5 DEF AbortJob, TypeOK
<1>6. ASSUME NEW a \in Agents, Poll(a)
      PROVE  TypeOK'
  <2>1. Head(Pollable(a)) \in Commands
    BY <1>6, PolledCommand DEF Poll
  <2> QED
    BY <1>6, <2>1 DEF Poll, TypeOK, CommandStates
<1>7. ASSUME NEW a \in Agents, NewInventory(a)
      PROVE  TypeOK'
  <2>1. agents[a] \in AgentRow
    BY DEF TypeOK
  <2>2. [agents[a] EXCEPT !.inventory = @ + 1] \in AgentRow
    BY <1>7, <2>1, PolicyAssumption DEF AgentRow, NewInventory
  <2> QED
    BY <1>7, <2>2 DEF NewInventory, TypeOK
<1>8. ASSUME NEW a \in Agents, NEW accepting \in BOOLEAN, SetAccepting(a, accepting)
      PROVE  TypeOK'
  <2>1. [agents[a] EXCEPT !.accepting = accepting] \in AgentRow
    BY DEF TypeOK, AgentRow
  <2> QED
    BY <1>8, <2>1 DEF SetAccepting, TypeOK
<1>9. ASSUME NEW c \in Commands, LeaseExpires(c)
      PROVE  TypeOK'
  BY <1>9 DEF LeaseExpires, TypeOK, CommandStates
<1>10. ASSUME NEW c \in Commands, NEW status \in Reports, Report(c, status)
       PROVE  TypeOK'
  BY <1>10, ReportType
<1>11. CASE UNCHANGED vars
  BY <1>11 DEF vars, TypeOK
<1> QED
  BY <1>1, <1>2, <1>3, <1>4, <1>5, <1>6, <1>7, <1>8, <1>9, <1>10, <1>11
     DEF Next, Create, RetryFailed

-----------------------------------------------------------------------------
(***************************************************************************)
(* The invariant.                                                          *)
(***************************************************************************)
\* What the rows of a target say of each other, and that only a fully approved
\* parent is reconciled.
RowsSound ==
    /\ \A t \in Targets :
          /\ parents[t[1]].state = "absent" => targets[t].state = "absent"
          /\ targets[t].state \in {"absent", "planned"} =>
                 commands[<<"child", t>>] = "absent"
          /\ targets[t].state \in Terminal => commands[<<"child", t>>] \notin InFlight
    /\ \A p \in Parents :
          parents[p].state \in Reconciled =>
              Cardinality(parents[p].approvals) >= RequiredApprovals

\* What agents do to targets and children while the job runs: they may end
\* what the job has seen in flight, and nothing that has ended begins again.
Standing ==
    \A t \in Targets :
        /\ commands[<<"child", t>>] \in InFlight => <<"child", t>> \in job.seen.inflight
        /\ job.seen.targets[t].state \in Terminal => targets[t] = job.seen.targets[t]

JobSound ==
    job # NoJob => /\ SoundOrRaised(job.seen, job.done, Len(Selections))
                   /\ Standing

BulkInv == /\ TypeOK /\ RowsSound /\ JobSound
           /\ WithinLimits /\ CanariesFirst /\ OutcomeIsTrue

\* A step that creates no child and leaves alone what has ended.
Calmly ==
    \A t \in Targets :
        /\ commands'[<<"child", t>>] \in InFlight => commands[<<"child", t>>] \in InFlight
        /\ commands'[<<"child", t>>] # "absent" => commands[<<"child", t>>] # "absent"
        /\ targets[t].state \in Terminal => targets'[t] = targets[t]

\* Such a step keeps what relates rows to the job and to the policy.
LEMMA CalmStep ==
    ASSUME BulkInv, Calmly, job' = job,
           \A p \in Parents : \/ parents'[p].state = parents[p].state
                              \/ parents'[p].state \notin {"succeeded", "cancelled", "partial"}
    PROVE  (JobSound /\ WithinLimits /\ CanariesFirst /\ OutcomeIsTrue)'
<1>1. JobSound'
  BY DEF BulkInv, JobSound, Standing, Calmly
<1>2. WithinLimits'
  <2>1. ASSUME NEW S \in SUBSET Targets, NEW limit \in Nat, Cardinality(Live(S)) <= limit
        PROVE  Cardinality(Live(S)') <= limit
    <3>1. Live(S)' \in SUBSET Live(S) /\ Live(S) \in SUBSET Targets
      BY DEF Live, Calmly
    <3>2. IsFiniteSet(Live(S)) /\ Cardinality(Live(S)) \in Nat
      BY <3>1, FleetIsFinite
    <3>3. Cardinality(Live(S)') <= Cardinality(Live(S)) /\ Cardinality(Live(S)') \in Nat
      BY <3>1, <3>2, FS_Subset, FS_CardinalityType
    <3> QED
      BY <2>1, <3>2, <3>3
  <2>2. {GlobalConcurrency, AgentConcurrency, BenchConcurrency} \subseteq Nat
    BY PolicyAssumption
  <2>3. Cardinality(Live(Targets)') <= GlobalConcurrency
    BY <2>1, <2>2 DEF BulkInv, WithinLimits
  <2>4. ASSUME NEW a \in Agents
        PROVE  Cardinality(Live({t \in Targets : Agent(t) = a})') <= AgentConcurrency
    BY <2>1, <2>2 DEF BulkInv, WithinLimits
  <2>5. ASSUME NEW b \in Benches
        PROVE  Cardinality(Live({t \in Targets : Bench(t) = b})') <= BenchConcurrency
    BY <2>1, <2>2 DEF BulkInv, WithinLimits
  <2> QED
    BY <2>3, <2>4, <2>5 DEF WithinLimits
<1>3. CanariesFirst'
  <2> SUFFICES ASSUME NEW t \in Targets, t \notin Canaries(t[1]),
                      commands'[<<"child", t>>] # "absent", NEW u \in Canaries(t[1])
               PROVE  targets'[u].state \in Terminal \ Failing
    BY DEF CanariesFirst
  <2>1. targets[u].state \in Terminal \ Failing
    BY DEF BulkInv, CanariesFirst, Calmly
  <2>2. u \in Targets
    BY DEF Canaries, TargetsOf
  <2> QED
    BY <2>1, <2>2 DEF Calmly
<1>4. OutcomeIsTrue'
  <2> SUFFICES ASSUME NEW p \in Parents,
                      parents'[p].state \in {"succeeded", "cancelled", "partial"}
               PROVE  /\ parents'[p].state = parents[p].state
                      /\ {targets'[t].state : t \in TargetsOf(p)} =
                            {targets[t].state : t \in TargetsOf(p)}
    BY DEF OutcomeIsTrue, BulkInv
  <2>1. parents'[p].state = parents[p].state
    OBVIOUS
  <2>2. {targets[t].state : t \in TargetsOf(p)} \subseteq Terminal
    BY <2>1 DEF BulkInv, OutcomeIsTrue, Terminal
  <2>3. \A t \in TargetsOf(p) : t \in Targets /\ targets'[t] = targets[t]
    BY <2>2 DEF Calmly, TargetsOf
  <2> QED
    BY <2>1, <2>3
<1> QED
  BY <1>1, <1>2, <1>3, <1>4

\* A new parent has no children yet.
LEMMA InsertKeeps ==
    ASSUME BulkInv, NEW p \in Parents, NEW source, Insert(p, source)
    PROVE  (RowsSound /\ JobSound /\ WithinLimits /\ CanariesFirst /\ OutcomeIsTrue)'
<1>1. /\ parents \in [Parents -> ParentRow] /\ parents[p] \in ParentRow
      /\ commands' = commands /\ job' = job /\ parents[p].state = "absent"
  BY DEF BulkInv, TypeOK, Insert
<1>2. /\ parents'[p].state = "awaiting_approval"
      /\ \A q \in Parents \ {p} : parents'[q] = parents[q]
  BY <1>1 DEF Insert, ParentRow
<1>3. ASSUME NEW t \in Targets
      PROVE  /\ t[1] = p => /\ targets[t].state = "absent"
                            /\ commands[<<"child", t>>] = "absent"
                            /\ targets'[t].state = "planned"
             /\ t[1] # p => targets'[t] = targets[t]
  BY <1>1 DEF BulkInv, RowsSound, Insert
<1>4. Calmly
  BY <1>1, <1>3 DEF Calmly, Terminal, Failing
<1>5. RowsSound'
  <2>1. ASSUME NEW t \in Targets
        PROVE  /\ parents'[t[1]].state = "absent" => targets'[t].state = "absent"
               /\ targets'[t].state \in {"absent", "planned"} =>
                     commands'[<<"child", t>>] = "absent"
               /\ targets'[t].state \in Terminal => commands'[<<"child", t>>] \notin InFlight
    <3>1. t[1] \in Parents
      BY FleetFacts
    <3>2. CASE t[1] = p
      BY <1>1, <1>2, <1>3, <3>2 DEF Terminal, Failing
    <3>3. CASE t[1] # p
      BY <1>1, <1>2, <1>3, <3>1, <3>3 DEF BulkInv, RowsSound
    <3> QED
      BY <3>2, <3>3
  <2>2. ASSUME NEW q \in Parents, parents'[q].state \in Reconciled
        PROVE  Cardinality(parents'[q].approvals) >= RequiredApprovals
    <3>1. q # p
      BY <1>2, <2>2 DEF Reconciled
    <3> QED
      BY <1>2, <2>2, <3>1 DEF BulkInv, RowsSound
  <2> QED
    BY <2>1, <2>2 DEF RowsSound
<1> QED
  BY <1>1, <1>2, <1>4, <1>5, CalmStep

\* A request of a user reconciles only what is fully approved.
LEMMA UserKeeps ==
    ASSUME BulkInv, NEW p \in Parents,
           \/ Pause(p) \/ Resume(p) \/ Cancel(p)
           \/ \E u \in Approvers, decision \in {"approved", "rejected"} :
                 Decide(p, u, decision)
    PROVE  (RowsSound /\ JobSound /\ WithinLimits /\ CanariesFirst /\ OutcomeIsTrue)'
<1>1. parents \in [Parents -> ParentRow] /\ parents[p] \in ParentRow
  BY DEF BulkInv, TypeOK
<1>2. /\ \A q \in Parents \ {p} : parents'[q] = parents[q]
      /\ targets' = targets /\ commands' = commands /\ job' = job
      /\ parents[p].state # "absent"
  BY <1>1 DEF Pause, Resume, Cancel, Decide
<1>3. /\ parents'[p].state \in {parents[p].state, "approved", "rejected", "canary", "running"}
      /\ parents'[p].state \in Reconciled =>
            Cardinality(parents'[p].approvals) >= RequiredApprovals
  <2>0. parents[p].state \in Reconciled => Cardinality(parents[p].approvals) >= RequiredApprovals
    BY DEF BulkInv, RowsSound
  <2>1. CASE Pause(p) \/ Cancel(p)
    <3>1. parents'[p].state = parents[p].state /\ parents'[p].approvals = parents[p].approvals
      BY <1>1, <2>1 DEF Pause, Cancel, ParentRow
    <3> QED
      BY <2>0, <3>1
  <2>2. CASE Resume(p)
    <3>1. /\ parents[p].state = "paused" /\ parents'[p].approvals = parents[p].approvals
          /\ parents'[p].state \in {"canary", "running"}
      BY <1>1, <2>2 DEF Resume, ParentRow
    <3> QED
      BY <2>0, <3>1 DEF Reconciled
  <2>3. ASSUME NEW u \in Approvers, NEW decision \in {"approved", "rejected"},
               Decide(p, u, decision)
        PROVE  /\ parents'[p].state \in {parents[p].state, "approved", "rejected"}
               /\ parents'[p].state \in Reconciled =>
                     Cardinality(parents'[p].approvals) >= RequiredApprovals
    <3>1. CASE decision = "rejected"
      <4>1. parents'[p].state = "rejected"
        BY <1>1, <2>3, <3>1 DEF Decide, ParentRow
      <4> QED
        BY <4>1 DEF Reconciled
    <3>2. CASE decision # "rejected"
      <4> DEFINE approvals == parents[p].approvals \cup {u}
                 s == IF Cardinality(approvals) >= RequiredApprovals
                      THEN "approved" ELSE parents[p].state
                 row == [parents[p] EXCEPT !.approvals = approvals, !.state = s]
      <4>1. parents' = [parents EXCEPT ![p] = row] /\ parents[p].state = "awaiting_approval"
        BY <1>1, <2>3, <3>2 DEF Decide
      <4>2. s = "approved" \/ s = "awaiting_approval"
        BY <4>1
      <4>3. s = "approved" => Cardinality(approvals) >= RequiredApprovals
        BY <4>1
      <4> HIDE DEF approvals, s
      <4>4. row.state = s /\ row.approvals = approvals
        BY <1>1 DEF ParentRow
      <4> HIDE DEF row
      <4>5. parents'[p] = row
        BY <1>1, <4>1
      <4> QED
        BY <4>1, <4>2, <4>3, <4>4, <4>5 DEF Reconciled
    <3> QED
      BY <3>1, <3>2
  <2> QED
    BY <2>1, <2>2, <2>3
<1>4. Calmly
  BY <1>2 DEF Calmly
<1>5. RowsSound'
  <2>1. \A q \in Parents : parents'[q].state = "absent" => parents[q].state = "absent"
    BY <1>2, <1>3
  <2>2. \A t \in Targets : t[1] \in Parents
    BY FleetFacts
  <2> QED
    BY <1>2, <1>3, <2>1, <2>2 DEF BulkInv, RowsSound
<1> QED
  BY <1>2, <1>3, <1>4, <1>5, CalmStep

\* A lease and its end change no target.
LEMMA LeaseKeeps ==
    ASSUME BulkInv, NEW c \in Commands,
           commands[c] \in {"queued", "leased", "expired"},
           NEW s \in {"leased", "expired"}, commands' = [commands EXCEPT ![c] = s],
           UNCHANGED <<parents, targets, job>>
    PROVE  (RowsSound /\ JobSound /\ WithinLimits /\ CanariesFirst /\ OutcomeIsTrue)'
<1>1. ASSUME NEW t \in Targets
      PROVE  /\ commands'[<<"child", t>>] \in InFlight <=> commands[<<"child", t>>] \in InFlight
             /\ commands'[<<"child", t>>] = "absent" <=> commands[<<"child", t>>] = "absent"
  <2>1. <<"child", t>> \in Commands /\ commands \in [Commands -> CommandStates]
    BY CommandFacts DEF BulkInv, TypeOK
  <2> QED
    BY <2>1 DEF InFlight
<1>2. Calmly
  BY <1>1 DEF Calmly
<1>3. RowsSound'
  BY <1>1 DEF BulkInv, RowsSound
<1> QED
  BY <1>2, <1>3, CalmStep

\* A report is about a command in flight.
LEMMA ReportKeeps ==
    ASSUME BulkInv, NEW c \in Commands, NEW status \in Reports, Report(c, status)
    PROVE  (RowsSound /\ JobSound /\ WithinLimits /\ CanariesFirst /\ OutcomeIsTrue)'
<1>1. /\ commands \in [Commands -> CommandStates] /\ targets \in [Targets -> TargetRow]
      /\ c[2] \in Targets /\ (c[1] = "child" => c = <<"child", c[2]>>)
      /\ status \in {"running"} \cup Terminal
      /\ parents' = parents /\ job' = job
      /\ commands[c] \in InFlight /\ commands[c] # "absent"
  BY CommandFacts, ReportsAssumption DEF BulkInv, TypeOK, Report, MayReport, InFlight
<1>2. ASSUME NEW t \in Targets
      PROVE  /\ c = <<"child", t>> =>
                   /\ commands[<<"child", t>>] \in InFlight
                   /\ commands'[<<"child", t>>] = status
                   /\ targets'[t].state = status
             /\ c # <<"child", t>> =>
                   /\ commands'[<<"child", t>>] = commands[<<"child", t>>]
                   /\ targets'[t] = targets[t]
  <2>1. <<"child", t>> \in Commands /\ targets[t] \in TargetRow
    BY <1>1, CommandFacts
  <2>2. CASE c = <<"child", t>>
    BY <1>1, <2>1, <2>2 DEF Report, TargetRow
  <2>3. CASE c # <<"child", t>>
    <3>1. c[1] = "child" => c[2] # t
      BY <1>1, <2>3
    <3> QED
      BY <1>1, <2>1, <2>3, <3>1 DEF Report
  <2> QED
    BY <2>2, <2>3
<1>3. ASSUME NEW t \in Targets
      PROVE  /\ parents[t[1]].state = "absent" => targets[t].state = "absent"
             /\ targets[t].state \in {"absent", "planned"} =>
                   commands[<<"child", t>>] = "absent"
             /\ targets[t].state \in Terminal => commands[<<"child", t>>] \notin InFlight
  BY DEF BulkInv, RowsSound
<1>4. Calmly
  <2> SUFFICES ASSUME NEW t \in Targets
               PROVE  /\ commands'[<<"child", t>>] \in InFlight => commands[<<"child", t>>] \in InFlight
                      /\ commands'[<<"child", t>>] # "absent" => commands[<<"child", t>>] # "absent"
                      /\ targets[t].state \in Terminal => targets'[t] = targets[t]
    BY DEF Calmly
  <2>1. CASE c = <<"child", t>>
    BY <1>1, <1>2, <1>3, <2>1
  <2>2. CASE c # <<"child", t>>
    BY <1>2, <2>2
  <2> QED
    BY <2>1, <2>2
<1>5. RowsSound'
  <2>1. ASSUME NEW t \in Targets
        PROVE  /\ parents'[t[1]].state = "absent" => targets'[t].state = "absent"
               /\ targets'[t].state \in {"absent", "planned"} =>
                     commands'[<<"child", t>>] = "absent"
               /\ targets'[t].state \in Terminal => commands'[<<"child", t>>] \notin InFlight
    <3>1. CASE c = <<"child", t>>
      <4>1. targets[t].state \notin {"absent", "planned"}
        BY <1>1, <1>3, <3>1
      <4>2. status \notin {"absent", "planned"} /\ (status \in Terminal => status \notin InFlight)
        BY <1>1 DEF Terminal, Failing, InFlight
      <4> QED
        BY <1>1, <1>2, <1>3, <3>1, <4>1, <4>2
    <3>2. CASE c # <<"child", t>>
      BY <1>1, <1>2, <1>3, <3>2
    <3> QED
      BY <3>1, <3>2
  <2> QED
    BY <1>1, <2>1 DEF BulkInv, RowsSound
<1> QED
  BY <1>1, <1>4, <1>5, CalmStep

\* Nothing that the invariant is about changes.
LEMMA RowsKept ==
    ASSUME BulkInv, UNCHANGED <<parents, targets, commands, job>>
    PROVE  (RowsSound /\ JobSound /\ WithinLimits /\ CanariesFirst /\ OutcomeIsTrue)'
<1>1. Calmly
  BY DEF Calmly
<1>2. RowsSound'
  BY DEF BulkInv, RowsSound
<1> QED
  BY <1>1, <1>2, CalmStep

\* A job begins, or ends without effect.
LEMMA JobKeeps ==
    ASSUME BulkInv, OpenJob \/ AbortJob
    PROVE  (RowsSound /\ JobSound /\ WithinLimits /\ CanariesFirst /\ OutcomeIsTrue)'
<1>1. UNCHANGED <<parents, targets, commands>>
  BY DEF OpenJob, AbortJob
<1>2. (RowsSound /\ WithinLimits /\ CanariesFirst /\ OutcomeIsTrue)'
  <2>1. RowsSound'
    BY <1>1 DEF BulkInv, RowsSound
  <2>2. WithinLimits'
    BY <1>1 DEF BulkInv, WithinLimits, Live
  <2>3. CanariesFirst'
    BY <1>1 DEF BulkInv, CanariesFirst
  <2>4. OutcomeIsTrue'
    BY <1>1 DEF BulkInv, OutcomeIsTrue
  <2> QED
    BY <2>1, <2>2, <2>3, <2>4
<1>3. JobSound'
  <2>1. CASE AbortJob
    BY <2>1 DEF AbortJob, JobSound
  <2>2. CASE OpenJob
    <3>1. SoundOrRaised(ReadView, Outcome(ReadView), Len(Selections))
      BY ReadViewSound, OutcomeSound DEF BulkInv
    <3>2. job'.seen = ReadView /\ job'.done = Outcome(ReadView)
      BY <2>2 DEF OpenJob
    <3>3. \A t \in Targets :
             /\ commands[<<"child", t>>] \in InFlight => <<"child", t>> \in ReadView.inflight
             /\ ReadView.targets[t] = targets[t]
      BY CommandFacts DEF ReadView
    <3>4. Standing'
      BY <1>1, <3>2, <3>3 DEF Standing
    <3> QED
      BY <3>1, <3>2, <3>4 DEF JobSound
  <2> QED
    BY <2>1, <2>2
<1> QED
  BY <1>2, <1>3

\* What the commit writes of a target, and when it creates its child.
LEMMA CommitFacts ==
    ASSUME BulkInv, CommitJob
    PROVE  /\ Sound(job.seen, job.done, Len(Selections)) /\ Standing
           /\ \A p \in Parents :
                 IF p \in Listed(job.seen)
                 THEN parents[p] = job.seen.parents[p] /\ parents'[p] = job.done.parents[p]
                 ELSE parents'[p] = parents[p]
           /\ \A t \in Targets :
                 /\ \/ targets'[t] = targets[t]
                    \/ /\ t[1] \in Listed(job.seen) /\ targets[t].state = "planned"
                       /\ targets'[t].state \in {"queued", "cancelled"}
                 /\ targets'[t] = targets[t] \/ targets'[t] = job.done.targets[t]
                 /\ targets'[t] # job.done.targets[t] => job.done.targets[t] = job.seen.targets[t]
                 /\ commands'[<<"child", t>>] = IF <<"child", t>> \in Created THEN "queued"
                                                ELSE commands[<<"child", t>>]
                 /\ <<"child", t>> \in Created =>
                       /\ MayBegin(job.seen, t) /\ targets'[t].state = "queued"
                       /\ targets[t] = job.seen.targets[t]
                       /\ agents[Agent(t)] = job.seen.agents[Agent(t)]
                       /\ <<"child", t>> \in job.done.inflight
<1> DEFINE v == job.seen
           d == job.done
<1>1. /\ Sound(v, d, Len(Selections)) /\ Standing
      /\ v \in View /\ d \in View
  BY JobType DEF BulkInv, JobSound, SoundOrRaised, CommitJob
<1>2. ASSUME NEW p \in Parents
      PROVE  IF p \in Listed(v) THEN parents[p] = v.parents[p] /\ parents'[p] = d.parents[p]
             ELSE parents'[p] = parents[p]
  BY DEF CommitJob, Unchanged
<1>3. ASSUME NEW c \in Created
      PROVE  c \in Commands /\ c[2] \in Written /\ CommandSound(v, d, c)
  <2>1. c \in Commands /\ \E i \in DOMAIN d.new : c = d.new[i]
    BY CreatedFacts DEF BulkInv, CommitJob
  <2>2. CommandSound(v, d, c)
    BY <1>1, <2>1 DEF Sound
  <2>3. c[2] \in Targets
    BY <2>1, CommandFacts
  <2> QED
    BY <2>1, <2>2, <2>3 DEF Written
<1>4. ASSUME NEW t \in Targets
      PROVE  /\ targets'[t] = IF t \in Written THEN d.targets[t] ELSE targets[t]
             /\ t \in Written => targets[t] = v.targets[t]
             /\ t \notin Written => d.targets[t] = v.targets[t]
             /\ d.targets[t] = v.targets[t] \/ (t[1] \in Listed(v) /\ Moved(v, d, t))
  BY <1>1 DEF CommitJob, Unchanged, Written, Sound
<1>5. ASSUME NEW t \in Targets
      PROVE  /\ commands'[<<"child", t>>] = IF <<"child", t>> \in Created THEN "queued"
                                            ELSE commands[<<"child", t>>]
             /\ <<"child", t>> \in Created =>
                   /\ MayBegin(v, t) /\ targets'[t].state = "queued"
                   /\ targets[t] = v.targets[t]
                   /\ agents[Agent(t)] = v.agents[Agent(t)]
                   /\ <<"child", t>> \in d.inflight
  <2> DEFINE c == <<"child", t>>
  <2>1. c \in Commands /\ c[1] = "child" /\ c[2] = t
    BY CommandFacts
  <2>2. commands'[c] = IF c \in Created THEN "queued" ELSE commands[c]
    BY <2>1 DEF CommitJob
  <2>3. CASE c \in Created
    <3>1. t \in Written /\ CommandSound(v, d, c)
      BY <1>3, <2>1, <2>3
    <3>2. agents[Agent(t)] = v.agents[Agent(t)]
      BY <2>1, <2>3 DEF CommitJob, Unchanged
    <3> QED
      BY <1>4, <2>1, <2>2, <3>1, <3>2 DEF CommandSound
  <2> QED
    BY <2>2, <2>3
<1>6. ASSUME NEW t \in Targets
      PROVE  /\ \/ targets'[t] = targets[t]
                \/ /\ t[1] \in Listed(v) /\ targets[t].state = "planned"
                   /\ targets'[t].state \in {"queued", "cancelled"}
             /\ targets'[t] = targets[t] \/ targets'[t] = d.targets[t]
             /\ targets'[t] # d.targets[t] => d.targets[t] = v.targets[t]
  BY <1>4 DEF Moved
<1> QED
  BY <1>1, <1>2, <1>5, <1>6

\* The commit starts children within the limits, canaries first, and shows
\* outcomes that are true.
LEMMA CommitKeeps ==
    ASSUME BulkInv, CommitJob
    PROVE  (RowsSound /\ JobSound /\ WithinLimits /\ CanariesFirst /\ OutcomeIsTrue)'
<1> DEFINE v == job.seen
           d == job.done
<1>1. /\ Sound(v, d, Len(Selections)) /\ Standing
      /\ v \in View /\ d \in View
  BY CommitFacts, JobType DEF BulkInv, CommitJob
<1>2. \A p \in Parents :
         IF p \in Listed(v) THEN parents[p] = v.parents[p] /\ parents'[p] = d.parents[p]
         ELSE parents'[p] = parents[p]
  BY CommitFacts
<1>3. \A t \in Targets :
         /\ \/ targets'[t] = targets[t]
            \/ /\ t[1] \in Listed(v) /\ targets[t].state = "planned"
               /\ targets'[t].state \in {"queued", "cancelled"}
         /\ targets'[t] = targets[t] \/ targets'[t] = d.targets[t]
         /\ targets'[t] # d.targets[t] => d.targets[t] = v.targets[t]
  BY CommitFacts
<1>4. \A t \in Targets :
         /\ commands'[<<"child", t>>] = IF <<"child", t>> \in Created THEN "queued"
                                        ELSE commands[<<"child", t>>]
         /\ <<"child", t>> \in Created =>
               /\ MayBegin(v, t) /\ targets'[t].state = "queued"
               /\ targets[t] = v.targets[t]
               /\ <<"child", t>> \in d.inflight
  BY CommitFacts
<1>5. ASSUME NEW p \in Parents, p \in Listed(v)
      PROVE  /\ v.parents[p] \in ParentRow /\ v.parents[p].state \in Reconciled
             /\ \/ d.parents[p] = v.parents[p]
                \/ /\ TrueOf(d, p)
                   /\ d.parents[p].state \in Shown
                   /\ d.parents[p].approvals = v.parents[p].approvals
  <2>1. v.parents[p] \in ParentRow /\ v.parents[p].state \in Reconciled
    BY <1>1, <1>5 DEF View, Listed
  <2>2. ParentSound(v, d, Len(Selections), p)
    BY <1>1 DEF Sound
  <2> QED
    BY <2>1, <2>2 DEF ParentSound, ParentRow
<1>6. \A t \in Targets : t[1] \in Parents
  BY FleetFacts
<1>7. \A t \in Targets : v.targets[t].state \in Terminal => targets'[t] = v.targets[t]
  <2> SUFFICES ASSUME NEW t \in Targets, v.targets[t].state \in Terminal
               PROVE  targets'[t] = v.targets[t]
    OBVIOUS
  <2>1. targets[t] = v.targets[t]
    BY <1>1 DEF Standing
  <2> QED
    BY <1>3, <2>1 DEF Terminal, Failing
<1>8. RowsSound'
  <2>1. ASSUME NEW t \in Targets
        PROVE  /\ parents'[t[1]].state = "absent" => targets'[t].state = "absent"
               /\ targets'[t].state \in {"absent", "planned"} =>
                     commands'[<<"child", t>>] = "absent"
               /\ targets'[t].state \in Terminal => commands'[<<"child", t>>] \notin InFlight
    <3>1. /\ parents[t[1]].state = "absent" => targets[t].state = "absent"
          /\ targets[t].state \in {"absent", "planned"} =>
                commands[<<"child", t>>] = "absent"
          /\ targets[t].state \in Terminal => commands[<<"child", t>>] \notin InFlight
      BY DEF BulkInv, RowsSound
    <3>2. parents'[t[1]].state = "absent" => targets'[t].state = "absent"
      <4>1. CASE t[1] \in Listed(v)
        BY <1>2, <1>5, <1>6, <4>1 DEF Reconciled, Shown
      <4>2. CASE t[1] \notin Listed(v)
        BY <1>2, <1>3, <1>6, <3>1, <4>2
      <4> QED
        BY <4>1, <4>2
    <3>3. CASE <<"child", t>> \in Created
      BY <1>4, <3>2, <3>3 DEF Terminal, Failing
    <3>4. CASE <<"child", t>> \notin Created
      <4>1. commands'[<<"child", t>>] = commands[<<"child", t>>]
        BY <1>4, <3>4
      <4>2. CASE targets'[t] = targets[t]
        BY <3>1, <3>2, <4>1, <4>2
      <4>3. CASE targets[t].state = "planned" /\ targets'[t].state \in {"queued", "cancelled"}
        BY <3>1, <3>2, <4>1, <4>3 DEF InFlight
      <4> QED
        BY <1>3, <4>2, <4>3
    <3> QED
      BY <3>3, <3>4
  <2>2. ASSUME NEW p \in Parents, parents'[p].state \in Reconciled
        PROVE  Cardinality(parents'[p].approvals) >= RequiredApprovals
    <3>1. CASE p \in Listed(v)
      <4>1. parents'[p].approvals = parents[p].approvals /\ parents[p].state \in Reconciled
        BY <1>2, <1>5, <3>1
      <4> QED
        BY <4>1 DEF BulkInv, RowsSound
    <3>2. CASE p \notin Listed(v)
      BY <1>2, <2>2, <3>2 DEF BulkInv, RowsSound
    <3> QED
      BY <3>1, <3>2
  <2> QED
    BY <2>1, <2>2 DEF RowsSound
<1>9. JobSound'
  BY DEF CommitJob, JobSound
<1>10. WithinLimits'
  <2>1. \A t \in Targets : commands'[<<"child", t>>] \in InFlight => t \in Kids(d)
    BY <1>1, <1>4 DEF Kids, Standing, Sound
  <2>2. Bounded(Kids(d)) /\ Kids(d) \in SUBSET Targets
    BY <1>1 DEF Sound, Kids
  <2>3. ASSUME NEW S \in SUBSET Targets, NEW limit \in Nat,
               Cardinality(Kids(d) \cap S) <= limit
        PROVE  Cardinality(Live(S)') <= limit
    <3>1. /\ Live(S)' \in SUBSET (Kids(d) \cap S)
          /\ Kids(d) \cap S \in SUBSET Targets
      BY <2>1, <2>2 DEF Live
    <3>2. IsFiniteSet(Kids(d) \cap S) /\ Cardinality(Kids(d) \cap S) \in Nat
      BY <3>1, FleetIsFinite
    <3>3. Cardinality(Live(S)') <= Cardinality(Kids(d) \cap S) /\ Cardinality(Live(S)') \in Nat
      BY <3>1, <3>2, FS_Subset, FS_CardinalityType
    <3> QED
      BY <2>3, <3>2, <3>3
  <2>4. {GlobalConcurrency, AgentConcurrency, BenchConcurrency} \subseteq Nat
    BY PolicyAssumption
  <2>5. Cardinality(Live(Targets)') <= GlobalConcurrency
    <3>1. Kids(d) \cap Targets = Kids(d)
      BY <2>2
    <3> QED
      BY <2>2, <2>3, <2>4, <3>1 DEF Bounded
  <2>6. ASSUME NEW a \in Agents
        PROVE  Cardinality(Live({t \in Targets : Agent(t) = a})') <= AgentConcurrency
    BY <2>2, <2>3, <2>4 DEF Bounded, OnAgent
  <2>7. ASSUME NEW b \in Benches
        PROVE  Cardinality(Live({t \in Targets : Bench(t) = b})') <= BenchConcurrency
    BY <2>2, <2>3, <2>4 DEF Bounded, OnBench
  <2> QED
    BY <2>5, <2>6, <2>7 DEF WithinLimits
<1>11. CanariesFirst'
  <2> SUFFICES ASSUME NEW t \in Targets, t \notin Canaries(t[1]),
                      commands'[<<"child", t>>] # "absent", NEW u \in Canaries(t[1])
               PROVE  targets'[u].state \in Terminal \ Failing
    BY DEF CanariesFirst
  <2>1. u \in Targets
    BY DEF Canaries, TargetsOf
  <2>2. CASE <<"child", t>> \in Created
    <3>1. v.targets[u].state \in Terminal \ Failing
      BY <1>4, <2>2 DEF MayBegin
    <3> QED
      BY <1>7, <2>1, <3>1
  <2>3. CASE <<"child", t>> \notin Created
    <3>1. targets[u].state \in Terminal \ Failing
      BY <1>4, <2>3 DEF BulkInv, CanariesFirst
    <3> QED
      BY <1>3, <2>1, <3>1 DEF Terminal, Failing
  <2> QED
    BY <2>2, <2>3
<1>12. OutcomeIsTrue'
  <2> SUFFICES ASSUME NEW p \in Parents,
                      parents'[p].state \in {"succeeded", "cancelled", "partial"}
               PROVE  LET states == {targets'[t].state : t \in TargetsOf(p)}
                      IN /\ parents'[p].state = "succeeded" => states = {"succeeded"}
                         /\ parents'[p].state = "cancelled" => states = {"cancelled"}
                         /\ parents'[p].state = "partial" =>
                                /\ states \subseteq Terminal
                                /\ states \notin {{"succeeded"}, {"cancelled"}}
    BY DEF OutcomeIsTrue
  <2>1. \A t \in TargetsOf(p) : t \in Targets /\ t[1] = p
    BY DEF TargetsOf
  <2>2. CASE p \in Listed(v)
    <3>1. TrueOf(d, p) /\ parents'[p].state = d.parents[p].state
      BY <1>2, <1>5, <2>2 DEF Reconciled
    <3>2. {d.targets[t].state : t \in TargetsOf(p)} \subseteq Terminal
      BY <3>1 DEF TrueOf, Terminal
    <3>3. \A t \in TargetsOf(p) : targets'[t] = d.targets[t]
      BY <1>3, <1>7, <2>1, <3>2
    <3>4. {targets'[t].state : t \in TargetsOf(p)} = {d.targets[t].state : t \in TargetsOf(p)}
      BY <3>3
    <3> QED
      BY <3>1, <3>4 DEF TrueOf
  <2>3. CASE p \notin Listed(v)
    <3>1. parents'[p] = parents[p] /\ \A t \in TargetsOf(p) : targets'[t] = targets[t]
      BY <1>2, <1>3, <2>1, <2>3
    <3>2. {targets'[t].state : t \in TargetsOf(p)} = {targets[t].state : t \in TargetsOf(p)}
      BY <3>1
    <3> QED
      BY <3>1, <3>2 DEF BulkInv, OutcomeIsTrue
  <2> QED
    BY <2>2, <2>3
<1> QED
  BY <1>8, <1>9, <1>10, <1>11, <1>12

\* The invariant holds at first.
LEMMA BulkInvInit ==
    ASSUME Init
    PROVE  BulkInv
<1>1. /\ parents = [p \in Parents |-> [state |-> "absent", approvals |-> {}, pause |-> FALSE,
                                       cancel |-> FALSE, retry_of |-> 0]]
      /\ targets = [t \in Targets |-> [state |-> "absent", inventory |-> 0]]
      /\ commands = [c \in Commands |-> "absent"]
      /\ job = NoJob
  BY DEF Init
<1>2. {GlobalConcurrency, AgentConcurrency, BenchConcurrency, MaxInventory} \subseteq Nat \ {0}
  BY PolicyAssumption
<1>3. TypeOK
  <2>1. <<>> \in Seq(Commands)
    BY EmptySeq
  <2>2. parents \in [Parents -> ParentRow]
    BY <1>1 DEF ParentRow, ParentStates
  <2>3. targets \in [Targets -> TargetRow]
    BY <1>1, <1>2 DEF TargetRow, TargetStates
  <2>4. agents \in [Agents -> AgentRow]
    BY <1>2 DEF Init, AgentRow
  <2> QED
    BY <1>1, <2>1, <2>2, <2>3, <2>4 DEF Init, TypeOK, CommandStates
<1>4. \A t \in Targets :
         /\ t[1] \in Parents /\ <<"child", t>> \in Commands
         /\ commands[<<"child", t>>] = "absent" /\ targets[t].state = "absent"
  BY <1>1, FleetFacts, CommandFacts
<1>5. \A p \in Parents : parents[p].state = "absent"
  BY <1>1
<1>6. RowsSound
  BY <1>4, <1>5 DEF RowsSound, Terminal, Failing, Reconciled
<1>7. JobSound
  BY <1>1 DEF JobSound
<1>8. WithinLimits
  <2>1. \A S \in SUBSET Targets : Live(S) = {}
    BY <1>4 DEF Live, InFlight
  <2>2. Cardinality({}) = 0
    BY FS_EmptySet
  <2>3. Live(Targets) = {}
    BY <2>1
  <2>4. \A a \in Agents : Live({t \in Targets : Agent(t) = a}) = {}
    BY <2>1
  <2>5. \A b \in Benches : Live({t \in Targets : Bench(t) = b}) = {}
    BY <2>1
  <2>6. 0 <= GlobalConcurrency /\ 0 <= AgentConcurrency /\ 0 <= BenchConcurrency
    BY <1>2
  <2> QED
    BY <2>2, <2>3, <2>4, <2>5, <2>6 DEF WithinLimits
<1>9. CanariesFirst
  BY <1>4 DEF CanariesFirst
<1>10. OutcomeIsTrue
  BY <1>5 DEF OutcomeIsTrue
<1> QED
  BY <1>3, <1>6, <1>7, <1>8, <1>9, <1>10 DEF BulkInv

\* Every step keeps the invariant.
LEMMA BulkInvStep ==
    ASSUME BulkInv, [Next]_vars
    PROVE  BulkInv'
<1>1. TypeOK'
  BY TypeStep DEF BulkInv
<1>2. ASSUME NEW p \in Parents, NEW source, Insert(p, source)
      PROVE  BulkInv'
  BY <1>1, <1>2, InsertKeeps DEF BulkInv
<1>3. ASSUME NEW p \in Parents,
             \/ Pause(p) \/ Resume(p) \/ Cancel(p)
             \/ \E u \in Approvers, decision \in {"approved", "rejected"} :
                   Decide(p, u, decision)
      PROVE  BulkInv'
  BY <1>1, <1>3, UserKeeps DEF BulkInv
<1>4. CASE OpenJob \/ AbortJob
  BY <1>1, <1>4, JobKeeps DEF BulkInv
<1>5. CASE CommitJob
  BY <1>1, <1>5, CommitKeeps DEF BulkInv
<1>6. ASSUME NEW a \in Agents, Poll(a)
      PROVE  BulkInv'
  <2> DEFINE c == Head(Pollable(a))
  <2>1. c \in Commands /\ commands[c] \in {"queued", "expired"}
    BY <1>6, PolledCommand DEF BulkInv, Poll
  <2>2. /\ commands' = [commands EXCEPT ![c] = "leased"]
        /\ UNCHANGED <<parents, targets, job>>
    BY <1>6 DEF Poll
  <2> HIDE DEF c
  <2> QED
    BY <1>1, <2>1, <2>2, LeaseKeeps DEF BulkInv
<1>7. ASSUME NEW c \in Commands, LeaseExpires(c)
      PROVE  BulkInv'
  BY <1>1, <1>7, LeaseKeeps DEF BulkInv, LeaseExpires
<1>8. ASSUME NEW c \in Commands, NEW status \in Reports, Report(c, status)
      PROVE  BulkInv'
  BY <1>1, <1>8, ReportKeeps DEF BulkInv
<1>9. ASSUME UNCHANGED <<parents, targets, commands, job>>
      PROVE  BulkInv'
  BY <1>1, <1>9, RowsKept DEF BulkInv
<1>10. ASSUME NEW a \in Agents,
              NewInventory(a) \/ \E accepting \in BOOLEAN : SetAccepting(a, accepting)
       PROVE  BulkInv'
  BY <1>9, <1>10 DEF NewInventory, SetAccepting
<1>11. CASE UNCHANGED vars
  BY <1>9, <1>11 DEF vars
<1> QED
  BY <1>2, <1>3, <1>4, <1>5, <1>6, <1>7, <1>8, <1>10, <1>11
     DEF Next, Create, RetryFailed

\* No child is created but by a commit of the job, under what it has seen of
\* the rows that it then finds unchanged.
LEMMA StartStep ==
    ASSUME BulkInv, [Next]_vars, NEW t \in Targets,
           commands[<<"child", t>>] = "absent", commands'[<<"child", t>>] # "absent"
    PROVE  LET parent == parents[t[1]]
               agent == agents[Agent(t)]
           IN /\ Cardinality(parent.approvals) >= RequiredApprovals
              /\ parent.state \in {"approved", "canary", "running"}
              /\ ~ parent.pause /\ ~ parent.cancel
              /\ agent.accepting
              /\ agent.inventory = targets[t].inventory
<1> DEFINE c == <<"child", t>>
<1>1. c \in Commands /\ commands \in [Commands -> CommandStates]
  BY CommandFacts DEF BulkInv, TypeOK
<1>2. CommitJob
  <2>1. ASSUME NEW a \in Agents, Poll(a)
        PROVE  FALSE
    <3>1. commands[Head(Pollable(a))] \in {"queued", "expired"}
      BY <2>1, PolledCommand DEF BulkInv, Poll
    <3> QED
      BY <1>1, <2>1, <3>1 DEF Poll
  <2>2. ASSUME NEW b \in Commands, LeaseExpires(b)
        PROVE  FALSE
    BY <1>1, <2>2 DEF LeaseExpires
  <2>3. ASSUME NEW b \in Commands, NEW status \in Reports, Report(b, status)
        PROVE  FALSE
    BY <1>1, <2>3 DEF Report, MayReport
  <2>4. commands' # commands
    OBVIOUS
  <2> QED
    BY <2>1, <2>2, <2>3, <2>4
       DEF Next, vars, Create, RetryFailed, Insert, Pause, Resume, Cancel, Decide,
           OpenJob, AbortJob, NewInventory, SetAccepting
<1>3. /\ c \in Created /\ MayBegin(job.seen, t)
      /\ targets[t] = job.seen.targets[t]
      /\ agents[Agent(t)] = job.seen.agents[Agent(t)]
  BY <1>2, CommitFacts
<1>4. t[1] \in Parents /\ t[1] \in Listed(job.seen)
  BY <1>3, FleetFacts DEF MayBegin
<1>5. parents[t[1]] = job.seen.parents[t[1]]
  BY <1>2, <1>4, CommitFacts
<1>6. parents[t[1]].state \in Reconciled
  BY <1>4, <1>5 DEF Listed
<1>7. Cardinality(parents[t[1]].approvals) >= RequiredApprovals
  BY <1>4, <1>6 DEF BulkInv, RowsSound
<1> QED
  BY <1>3, <1>5, <1>7 DEF MayBegin, MayStart

-----------------------------------------------------------------------------
(***************************************************************************)
(* The invariant holds in every state: the rows agree with each other, and *)
(* what a running job is about to write is sound (reconcile).              *)
(***************************************************************************)
THEOREM BulkSound == Spec => []BulkInv
<1>1. Init => BulkInv
  BY BulkInvInit
<1>2. BulkInv /\ [Next]_vars => BulkInv'
  BY BulkInvStep
<1> QED
  BY <1>1, <1>2, PTL DEF Spec

(***************************************************************************)
(* Every row, and every view and result of the job, is well-typed: nothing *)
(* that reconcile computes leaves the states the documents allow.          *)
(***************************************************************************)
THEOREM BulkTypeCorrect == Spec => []TypeOK
<1>1. BulkInv => TypeOK
  BY DEF BulkInv
<1> QED
  BY <1>1, BulkSound, PTL

(***************************************************************************)
(* The limits of the execution policy hold for any number of parents that  *)
(* share agents and benches (reconcile, inflight_counts).                  *)
(***************************************************************************)
THEOREM KeepsLimits == Spec => []WithinLimits
<1>1. BulkInv => WithinLimits
  BY DEF BulkInv
<1> QED
  BY <1>1, BulkSound, PTL

(***************************************************************************)
(* No other target is tried before every canary has ended without failure  *)
(* (reconcile).                                                            *)
(***************************************************************************)
THEOREM CanariesAreFirst == Spec => []CanariesFirst
<1>1. BulkInv => CanariesFirst
  BY DEF BulkInv
<1> QED
  BY <1>1, BulkSound, PTL

(***************************************************************************)
(* The outcome shown is the targets', although it is computed from rows    *)
(* that agents go on changing (aggregate_child_states, _update).           *)
(***************************************************************************)
THEOREM OutcomesAreTrue == Spec => []OutcomeIsTrue
<1>1. BulkInv => OutcomeIsTrue
  BY DEF BulkInv
<1> QED
  BY <1>1, BulkSound, PTL

(***************************************************************************)
(* Children are created only as approved and previewed, whatever changes   *)
(* while the job runs (create_child).                                      *)
(***************************************************************************)
THEOREM StartsApproved == Spec => StartsAsApproved
<1> DEFINE A == \A t \in Targets :
          commands[<<"child", t>>] = "absent"
              /\ commands'[<<"child", t>>] # "absent" =>
                  LET parent == parents[t[1]]
                      agent == agents[Agent(t)]
                  IN /\ Cardinality(parent.approvals) >= RequiredApprovals
                     /\ parent.state \in {"approved", "canary", "running"}
                     /\ ~ parent.pause /\ ~ parent.cancel
                     /\ agent.accepting
                     /\ agent.inventory = targets[t].inventory
<1>1. BulkInv /\ [Next]_vars => [A]_vars
  BY StartStep
<1>2. Spec => [][A]_vars
  <2> HIDE DEF A
  <2> QED
    BY <1>1, BulkSound, PTL DEF Spec
<1> QED
  BY <1>2 DEF StartsAsApproved
=============================================================================
