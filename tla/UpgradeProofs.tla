--------------------------- MODULE UpgradeProofs ---------------------------
(***************************************************************************)
(* Proofs about the replacement of an agent.  The difficulty is that a     *)
(* request decides on one state and writes in a later one.  The inductive  *)
(* invariant therefore says of every open request what stays true until it *)
(* commits (Promise): a request that makes the agent replaceable keeps     *)
(* commands from being leased because the row it read drains, and one that *)
(* closes an upgrade has seen a heartbeat that no later one takes back.    *)
(***************************************************************************)
EXTENDS UpgradeProperties, TLAPS

Verifying == {"verifying", "rollback_verifying"}

\* What an open request that is going to save new relies on.
Promise(new) ==
    /\ new.upgrade_state \notin Stable => new.drain_requested
    /\ new.upgrade_state \in Replaceable => row.drain_requested /\ Active = {}
    /\ Zone = "utc" /\ new.upgrade_state \in Verifying => ~ new.recent
    /\ Zone = "utc" /\ row.upgrade_state = "verifying"
           /\ new.upgrade_state = "succeeded" => row.desired \in alive
    /\ Zone = "utc" /\ row.upgrade_state = "rollback_verifying"
           /\ new.upgrade_state = "rolled_back" => row.previous \in alive

RowSound ==
    /\ row.upgrade_state \notin Stable => row.drain_requested
    /\ NothingActive
    /\ Zone = "utc" /\ row.upgrade_state \in Verifying /\ row.ready /\ row.recent
           => row.version \in alive

RequestsSound == \A w \in Workers : \A new \in requests[w] : Promise(new)

IInv == TypeOK /\ RowSound /\ RequestsSound

\* A request that begins: the handlers of Next.
Begins(w) ==
    \/ \E desired \in Releases : RequestUpgrade(w, desired)
    \/ Refresh(w) \/ Register(w) \/ Deployed(w) \/ Failed(w) \/ Cancel(w)
    \/ Verify(w)

(***************************************************************************)
(* Whatever request begins, it is going to save a well-typed row and has   *)
(* made sure of what it relies on.                                         *)
(***************************************************************************)
LEMMA BeginsWithPromise ==
    ASSUME IInv, NEW w \in Workers, Begins(w)
    PROVE  \E new \in Row : Begin(w, new) /\ Promise(new)
<1> USE DEF IInv, TypeOK, RowSound
<1>1. ASSUME NEW desired \in Releases, RequestUpgrade(w, desired)
      PROVE  \E new \in Row : Begin(w, new) /\ Promise(new)
  <2> DEFINE new == [row EXCEPT !.drain_requested = TRUE,
                                !.upgrade_state = "planned",
                                !.desired = desired,
                                !.previous = row.version]
  <2>1. new \in Row
    BY DEF Row, UpgradeStates, PreDeployment
  <2>2. Promise(new)
    BY <2>1 DEF Promise, Row, Replaceable, Verifying, Stable
  <2> QED
    BY <1>1, <2>1, <2>2 DEF RequestUpgrade
<1>2. CASE Refresh(w)
  <2> DEFINE new == [row EXCEPT !.upgrade_state = DrainState]
  <2>1. new \in Row
    BY DEF Row, UpgradeStates, PreDeployment, DrainState
  <2>2. /\ new.upgrade_state = DrainState
        /\ row.drain_requested /\ new.drain_requested
    BY <1>2, <2>1 DEF Refresh, Row, PreDeployment, Stable
  <2>3. Promise(new)
    BY <2>2 DEF Promise, Replaceable, Verifying, Stable, DrainState
  <2> QED
    BY <1>2, <2>1, <2>3 DEF Refresh
<1>3. CASE Register(w)
  <2> DEFINE new == [row EXCEPT !.observed = running]
  <2>1. new \in Row
    BY DEF Row
  <2>2. Promise(new)
    BY <1>3, <2>1 DEF Promise, Register, Row, Replaceable, Verifying, Stable
  <2> QED
    BY <1>3, <2>1, <2>2 DEF Register
<1>4. CASE Deployed(w)
  <2> DEFINE Confirmed(state, image, recent) ==
          [row EXCEPT !.upgrade_state = state, !.observed = image,
                      !.recent = recent]
  <2>1. ASSUME NEW state \in Verifying, NEW image \in Releases \cup {None},
               NEW recent \in BOOLEAN, Zone = "utc" => ~ recent,
               row.upgrade_state \notin Stable, Active = {}
        PROVE  /\ Confirmed(state, image, recent) \in Row
               /\ Promise(Confirmed(state, image, recent))
    <3>1. Confirmed(state, image, recent) \in Row
      BY <2>1 DEF Row, UpgradeStates, Verifying
    <3> QED
      BY <2>1, <3>1 DEF Promise, Row, Verifying, Stable
  <2>2. PICK recent \in BOOLEAN :
            /\ Zone = "utc" => ~ recent
            /\ \/ /\ row.upgrade_state = "ready_to_deploy"
                  /\ Begin(w, Confirmed("verifying", row.desired, recent))
               \/ /\ row.upgrade_state = "rollback_required"
                  /\ Begin(w, Confirmed("rollback_verifying", row.previous, recent))
    BY <1>4 DEF Deployed
  <2>3. Active = {} /\ row.upgrade_state \notin Stable
    BY <1>4, <2>2 DEF Deployed, Stable
  <2>4. row.desired \in Releases \cup {None} /\ row.previous \in Releases \cup {None}
    BY DEF Row
  <2> HIDE DEF Confirmed
  <2> QED
    BY <2>1, <2>2, <2>3, <2>4 DEF Verifying
<1>5. CASE Failed(w)
  <2> DEFINE new == [row EXCEPT !.upgrade_state = "rollback_required"]
  <2>1. new \in Row
    BY DEF Row, UpgradeStates
  <2>2. Promise(new)
    BY <1>5, <2>1 DEF Promise, Failed, NothingActive, Row, Replaceable,
                      Verifying, Stable
  <2> QED
    BY <1>5, <2>1, <2>2 DEF Failed
<1>6. CASE Cancel(w)
  <2> DEFINE new == [row EXCEPT !.upgrade_state = "cancelled",
                                !.drain_requested = FALSE]
  <2>1. new \in Row
    BY DEF Row, UpgradeStates, Stable
  <2>2. Promise(new)
    BY <2>1 DEF Promise, Row, Replaceable, Verifying, Stable
  <2> QED
    BY <1>6, <2>1, <2>2 DEF Cancel
<1>7. CASE Verify(w)
  <2> DEFINE Closed(state) == [row EXCEPT !.upgrade_state = state,
                                          !.drain_requested = FALSE]
  <2>1. ASSUME NEW state \in {"succeeded", "rolled_back"}
        PROVE  /\ Closed(state) \in Row
               /\ Closed(state).upgrade_state = state
    BY DEF Row, UpgradeStates, Stable
  <2>2. CASE /\ row.upgrade_state = "verifying"
             /\ Healthy(row.desired)
             /\ Begin(w, Closed("succeeded"))
    <3>1. Zone = "utc" => row.desired \in alive
      BY <2>2 DEF Healthy, Verifying
    <3> QED
      BY <2>1, <2>2, <3>1 DEF Promise, Replaceable, Verifying, Stable
  <2>3. CASE /\ row.upgrade_state = "rollback_verifying"
             /\ Healthy(row.previous)
             /\ Begin(w, Closed("rolled_back"))
    <3>1. Zone = "utc" => row.previous \in alive
      BY <2>3 DEF Healthy, Verifying
    <3> QED
      BY <2>1, <2>3, <3>1 DEF Promise, Replaceable, Verifying, Stable
  <2> QED
    BY <1>7, <2>2, <2>3 DEF Verify
<1> QED
  BY <1>1, <1>2, <1>3, <1>4, <1>5, <1>6, <1>7 DEF Begins

(***************************************************************************)
(* IInv is inductive.                                                      *)
(***************************************************************************)
LEMMA InitIInv == Init => IInv
<1> SUFFICES ASSUME Init PROVE IInv
  OBVIOUS
<1>1. TypeOK
  BY DEF Init, TypeOK, Row, UpgradeStates, Stable
<1>2. RowSound
  BY DEF Init, RowSound, NothingActive, Replaceable, Verifying, Stable
<1>3. RequestsSound
  BY DEF Init, RequestsSound
<1> QED
  BY <1>1, <1>2, <1>3 DEF IInv

\* A begun request adds its promise to the others'.
LEMMA BeginKeepsIInv ==
    ASSUME IInv, NEW w \in Workers, NEW new \in Row, Begin(w, new), Promise(new)
    PROVE  IInv'
<1>1. TypeOK'
  BY DEF IInv, TypeOK, Begin
<1>2. RowSound'
  BY DEF IInv, RowSound, NothingActive, Active, Begin
<1>3. ASSUME NEW v \in Workers, NEW other \in requests'[v]
      PROVE  Promise(other)'
  <2>1. other = new \/ other \in requests[v]
    BY <1>3 DEF Begin, IInv, TypeOK
  <2>2. Promise(other)
    BY <2>1, <1>3 DEF IInv, RequestsSound
  <2> QED
    BY <2>2 DEF Promise, Active, Begin
<1> QED
  BY <1>1, <1>2, <1>3 DEF IInv, RequestsSound

\* A save makes true of the row what its request relied on.
LEMMA CommitKeepsIInv ==
    ASSUME IInv, NEW w \in Workers, Commit(w)
    PROVE  IInv'
<1>1. PICK new \in requests[w] :
          /\ row' = new
          /\ requests' = Overtaken(w)
          /\ new.upgrade_state \notin Verifying => alive' = alive
          /\ new.upgrade_state \in Verifying => alive' = {}
          /\ Answer(new)
          /\ UNCHANGED <<commands, delivered, running>>
  BY DEF Commit, Verifying
<1>2. new \in Row /\ Promise(new)
  BY DEF IInv, TypeOK, RequestsSound
<1>3. told' \in Releases \cup {None}
  BY <1>1, <1>2 DEF IInv, TypeOK, Answer, Instruction, Row
<1>4. TypeOK'
  BY <1>1, <1>2, <1>3 DEF IInv, TypeOK, Overtaken
<1>5. RowSound'
  BY <1>1, <1>2 DEF RowSound, NothingActive, Active, Promise
<1>6. RequestsSound'
  BY <1>1 DEF RequestsSound, Overtaken
<1> QED
  BY <1>4, <1>5, <1>6 DEF IInv

\* A heartbeat changes neither the state nor the drain, and is of a release
\* that has just shown that it lives.
LEMMA HeartbeatKeepsIInv ==
    ASSUME IInv, Heartbeat
    PROVE  IInv'
<1> USE DEF IInv, TypeOK
<1>1. PICK ready \in BOOLEAN, recent \in BOOLEAN :
          /\ row' = [row EXCEPT !.version = running, !.ready = ready,
                                !.recent = recent]
          /\ alive' = IF ready THEN alive \cup {running} ELSE alive
          /\ UNCHANGED <<commands, delivered, running, told, requests>>
  BY DEF Heartbeat
<1>2. /\ row' \in Row
      /\ row'.upgrade_state = row.upgrade_state
      /\ row'.drain_requested = row.drain_requested
      /\ row'.desired = row.desired /\ row'.previous = row.previous
      /\ row'.version = running /\ row'.ready = ready
  BY <1>1 DEF Row
<1>3. alive \subseteq alive' /\ (ready => running \in alive')
  BY <1>1
<1>4. TypeOK'
  BY <1>1, <1>2
<1>5. RowSound'
  BY <1>1, <1>2, <1>3 DEF RowSound, NothingActive, Active
<1>6. RequestsSound'
  BY <1>1, <1>2, <1>3 DEF RequestsSound, Promise, Active
<1> QED
  BY <1>4, <1>5, <1>6

\* Commands start only while the agent does not drain; otherwise they only end.
LEMMA CommandKeepsIInv ==
    ASSUME IInv, NEW c \in Commands,
           Dispatch(c) \/ Lease(c) \/ \E s \in {"running", "done"} : Report(c, s)
    PROVE  IInv'
<1> USE DEF IInv, TypeOK
<1>1. UNCHANGED <<row, running, told, requests, alive>>
  BY DEF Dispatch, Lease, Report
<1>2. TypeOK'
  BY <1>1 DEF Dispatch, Lease, Report, MayLease
<1>3. row.drain_requested /\ Active = {} => Active' = {}
  BY DEF Active, Dispatch, Lease, MayLease, Report
<1>4. row.upgrade_state \in Replaceable => Active' = {}
  BY <1>3 DEF RowSound, NothingActive, Replaceable, Stable
<1>5. RowSound'
  BY <1>1, <1>4 DEF RowSound, NothingActive
<1>6. RequestsSound'
  BY <1>1, <1>3 DEF RequestsSound, Promise
<1> QED
  BY <1>2, <1>5, <1>6

\* The desk enables or disables the agent: a save, which ends what others do.
LEMMA ToggleKeepsIInv ==
    ASSUME IInv, ToggleEnabled
    PROVE  IInv'
<1> USE DEF IInv, TypeOK
<1>1. /\ row' = [row EXCEPT !.enabled = ~ @, !.ready = @ /\ ~ row.enabled]
      /\ requests' = [w \in Workers |-> {}]
      /\ UNCHANGED <<commands, delivered, running, told, alive>>
  BY DEF ToggleEnabled
<1>2. /\ row' \in Row
      /\ row'.upgrade_state = row.upgrade_state
      /\ row'.drain_requested = row.drain_requested
      /\ row'.version = row.version /\ row'.recent = row.recent
      /\ row'.ready => row.ready
  BY <1>1 DEF Row
<1>3. TypeOK'
  BY <1>1, <1>2
<1>4. RowSound'
  BY <1>1, <1>2 DEF RowSound, NothingActive, Active
<1>5. RequestsSound'
  BY <1>1 DEF RequestsSound
<1> QED
  BY <1>3, <1>4, <1>5

\* Every step keeps the invariant.
LEMMA StepIInv == IInv /\ [Next]_vars => IInv'
<1> SUFFICES ASSUME IInv, [Next]_vars PROVE IInv'
  OBVIOUS
<1>1. ASSUME NEW w \in Workers, Begins(w) PROVE IInv'
  BY <1>1, BeginsWithPromise, BeginKeepsIInv
<1>2. ASSUME NEW w \in Workers, Commit(w) PROVE IInv'
  BY <1>2, CommitKeepsIInv
<1>3. ASSUME NEW w \in Workers, Abort(w) PROVE IInv'
  <2>1. \A v \in Workers : requests'[v] \subseteq requests[v]
    BY <1>3 DEF Abort, IInv, TypeOK
  <2> QED
    BY <1>3, <2>1 DEF Abort, IInv, TypeOK, RowSound, NothingActive, Active,
                      RequestsSound, Promise
<1>4. ASSUME NEW c \in Commands,
             \/ Dispatch(c) \/ Lease(c)
             \/ \E status \in {"running", "done"} : Report(c, status)
      PROVE  IInv'
  BY <1>4, CommandKeepsIInv
<1>5. CASE Instruct
  <2>1. told' \in Releases \cup {None}
    BY <1>5 DEF Instruct, Answer, Instruction, IInv, TypeOK, Row
  <2> QED
    BY <1>5, <2>1 DEF Instruct, IInv, TypeOK, RowSound, NothingActive, Active,
                      RequestsSound, Promise
<1>6. CASE Heartbeat
  BY <1>6, HeartbeatKeepsIInv
<1>7. CASE ToggleEnabled
  BY <1>7, ToggleKeepsIInv
<1>8. CASE Replace \/ UNCHANGED vars
  BY <1>8 DEF Replace, vars, IInv, TypeOK, RowSound, NothingActive, Active,
              RequestsSound, Promise
<1> QED
  BY <1>1, <1>2, <1>3, <1>4, <1>5, <1>6, <1>7, <1>8 DEF Next, Begins

(***************************************************************************)
(* The theorems.                                                           *)
(***************************************************************************)
LEMMA Invariant == Spec => []IInv
  BY InitIInv, StepIInv, PTL DEF Spec

\* Every row and every request of the upgrade state machine is well typed.
THEOREM UpgradeTypeCorrect == Spec => []TypeOK
<1>1. IInv => TypeOK
  BY DEF IInv
<1> QED
  BY <1>1, Invariant, PTL

\* No command is active while the agent may be replaced, however the requests
\* that decide it overlap with each other and with the agent's polls.
THEOREM ReplacedWhenIdle == Spec => []NothingActive
<1>1. IInv => NothingActive
  BY DEF IInv, RowSound
<1> QED
  BY <1>1, Invariant, PTL

\* Where the site's time zone is UTC, an upgrade or a rollback closes only
\* after the generation it deployed has said that it is well.
THEOREM ClosesVerified ==
    ASSUME Zone = "utc"
    PROVE  Spec => VerifiedByDeployed
<1> DEFINE Close ==
        /\ row.upgrade_state = "verifying"
              /\ row'.upgrade_state = "succeeded" => row.desired \in alive
        /\ row.upgrade_state = "rollback_verifying"
              /\ row'.upgrade_state = "rolled_back" => row.previous \in alive
<1>1. IInv /\ [Next]_vars => [Close]_vars
  <2> SUFFICES ASSUME IInv, [Next]_vars PROVE Close
    OBVIOUS
  <2>1. ASSUME NEW w \in Workers, Commit(w) PROVE Close
    <3>1. PICK new \in requests[w] : row' = new
      BY <2>1 DEF Commit
    <3>2. Promise(new)
      BY DEF IInv, RequestsSound
    <3> QED
      BY <3>1, <3>2 DEF Promise
  <2>2. ASSUME row'.upgrade_state = row.upgrade_state PROVE Close
    BY <2>2
  <2>3. CASE Heartbeat \/ ToggleEnabled
    <3>1. row'.upgrade_state = row.upgrade_state
      BY <2>3 DEF Heartbeat, ToggleEnabled, IInv, TypeOK, Row
    <3> QED
      BY <2>2, <3>1
  <2>4. CASE row' = row
    BY <2>2, <2>4
  <2>5. \/ \E w \in Workers : Commit(w)
        \/ Heartbeat \/ ToggleEnabled
        \/ row' = row
    BY DEF Next, RequestUpgrade, Refresh, Register, Deployed, Failed, Cancel,
                Verify, Begin, Abort, Dispatch, Lease, Report, Instruct, Replace,
                vars
  <2> QED
    BY <2>1, <2>3, <2>4, <2>5
<1> QED
  BY <1>1, Invariant, PTL DEF Spec, VerifiedByDeployed
=============================================================================
