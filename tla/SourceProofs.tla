---------------------------- MODULE SourceProofs ----------------------------
(***************************************************************************)
(* Proofs about changes to the source catalogue.  What makes them safe is  *)
(* the intent on record: a request whose intent is known is never started  *)
(* again, so that one session at most makes it, and until that session has *)
(* sent its write nobody can have been told an outcome.  The locks add     *)
(* that two sessions at work never change the same record.                 *)
(***************************************************************************)
EXTENDS SourceChanges, TLAPS

-----------------------------------------------------------------------------
\* Types.

\* Initially every table is well-typed.
LEMMA TypeInit == Init => TypeOK
<1> SUFFICES ASSUME Init PROVE TypeOK
  OBVIOUS
<1>1. /\ journal \in [Requests -> {"none", "intent"} \cup Outcomes]
      /\ told \in [Requests -> Outcomes \cup {"nothing"}]
      /\ attempts \in [Requests -> Nat]
      /\ sessions \in [Workers -> SUBSET Session]
      /\ reviewed \in [Requests -> SUBSET Values]
  BY DEF Init
<1>2. browser \in Page /\ outside \in 0..MaxOutside
  BY ChangeAssumption DEF Init, Page
<1> QED
  BY <1>1, <1>2 DEF Init, TypeOK

\* What is known of the page in each of its conditions.
LEMMA PageKinds ==
    ASSUME browser \in Page
    PROVE  /\ browser.page = "fetching" =>
                 browser \in [page: {"fetching"}, current: BOOLEAN,
                             due: SUBSET Requests]
           /\ browser.page = "shown" =>
                 browser \in [page: {"shown"}, changes: SUBSET Requests,
                             due: SUBSET Requests]
BY DEF Page

\* A write of the catalogue, whoever makes it.
LEMMA PutType ==
    ASSUME TypeOK, NEW i \in Ids, NEW v \in Values \cup {None}, NEW spared, Put(i, v, spared)
    PROVE  /\ source' \in [Ids -> Values \cup {None}]
           /\ exposed' \subseteq Requests
BY DEF TypeOK, Put

\* A change that the catalogue applies.
LEMMA ApplyType ==
    ASSUME TypeOK, NEW r \in Requests, NEW spared, Apply(r, spared)
    PROVE  /\ source' \in [Ids -> Values \cup {None}]
           /\ exposed' \subseteq Requests
           /\ applied' = applied \cup {r}
           /\ applied' \subseteq Requests
<1>1. Target[r] \in Ids /\ Value[r] \in Values
  BY ChangeAssumption
<1>2. PICK i \in Ids : Put(i, IF Action[r] = "delete" THEN None ELSE Value[r], spared)
  BY DEF Apply
<1> QED
  BY <1>1, <1>2, PutType DEF Apply, TypeOK

\* The steps of a session keep it well-typed.
LEMMA AdvanceType ==
    ASSUME TypeOK, NEW w \in Workers, NEW s \in Session,
           NEW step \in {"check", "write", "record", "finish"},
           NEW outcome \in Outcomes, Advance(w, s, step, outcome)
    PROVE  sessions' \in [Workers -> SUBSET Session]
BY DEF TypeOK, Advance, Session

\* What a check can find, and how changes end.
LEMMA Endings ==
    ASSUME NEW r \in Requests
    PROVE  /\ Done[Action[r]] \in {"added", "updated", "deleted"}
           /\ Idle[Action[r]] \in {"existing", "unchanged", "missing"}
           /\ Verdict(r) \in {"write", "failed", Idle[Action[r]]}
<1>1. Action[r] \in {"add", "edit", "delete"}
  BY ChangeAssumption
<1> QED
  BY <1>1 DEF Done, Idle, Verdict

\* Every step keeps every table well-typed.
LEMMA TypeStep == TypeOK /\ [Next]_vars => TypeOK'
<1> SUFFICES ASSUME TypeOK, [Next]_vars
             PROVE  TypeOK'
  OBVIOUS
<1> USE DEF catalogue, pages
<1>1. ASSUME NEW r \in users, Review(r), UNCHANGED users
      PROVE  TypeOK'
  BY <1>1, ChangeAssumption DEF Review, TypeOK
<1>2. ASSUME NEW r \in users, Repeat(r), UNCHANGED users
      PROVE  TypeOK'
  BY <1>2 DEF Repeat, TypeOK, Known, Outcomes
<1>3. ASSUME NEW r \in users, ApplyLate(r), UNCHANGED users
      PROVE  TypeOK'
  <2>1. r \in Requests /\ Apply(r, {})
    BY <1>3 DEF ApplyLate, TypeOK
  <2>2. late' \subseteq Requests
    BY <1>3 DEF ApplyLate, TypeOK
  <2> QED
    BY <1>3, <2>1, <2>2, ApplyType DEF ApplyLate, TypeOK
<1>4. ASSUME NEW r \in users, NEW w \in Workers, Start(w, r), UNCHANGED users
      PROVE  TypeOK'
  <2>1. [request |-> r, step |-> "check", outcome |-> "uncertain"] \in Session
    BY DEF TypeOK, Session, Outcomes
  <2> QED
    BY <1>4, <2>1 DEF Start, TypeOK
<1>5. ASSUME NEW w \in Workers, Check(w), UNCHANGED users
      PROVE  TypeOK'
  <2>1. PICK s \in sessions[w] :
           \E verdict \in {Verdict(s.request), "failed"} :
              IF verdict = "write" THEN Advance(w, s, "write", "uncertain")
              ELSE Advance(w, s, "record", verdict)
    BY <1>5 DEF Check
  <2>2. s \in Session /\ s.request \in Requests
    BY DEF TypeOK, Session
  <2>3. Verdict(s.request) \in {"write"} \cup Outcomes
    BY <2>2, Endings DEF Outcomes
  <2>4. sessions' \in [Workers -> SUBSET Session]
    BY <2>1, <2>2, <2>3, AdvanceType DEF Outcomes
  <2> QED
    BY <1>5, <2>4 DEF Check, TypeOK
<1>6. ASSUME NEW w \in Workers, Sent(w), UNCHANGED users
      PROVE  TypeOK'
  <2>1. PICK s \in sessions[w] :
        /\ attempts' = [attempts EXCEPT ![s.request] = @ + 1]
        /\ \/ /\ Apply(s.request, Spared(s.request))
              /\ clobbered' \in {clobbered, clobbered \cup {s.request}}
              /\ UNCHANGED <<late, outside>>
              /\ \E outcome \in {Done[Action[s.request]], Unacknowledged} :
                    Advance(w, s, "record", outcome)
           \/ /\ Advance(w, s, "record", Unacknowledged)
              /\ late' \in {late, late \cup {s.request}}
              /\ UNCHANGED <<source, applied, outside, exposed, clobbered>>
           \/ Advance(w, s, "record", "failed") /\ UNCHANGED catalogue
    BY <1>6 DEF Sent
  <2>2. s \in Session /\ s.request \in Requests
    BY DEF TypeOK, Session
  <2>3. PICK outcome \in Outcomes : Advance(w, s, "record", outcome)
    BY <2>1, <2>2, Endings DEF Outcomes, Unacknowledged
  <2>4. sessions' \in [Workers -> SUBSET Session]
    BY <2>2, <2>3, AdvanceType
  <2>5. attempts' \in [Requests -> Nat] /\ late' \subseteq Requests
    BY <2>1, <2>2 DEF TypeOK
  <2>6. /\ source' \in [Ids -> Values \cup {None}]
        /\ applied' \cup exposed' \cup clobbered' \subseteq Requests
        /\ outside' \in 0..MaxOutside
    BY <2>1, <2>2, ApplyType DEF TypeOK
  <2> QED
    BY <1>6, <2>4, <2>5, <2>6 DEF Sent, TypeOK
<1>7. ASSUME NEW w \in Workers, Record(w), UNCHANGED users
      PROVE  TypeOK'
  <2>1. PICK s \in sessions[w] :
           /\ journal' = [journal EXCEPT ![s.request] = s.outcome]
           /\ Advance(w, s, "finish", s.outcome)
    BY <1>7 DEF Record
  <2>2. s \in Session /\ s.request \in Requests /\ s.outcome \in Outcomes
    BY DEF TypeOK, Session
  <2>3. sessions' \in [Workers -> SUBSET Session]
    BY <2>1, <2>2, AdvanceType
  <2> QED
    BY <1>7, <2>1, <2>2, <2>3 DEF Record, TypeOK
<1>8. ASSUME NEW w \in Workers, Finish(w), UNCHANGED users
      PROVE  TypeOK'
  <2>1. PICK s \in sessions[w] :
        /\ IF Refreshes(s.outcome)
           THEN /\ cache' = {}
                /\ browser' = IF browser.page = "fetching"
                              THEN [browser EXCEPT !.current = FALSE] ELSE browser
           ELSE UNCHANGED <<cache, browser>>
        /\ locks' = locks \ Own(s.request)
        /\ sessions' = [sessions EXCEPT ![w] = {}]
        /\ owed' \in {owed, applied}
        /\ told' \in {told, [told EXCEPT ![s.request] = s.outcome]}
    BY <1>8 DEF Finish
  <2>2. s \in Session /\ s.request \in Requests /\ s.outcome \in Outcomes
    BY DEF TypeOK, Session
  <2>3. browser' \in Page /\ cache' \subseteq SUBSET Requests
    <3>1. browser.page = "fetching" => [browser EXCEPT !.current = FALSE] \in Page
      BY PageKinds DEF TypeOK, Page
    <3> QED
      BY <2>1, <3>1 DEF TypeOK
  <2>4. told' \in [Requests -> Outcomes \cup {"nothing"}] /\ owed' \subseteq Requests
    BY <2>1, <2>2 DEF TypeOK
  <2> QED
    BY <1>8, <2>1, <2>3, <2>4 DEF Finish, TypeOK
<1>9. ASSUME NEW w \in Workers, Break(w), UNCHANGED users
      PROVE  TypeOK'
  BY <1>9 DEF Break, TypeOK
<1>10. ASSUME NEW l \in locks, Lapse(l), UNCHANGED users
      PROVE  TypeOK'
  BY <1>10 DEF Lapse, TypeOK
<1>11. ASSUME Browse \/ Fetch, UNCHANGED users
      PROVE  TypeOK'
  <2>1. /\ applied \subseteq Requests /\ owed \subseteq Requests
        /\ cache \subseteq SUBSET Requests /\ browser \in Page
    BY DEF TypeOK
  <2>2. \A changes, due \in SUBSET Requests :
           [page |-> "shown", changes |-> changes, due |-> due] \in Page
    BY DEF Page
  <2>3. \A due \in SUBSET Requests :
           [page |-> "fetching", current |-> TRUE, due |-> due] \in Page
    BY DEF Page
  <2>4. browser.page = "fetching" => browser.due \subseteq Requests
    BY <2>1, PageKinds
  <2>5. browser' \in Page
    BY <1>11, <2>1, <2>2, <2>3, <2>4 DEF Browse, Fetch, Show
  <2>6. cache' \subseteq SUBSET Requests
    BY <1>11, <2>1 DEF Browse, Fetch
  <2> QED
    BY <1>11, <2>5, <2>6 DEF Browse, Fetch, TypeOK
<1>12. ASSUME Expire, UNCHANGED users
      PROVE  TypeOK'
  BY <1>12 DEF Expire, TypeOK
<1>13. ASSUME NEW i \in Ids, NEW v \in Values \cup {None}, WriteOutside(i, v),
              UNCHANGED users
       PROVE  TypeOK'
  <2>1. outside' \in 0..MaxOutside
    BY <1>13, ChangeAssumption DEF WriteOutside, TypeOK
  <2>2. source' \in [Ids -> Values \cup {None}] /\ exposed' \subseteq Requests
    BY <1>13, PutType DEF WriteOutside
  <2> QED
    BY <1>13, <2>1, <2>2 DEF WriteOutside, TypeOK
<1>14. CASE UNCHANGED vars
  BY <1>14 DEF vars, TypeOK
<1> QED
  BY <1>1, <1>2, <1>3, <1>4, <1>5, <1>6, <1>7, <1>8, <1>9, <1>10, <1>11, <1>12,
     <1>13, <1>14 DEF Next

\* Every table, session, lock and page of _change, browse and the cache stays
\* well-typed, for any number of users, records, workers and lapsed locks.
THEOREM TypeCorrect == Spec => []TypeOK
BY TypeInit, TypeStep, PTL DEF Spec

-----------------------------------------------------------------------------
(***************************************************************************)
(* The inductive invariant of the answers.                                 *)
(***************************************************************************)
OneSessionEach ==
    /\ \A w \in Workers : \A s, t \in sessions[w] : s = t
    /\ \A v, w \in Workers : \A s \in sessions[v], t \in sessions[w] :
          s.request = t.request => v = w

\* A request on whose behalf nothing has been sent, and that is not ended.
Unsent(r) ==
    /\ journal[r] = "intent"
    /\ attempts[r] = 0
    /\ r \notin applied \cup late
    /\ told[r] \in {"nothing", "uncertain"}

\* What may be said of a request: x is true, and stays so.
Honest(r, x) ==
    /\ x = Done[Action[r]] => r \in applied
    /\ x \in {"failed", Idle[Action[r]]} => r \notin applied \cup late

SessionOK(s) ==
    IF s.step \in {"check", "write"} THEN Unsent(s.request)
    ELSE Known(s.request) /\ Honest(s.request, s.outcome)

RequestOK(r) ==
    /\ attempts[r] <= 1
    /\ Honest(r, told[r])
    /\ Honest(r, journal[r])
    /\ ~ Known(r) => /\ attempts[r] = 0
                     /\ r \notin applied \cup late
                     /\ told[r] = "nothing"

TruthInv ==
    /\ OneSessionEach
    /\ \A w \in Workers : \A s \in sessions[w] : SessionOK(s)
    /\ \A r \in Requests : RequestOK(r)

\* Initially nothing has been asked or answered.
LEMMA TruthInit == Init => TruthInv
<1> SUFFICES ASSUME Init PROVE TruthInv
  OBVIOUS
<1>1. ASSUME NEW r \in Requests
      PROVE  RequestOK(r)
  BY Endings DEF Init, RequestOK, Honest, Known
<1> QED
  BY <1>1 DEF Init, TruthInv, OneSessionEach

\* The write of no request is sent, and none that was not under way is applied.
NothingSent ==
    /\ attempts' = attempts
    /\ applied \subseteq applied'
    /\ applied' \cup late' = applied \cup late

\* What is honest stays honest as long as nothing is sent.
LEMMA HonestStays ==
    ASSUME NothingSent
    PROVE  \A r, x : Honest(r, x) => Honest(r, x)'
BY DEF NothingSent, Honest

\* Steps that neither send nor answer nor advance a session.
LEMMA TruthKept ==
    ASSUME TruthInv, NothingSent, UNCHANGED <<journal, told>>,
           \A w \in Workers : sessions'[w] \subseteq sessions[w]
    PROVE  TruthInv'
<1>1. \A r, x : Honest(r, x) => Honest(r, x)'
  BY HonestStays
<1>2. \A r \in Requests : RequestOK(r)'
  BY <1>1 DEF TruthInv, RequestOK, NothingSent, Known
<1>3. \A s : SessionOK(s) => SessionOK(s)'
  <2>1. \A r : Unsent(r) => Unsent(r)'
    BY DEF Unsent, NothingSent
  <2>2. \A r : Known(r) => Known(r)'
    BY DEF Known
  <2> QED
    BY <1>1, <2>1, <2>2 DEF SessionOK
<1> QED
  BY <1>2, <1>3 DEF TruthInv, OneSessionEach

\* A session that starts is the first and only one of its request.
LEMMA TruthStart ==
    ASSUME TypeOK, TruthInv, NEW w \in Workers, NEW r \in Requests, Start(w, r)
    PROVE  TruthInv'
<1> DEFINE s == [request |-> r, step |-> "check", outcome |-> "uncertain"]
<1>1. /\ ~ Known(r) /\ journal' = [journal EXCEPT ![r] = "intent"]
      /\ sessions[w] = {} /\ sessions' = [sessions EXCEPT ![w] = {s}]
      /\ UNCHANGED <<attempts, applied, late, told>>
  BY DEF Start, catalogue
<1>2. s.request = r /\ s.step = "check"
  OBVIOUS
<1> HIDE DEF s
<1>3. RequestOK(r)
  BY DEF TruthInv
<1>4. ASSUME NEW v \in Workers, NEW t \in sessions[v]
      PROVE  t.request \in Requests \ {r} /\ SessionOK(t)
  BY <1>1, <1>4 DEF TruthInv, SessionOK, Unsent, Known, TypeOK, Session
<1>5. OneSessionEach'
  BY <1>1, <1>2, <1>4 DEF TruthInv, OneSessionEach, TypeOK
<1>6. \A q \in Requests \ {r} : journal'[q] = journal[q]
  BY <1>1 DEF TypeOK
<1>7. \A q \in Requests : \A x : Honest(q, x)' <=> Honest(q, x)
  BY <1>1 DEF Honest
<1>8. journal'[r] = "intent"
  BY <1>1 DEF TypeOK
<1>9. \A q \in Requests : RequestOK(q)'
  <2>1. Honest(r, "intent")
    BY Endings DEF Honest
  <2>2. RequestOK(r)'
    BY <1>1, <1>3, <1>7, <1>8, <2>1 DEF RequestOK, Known
  <2>3. \A q \in Requests \ {r} : RequestOK(q)'
    BY <1>1, <1>6, <1>7 DEF TruthInv, RequestOK, Known
  <2> QED
    BY <2>2, <2>3
<1>10. ASSUME NEW v \in Workers, NEW t \in sessions'[v]
       PROVE  SessionOK(t)'
  <2>1. CASE t = s
    BY <1>1, <1>2, <1>3, <1>8, <2>1 DEF SessionOK, Unsent, RequestOK
  <2>2. CASE t # s
    <3>1. t \in sessions[v]
      BY <1>1, <2>2 DEF TypeOK
    <3>2. t.request \in Requests \ {r} /\ SessionOK(t)
      BY <1>4, <3>1
    <3> QED
      BY <1>1, <1>6, <1>7, <3>2 DEF SessionOK, Unsent, Known
  <2> QED
    BY <2>1, <2>2
<1> QED
  BY <1>5, <1>9, <1>10 DEF TruthInv

\* A session that advances stays the only one of its request; the other sessions
\* are of other requests.
LEMMA AdvanceKeeps ==
    ASSUME TypeOK, OneSessionEach, NEW w \in Workers, NEW s \in sessions[w],
           NEW step, NEW outcome, Advance(w, s, step, outcome)
    PROVE  /\ OneSessionEach'
           /\ \A v \in Workers : \A t \in sessions'[v] :
                 \/ /\ v = w /\ t.request = s.request
                    /\ t.step = step /\ t.outcome = outcome
                 \/ /\ v # w /\ t \in sessions[v]
                    /\ t.request \in Requests /\ t.request # s.request
<1> DEFINE n == [request |-> s.request, step |-> step, outcome |-> outcome]
<1>1. sessions' = [sessions EXCEPT ![w] = {n}]
  BY DEF Advance
<1>2. n.request = s.request /\ n.step = step /\ n.outcome = outcome
  OBVIOUS
<1> HIDE DEF n
<1>3. sessions'[w] = {n} /\ \A v \in Workers \ {w} : sessions'[v] = sessions[v]
  BY <1>1 DEF TypeOK
<1>4. \A v \in Workers \ {w} : \A t \in sessions[v] :
         t.request \in Requests /\ t.request # s.request
  BY DEF OneSessionEach, TypeOK, Session
<1> QED
  BY <1>2, <1>3, <1>4 DEF OneSessionEach

\* The check.
LEMMA TruthCheck ==
    ASSUME TypeOK, TruthInv, NEW w \in Workers, Check(w)
    PROVE  TruthInv'
<1>a. PICK s \in sessions[w] :
         /\ s.step = "check"
         /\ \E verdict \in {Verdict(s.request), "failed"} :
               IF verdict = "write" THEN Advance(w, s, "write", "uncertain")
               ELSE Advance(w, s, "record", verdict)
  BY DEF Check
<1>1. PICK verdict \in {Verdict(s.request), "failed"} :
         IF verdict = "write" THEN Advance(w, s, "write", "uncertain")
         ELSE Advance(w, s, "record", verdict)
  BY <1>a
<1>2. UNCHANGED <<journal, attempts, applied, late, told>>
  BY DEF Check, catalogue
<1>3. s.request \in Requests /\ Unsent(s.request)
  BY <1>a DEF TruthInv, SessionOK, TypeOK, Session
<1>4. \A r \in Requests : RequestOK(r)'
  BY <1>2 DEF TruthInv, RequestOK, Honest, Known
<1>5. \A t : SessionOK(t) => SessionOK(t)'
  BY <1>2 DEF SessionOK, Unsent, Honest, Known
<1>6. Unsent(s.request)' /\ Known(s.request)'
  BY <1>2, <1>3 DEF Unsent, Known
<1>7. CASE verdict = "write"
  <2>1. Advance(w, s, "write", "uncertain")
    BY <1>1, <1>7
  <2>2. \A v \in Workers : \A t \in sessions'[v] : SessionOK(t)'
    BY <1>5, <1>6, <2>1, AdvanceKeeps DEF TruthInv, SessionOK
  <2> QED
    BY <1>4, <2>1, <2>2, AdvanceKeeps DEF TruthInv
<1>8. CASE verdict # "write"
  <2>1. Advance(w, s, "record", verdict)
    BY <1>1, <1>8
  <2>2. verdict \in {"failed", Idle[Action[s.request]]}
    BY <1>1, <1>3, <1>8, Endings
  <2>3. Honest(s.request, verdict)'
    BY <1>3, <1>6, <2>2, Endings DEF Honest, Unsent
  <2>4. \A v \in Workers : \A t \in sessions'[v] : SessionOK(t)'
    BY <1>5, <1>6, <2>1, <2>3, AdvanceKeeps DEF TruthInv, SessionOK
  <2> QED
    BY <1>4, <2>1, <2>4, AdvanceKeeps DEF TruthInv
<1> QED
  BY <1>7, <1>8

\* The write.
LEMMA TruthSent ==
    ASSUME TypeOK, TruthInv, NEW w \in Workers, Sent(w)
    PROVE  TruthInv'
<1>1. PICK s \in sessions[w] :
         /\ s.step = "write"
         /\ attempts' = [attempts EXCEPT ![s.request] = @ + 1]
         /\ \/ /\ Apply(s.request, Spared(s.request))
               /\ late' = late
               /\ \E outcome \in {Done[Action[s.request]], Unacknowledged} :
                     Advance(w, s, "record", outcome)
            \/ /\ Advance(w, s, "record", Unacknowledged)
               /\ late' \in {late, late \cup {s.request}}
               /\ UNCHANGED applied
            \/ Advance(w, s, "record", "failed") /\ UNCHANGED catalogue
  BY DEF Sent
<1>2. PICK r \in Requests : r = s.request
  BY DEF TypeOK, Session
<1>3. Unsent(r) /\ UNCHANGED <<journal, told>>
  BY <1>1, <1>2 DEF Sent, TruthInv, SessionOK
<1>4. PICK outcome : /\ Advance(w, s, "record", outcome)
                     /\ Honest(r, outcome)'
  <2>1. ASSUME Apply(r, Spared(r))
        PROVE  \A x \in {Done[Action[r]], Unacknowledged} : Honest(r, x)'
    BY <2>1, Endings DEF Apply, Honest, Unacknowledged
  <2>2. Honest(r, Unacknowledged)'
    BY Endings DEF Honest, Unacknowledged
  <2>3. UNCHANGED <<applied, late>> => Honest(r, "failed")'
    BY <1>3, Endings DEF Unsent, Honest
  <2> QED
    BY <1>1, <1>2, <2>1, <2>2, <2>3 DEF catalogue
<1>5. /\ applied \subseteq applied'
      /\ \A q \in Requests \ {r} : q \in applied' \cup late' <=> q \in applied \cup late
  BY <1>1, <1>2 DEF Apply, catalogue
<1>6. /\ \A q \in Requests \ {r} : attempts'[q] = attempts[q]
      /\ attempts'[r] = 1
  BY <1>1, <1>2, <1>3 DEF Unsent, TypeOK
<1>7. \A q \in Requests \ {r} : \A x : Honest(q, x) => Honest(q, x)'
  BY <1>5 DEF Honest
<1>8. \A q \in Requests \ {r} : RequestOK(q)'
  BY <1>3, <1>5, <1>6, <1>7 DEF TruthInv, RequestOK, Known
<1>9. RequestOK(r)'
  <2>1. \A x \in {"nothing", "uncertain", "intent"} : Honest(r, x)'
    BY Endings DEF Honest
  <2> QED
    BY <1>3, <1>6, <2>1 DEF RequestOK, Unsent, Known
<1>10. \A t : t.request \in Requests \ {r} /\ SessionOK(t) => SessionOK(t)'
  BY <1>3, <1>5, <1>6, <1>7 DEF SessionOK, Unsent, Known
<1>11. Known(r)'
  BY <1>3 DEF Unsent, Known
<1>12. \A v \in Workers : \A t \in sessions'[v] : SessionOK(t)'
  BY <1>2, <1>4, <1>10, <1>11, AdvanceKeeps DEF TruthInv, SessionOK
<1> QED
  BY <1>4, <1>8, <1>9, <1>12, AdvanceKeeps DEF TruthInv

\* Recording the outcome.
LEMMA TruthRecord ==
    ASSUME TypeOK, TruthInv, NEW w \in Workers, Record(w)
    PROVE  TruthInv'
<1>1. PICK s \in sessions[w] :
         /\ s.step = "record"
         /\ journal' = [journal EXCEPT ![s.request] = s.outcome]
         /\ Advance(w, s, "finish", s.outcome)
  BY DEF Record
<1>2. UNCHANGED <<attempts, applied, late, told>>
  BY DEF Record, catalogue
<1>3. PICK r \in Requests : r = s.request /\ s.outcome \in Outcomes
  BY DEF TypeOK, Session
<1>4. Known(r) /\ Honest(r, s.outcome)
  BY <1>1, <1>3 DEF TruthInv, SessionOK
<1>5. journal'[r] = s.outcome /\ \A q \in Requests \ {r} : journal'[q] = journal[q]
  BY <1>1, <1>3 DEF TypeOK
<1>6. Known(r)'
  BY <1>3, <1>5 DEF Known, Outcomes
<1>7. \A q, x : Honest(q, x)' <=> Honest(q, x)
  BY <1>2 DEF Honest
<1>8. RequestOK(r)'
  BY <1>2, <1>4, <1>5, <1>6, <1>7 DEF TruthInv, RequestOK
<1>9. \A q \in Requests \ {r} : RequestOK(q)'
  BY <1>2, <1>5, <1>7 DEF TruthInv, RequestOK, Known
<1>10. \A t : t.request \in Requests \ {r} /\ SessionOK(t) => SessionOK(t)'
  BY <1>2, <1>5, <1>7 DEF SessionOK, Unsent, Known
<1>11. \A v \in Workers : \A t \in sessions'[v] : SessionOK(t)'
  BY <1>1, <1>3, <1>4, <1>6, <1>7, <1>10, AdvanceKeeps DEF TruthInv, SessionOK
<1> QED
  BY <1>1, <1>8, <1>9, <1>11, AdvanceKeeps DEF TruthInv

\* An answer, whether of the session itself or from the record.
LEMMA TruthTold ==
    ASSUME TypeOK, TruthInv, NEW r \in Requests, NEW x, Honest(r, x), Known(r),
           told' \in {told, [told EXCEPT ![r] = x]},
           x = "uncertain" \/ ~ \E w \in Workers : \E s \in sessions'[w] :
                                  s.request = r /\ s.step \in {"check", "write"},
           UNCHANGED <<journal, attempts, applied, late>>,
           \A w \in Workers : sessions'[w] \subseteq sessions[w]
    PROVE  TruthInv'
<1>1. \A q, y : Honest(q, y)' <=> Honest(q, y)
  BY DEF Honest
<1>2. /\ told'[r] \in {told[r], x}
      /\ \A q \in Requests \ {r} : told'[q] = told[q]
  BY DEF TypeOK
<1>3. \A q \in Requests : RequestOK(q)'
  BY <1>1, <1>2 DEF TruthInv, RequestOK, Known
<1>4. ASSUME NEW w \in Workers, NEW s \in sessions'[w]
      PROVE  SessionOK(s)'
  <2>1. SessionOK(s) /\ s.request \in Requests
    BY DEF TruthInv, TypeOK, Session
  <2>2. CASE s.step \in {"check", "write"}
    BY <1>2, <2>1, <2>2 DEF SessionOK, Unsent
  <2>3. CASE s.step \notin {"check", "write"}
    BY <1>1, <2>1, <2>3 DEF SessionOK, Known
  <2> QED
    BY <2>2, <2>3
<1> QED
  BY <1>3, <1>4 DEF TruthInv, OneSessionEach

\* A repeated request is told what is on record.
LEMMA TruthRepeat ==
    ASSUME TypeOK, TruthInv, NEW r \in Requests, Repeat(r)
    PROVE  TruthInv'
<1>1. UNCHANGED <<journal, attempts, applied, late, sessions>> /\ Known(r)
  BY DEF Repeat, catalogue
<1>2. CASE journal[r] = "intent"
  <2>1. Honest(r, "uncertain")
    BY Endings DEF Honest
  <2>2. told' = [told EXCEPT ![r] = "uncertain"]
    BY <1>2 DEF Repeat
  <2> QED
    BY <1>1, <2>1, <2>2, TruthTold
<1>3. CASE journal[r] # "intent"
  <2>1. Honest(r, journal[r])
    BY DEF TruthInv, RequestOK
  <2>2. told' = [told EXCEPT ![r] = journal[r]]
    BY <1>3 DEF Repeat
  <2>3. ~ \E w \in Workers : \E s \in sessions'[w] :
             s.request = r /\ s.step \in {"check", "write"}
    BY <1>1, <1>3 DEF TruthInv, SessionOK, Unsent
  <2> QED
    BY <1>1, <2>1, <2>2, <2>3, TruthTold
<1> QED
  BY <1>2, <1>3

\* The answer of a session.
LEMMA TruthFinish ==
    ASSUME TypeOK, TruthInv, NEW w \in Workers, Finish(w)
    PROVE  TruthInv'
<1>1. PICK s \in sessions[w] :
         /\ s.step = "finish"
         /\ sessions' = [sessions EXCEPT ![w] = {}]
         /\ told' \in {told, [told EXCEPT ![s.request] = s.outcome]}
  BY DEF Finish
<1>2. PICK r \in Requests : r = s.request
  BY DEF TypeOK, Session
<1>3. Known(r) /\ Honest(r, s.outcome)
  BY <1>1, <1>2 DEF TruthInv, SessionOK
<1>4. \A v \in Workers : sessions'[v] \subseteq sessions[v]
  BY <1>1 DEF TypeOK
<1>5. ~ \E v \in Workers : \E t \in sessions'[v] : t.request = r
  BY <1>1, <1>2 DEF TruthInv, OneSessionEach, TypeOK
<1> QED
  BY <1>1, <1>2, <1>3, <1>4, <1>5, TruthTold DEF Finish, catalogue

\* Every step keeps the invariant.
LEMMA TruthStep == TypeOK /\ TruthInv /\ [Next]_vars => TruthInv'
<1> SUFFICES ASSUME TypeOK, TruthInv, [Next]_vars
             PROVE  TruthInv'
  OBVIOUS
<1>1. CASE /\ UNCHANGED <<journal, told, attempts, applied, late>>
           /\ \A w \in Workers : sessions'[w] \subseteq sessions[w]
  BY <1>1, TruthKept DEF NothingSent
<1>2. ASSUME NEW r \in Requests, Review(r)
      PROVE  TruthInv'
  BY <1>1, <1>2 DEF Review, catalogue
<1>3. ASSUME NEW r \in Requests, ApplyLate(r)
      PROVE  TruthInv'
  <2>1. NothingSent /\ UNCHANGED <<journal, told, sessions>>
    BY <1>3 DEF ApplyLate, Apply, NothingSent
  <2> QED
    BY <2>1, TruthKept
<1>4. ASSUME NEW w \in Workers, Break(w)
      PROVE  TruthInv'
  BY <1>1, <1>4 DEF Break, catalogue, TypeOK
<1>5. ASSUME NEW l, Lapse(l)
      PROVE  TruthInv'
  BY <1>1, <1>5 DEF Lapse, catalogue
<1>6. CASE Browse \/ Fetch \/ Expire
  BY <1>1, <1>6 DEF Browse, Fetch, Expire, catalogue
<1>7. CASE UNCHANGED vars
  BY <1>1, <1>7 DEF vars, catalogue
<1>8. ASSUME NEW i, NEW v, WriteOutside(i, v)
      PROVE  TruthInv'
  BY <1>1, <1>8 DEF WriteOutside
<1>9. users \subseteq Requests
  BY DEF TypeOK
<1> QED
  BY <1>2, <1>3, <1>4, <1>5, <1>6, <1>7, <1>8, <1>9, TruthRepeat, TruthStart, TruthCheck,
     TruthSent, TruthRecord, TruthFinish DEF Next

\* The invariant of the answers.
LEMMA TruthInvariant == Spec => [](TypeOK /\ TruthInv)
BY TypeInit, TypeStep, TruthInit, TruthStep, PTL DEF Spec

\* However often a request is repeated, whether or not its worker survived and its
\* locks lasted, its change is submitted at most once.
THEOREM SubmitsOnce == Spec => []AtMostOnce
<1>1. TruthInv => AtMostOnce
  BY DEF TruthInv, RequestOK, AtMostOnce
<1> QED
  BY <1>1, TruthInvariant, PTL

\* Users are told the truth of their changes, also by a repeated request, and also
\* of a write that the catalogue applies after the answer.
THEOREM TellsTruth == Spec => []ToldTruly
<1>1. TruthInv => ToldTruly
  BY DEF TruthInv, RequestOK, Honest, ToldTruly
<1> QED
  BY <1>1, TruthInvariant, PTL

-----------------------------------------------------------------------------
(***************************************************************************)
(* The inductive invariant of the locks.  No lock has two owners, and a    *)
(* session about to write still finds what its user reviewed, unless it    *)
(* was exposed to a writer that its locks do not keep away.                *)
(***************************************************************************)
Exclusive == \A l, m \in locks : l.name = m.name => l.owner = m.owner

Standing(s) == s.step = "write" => s.request \in exposed \/ AsReviewed(s.request)

LockInv ==
    /\ NothingClobbered
    /\ Exclusive
    /\ \A w \in Workers : \A s \in sessions[w] : Standing(s)

\* Initially no lock is taken.
LEMMA LockInit == Init => LockInv
BY DEF Init, LockInv, Exclusive, NothingClobbered

\* Two requests that both hold their record's lock change different records: the
\* lock of an addition is on the record's fields, any other on its id.
LEMMA LocksDiffer ==
    ASSUME Exclusive, NEW q, NEW r, q # r, Guarded(q), Guarded(r)
    PROVE  RecordLock(q) # RecordLock(r)
<1> DEFINE l(x) == [name |-> RecordLock(x), owner |-> x]
<1>1. \A x : l(x).name = RecordLock(x) /\ l(x).owner = x
  OBVIOUS
<1>2. l(q) \in locks /\ l(r) \in locks
  BY DEF Guarded
<1> HIDE DEF l
<1> QED
  BY <1>1, <1>2 DEF Exclusive

\* A write that does not touch what a user reviewed leaves it there.
LEMMA PutApart ==
    ASSUME TypeOK, NEW i \in Ids, NEW v, NEW spared, Put(i, v, spared),
           NEW q \in Requests, AsReviewed(q), ~ Touches(i, v, q), reviewed' = reviewed
    PROVE  AsReviewed(q)'
<1>1. source'[i] = v /\ \A j \in Ids \ {i} : source'[j] = source[j]
  BY DEF Put, TypeOK
<1>2. CASE Action[q] = "add"
  <2>1. v # Value[q] /\ \A j \in Ids : source[j] # Value[q]
    BY <1>2 DEF Touches, AsReviewed, Matching
  <2>2. \A j \in Ids : source'[j] # Value[q]
    BY <1>1, <2>1
  <2> QED
    BY <1>2, <2>2 DEF AsReviewed, Matching
<1>3. CASE Action[q] # "add"
  <2>1. Target[q] \in Ids \ {i}
    BY <1>3, ChangeAssumption DEF Touches
  <2> QED
    BY <1>1, <1>3, <2>1 DEF AsReviewed
<1> QED
  BY <1>2, <1>3

\* What a change writes does not touch what the users of spared ones reviewed.
LEMMA SparedApart ==
    ASSUME TypeOK, Exclusive, NEW r \in Requests, NEW q \in Spared(r) \ {r}, AsReviewed(q),
           NEW i \in Ids,
           IF Action[r] = "add" THEN i \in Free ELSE i = Target[r] /\ i \notin Free
    PROVE  ~ Touches(i, IF Action[r] = "delete" THEN None ELSE Value[r], q)
<1>1. /\ q \in Requests /\ Guarded(q) /\ Guarded(r)
      /\ ~ (Action[r] = "edit" /\ Action[q] = "add")
  BY DEF Spared
<1>2. RecordLock(q) # RecordLock(r)
  BY <1>1, LocksDiffer
<1>3. /\ {Action[q], Action[r]} \subseteq {"add", "edit", "delete"}
      /\ {Value[q], Value[r]} \subseteq Values
      /\ None \notin Values
  BY <1>1, ChangeAssumption
<1>4. CASE Action[q] = "add"
  <2>1. Action[r] = "add" => Value[r] # Value[q]
    BY <1>2, <1>4 DEF RecordLock
  <2>2. Value[q] # None
    BY <1>3
  <2> QED
    BY <1>1, <1>3, <1>4, <2>1, <2>2 DEF Touches
<1>5. CASE Action[q] # "add"
  <2>1. source[Target[q]] \in reviewed[q] /\ reviewed[q] \subseteq Values
    BY <1>1, <1>5 DEF AsReviewed, TypeOK
  <2>2. Action[r] = "add" => i # Target[q]
    BY <1>3, <2>1 DEF Free
  <2>3. Action[r] # "add" => i # Target[q]
    BY <1>2, <1>5 DEF RecordLock
  <2> QED
    BY <1>5, <2>2, <2>3 DEF Touches
<1> QED
  BY <1>4, <1>5

\* A write of the catalogue: whoever is disturbed by it is exposed.
LEMMA LockPut ==
    ASSUME TypeOK, LockInv, NEW i \in Ids, NEW v, NEW spared, Put(i, v, spared),
           \A q \in Requests \cap spared :
              \/ \A w \in Workers : \A s \in sessions'[w] : s.request = q => s.step # "write"
              \/ AsReviewed(q) => ~ Touches(i, v, q),
           clobbered' \subseteq exposed', UNCHANGED <<locks, reviewed>>,
           \A w \in Workers : \A s \in sessions'[w] : s.step = "write" => s \in sessions[w]
    PROVE  LockInv'
<1>1. ASSUME NEW w \in Workers, NEW s \in sessions'[w], s.step = "write"
      PROVE  s.request \in exposed' \/ AsReviewed(s.request)'
  <2>1. s \in sessions[w]
    BY <1>1
  <2>2. PICK q \in Requests : q = s.request
    BY <2>1 DEF TypeOK, Session
  <2>3. Writing(q)
    BY <1>1, <2>1, <2>2 DEF Writing
  <2>4. q \in exposed \/ AsReviewed(q)
    BY <1>1, <2>1, <2>2 DEF LockInv, Standing
  <2>5. CASE q \in exposed
    BY <2>2, <2>5 DEF Put
  <2>6. CASE AsReviewed(q) /\ ~ Touches(i, v, q)
    BY <2>2, <2>6, PutApart
  <2>7. CASE AsReviewed(q) /\ Touches(i, v, q)
    <3>1. q \notin spared
      BY <1>1, <2>2, <2>7
    <3> QED
      BY <2>2, <2>3, <2>7, <3>1 DEF Put
  <2> QED
    BY <2>4, <2>5, <2>6, <2>7
<1> QED
  BY <1>1 DEF LockInv, Exclusive, Standing, NothingClobbered

\* Steps that leave the catalogue alone.
LEMMA LockKept ==
    ASSUME TypeOK, LockInv, UNCHANGED <<source, clobbered, exposed>>, Exclusive',
           \A q \in Requests : reviewed[q] \subseteq reviewed'[q],
           \A w \in Workers : \A s \in sessions'[w] : s.step = "write" =>
              \E t \in sessions[w] :
                  s.request = t.request /\ (t.step = "write" \/ AsReviewed(s.request))
    PROVE  LockInv'
<1>1. \A q \in Requests : AsReviewed(q) => AsReviewed(q)'
  BY DEF AsReviewed, Matching
<1>2. ASSUME NEW w \in Workers, NEW s \in sessions'[w], s.step = "write"
      PROVE  s.request \in exposed' \/ AsReviewed(s.request)'
  <2>1. PICK t \in sessions[w] :
           s.request = t.request /\ (t.step = "write" \/ AsReviewed(s.request))
    BY <1>2
  <2>2. s.request \in Requests
    BY <2>1 DEF TypeOK, Session
  <2>3. s.request \in exposed \/ AsReviewed(s.request)
    BY <2>1 DEF LockInv, Standing
  <2> QED
    BY <1>1, <2>2, <2>3
<1> QED
  BY <1>2 DEF LockInv, Standing, NothingClobbered

\* A change that starts takes two locks that nobody holds.
LEMMA LockStart ==
    ASSUME TypeOK, LockInv, NEW w \in Workers, NEW r \in Requests, Start(w, r)
    PROVE  LockInv'
<1> DEFINE n == [request |-> r, step |-> "check", outcome |-> "uncertain"]
           a == [name |-> RequestLock(r), owner |-> r]
           b == [name |-> RecordLock(r), owner |-> r]
<1>1. /\ locks' = locks \cup {a, b}
      /\ ~ Held(RequestLock(r)) /\ ~ Held(RecordLock(r))
      /\ sessions' = [sessions EXCEPT ![w] = {n}]
      /\ UNCHANGED <<source, reviewed, clobbered, exposed>>
  BY DEF Start, catalogue
<1>2. /\ n.step = "check" /\ a.owner = r /\ b.owner = r
      /\ a.name = RequestLock(r) /\ b.name = RecordLock(r)
  OBVIOUS
<1> HIDE DEF n, a, b
<1>3. Exclusive'
  BY <1>1, <1>2 DEF LockInv, Exclusive, Held
<1>4. \A v \in Workers : \A s \in sessions'[v] : s.step = "write" => s \in sessions[v]
  BY <1>1, <1>2 DEF TypeOK
<1> QED
  BY <1>1, <1>3, <1>4, LockKept

\* The check finds what the user reviewed, or does not lead to a write.
LEMMA LockCheck ==
    ASSUME TypeOK, LockInv, NEW w \in Workers, Check(w)
    PROVE  LockInv'
<1>1. PICK s \in sessions[w] :
         \E verdict \in {Verdict(s.request), "failed"} :
            IF verdict = "write" THEN Advance(w, s, "write", "uncertain")
            ELSE Advance(w, s, "record", verdict)
  BY DEF Check
<1>2. Verdict(s.request) = "write" => AsReviewed(s.request)
  BY DEF Verdict, AsReviewed
<1>3. PICK step, outcome :
         /\ Advance(w, s, step, outcome)
         /\ step = "write" => AsReviewed(s.request)
  BY <1>1, <1>2
<1> DEFINE n == [request |-> s.request, step |-> step, outcome |-> outcome]
<1>4. n.request = s.request /\ n.step = step /\ sessions' = [sessions EXCEPT ![w] = {n}]
  BY <1>3 DEF Advance
<1> HIDE DEF n
<1>5. \A v \in Workers : \A t \in sessions'[v] : t.step = "write" =>
         \E u \in sessions[v] :
             t.request = u.request /\ (u.step = "write" \/ AsReviewed(t.request))
  BY <1>3, <1>4 DEF TypeOK
<1>6. UNCHANGED <<source, clobbered, exposed, reviewed, locks>>
  BY DEF Check, catalogue
<1> QED
  BY <1>5, <1>6, LockKept DEF LockInv, Exclusive

\* The write disturbs nobody whom the locks keep apart from it, and replaces what
\* its own user did not review only if it was exposed.
LEMMA LockSent ==
    ASSUME TypeOK, OneSessionEach, LockInv, NEW w \in Workers, Sent(w)
    PROVE  LockInv'
<1>1. PICK s \in sessions[w] :
         /\ s.step = "write"
         /\ \/ /\ Apply(s.request, Spared(s.request))
               /\ clobbered' = IF AsReviewed(s.request) THEN clobbered
                               ELSE clobbered \cup {s.request}
            \/ UNCHANGED <<source, clobbered, exposed>>
         /\ \E outcome : Advance(w, s, "record", outcome)
  BY DEF Sent, catalogue
<1>2. PICK r \in Requests : r = s.request
  BY DEF TypeOK, Session
<1>3. UNCHANGED <<locks, reviewed>>
  BY DEF Sent
<1>4. r \in exposed \/ AsReviewed(r)
  BY <1>1, <1>2 DEF LockInv, Standing
<1>5. PICK outcome : Advance(w, s, "record", outcome)
  BY <1>1
<1>6. \A v \in Workers : \A t \in sessions'[v] :
         t.step = "write" => t \in sessions[v] /\ t.request # r
  BY <1>2, <1>5, AdvanceKeeps
<1>7. CASE /\ Apply(r, Spared(r))
           /\ clobbered' = IF AsReviewed(r) THEN clobbered ELSE clobbered \cup {r}
  <2> DEFINE v == IF Action[r] = "delete" THEN None ELSE Value[r]
  <2>1. PICK i \in Ids :
           /\ IF Action[r] = "add" THEN i \in Free ELSE i = Target[r] /\ i \notin Free
           /\ Put(i, v, Spared(r))
    BY <1>7 DEF Apply
  <2>2. \A q \in Spared(r) \ {r} : AsReviewed(q) => ~ Touches(i, v, q)
    BY <2>1, SparedApart DEF LockInv
  <2>3. clobbered' \subseteq exposed'
    BY <1>4, <1>7, <2>1 DEF LockInv, NothingClobbered, Put
  <2> HIDE DEF v
  <2> QED
    BY <1>3, <1>6, <2>1, <2>2, <2>3, LockPut
<1>8. CASE UNCHANGED <<source, clobbered, exposed>>
  BY <1>3, <1>6, <1>8, LockKept DEF LockInv, Exclusive
<1> QED
  BY <1>1, <1>2, <1>7, <1>8

\* A write of somebody else, or one that arrives late.
LEMMA LockOutside ==
    ASSUME TypeOK, LockInv,
           \/ \E r \in Requests : ApplyLate(r)
           \/ \E i \in Ids, v \in Values \cup {None} : WriteOutside(i, v)
    PROVE  LockInv'
<1>0. PICK i \in Ids : \E v : Put(i, v, {})
  BY DEF ApplyLate, Apply, WriteOutside
<1>1. PICK v : Put(i, v, {})
  BY <1>0
<1>2. UNCHANGED <<locks, reviewed, sessions, clobbered>>
  BY DEF ApplyLate, WriteOutside
<1>3. clobbered' \subseteq exposed'
  BY <1>1, <1>2 DEF LockInv, NothingClobbered, Put
<1> QED
  BY <1>1, <1>2, <1>3, LockPut

\* Every step keeps the invariant.
LEMMA LockStep ==
    TypeOK /\ OneSessionEach /\ LockInv /\ [Next]_vars => LockInv'
<1> SUFFICES ASSUME TypeOK, OneSessionEach, LockInv, [Next]_vars
             PROVE  LockInv'
  OBVIOUS
<1>1. CASE /\ UNCHANGED <<source, reviewed, clobbered, exposed>>
           /\ locks' \subseteq locks
           /\ \A w \in Workers : \A s \in sessions'[w] : s.step = "write" => s \in sessions[w]
  BY <1>1, LockKept DEF LockInv, Exclusive
<1>2. ASSUME NEW r \in Requests, Review(r)
      PROVE  LockInv'
  <2>1. \A q \in Requests : reviewed[q] \subseteq reviewed'[q]
    BY <1>2 DEF Review, TypeOK
  <2>2. UNCHANGED <<source, clobbered, exposed, locks, sessions>>
    BY <1>2 DEF Review, catalogue
  <2> QED
    BY <2>1, <2>2, LockKept DEF LockInv, Exclusive
<1>3. ASSUME NEW r \in Requests, Repeat(r)
      PROVE  LockInv'
  BY <1>1, <1>3 DEF Repeat, catalogue
<1>4. ASSUME NEW w \in Workers, Record(w)
      PROVE  LockInv'
  <2>1. PICK s \in sessions[w] : Advance(w, s, "finish", s.outcome)
    BY <1>4 DEF Record
  <2>2. \A v \in Workers : \A t \in sessions'[v] : t.step = "write" => t \in sessions[v]
    BY <2>1 DEF Advance, TypeOK
  <2> QED
    BY <1>1, <1>4, <2>2 DEF Record, catalogue
<1>5. ASSUME NEW w \in Workers, Finish(w) \/ Break(w)
      PROVE  LockInv'
  <2>1. \A v \in Workers : sessions'[v] \subseteq sessions[v]
    BY <1>5 DEF Finish, Break, TypeOK
  <2>2. locks' \subseteq locks
    BY <1>5 DEF Finish, Break
  <2> QED
    BY <1>1, <1>5, <2>1, <2>2 DEF Finish, Break, catalogue
<1>6. ASSUME NEW l, Lapse(l)
      PROVE  LockInv'
  BY <1>1, <1>6 DEF Lapse, catalogue
<1>7. CASE Browse \/ Fetch \/ Expire
  BY <1>1, <1>7 DEF Browse, Fetch, Expire, catalogue
<1>8. CASE UNCHANGED vars
  BY <1>1, <1>8 DEF vars, catalogue
<1>9. users \subseteq Requests
  BY DEF TypeOK
<1> QED
  BY <1>2, <1>3, <1>4, <1>5, <1>6, <1>7, <1>8, <1>9, LockStart, LockCheck, LockSent,
     LockOutside DEF Next

\* Whatever the interleaving, however workers die, locks lapse and others write: a
\* change replaces exactly what its user reviewed, unless somebody whom its locks
\* do not keep away wrote the same record between its check and its write.
THEOREM ReplacesReviewed == Spec => []NothingClobbered
<1>1. TruthInv => OneSessionEach
  BY DEF TruthInv
<1>2. Spec => []LockInv
  BY <1>1, LockInit, LockStep, TruthInvariant, PTL DEF Spec
<1>3. LockInv => NothingClobbered
  BY DEF LockInv
<1> QED
  BY <1>2, <1>3, PTL

-----------------------------------------------------------------------------
(***************************************************************************)
(* Pages.  What is in the cache, and what a fetch will put there under the *)
(* current generation, lacks nothing that is owed.                         *)
(***************************************************************************)
FreshInv ==
    /\ owed \subseteq applied
    /\ \A changes \in cache : owed \subseteq changes
    /\ browser.page = "fetching" => browser.due \subseteq applied
    /\ PagesAreFresh

\* Initially there is no page.
LEMMA FreshInit == Init => FreshInv
BY DEF Init, FreshInv, PagesAreFresh

\* Every step keeps the invariant.
LEMMA FreshStep == TypeOK /\ FreshInv /\ [Next]_vars => FreshInv'
<1> SUFFICES ASSUME TypeOK, FreshInv, [Next]_vars
             PROVE  FreshInv'
  OBVIOUS
<1>1. CASE UNCHANGED <<cache, browser, owed>> /\ applied \subseteq applied'
  BY <1>1 DEF FreshInv, PagesAreFresh
<1>2. ASSUME NEW w \in Workers, Finish(w)
      PROVE  FreshInv'
  <2>1. PICK s \in sessions[w] :
        /\ IF Refreshes(s.outcome)
           THEN /\ cache' = {}
                /\ browser' = IF browser.page = "fetching"
                              THEN [browser EXCEPT !.current = FALSE] ELSE browser
           ELSE UNCHANGED <<cache, browser>>
        /\ owed' = IF Mutated(s.outcome) THEN applied ELSE owed
    BY <1>2 DEF Finish
  <2>2. applied' = applied
    BY <1>2 DEF Finish, catalogue
  <2>3. Mutated(s.outcome) => Refreshes(s.outcome)
    BY DEF Mutated, Refreshes
  <2>4. \A changes \in cache' : owed' \subseteq changes
    BY <2>1, <2>3 DEF FreshInv
  <2>5. owed' \subseteq applied'
    BY <2>1, <2>2 DEF FreshInv
  <2>6. CASE browser' = browser
    BY <2>2, <2>4, <2>5, <2>6 DEF FreshInv, PagesAreFresh
  <2>7. CASE /\ browser.page = "fetching"
             /\ browser' = [browser EXCEPT !.current = FALSE]
    <3>1. browser \in [page: {"fetching"}, current: BOOLEAN,
                       due: SUBSET Requests]
      BY <2>7, PageKinds DEF TypeOK
    <3>2. browser'.page = "fetching" /\ browser'.due = browser.due
      BY <2>7, <3>1
    <3> QED
      BY <2>2, <2>4, <2>5, <2>7, <3>2 DEF FreshInv, PagesAreFresh
  <2> QED
    BY <2>1, <2>6, <2>7
<1>3. CASE Browse
  <2>1. UNCHANGED <<cache, owed, applied>>
    BY <1>3 DEF Browse, catalogue
  <2>2. CASE cache # {}
    BY <1>3, <2>1, <2>2 DEF Browse, Show, FreshInv, PagesAreFresh
  <2>3. CASE cache = {}
    BY <1>3, <2>1, <2>3 DEF Browse, FreshInv, PagesAreFresh
  <2> QED
    BY <2>2, <2>3
<1>4. CASE Fetch
  <2>1. UNCHANGED <<owed, applied>> /\ cache' \in {cache, {applied}}
    BY <1>4 DEF Fetch, catalogue
  <2>2. /\ browser.page = "fetching"
        /\ browser' = [page |-> "shown", changes |-> applied, due |-> browser.due]
    BY <1>4 DEF Fetch, Show
  <2> QED
    BY <2>1, <2>2 DEF FreshInv, PagesAreFresh
<1>5. CASE Expire
  BY <1>5 DEF Expire, catalogue, FreshInv, PagesAreFresh
<1>6. ASSUME NEW w \in Workers, Sent(w)
      PROVE  FreshInv'
  BY <1>1, <1>6 DEF Sent, Apply, pages, catalogue
<1>7. ASSUME NEW r, ApplyLate(r)
      PROVE  FreshInv'
  BY <1>1, <1>7 DEF ApplyLate, Apply, pages
<1>8. ASSUME NEW r, NEW w, Review(r) \/ Repeat(r) \/ Start(w, r)
      PROVE  FreshInv'
  BY <1>1, <1>8 DEF Review, Repeat, Start, pages, catalogue
<1>9. ASSUME NEW w, Check(w) \/ Record(w) \/ Break(w)
      PROVE  FreshInv'
  BY <1>1, <1>9 DEF Check, Record, Break, pages, catalogue
<1>10. ASSUME NEW l, Lapse(l)
       PROVE  FreshInv'
  BY <1>1, <1>10 DEF Lapse, pages, catalogue
<1>11. ASSUME NEW i, NEW v, WriteOutside(i, v)
       PROVE  FreshInv'
  BY <1>1, <1>11 DEF WriteOutside, pages
<1>12. CASE UNCHANGED vars
  BY <1>1, <1>12 DEF vars, pages, catalogue
<1>13. CASE \E r \in users :
               Review(r) \/ Repeat(r) \/ ApplyLate(r) \/ \E w \in Workers : Start(w, r)
  BY <1>7, <1>8, <1>13
<1>14. CASE \E w \in Workers : Check(w) \/ Sent(w) \/ Record(w) \/ Finish(w) \/ Break(w)
  BY <1>2, <1>6, <1>9, <1>14
<1> QED
  BY <1>3, <1>4, <1>5, <1>10, <1>11, <1>12, <1>13, <1>14 DEF Next

\* A page opened after a change's new generation shows the change and all that had
\* been applied before it, whatever was cached or being fetched meanwhile, and
\* whether or not the answer reached the user.
THEOREM FreshPages == Spec => []PagesAreFresh
<1>1. FreshInv => PagesAreFresh
  BY DEF FreshInv
<1> QED
  BY <1>1, TypeInit, TypeStep, FreshInit, FreshStep, PTL DEF Spec
=============================================================================
