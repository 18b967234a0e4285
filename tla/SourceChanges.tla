---------------------------- MODULE SourceChanges ----------------------------
(***************************************************************************)
(* Changes that users make to records of an external catalogue through     *)
(* its HTTP API, and the page of records that they browse.                 *)
(*                                                                         *)
(* A change has a request id.  Under a lock on the id and one on the       *)
(* record, both in the cache and good for 120 seconds, _change commits its *)
(* intent to the database, reads the record and compares it with what the  *)
(* user reviewed, writes once, and commits the outcome.  A user who got no *)
(* answer repeats the request and is told what is on record.  The worker   *)
(* may die anywhere, the API may not answer, and may apply a write that it *)
(* has not acknowledged later, or never.  Others than the Controller write *)
(* the catalogue too, at any time.                                         *)
(*                                                                         *)
(* Operators named Faulty... are wrong on purpose: each is the operator    *)
(* after it with a plausible bug, for showing that a property notices.     *)
(***************************************************************************)
EXTENDS Controller, Naturals, FiniteSets

CONSTANTS
    Requests,    \* request ids
    Ids,         \* records of the catalogue
    Values,      \* what a record may hold
    Action,      \* of each request: "add", "edit" or "delete"
    Target,      \* the record that each request edits or deletes
    Value,       \* what each request adds, or edits the record to
    MaxOutside,  \* bound on the writes of others than the Controller
    None

ASSUME ChangeAssumption ==
    /\ None \notin Values
    /\ MaxOutside \in Nat
    /\ Action \in [Requests -> {"add", "edit", "delete"}]
    /\ Target \in [Requests -> Ids]
    /\ Value \in [Requests -> Values]

FaultyDone == [add |-> "added", edit |-> "updated", delete |-> "removed"]
Done == [add |-> "added", edit |-> "updated", delete |-> "deleted"]
Idle == [add |-> "existing", edit |-> "unchanged", delete |-> "missing"]
Outcomes == {"added", "updated", "deleted", "existing", "unchanged", "missing",
             "failed", "uncertain"}

VARIABLES
    users,       \* the requests that users come to make
    source,      \* the catalogue: the value of each record, None if absent
    late,        \* requests whose unacknowledged write it may still apply
    reviewed,    \* the value that each request's user reviewed, as a set
    journal,     \* each request's Integration Request: none, only the intent,
                 \* or the recorded outcome
    sessions,    \* the change that each worker makes, as a set
    locks,       \* the locks in the cache, each with the request that took it
    cache,       \* the page cached for the current generation, as a set; a page
                 \* is known by the changes that had been applied
    browser,     \* a user's page
    attempts,    \* history: writes sent for each request
    applied,     \* history: requests whose write the catalogue has applied
    told,        \* history: what the user of each request was last told
    owed,        \* history: the changes that a page must show from now on
    outside,     \* the number of writes by others than the Controller
    exposed,     \* history: requests disturbed between their check and their
                 \* write by a writer that their locks do not keep away
    clobbered    \* history: requests whose write has replaced what their user
                 \* did not review

catalogue == <<source, late, applied, outside, exposed, clobbered>>
pages == <<cache, browser, owed>>
vars == <<users, catalogue, pages, reviewed, journal, sessions, locks, attempts, told>>

Session == [request: Requests, step: {"check", "write", "record", "finish"},
            outcome: Outcomes]

\* due is what was owed when the page was opened.
Page == [page: {"closed"}]
            \cup [page: {"fetching"}, current: BOOLEAN, due: SUBSET Requests]
            \cup [page: {"shown"}, changes: SUBSET Requests, due: SUBSET Requests]

Init ==
    /\ users \in SUBSET Requests
    /\ source \in [Ids -> Values \cup {None}]
    /\ late = {}
    /\ reviewed = [r \in Requests |-> {}]
    /\ journal = [r \in Requests |-> "none"]
    /\ sessions = [w \in Workers |-> {}]
    /\ locks = {}
    /\ cache = {}
    /\ browser = [page |-> "closed"]
    /\ attempts = [r \in Requests |-> 0]
    /\ applied = {}
    /\ told = [r \in Requests |-> "nothing"]
    /\ owed = {}
    /\ outside = 0
    /\ exposed = {}
    /\ clobbered = {}

(***************************************************************************)
(* The catalogue.                                                          *)
(***************************************************************************)
Matching(v) == {i \in Ids : source[i] = v}
Free == {i \in Ids : source[i] = None}

\* What a request's user reviewed is still there.
AsReviewed(r) ==
    IF Action[r] = "add" THEN Matching(Value[r]) = {}
    ELSE source[Target[r]] \in reviewed[r]

RequestLock(r) == <<"request", r>>

\* The record's id, or all the fields of a record to be added.
FaultyRecordLock(r) ==
    IF Action[r] = "add" THEN <<"add", Value[r]>> ELSE <<Action[r], Target[r]>>
RecordLock(r) ==
    IF Action[r] = "add" THEN <<"add", Value[r]>> ELSE <<"record", Target[r]>>

Guarded(r) == [name |-> RecordLock(r), owner |-> r] \in locks

\* Is a change between its check and its write?
Writing(r) == \E w \in Workers : \E s \in sessions[w] : s.request = r /\ s.step = "write"

\* Is i, written as v, part of what the user of r reviewed?
Touches(i, v, r) == IF Action[r] = "add" THEN v = Value[r] ELSE i = Target[r]

\* The changes that the locks keep apart from r's: both are guarded.  An edit takes
\* another lock than the addition of what it makes of its record.
Spared(r) ==
    {r} \cup {q \in Requests : /\ Guarded(r) /\ Guarded(q)
                              /\ ~ (Action[r] = "edit" /\ Action[q] = "add")}

Put(i, v, spared) ==
    /\ source' = [source EXCEPT ![i] = v]
    /\ exposed' = exposed \cup {q \in Requests \ spared : Writing(q) /\ Touches(i, v, q)}

Apply(r, spared) ==
    /\ \E i \in Ids :
          /\ IF Action[r] = "add" THEN i \in Free ELSE i = Target[r] /\ i \notin Free
          /\ Put(i, IF Action[r] = "delete" THEN None ELSE Value[r], spared)
    /\ applied' = applied \cup {r}

\* A write that was not acknowledged arrives after all.
ApplyLate(r) ==
    /\ r \in late
    /\ Apply(r, {})
    /\ late' = late \ {r}
    /\ UNCHANGED <<outside, clobbered, pages, reviewed, journal, sessions, locks, attempts,
                   told>>

\* "The API has no conditional-update contract: the final read/PUT pair cannot
\* prevent an external change in the interval" (README.md:144).
WriteOutside(i, v) ==
    /\ outside < MaxOutside
    /\ source[i] # v
    /\ Put(i, v, {})
    /\ outside' = outside + 1
    /\ UNCHANGED <<late, applied, clobbered, pages, reviewed, journal, sessions, locks,
                   attempts, told>>

(***************************************************************************)
(* A change.                                                               *)
(***************************************************************************)
\* A user opens a record for editing or deletion (read, browse).
Review(r) ==
    /\ Action[r] # "add"
    /\ reviewed[r] = {}
    /\ source[Target[r]] # None
    /\ reviewed' = [reviewed EXCEPT ![r] = {source[Target[r]]}]
    /\ UNCHANGED <<catalogue, pages, journal, sessions, locks, attempts, told>>

Held(name) == \E l \in locks : l.name = name

FaultyKnown(r) == journal[r] \in Outcomes
Known(r) == journal[r] # "none"

\* _change takes both locks without waiting and commits the intent, whose name
\* is unique.  A request that finds a lock held is refused: nothing changes.
Start(w, r) ==
    /\ sessions[w] = {}
    /\ Action[r] = "add" \/ reviewed[r] # {}
    /\ ~ Held(RequestLock(r)) /\ ~ Held(RecordLock(r))
    /\ ~ Known(r)
    /\ locks' = locks \cup {[name |-> RequestLock(r), owner |-> r],
                            [name |-> RecordLock(r), owner |-> r]}
    /\ journal' = [journal EXCEPT ![r] = "intent"]
    /\ sessions' = [sessions EXCEPT ![w] =
           {[request |-> r, step |-> "check", outcome |-> "uncertain"]}]
    /\ UNCHANGED <<catalogue, pages, reviewed, attempts, told>>

\* A repeated request is told what is on record; there is no new generation.
Repeat(r) ==
    /\ ~ Held(RequestLock(r))
    /\ Known(r)
    /\ told' = [told EXCEPT ![r] =
           IF journal[r] = "intent" THEN "uncertain" ELSE journal[r]]
    /\ UNCHANGED <<catalogue, pages, reviewed, journal, sessions, locks, attempts>>

Advance(w, s, step, outcome) ==
    sessions' = [sessions EXCEPT ![w] =
        {[request |-> s.request, step |-> step, outcome |-> outcome]}]

\* add_record, edit_record and delete_record read before they write; the read
\* itself may fail.
Verdict(r) ==
    IF Action[r] = "add" THEN
        IF Matching(Value[r]) # {} THEN "existing" ELSE "write"
    ELSE IF source[Target[r]] = None THEN
        IF Action[r] = "delete" THEN "missing" ELSE "failed"
    ELSE IF source[Target[r]] \notin reviewed[r] THEN "failed"
    ELSE IF Action[r] = "edit" /\ source[Target[r]] = Value[r] THEN "unchanged"
    ELSE "write"

Check(w) ==
    \E s \in sessions[w] :
        /\ s.step = "check"
        /\ \E verdict \in {Verdict(s.request), "failed"} :
              IF verdict = "write" THEN Advance(w, s, "write", "uncertain")
              ELSE Advance(w, s, "record", verdict)
        /\ UNCHANGED <<catalogue, pages, reviewed, journal, locks, attempts, told>>

\* What _write makes of a write without an answer.
FaultyUnacknowledged == "failed"
Unacknowledged == "uncertain"

Sent(w) ==
    \E s \in sessions[w] :
        /\ s.step = "write"
        /\ attempts' = [attempts EXCEPT ![s.request] = @ + 1]
        /\ \/ /\ Apply(s.request, Spared(s.request))
              /\ clobbered' = IF AsReviewed(s.request) THEN clobbered
                              ELSE clobbered \cup {s.request}
              /\ UNCHANGED <<late, outside>>
              /\ \E outcome \in {Done[Action[s.request]], Unacknowledged} :
                    Advance(w, s, "record", outcome)
           \/ /\ Advance(w, s, "record", Unacknowledged)
              /\ late' \in {late, late \cup {s.request}}
              /\ UNCHANGED <<source, applied, outside, exposed, clobbered>>
           \/ Advance(w, s, "record", "failed") /\ UNCHANGED catalogue
        /\ UNCHANGED <<pages, reviewed, journal, locks, told>>

Record(w) ==
    \E s \in sessions[w] :
        /\ s.step = "record"
        /\ journal' = [journal EXCEPT ![s.request] = s.outcome]
        /\ Advance(w, s, "finish", s.outcome)
        /\ UNCHANGED <<catalogue, pages, reviewed, locks, attempts, told>>

FaultyRefreshes(outcome) == outcome \in {"added", "updated", "deleted"}
Refreshes(outcome) == outcome # "failed"

\* "Successful or uncertain mutations" (README.md:168).
Mutated(outcome) == outcome \in {"added", "updated", "deleted", "uncertain"}

Own(r) == {l \in locks : l.owner = r}

\* A new generation retires what is cached and what is being fetched; the
\* release of a lock that has lapsed raises, so that the user gets no answer.
Finish(w) ==
    \E s \in sessions[w] :
        /\ s.step = "finish"
        /\ IF Refreshes(s.outcome)
           THEN /\ cache' = {}
                /\ browser' = IF browser.page = "fetching"
                              THEN [browser EXCEPT !.current = FALSE] ELSE browser
           ELSE UNCHANGED <<cache, browser>>
        /\ locks' = locks \ Own(s.request)
        /\ sessions' = [sessions EXCEPT ![w] = {}]
        /\ owed' = IF Mutated(s.outcome) THEN applied ELSE owed
        /\ told' = IF Cardinality(Own(s.request)) = 2
                   THEN [told EXCEPT ![s.request] = s.outcome] ELSE told
        /\ UNCHANGED <<catalogue, reviewed, journal, attempts>>

\* An exception other than SourceDataError, which releases the locks, or the
\* death of the worker, which leaves them to lapse.
Break(w) ==
    \E s \in sessions[w] :
        /\ sessions' = [sessions EXCEPT ![w] = {}]
        /\ locks' \in {locks, locks \ Own(s.request)}
        /\ UNCHANGED <<catalogue, pages, reviewed, journal, attempts, told>>

Lapse(l) ==
    /\ l \in locks
    /\ locks' = locks \ {l}
    /\ UNCHANGED <<catalogue, pages, reviewed, journal, sessions, attempts, told>>

(***************************************************************************)
(* Browsing.                                                               *)
(***************************************************************************)
Show(changes, due) ==
    browser' = [page |-> "shown", changes |-> changes, due |-> due]

\* browse reads the generation, and then the cache; on a miss it fetches.
Browse ==
    /\ browser.page # "fetching"
    /\ IF cache # {}
       THEN \E changes \in cache : Show(changes, owed)
       ELSE browser' = [page |-> "fetching", current |-> TRUE, due |-> owed]
    /\ UNCHANGED <<catalogue, cache, owed, reviewed, journal, sessions, locks, attempts,
                   told>>

\* What is fetched is cached under the generation that was read before, which
\* nobody reads again if there is a new one by now.
Fetch ==
    /\ browser.page = "fetching"
    /\ cache' = IF browser.current THEN {applied} ELSE cache
    /\ Show(applied, browser.due)
    /\ UNCHANGED <<catalogue, owed, reviewed, journal, sessions, locks, attempts, told>>

\* A cached page is good for 60 seconds, and the user may close the page.
Expire ==
    /\ cache # {}
    /\ cache' = {}
    /\ UNCHANGED <<catalogue, browser, owed, reviewed, journal, sessions, locks, attempts,
                   told>>

Next ==
    /\ \/ \E r \in users :
             Review(r) \/ Repeat(r) \/ ApplyLate(r) \/ \E w \in Workers : Start(w, r)
       \/ \E w \in Workers : Check(w) \/ Sent(w) \/ Record(w) \/ Finish(w) \/ Break(w)
       \/ \E l \in locks : Lapse(l)
       \/ \E i \in Ids, v \in Values \cup {None} : WriteOutside(i, v)
       \/ Browse \/ Fetch \/ Expire
    /\ UNCHANGED users

Spec == Init /\ [][Next]_vars

-----------------------------------------------------------------------------
TypeOK ==
    /\ users \subseteq Requests
    /\ source \in [Ids -> Values \cup {None}]
    /\ late \subseteq Requests
    /\ reviewed \in [Requests -> SUBSET Values]
    /\ journal \in [Requests -> {"none", "intent"} \cup Outcomes]
    /\ sessions \in [Workers -> SUBSET Session]
    /\ \A l \in locks : l.owner \in Requests
    /\ cache \subseteq SUBSET Requests
    /\ browser \in Page
    /\ attempts \in [Requests -> Nat]
    /\ applied \subseteq Requests
    /\ told \in [Requests -> Outcomes \cup {"nothing"}]
    /\ owed \cup exposed \cup clobbered \subseteq Requests
    /\ outside \in 0..MaxOutside

\* A change is submitted at most once, however often its request is repeated,
\* whether or not its worker survived and its locks lasted ("Repeating a
\* request ID returns its recorded outcome, including uncertainty, rather than
\* repeating the write", api/source_data.py:148), as long as the log is kept:
\* the site's retention of Integration Requests, which ends this, is left out.
AtMostOnce == \A r \in Requests : attempts[r] <= 1

\* Users are told the truth: a change that is reported done has been applied,
\* and one that is reported as not made has not been and never will be.
ToldTruly ==
    \A r \in Requests :
        /\ told[r] = Done[Action[r]] => r \in applied
        /\ told[r] \in {"failed", Idle[Action[r]]} => r \notin applied \cup late

\* A change replaces exactly what its user reviewed, and no record is added twice,
\* although the check and the write are two requests to the API, unless somebody
\* whom the locks do not keep away wrote the same record in between: an outsider,
\* a write that arrives late, one of two changes whose record lock has lapsed, or
\* an edit that makes of its record what is being added.
NothingClobbered == clobbered \subseteq exposed

\* "Successful or uncertain mutations invalidate the browsing cache" (README.md:168):
\* a page opened after a change's new generation shows the change, and whatever
\* had been applied before, also when the answer itself was lost with a lock: no
\* page cached or being fetched before survives.  It does not say that a user who
\* was told of a change finds it on the next page: a repeated request is answered
\* from the log, also when the worker that recorded the outcome was lost before it
\* wrote the generation.
PagesAreFresh == browser.page = "shown" => browser.due \subseteq browser.changes
=============================================================================
