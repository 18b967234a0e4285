--------------------------- MODULE AgentRequests ---------------------------
(***************************************************************************)
(* An agent that reports the events of an operation in signed requests:    *)
(* AgentAccess decides which requests are served, and EventLog what the    *)
(* served ones do.  A worker commits the sequence of a request, and then   *)
(* takes the read view in which it is served.                              *)
(*                                                                         *)
(* Certificates and signed requests meet only in the agent's row, and no   *)
(* route serves a peer that has a certificate: a Controller has either a   *)
(* certificate authority, or an operation to report on.                    *)
(***************************************************************************)
EXTENDS AgentAccess, EventLog

\* What the agent signs are batches of events.
ASSUME ReportAssumption == Requests \subseteq Batch

vars == <<accessVars, eventVars>>

Init == AccessInit /\ EventsInit

\* _events: the peer is authenticated, and the batch compared, in one view.
ServeEvents(w, m) == Serve(w, m) /\ Read(w, m.body)

\* A request that ingest_events refuses.
RefuseEvents(w, m) ==
    /\ Serve(w, m)
    /\ ~ Fits(table, m.body)
    /\ UNCHANGED eventVars

Report ==
    \E m \in Signed :
        \/ ~ authority /\ Sign(m) /\ UNCHANGED eventVars
        \/ \E w \in Workers :
              \/ batches[w] = {} /\ Accept(w, m) /\ UNCHANGED eventVars
              \/ ServeEvents(w, m)
              \/ RefuseEvents(w, m)

Next ==
    \/ Report
    \/ \E w \in Workers : EventsStep(w) /\ UNCHANGED accessVars
    \/ Tick /\ UNCHANGED eventVars
    \/ Administer /\ UNCHANGED eventVars
    \/ Enroll /\ UNCHANGED eventVars
    \/ Certify /\ UNCHANGED eventVars
    \/ \E w \in Workers : Fail(w) /\ UNCHANGED eventVars

Spec == Init /\ [][Next]_vars

-----------------------------------------------------------------------------
TypeOK == AccessTypeOK /\ EventsTypeOK
=============================================================================
