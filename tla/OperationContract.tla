------------------------- MODULE OperationContract -------------------------
(***************************************************************************)
(* What the Controller promises about a single operation, to its approvers *)
(* and to the agent that executes it, with the database, the requests and  *)
(* their races left out:                                                   *)
(*   - an operation is authored once, queued at most once, and bound to    *)
(*     one command when it is queued;                                      *)
(*   - only a queued operation's command is sent, and always that command; *)
(*   - it is sent again only while it is held: never once it runs, or has  *)
(*     finished;                                                           *)
(*   - only the report of an agent that got the command makes it run or    *)
(*     finish, and what has finished stays finished as it did.             *)
(***************************************************************************)
CONSTANTS
    Operations,
    Commands,
    Outcomes,   \* how an operation can finish
    None        \* no command yet

VARIABLES
    stage,      \* of each operation: a phase, or its outcome
    command,    \* the command an operation is bound to
    sent        \* the commands that reached an agent

vars == <<stage, command, sent>>

Phases == {"absent", "authored", "queued", "held", "running"}

TypeOK ==
    /\ stage \in [Operations -> Phases \cup Outcomes]
    /\ command \in [Operations -> Commands \cup {None}]
    /\ sent \subseteq [op: Operations, claims: Commands]

Init ==
    /\ stage = [o \in Operations |-> "absent"]
    /\ command = [o \in Operations |-> None]
    /\ sent = {}

Become(o, s) == stage' = [stage EXCEPT ![o] = s]
Bind(o, c) == command' = [command EXCEPT ![o] = c]
Sent(o) == \E c \in Commands : [op |-> o, claims |-> c] \in sent

Author(o) ==
    /\ stage[o] = "absent"
    /\ Become(o, "authored")
    /\ UNCHANGED <<command, sent>>

AuthorQueued(o, c) ==
    /\ stage[o] = "absent"
    /\ Become(o, "queued")
    /\ Bind(o, c)
    /\ UNCHANGED sent

Queue(o, c) ==
    /\ stage[o] = "authored"
    /\ Become(o, "queued")
    /\ Bind(o, c)
    /\ UNCHANGED sent

Send(o) ==
    /\ stage[o] \in {"queued", "held"}
    /\ Become(o, "held")
    /\ sent' \in {sent, sent \cup {[op |-> o, claims |-> command[o]]}}
    /\ UNCHANGED command

Run(o) ==
    /\ stage[o] = "held"
    /\ Sent(o)
    /\ Become(o, "running")
    /\ UNCHANGED <<command, sent>>

Finish(o, outcome) ==
    /\ stage[o] \in {"held", "running"}
    /\ Sent(o)
    /\ Become(o, outcome)
    /\ UNCHANGED <<command, sent>>

Next ==
    \E o \in Operations :
        \/ Author(o) \/ Send(o) \/ Run(o)
        \/ \E c \in Commands : AuthorQueued(o, c) \/ Queue(o, c)
        \/ \E outcome \in Outcomes : Finish(o, outcome)

Spec == Init /\ [][Next]_vars
=============================================================================
