---------------------------- MODULE AgentAccess ----------------------------
(***************************************************************************)
(* How an agent gets and keeps its access to the Controller: one-time      *)
(* enrollment tokens, the signing key or the certificate that a token      *)
(* gives, the rotation and revocation of certificates, and the sequence    *)
(* numbers that signed requests carry.                                     *)
(*                                                                         *)
(* Every operation locks the agent's row (or the certificate's) before it  *)
(* reads, so that it is one action; what spans several transactions is a   *)
(* session: a signed request is accepted and committed before it is        *)
(* served, a token is claimed and committed before the certificate         *)
(* authority is called, a peer is authenticated before its certificate is  *)
(* rotated.  A session may end between its steps: the worker dies, the     *)
(* authority or the database refuses.                                      *)
(*                                                                         *)
(* One agent is modelled: its id is in every request, bound by signature.  *)
(* A request's sequence is the agent's clock when it signs.  Saves of the  *)
(* whole Server Agent document belong to AgentUpgrade; here its security   *)
(* columns have only the writers below.                                    *)
(*                                                                         *)
(* Operators named Faulty... are wrong on purpose: each is the operator    *)
(* after it with a plausible bug, for showing that a property notices.     *)
(***************************************************************************)
EXTENDS Controller, Naturals, Sequences, FiniteSets

CONSTANTS
    Keys,       \* key pairs of the agent's hosts
    Tokens,     \* enrollment tokens (bound)
    Serials,    \* certificates (bound)
    Requests,   \* the bodies that an agent signs
    MaxTime,    \* bound on the clock
    MaxSent,    \* bound on the signed requests
    Age,        \* a request may be this old,
    Future,     \* or this far ahead of the Controller's clock
    Lifetime,   \* of a token
    Validity,   \* of a certificate
    None

ASSUME AccessAssumption ==
    /\ None \notin Keys \cup Tokens
    /\ Tokens \cap Serials = {}
    /\ {MaxTime, MaxSent, Age, Future, Lifetime, Validity} \subseteq Nat

Time == 0..MaxTime
Signed == [key: Keys, sequence: 1..MaxTime + Future, body: Requests]

(***************************************************************************)
(* The columns of the Server Agent row; expected is the key that further   *)
(* certificate enrollments are bound to.                                   *)
(***************************************************************************)
Account == [enabled: BOOLEAN, key: Keys \cup {None}, expected: Keys \cup {None},
            last: Nat, token: Tokens \cup {None}, expires: Nat,
            consumed: BOOLEAN, completed: BOOLEAN]

\* An Agent Certificate; origin is what it was issued for: a token, or the
\* certificate that it succeeds.
Certificate == [key: Keys, status: {"Active", "Rotating", "Revoked"},
                until: Nat, origin: Tokens \cup Serials]

VARIABLES
    now,
    authority,     \* is a certificate authority configured?
    account,
    certificates,  \* a certificate for each serial issued
    minted,        \* the tokens created
    wire,          \* the requests ever signed: each may arrive again at any time
    sessions,      \* the session of each worker, as a set empty when it has none
    enrolled,      \* history: the token of the last signing key enrollment
    handled,       \* history: the signed requests accepted, in order, each with
                   \* the enrollment it was accepted under
    pinned         \* history: the key that each enrollment token gave access to

history == <<enrolled, handled, pinned>>
accessVars == <<now, authority, account, certificates, minted, wire, sessions, history>>

Session == [step: {"accepted"}, request: Signed]
               \cup [step: {"claimed"}, token: Tokens, key: Keys]
               \cup [step: {"rotating"}, serial: Serials, key: Keys]

AccessInit ==
    /\ now = 0
    /\ authority \in BOOLEAN
    /\ account = [enabled |-> FALSE, key |-> None, expected |-> None, last |-> 0,
                  token |-> None, expires |-> 0, consumed |-> FALSE,
                  completed |-> FALSE]
    /\ certificates = <<>>
    /\ minted = {}
    /\ wire = {}
    /\ sessions = [w \in Workers |-> {}]
    /\ enrolled = None
    /\ handled = <<>>
    /\ pinned = {}

Begin(w, session) == sessions[w] = {} /\ sessions' = [sessions EXCEPT ![w] = {session}]
End(w) == sessions' = [sessions EXCEPT ![w] = {}]

(***************************************************************************)
(* Enrollment with a signing key.                                          *)
(***************************************************************************)
\* create_enrollment_token: replaces the token before it, used or not.
CreateToken(t) ==
    /\ t \notin minted
    /\ minted' = minted \cup {t}
    /\ account' = [account EXCEPT !.token = t, !.expires = now + Lifetime,
                                  !.consumed = FALSE, !.completed = FALSE]
    /\ UNCHANGED <<now, authority, certificates, wire, sessions, history>>

Redeemable(t) == account.token = t /\ now < account.expires

\* complete_signing_key_enrollment.  The answer to a completed enrollment may
\* be lost: the same key may ask again and is told the same, without effect.
FaultyFirstUse(t, k) == Redeemable(t)
FaultyRepeatedUse(t, k) ==
    Redeemable(t) /\ (account.consumed => account.completed /\ account.key = k)
FirstUse(t, k) == Redeemable(t) /\ ~ account.consumed

EnrollKey(t, k) ==
    /\ FirstUse(t, k)
    /\ account' = [account EXCEPT !.expected = k, !.key = k, !.last = 0,
                                  !.consumed = TRUE, !.completed = TRUE,
                                  !.enabled = TRUE]
    /\ pinned' = pinned \cup {<<t, k>>}
    /\ enrolled' = t
    /\ UNCHANGED <<now, authority, certificates, minted, wire, sessions, handled>>

\* An administrator disables the agent, or enables it again.
SetEnabled(b) ==
    /\ account.enabled # b
    /\ account' = [account EXCEPT !.enabled = b]
    /\ UNCHANGED <<now, authority, certificates, minted, wire, sessions, history>>

(***************************************************************************)
(* Signed requests.                                                        *)
(***************************************************************************)
\* The agent signs with the time of its clock, which may be ahead or behind.
Sign(m) ==
    /\ Cardinality(wire) < MaxSent
    /\ m \notin wire
    /\ m.sequence <= now + Future
    /\ wire' = wire \cup {m}
    /\ UNCHANGED <<now, authority, account, certificates, minted, sessions, history>>

InWindow(m) == m.sequence + Age >= now /\ m.sequence <= now + Future

Verified(m) == account.enabled /\ account.key = m.key

Newer(m) == account.last < m.sequence

\* trusted_peer_and_route_from_frappe_request: the sequence is committed before
\* the request is served, so that its failure does not allow it again.
Accept(w, m) ==
    /\ m \in wire
    /\ InWindow(m)
    /\ Verified(m)
    /\ Newer(m)
    /\ account' = [account EXCEPT !.last = m.sequence]
    /\ Begin(w, [step |-> "accepted", request |-> m])
    /\ handled' = Append(handled, [token |-> enrolled, sequence |-> m.sequence])
    /\ UNCHANGED <<now, authority, certificates, minted, wire, enrolled, pinned>>

\* authenticate_peer, the first statement of the transaction that serves it.
Serve(w, m) ==
    /\ [step |-> "accepted", request |-> m] \in sessions[w]
    /\ account.enabled /\ account.key # None
    /\ End(w)
    /\ UNCHANGED <<now, authority, account, certificates, minted, wire, history>>

(***************************************************************************)
(* Enrollment with a certificate (enroll_agent).                           *)
(***************************************************************************)
\* claim_enrollment_token: the token is used up, and the first key pinned,
\* before a certificate is issued.
Claimable(t, k) ==
    /\ Redeemable(t)
    /\ ~ account.consumed
    /\ account.expected \in {None, k}

Claim(w, t, k) ==
    /\ authority
    /\ Claimable(t, k)
    /\ account' = [account EXCEPT !.consumed = TRUE, !.expected = k]
    /\ pinned' = pinned \cup {<<t, k>>}
    /\ Begin(w, [step |-> "claimed", token |-> t, key |-> k])
    /\ UNCHANGED <<now, authority, certificates, minted, wire, enrolled, handled>>

Present(c) == c \in DOMAIN certificates

\* _insert_certificate; the serial and the fingerprint are unique.
Issue(c, k, origin, others) ==
    /\ ~ Present(c)
    /\ certificates' =
           [d \in DOMAIN certificates \cup {c} |->
               IF d = c THEN [key |-> k, status |-> "Active", until |-> now + Validity,
                              origin |-> origin]
               ELSE others[d]]

\* complete_enrollment, with the certificate that the authority issued.
CompleteEnrollment(w, c) ==
    \E s \in sessions[w] :
        /\ s.step = "claimed"
        /\ account.token = s.token /\ account.consumed /\ ~ account.completed
        /\ account.expected = s.key
        /\ Issue(c, s.key, s.token, certificates)
        /\ account' = [account EXCEPT !.completed = TRUE, !.enabled = TRUE]
        /\ End(w)
        /\ UNCHANGED <<now, authority, minted, wire, history>>

(***************************************************************************)
(* Rotation and revocation.                                                *)
(***************************************************************************)
Accepted(c) ==
    /\ Present(c)
    /\ account.enabled
    /\ certificates[c].status = "Active"
    /\ now < certificates[c].until

\* rotate_certificate authenticates the peer by its present certificate and has
\* a certificate issued for its new key.  A certificate that is already being
\* rotated authenticates until its overlap ends, but cannot be rotated again.
Rotate(w, c, k) ==
    /\ authority
    /\ Accepted(c)
    /\ Begin(w, [step |-> "rotating", serial |-> c, key |-> k])
    /\ UNCHANGED <<now, authority, account, certificates, minted, wire, history>>

\* The store's rotate_certificate, under the locks of both rows.
FaultyRotatable(c) == account.enabled /\ certificates[c].status # "Revoked"
FaultyRotation(c) == account.enabled /\ certificates[c].status # "Rotating"
Rotatable(c) == account.enabled /\ certificates[c].status = "Active"

CompleteRotation(w, c) ==
    \E s \in sessions[w] :
        /\ s.step = "rotating"
        /\ Rotatable(s.serial)
        /\ now < certificates[s.serial].until
        /\ Issue(c, s.key, s.serial,
                 [certificates EXCEPT ![s.serial].status = "Rotating"])
        /\ End(w)
        /\ UNCHANGED <<now, authority, account, minted, wire, history>>

Revoke(c) ==
    /\ Present(c)
    /\ certificates[c].status # "Revoked"
    /\ certificates' = [certificates EXCEPT ![c].status = "Revoked"]
    /\ UNCHANGED <<now, authority, account, minted, wire, sessions, history>>

(***************************************************************************)
(* The environment.                                                        *)
(***************************************************************************)
Fail(w) ==
    /\ sessions[w] # {}
    /\ End(w)
    /\ UNCHANGED <<now, authority, account, certificates, minted, wire, history>>

Tick ==
    /\ now < MaxTime
    /\ now' = now + 1
    /\ UNCHANGED <<authority, account, certificates, minted, wire, sessions, history>>

Administer ==
    \/ \E t \in Tokens : CreateToken(t)
    \/ \E b \in BOOLEAN : SetEnabled(b)
    \/ \E c \in Serials : Revoke(c)

Enroll ==
    \E t \in Tokens, k \in Keys :
        EnrollKey(t, k) \/ \E w \in Workers : Claim(w, t, k)

Certify ==
    \E w \in Workers, c \in Serials :
        \/ CompleteEnrollment(w, c)
        \/ CompleteRotation(w, c)
        \/ \E k \in Keys : Rotate(w, c, k)

AccessNext ==
    \/ Tick
    \/ Administer
    \/ Enroll
    \/ Certify
    \/ \E m \in Signed : Sign(m) \/ \E w \in Workers : Accept(w, m) \/ Serve(w, m)
    \/ \E w \in Workers : Fail(w)

AccessSpec == AccessInit /\ [][AccessNext]_accessVars

-----------------------------------------------------------------------------
AccessTypeOK ==
    /\ now \in Time
    /\ authority \in BOOLEAN
    /\ account \in Account
    /\ DOMAIN certificates \subseteq Serials
    /\ \A c \in DOMAIN certificates : certificates[c] \in Certificate
    /\ minted \subseteq Tokens
    /\ wire \subseteq Signed
    /\ sessions \in [Workers -> SUBSET Session]
    /\ enrolled \in Tokens \cup {None}
    /\ handled \in Seq([token: Tokens \cup {None}, sequence: Nat])
    /\ pinned \subseteq Tokens \X Keys

\* Under one enrollment a signed request is handled at most once, and requests
\* in the order of their sequences, however often the network delivers them and
\* however often the agent asks for the same enrollment again
\* (agent_request_auth.py:37 and complete_signing_key_enrollment).
HandledOnce ==
    \A i, j \in DOMAIN handled :
        i < j /\ handled[i].token = handled[j].token =>
            handled[i].sequence < handled[j].sequence

\* An enrollment token gives access to one key, whichever of the two ways of
\* enrolling it is presented to, by how many hosts, and whether or not the
\* enrollment that used it was ever completed.
OneKeyPerToken ==
    \A p, q \in pinned : p[1] = q[1] => p = q

\* A token gives at most one certificate, and a certificate has at most one
\* successor, when requests for them overlap.
OneCertificateEach ==
    \A c, d \in DOMAIN certificates :
        certificates[c].origin = certificates[d].origin => c = d

\* A revoked certificate stays revoked and gets no successor any more, even
\* from a rotation that authenticated before the revocation.
RevokedForGood ==
    [][\A c \in DOMAIN certificates :
          certificates[c].status = "Revoked" =>
              /\ c \in DOMAIN certificates' /\ certificates'[c].status = "Revoked"
              /\ \A d \in DOMAIN certificates' \ DOMAIN certificates :
                    certificates'[d].origin # c]_accessVars
=============================================================================
