---------------------------- MODULE RequestProofs ----------------------------
(***************************************************************************)
(* Proofs about an agent's requests: its access (AgentAccess), the history *)
(* of the events it reports (EventLog), and their composition              *)
(* (AgentRequests).                                                        *)
(***************************************************************************)
EXTENDS AgentRequests, FiniteSetTheorems, SequenceTheorems, TLAPS

(***************************************************************************)
(* The access of agents. A token that has not been used has given nothing  *)
(* yet, because tokens are created once: neither a key, nor a certificate, *)
(* nor an enrollment under which requests were handled. What is active has *)
(* no successor, because succeeding ends the activity.                     *)
(***************************************************************************)

(***************************************************************************)
(* The kinds of steps.  A quiet one leaves alone what the properties read. *)
(***************************************************************************)
Quiet ==
    /\ UNCHANGED <<minted, certificates, history>>
    /\ \E b \in BOOLEAN : account' = [account EXCEPT !.enabled = b]

\* A step is quiet or one of these.
LEMMA StepKinds ==
    ASSUME AccessTypeOK, [AccessNext]_accessVars
    PROVE  \/ Quiet
           \/ \E t \in Tokens : CreateToken(t)
           \/ \E t \in Tokens, k \in Keys :
                 EnrollKey(t, k) \/ \E w \in Workers : Claim(w, t, k)
           \/ \E w \in Workers, c \in Serials :
                 CompleteEnrollment(w, c) \/ CompleteRotation(w, c)
           \/ \E c \in Serials : Revoke(c)
           \/ \E w \in Workers, m \in Signed : Accept(w, m)
<1>1. ASSUME UNCHANGED <<minted, account, certificates, history>> PROVE Quiet
  <2>1. account \in Account
    BY DEF AccessTypeOK
  <2>2. account.enabled \in BOOLEAN /\ account' = [account EXCEPT !.enabled = account.enabled]
    BY <1>1, <2>1 DEF Account
  <2> QED
    BY <1>1, <2>2 DEF Quiet
<1>2. CASE UNCHANGED accessVars
  BY <1>1, <1>2 DEF accessVars
<1>3. CASE Tick
  BY <1>1, <1>3 DEF Tick
<1>4. CASE Administer
  <2>1. ASSUME NEW b \in BOOLEAN, SetEnabled(b) PROVE Quiet
    BY <2>1 DEF SetEnabled, Quiet
  <2> QED
    BY <1>4, <2>1 DEF Administer
<1>5. CASE Enroll
  BY <1>5 DEF Enroll
<1>6. CASE Certify
  <2>1. ASSUME NEW w \in Workers, NEW c \in Serials, NEW k \in Keys, Rotate(w, c, k)
        PROVE  Quiet
    BY <1>1, <2>1 DEF Rotate
  <2> QED
    BY <1>6, <2>1 DEF Certify
<1>7. CASE \E m \in Signed : Sign(m) \/ \E w \in Workers : Accept(w, m) \/ Serve(w, m)
  <2>1. ASSUME NEW m \in Signed, Sign(m) PROVE Quiet
    BY <1>1, <2>1 DEF Sign
  <2>2. ASSUME NEW m \in Signed, NEW w \in Workers, Serve(w, m) PROVE Quiet
    BY <1>1, <2>2 DEF Serve
  <2> QED
    BY <1>7, <2>1, <2>2
<1>8. CASE \E w \in Workers : Fail(w)
  BY <1>1, <1>8 DEF Fail
<1> QED
  BY <1>2, <1>3, <1>4, <1>5, <1>6, <1>7, <1>8 DEF AccessNext

(***************************************************************************)
(* Types.                                                                  *)
(***************************************************************************)
LEMMA AccessTypeInit == AccessInit => AccessTypeOK
  BY AccessAssumption DEF AccessInit, AccessTypeOK, Account, Time

\* A session that begins or ends leaves well-typed sessions.
LEMMA SessionTypes ==
    ASSUME AccessTypeOK, NEW w \in Workers
    PROVE  /\ End(w) => sessions' \in [Workers -> SUBSET Session]
           /\ \A s \in Session : Begin(w, s) => sessions' \in [Workers -> SUBSET Session]
  BY DEF AccessTypeOK, Begin, End

\* Issuing a certificate leaves well-typed certificates.
LEMMA IssueTypes ==
    ASSUME AccessTypeOK, NEW c \in Serials, NEW k \in Keys, NEW o \in Tokens \cup Serials,
           NEW others, Issue(c, k, o, others),
           \A d \in DOMAIN certificates : others[d] \in Certificate
    PROVE  /\ DOMAIN certificates' = DOMAIN certificates \cup {c}
           /\ DOMAIN certificates' \subseteq Serials
           /\ \A d \in DOMAIN certificates' : certificates'[d] \in Certificate
<1>1. now + Validity \in Nat
  BY AccessAssumption DEF AccessTypeOK, Time
<1>2. [key |-> k, status |-> "Active", until |-> now + Validity, origin |-> o] \in Certificate
  BY <1>1 DEF Certificate
<1>3. DOMAIN certificates' = DOMAIN certificates \cup {c}
  BY DEF Issue
<1>4. \A d \in DOMAIN certificates' : certificates'[d] \in Certificate
  BY <1>2, <1>3 DEF Issue
<1> QED
  BY <1>3, <1>4 DEF AccessTypeOK

\* Every step leaves a well-typed state.
LEMMA AccessTyped == AccessTypeOK /\ [AccessNext]_accessVars => AccessTypeOK'
<1> SUFFICES ASSUME AccessTypeOK, [AccessNext]_accessVars PROVE AccessTypeOK'
  OBVIOUS
<1>1. account \in Account /\ now \in Nat
  BY DEF AccessTypeOK, Time
<1>2. now + Lifetime \in Nat
  BY <1>1, AccessAssumption
<1>3. CASE UNCHANGED accessVars
  BY <1>3 DEF accessVars, history, AccessTypeOK
<1>4. CASE Tick
  <2>1. now' \in Time
    BY <1>4, AccessAssumption DEF Tick, AccessTypeOK, Time
  <2> QED
    BY <1>4, <2>1 DEF Tick, history, AccessTypeOK
<1>5. ASSUME NEW t \in Tokens, CreateToken(t) PROVE AccessTypeOK'
  <2>1. account' \in Account
    BY <1>1, <1>2, <1>5 DEF CreateToken, Account
  <2> QED
    BY <1>5, <2>1 DEF CreateToken, history, AccessTypeOK
<1>6. ASSUME NEW b \in BOOLEAN, SetEnabled(b) PROVE AccessTypeOK'
  <2>1. account' \in Account
    BY <1>1, <1>6 DEF SetEnabled, Account
  <2> QED
    BY <1>6, <2>1 DEF SetEnabled, history, AccessTypeOK
<1>7. ASSUME NEW c \in Serials, Revoke(c) PROVE AccessTypeOK'
  <2>1. \A d \in DOMAIN certificates : certificates'[d] \in Certificate
    BY <1>7 DEF Revoke, AccessTypeOK, Certificate
  <2> QED
    BY <1>7, <2>1 DEF Revoke, history, AccessTypeOK
<1>8. ASSUME NEW t \in Tokens, NEW k \in Keys, EnrollKey(t, k) PROVE AccessTypeOK'
  <2>1. account' \in Account
    BY <1>1, <1>8 DEF EnrollKey, Account
  <2> QED
    BY <1>8, <2>1 DEF EnrollKey, AccessTypeOK
<1>9. ASSUME NEW w \in Workers, NEW t \in Tokens, NEW k \in Keys, Claim(w, t, k)
      PROVE  AccessTypeOK'
  <2>1. account' \in Account
    BY <1>1, <1>9 DEF Claim, Account
  <2>2. [step |-> "claimed", token |-> t, key |-> k] \in Session
    BY DEF Session
  <2>3. sessions' \in [Workers -> SUBSET Session]
    BY <1>9, <2>2, SessionTypes DEF Claim
  <2> QED
    BY <1>9, <2>1, <2>3 DEF Claim, AccessTypeOK
<1>10. ASSUME NEW w \in Workers, NEW c \in Serials, NEW k \in Keys, Rotate(w, c, k)
       PROVE  AccessTypeOK'
  <2>1. [step |-> "rotating", serial |-> c, key |-> k] \in Session
    BY DEF Session
  <2>2. sessions' \in [Workers -> SUBSET Session]
    BY <1>10, <2>1, SessionTypes DEF Rotate
  <2> QED
    BY <1>10, <2>2 DEF Rotate, history, AccessTypeOK
<1>11. ASSUME NEW w \in Workers, NEW c \in Serials, CompleteEnrollment(w, c)
       PROVE  AccessTypeOK'
  <2>1. PICK s \in sessions[w] :
           /\ s.step = "claimed"
           /\ Issue(c, s.key, s.token, certificates)
           /\ account' = [account EXCEPT !.completed = TRUE, !.enabled = TRUE]
    BY <1>11 DEF CompleteEnrollment
  <2>2. s.key \in Keys /\ s.token \in Tokens
    BY <2>1 DEF AccessTypeOK, Session
  <2>3. /\ DOMAIN certificates' \subseteq Serials
        /\ \A d \in DOMAIN certificates' : certificates'[d] \in Certificate
    BY <2>1, <2>2, IssueTypes DEF AccessTypeOK
  <2>4. account' \in Account
    BY <1>1, <2>1 DEF Account
  <2>5. sessions' \in [Workers -> SUBSET Session]
    BY <1>11, SessionTypes DEF CompleteEnrollment
  <2> QED
    BY <1>11, <2>3, <2>4, <2>5 DEF CompleteEnrollment, history, AccessTypeOK
<1>12. ASSUME NEW w \in Workers, NEW c \in Serials, CompleteRotation(w, c)
       PROVE  AccessTypeOK'
  <2> DEFINE Rotated(s) == [certificates EXCEPT ![s.serial].status = "Rotating"]
  <2>1. PICK s \in sessions[w] :
           s.step = "rotating" /\ Issue(c, s.key, s.serial, Rotated(s))
    BY <1>12 DEF CompleteRotation
  <2>2. s.key \in Keys /\ s.serial \in Serials
    BY <2>1 DEF AccessTypeOK, Session
  <2>3. \A d \in DOMAIN certificates : Rotated(s)[d] \in Certificate
    BY DEF AccessTypeOK, Certificate
  <2> HIDE DEF Rotated
  <2>4. /\ DOMAIN certificates' \subseteq Serials
        /\ \A d \in DOMAIN certificates' : certificates'[d] \in Certificate
    BY <2>1, <2>2, <2>3, IssueTypes
  <2>5. sessions' \in [Workers -> SUBSET Session]
    BY <1>12, SessionTypes DEF CompleteRotation
  <2> QED
    BY <1>12, <2>4, <2>5 DEF CompleteRotation, history, AccessTypeOK
<1>13. ASSUME NEW m \in Signed, Sign(m) PROVE AccessTypeOK'
  BY <1>13 DEF Sign, history, AccessTypeOK
<1>14. ASSUME NEW w \in Workers, NEW m \in Signed, Accept(w, m) PROVE AccessTypeOK'
  <2>1. m.sequence \in Nat
    BY AccessAssumption DEF Signed
  <2>2. account' \in Account
    BY <1>1, <1>14, <2>1 DEF Accept, Account
  <2>3. [step |-> "accepted", request |-> m] \in Session
    BY DEF Session
  <2>4. sessions' \in [Workers -> SUBSET Session]
    BY <1>14, <2>3, SessionTypes DEF Accept
  <2>5. handled' \in Seq([token: Tokens \cup {None}, sequence: Nat])
    BY <1>14, <2>1 DEF Accept, AccessTypeOK
  <2> QED
    BY <1>14, <2>2, <2>4, <2>5 DEF Accept, AccessTypeOK
<1>15. ASSUME NEW w \in Workers, NEW m \in Signed, Serve(w, m) PROVE AccessTypeOK'
  BY <1>15, SessionTypes DEF Serve, history, AccessTypeOK
<1>16. ASSUME NEW w \in Workers, Fail(w) PROVE AccessTypeOK'
  BY <1>16, SessionTypes DEF Fail, history, AccessTypeOK
<1> QED
  BY <1>3, <1>4, <1>5, <1>6, <1>7, <1>8, <1>9, <1>10, <1>11, <1>12, <1>13, <1>14,
     <1>15, <1>16 DEF AccessNext, Administer, Enroll, Certify

\* The agent's row, its certificates and the open sessions stay well-typed
\* (frappe_security_store.py).
THEOREM AccessTypeCorrect == AccessSpec => []AccessTypeOK
  BY AccessTypeInit, AccessTyped, PTL DEF AccessSpec

(***************************************************************************)
(* Keys.                                                                   *)
(***************************************************************************)
KeyInv ==
    /\ account.token \in minted \cup {None}
    /\ \A p \in pinned : p[1] \in minted
    /\ ~ account.consumed => \A p \in pinned : p[1] # account.token
    /\ OneKeyPerToken

\* Every step keeps the pairs of tokens and keys.
LEMMA KeysKeep ==
    ASSUME AccessTypeOK, KeyInv, [AccessNext]_accessVars
    PROVE  KeyInv'
<1>1. account \in Account /\ minted \subseteq Tokens /\ None \notin Tokens
  BY AccessAssumption DEF AccessTypeOK
<1>2. CASE Quiet
  BY <1>1, <1>2 DEF Quiet, history, KeyInv, OneKeyPerToken, Account
<1>3. ASSUME NEW t \in Tokens, CreateToken(t) PROVE KeyInv'
  <2>1. /\ t \notin minted /\ minted' = minted \cup {t} /\ pinned' = pinned
        /\ account'.token = t
    BY <1>1, <1>3 DEF CreateToken, history, Account
  <2> QED
    BY <2>1 DEF KeyInv, OneKeyPerToken
<1>4. ASSUME NEW t \in Tokens, NEW k \in Keys,
             account.token = t, ~ account.consumed,
             account'.token = t, account'.consumed,
             minted' = minted, pinned' = pinned \cup {<<t, k>>}
      PROVE  KeyInv'
  <2>1. \A p \in pinned : p[1] # t
    BY <1>4 DEF KeyInv
  <2>2. OneKeyPerToken'
    BY <1>4, <2>1 DEF KeyInv, OneKeyPerToken
  <2> QED
    BY <1>1, <1>4, <2>2 DEF KeyInv
<1>5. ASSUME NEW t \in Tokens, NEW k \in Keys, EnrollKey(t, k) PROVE KeyInv'
  BY <1>1, <1>4, <1>5 DEF EnrollKey, FirstUse, Redeemable, Account
<1>6. ASSUME NEW t \in Tokens, NEW k \in Keys, NEW w \in Workers, Claim(w, t, k)
      PROVE  KeyInv'
  BY <1>1, <1>4, <1>6 DEF Claim, Claimable, Redeemable, Account
<1>7. ASSUME UNCHANGED <<minted, pinned>>, account'.token = account.token,
             account'.consumed = account.consumed
      PROVE  KeyInv'
  BY <1>7 DEF KeyInv, OneKeyPerToken
<1>8. ASSUME NEW w \in Workers, NEW c \in Serials,
             CompleteEnrollment(w, c) \/ CompleteRotation(w, c)
      PROVE  KeyInv'
  BY <1>1, <1>7, <1>8 DEF CompleteEnrollment, CompleteRotation, history, Account
<1>9. ASSUME NEW c \in Serials, Revoke(c) PROVE KeyInv'
  BY <1>7, <1>9 DEF Revoke, history
<1>10. ASSUME NEW w \in Workers, NEW m \in Signed, Accept(w, m) PROVE KeyInv'
  BY <1>1, <1>7, <1>10 DEF Accept, Account
<1> QED
  BY <1>2, <1>3, <1>5, <1>6, <1>8, <1>9, <1>10, StepKinds

\* An enrollment token never gives access to two keys: a pair is only added
\* for a token that is used up in the same step and was not used before, by
\* either way of enrolling (claim_enrollment_token, complete_signing_key_enrollment).
THEOREM OneKey == AccessSpec => []OneKeyPerToken
<1>1. AccessInit => KeyInv
  BY DEF AccessInit, KeyInv, OneKeyPerToken
<1>2. AccessTypeOK /\ KeyInv /\ [AccessNext]_accessVars => (AccessTypeOK /\ KeyInv)'
  BY AccessTyped, KeysKeep
<1>3. KeyInv => OneKeyPerToken
  BY DEF KeyInv
<1> QED
  BY <1>1, <1>2, <1>3, AccessTypeInit, PTL DEF AccessSpec

(***************************************************************************)
(* Signed requests.                                                        *)
(***************************************************************************)
RequestInv ==
    /\ account.token \in minted \cup {None}
    /\ enrolled \in minted \cup {None}
    /\ \A i \in DOMAIN handled : handled[i].token \in minted \cup {None}
    /\ account.token # None /\ ~ account.consumed =>
          /\ enrolled # account.token
          /\ \A i \in DOMAIN handled : handled[i].token # account.token
    /\ \A i \in DOMAIN handled :
          handled[i].token = enrolled => handled[i].sequence <= account.last
    /\ HandledOnce

\* Every step keeps the order of the handled requests.
LEMMA RequestsKeep ==
    ASSUME AccessTypeOK, RequestInv, [AccessNext]_accessVars
    PROVE  RequestInv'
<1>1. account \in Account /\ minted \subseteq Tokens /\ None \notin Tokens
  BY AccessAssumption DEF AccessTypeOK
<1>2. CASE Quiet
  BY <1>1, <1>2 DEF Quiet, history, RequestInv, HandledOnce, Account
<1>3. ASSUME NEW t \in Tokens, CreateToken(t) PROVE RequestInv'
  <2>1. /\ t \notin minted /\ minted' = minted \cup {t} /\ t # None
        /\ enrolled' = enrolled /\ handled' = handled
        /\ account'.token = t /\ account'.last = account.last
    BY <1>1, <1>3 DEF CreateToken, history, Account
  <2> QED
    BY <2>1 DEF RequestInv, HandledOnce
<1>4. ASSUME NEW t \in Tokens, NEW k \in Keys, EnrollKey(t, k) PROVE RequestInv'
  <2>1. /\ account.token = t /\ ~ account.consumed
        /\ account'.token = t /\ account'.consumed
        /\ minted' = minted /\ enrolled' = t /\ handled' = handled
    BY <1>1, <1>4 DEF EnrollKey, FirstUse, Redeemable, Account
  <2>2. \A i \in DOMAIN handled : handled[i].token # t
    BY <1>1, <2>1 DEF RequestInv
  <2> QED
    BY <1>1, <2>1, <2>2 DEF RequestInv, HandledOnce
<1>5. ASSUME UNCHANGED <<minted, enrolled, handled>>, account'.token = account.token,
             account'.last = account.last, account.consumed => account'.consumed
      PROVE  RequestInv'
  BY <1>5 DEF RequestInv, HandledOnce
<1>6. ASSUME NEW t \in Tokens, NEW k \in Keys, NEW w \in Workers, Claim(w, t, k)
      PROVE  RequestInv'
  BY <1>1, <1>5, <1>6 DEF Claim, Account
<1>7. ASSUME NEW w \in Workers, NEW c \in Serials,
             CompleteEnrollment(w, c) \/ CompleteRotation(w, c)
      PROVE  RequestInv'
  BY <1>1, <1>5, <1>7 DEF CompleteEnrollment, CompleteRotation, history, Account
<1>8. ASSUME NEW c \in Serials, Revoke(c) PROVE RequestInv'
  BY <1>5, <1>8 DEF Revoke, history
<1>9. ASSUME NEW w \in Workers, NEW m \in Signed, Accept(w, m) PROVE RequestInv'
  <2> DEFINE h == handled
             e == [token |-> enrolled, sequence |-> m.sequence]
  <2>1. /\ account.last < m.sequence /\ account'.last = m.sequence
        /\ account'.token = account.token /\ account'.consumed = account.consumed
        /\ minted' = minted /\ enrolled' = enrolled /\ handled' = Append(h, e)
    BY <1>1, <1>9 DEF Accept, Newer, Account
  <2>2. m.sequence \in Nat /\ account.last \in Nat
    BY <1>1, AccessAssumption DEF Signed, Account
  <2>3. h \in Seq([token: Tokens \cup {None}, sequence: Nat]) /\ Len(h) \in Nat
    BY DEF AccessTypeOK
  <2>4. /\ DOMAIN h = 1..Len(h) /\ DOMAIN Append(h, e) = 1..(Len(h) + 1)
        /\ \A i \in 1..Len(h) : Append(h, e)[i] = h[i]
        /\ Append(h, e)[Len(h) + 1] = e
    BY <2>3
  <2>5. \A i \in 1..Len(h) : h[i].sequence \in Nat
    <3> HIDE DEF h
    <3>1. \A i \in 1..Len(h) : h[i] \in [token: Tokens \cup {None}, sequence: Nat]
      BY <2>3, ElementOfSeq
    <3> QED
      BY <3>1
  <2>6. \A i \in 1..Len(h) : h[i].token = enrolled => h[i].sequence <= account.last
    BY <2>4 DEF RequestInv
  <2> HIDE DEF h
  <2>7. \A i \in 1..(Len(h) + 1) : i \in 1..Len(h) \/ i = Len(h) + 1
    BY <2>3
  <2>8. \A i \in DOMAIN handled' :
           handled'[i].token = enrolled => handled'[i].sequence <= m.sequence
    BY <2>1, <2>2, <2>4, <2>5, <2>6, <2>7
  <2>9. HandledOnce'
    <3> SUFFICES ASSUME NEW i \in 1..(Len(h) + 1), NEW j \in 1..(Len(h) + 1), i < j,
                        Append(h, e)[i].token = Append(h, e)[j].token
                 PROVE  Append(h, e)[i].sequence < Append(h, e)[j].sequence
      BY <2>1, <2>4 DEF HandledOnce
    <3>1. i \in 1..Len(h)
      BY <2>3
    <3>2. CASE j \in 1..Len(h)
      BY <2>4, <3>1, <3>2 DEF RequestInv, HandledOnce, h
    <3>3. CASE j = Len(h) + 1
      BY <2>1, <2>2, <2>4, <2>5, <2>6, <3>1, <3>3
    <3> QED
      BY <2>7, <3>2, <3>3
  <2>10. \A i \in DOMAIN handled' :
            \/ i \in DOMAIN handled /\ handled'[i].token = handled[i].token
            \/ handled'[i].token = enrolled
    BY <2>1, <2>4, <2>7 DEF h
  <2> QED
    BY <2>1, <2>8, <2>9, <2>10 DEF RequestInv
<1> QED
  BY <1>2, <1>3, <1>4, <1>6, <1>7, <1>8, <1>9, StepKinds

\* Under one enrollment every signed request is handled at most once, and in
\* the order of the sequences, however often it arrives
\* (trusted_peer_and_route_from_frappe_request, complete_signing_key_enrollment).
THEOREM NoReplay == AccessSpec => []HandledOnce
<1>1. AccessInit => RequestInv
  BY DEF AccessInit, RequestInv, HandledOnce
<1>2. AccessTypeOK /\ RequestInv /\ [AccessNext]_accessVars => (AccessTypeOK /\ RequestInv)'
  BY AccessTyped, RequestsKeep
<1>3. RequestInv => HandledOnce
  BY DEF RequestInv
<1> QED
  BY <1>1, <1>2, <1>3, AccessTypeInit, PTL DEF AccessSpec

(***************************************************************************)
(* Certificates.                                                           *)
(***************************************************************************)
Issued == DOMAIN certificates

OriginsKnown == \A c \in Issued : certificates[c].origin \in minted \cup Issued

NoSuccessorYet ==
    \A c, d \in Issued : certificates[c].status = "Active" => certificates[d].origin # c

CertificateInv ==
    /\ account.token \in minted \cup {None}
    /\ OriginsKnown
    /\ account.token \in Tokens /\ ~ account.completed =>
          \A c \in Issued : certificates[c].origin # account.token
    /\ NoSuccessorYet
    /\ \A w \in Workers : \A s \in sessions[w] : s.step = "rotating" => s.serial \in Issued
    /\ OneCertificateEach

\* A step removes no certificate, and a rotation begins with one that exists.
RotationsKnown ==
    /\ Issued \subseteq Issued'
    /\ \A w \in Workers : \A s \in sessions'[w] :
          s \in sessions[w] \/ s.step # "rotating" \/ s.serial \in Issued

\* A session that rotates a certificate has found one that was issued.
LEMMA RotatingOnes ==
    ASSUME AccessTypeOK, [AccessNext]_accessVars
    PROVE  RotationsKnown
<1>1. ASSUME NEW w \in Workers, End(w), Issued \subseteq Issued' PROVE RotationsKnown
  BY <1>1 DEF RotationsKnown, End, AccessTypeOK
<1>2. ASSUME NEW w \in Workers, NEW s, Begin(w, s), certificates' = certificates,
             s.step # "rotating" \/ s.serial \in Issued
      PROVE  RotationsKnown
  BY <1>2 DEF RotationsKnown, Begin, AccessTypeOK, Issued
<1>3. ASSUME UNCHANGED sessions, Issued \subseteq Issued' PROVE RotationsKnown
  BY <1>3 DEF RotationsKnown
<1>4. ASSUME NEW w \in Workers, NEW c \in Serials,
             CompleteEnrollment(w, c) \/ CompleteRotation(w, c)
      PROVE  RotationsKnown
  BY <1>1, <1>4 DEF CompleteEnrollment, CompleteRotation, Issue, Issued
<1>5. CASE Tick \/ Administer \/ UNCHANGED accessVars
  BY <1>3, <1>5 DEF Tick, Administer, CreateToken, SetEnabled, Revoke, accessVars, Issued
<1>6. CASE Enroll
  <2>1. ASSUME NEW t \in Tokens, NEW k \in Keys, NEW w \in Workers, Claim(w, t, k)
        PROVE  RotationsKnown
    BY <1>2, <2>1 DEF Claim
  <2> QED
    BY <1>3, <1>6, <2>1 DEF Enroll, EnrollKey, Issued
<1>7. CASE Certify
  <2>1. ASSUME NEW w \in Workers, NEW c \in Serials, NEW k \in Keys, Rotate(w, c, k)
        PROVE  RotationsKnown
    BY <1>2, <2>1 DEF Rotate, Accepted, Present, Issued
  <2> QED
    BY <1>4, <1>7, <2>1 DEF Certify
<1>8. CASE \E m \in Signed : Sign(m) \/ \E w \in Workers : Accept(w, m) \/ Serve(w, m)
  <2>1. ASSUME NEW m \in Signed, NEW w \in Workers, Accept(w, m) PROVE RotationsKnown
    BY <1>2, <2>1 DEF Accept
  <2>2. ASSUME NEW m \in Signed, NEW w \in Workers, Serve(w, m) PROVE RotationsKnown
    BY <1>1, <2>2 DEF Serve, Issued
  <2> QED
    BY <1>3, <1>8, <2>1, <2>2 DEF Sign, Issued
<1>9. CASE \E w \in Workers : Fail(w)
  BY <1>1, <1>9 DEF Fail, Issued
<1>10. \/ Tick \/ Administer \/ UNCHANGED accessVars
       \/ Enroll \/ Certify
       \/ \E m \in Signed : Sign(m) \/ \E w \in Workers : Accept(w, m) \/ Serve(w, m)
       \/ \E w \in Workers : Fail(w)
  BY DEF AccessNext
<1> QED
  BY <1>5, <1>6, <1>7, <1>8, <1>9, <1>10

\* A new certificate has an origin of its own, and is the first to have it.
LEMMA FirstOfItsOrigin ==
    ASSUME AccessTypeOK, CertificateInv, minted' = minted,
           NEW c \in Serials, NEW k, NEW o, NEW others, Issue(c, k, o, others),
           \A d \in Issued :
              /\ others[d].origin = certificates[d].origin
              /\ others[d].status = "Active" => certificates[d].status = "Active" /\ d # o,
           o \in minted \cup Issued,
           \A d \in Issued : certificates[d].origin # o
    PROVE  /\ OriginsKnown' /\ NoSuccessorYet' /\ OneCertificateEach'
           /\ \A d \in Issued' : certificates'[d].origin \in {o} \cup
                                     {certificates[e].origin : e \in Issued}
<1>1. Issued' = Issued \cup {c} /\ c \notin Issued /\ c \notin minted
  BY AccessAssumption DEF Issue, Present, Issued, AccessTypeOK
<1>2. /\ certificates'[c].origin = o
      /\ \A d \in Issued : certificates'[d].origin = certificates[d].origin
      /\ \A d \in Issued : certificates'[d].status = others[d].status
  BY <1>1 DEF Issue, Issued
<1>3. OriginsKnown'
  BY <1>1, <1>2 DEF CertificateInv, OriginsKnown
<1>4. \A d \in Issued' : certificates'[d].origin # c
  BY <1>1, <1>2 DEF CertificateInv, OriginsKnown
<1>5. \A b \in Issued, d \in Issued' :
         certificates'[b].status = "Active" => certificates'[d].origin # b
  BY <1>1, <1>2 DEF CertificateInv, NoSuccessorYet
<1>6. NoSuccessorYet'
  BY <1>1, <1>4, <1>5 DEF NoSuccessorYet
<1>7. OneCertificateEach'
  BY <1>1, <1>2 DEF CertificateInv, OneCertificateEach, Issued
<1> QED
  BY <1>1, <1>2, <1>3, <1>6, <1>7

\* Where certificates keep their origins, and none becomes active again.
LEMMA SameOrigins ==
    ASSUME CertificateInv, minted \subseteq minted', Issued' = Issued,
           \A c \in Issued :
              /\ certificates'[c].origin = certificates[c].origin
              /\ certificates'[c].status = "Active" => certificates[c].status = "Active"
    PROVE  OriginsKnown' /\ NoSuccessorYet' /\ OneCertificateEach'
<1>1. OriginsKnown' /\ NoSuccessorYet'
  BY DEF CertificateInv, OriginsKnown, NoSuccessorYet
<1>2. OneCertificateEach'
  BY DEF CertificateInv, OneCertificateEach, Issued
<1> QED
  BY <1>1, <1>2

\* Every step keeps the origins of the certificates.
LEMMA CertificatesKeep ==
    ASSUME AccessTypeOK, CertificateInv, [AccessNext]_accessVars
    PROVE  CertificateInv'
<1>1. account \in Account /\ minted \subseteq Tokens /\ None \notin Tokens
  BY AccessAssumption DEF AccessTypeOK
<1>2. \A w \in Workers : \A s \in sessions'[w] : s.step = "rotating" => s.serial \in Issued'
  BY RotatingOnes DEF RotationsKnown, CertificateInv
<1>3. ASSUME UNCHANGED <<minted, certificates>>, account'.token = account.token,
             account.completed => account'.completed
      PROVE  CertificateInv'
  <2>1. OriginsKnown' /\ NoSuccessorYet' /\ OneCertificateEach'
    BY <1>3, SameOrigins DEF Issued
  <2> QED
    BY <1>2, <1>3, <2>1 DEF CertificateInv, Issued
<1>4. CASE Quiet
  BY <1>1, <1>3, <1>4 DEF Quiet, Account
<1>5. ASSUME NEW t \in Tokens, CreateToken(t) PROVE CertificateInv'
  <2>1. /\ t \notin minted /\ minted' = minted \cup {t} /\ certificates' = certificates
        /\ account'.token = t
    BY <1>1, <1>5 DEF CreateToken, Account
  <2>2. OriginsKnown' /\ NoSuccessorYet' /\ OneCertificateEach'
    BY <2>1, SameOrigins DEF Issued
  <2>3. t \notin Issued
    BY AccessAssumption DEF AccessTypeOK, Issued
  <2>4. \A c \in Issued' : certificates'[c].origin # t
    BY <2>1, <2>3 DEF CertificateInv, OriginsKnown, Issued
  <2> QED
    BY <1>2, <2>1, <2>2, <2>4 DEF CertificateInv
<1>6. ASSUME NEW t \in Tokens, NEW k \in Keys, EnrollKey(t, k) PROVE CertificateInv'
  BY <1>1, <1>3, <1>6 DEF EnrollKey, Account
<1>7. ASSUME NEW t \in Tokens, NEW k \in Keys, NEW w \in Workers, Claim(w, t, k)
      PROVE  CertificateInv'
  BY <1>1, <1>3, <1>7 DEF Claim, Account
<1>8. ASSUME NEW w \in Workers, NEW c \in Serials, CompleteEnrollment(w, c)
      PROVE  CertificateInv'
  <2>1. PICK s \in sessions[w] :
           /\ s.step = "claimed"
           /\ account.token = s.token /\ ~ account.completed
           /\ Issue(c, s.key, s.token, certificates)
           /\ account' = [account EXCEPT !.completed = TRUE, !.enabled = TRUE]
           /\ minted' = minted
    BY <1>8 DEF CompleteEnrollment
  <2>2. s.token \in Tokens
    BY <2>1 DEF AccessTypeOK, Session
  <2>3. s.token \in minted /\ s.token \notin Issued
    BY <1>1, <2>1, <2>2, AccessAssumption DEF CertificateInv, AccessTypeOK, Issued
  <2>4. \A d \in Issued : certificates[d].origin # s.token
    BY <2>1, <2>2 DEF CertificateInv
  <2>5. OriginsKnown' /\ NoSuccessorYet' /\ OneCertificateEach'
    BY <2>1, <2>3, <2>4, FirstOfItsOrigin
  <2>6. account'.token = account.token /\ account'.completed
    BY <1>1, <2>1 DEF Account
  <2> QED
    BY <1>2, <2>1, <2>5, <2>6 DEF CertificateInv
<1>9. ASSUME NEW w \in Workers, NEW c \in Serials, CompleteRotation(w, c)
      PROVE  CertificateInv'
  <2> DEFINE Rotated(s) == [certificates EXCEPT ![s.serial].status = "Rotating"]
  <2>1. PICK s \in sessions[w] :
           /\ s.step = "rotating"
           /\ certificates[s.serial].status = "Active"
           /\ Issue(c, s.key, s.serial, Rotated(s))
           /\ minted' = minted /\ account' = account
    BY <1>9 DEF CompleteRotation, Rotatable
  <2>2. s.serial \in Issued /\ s.serial \in Serials /\ s.serial \notin Tokens
    BY <2>1, AccessAssumption DEF CertificateInv, AccessTypeOK, Issued
  <2>3. \A d \in Issued : certificates[d] \in Certificate
    BY DEF AccessTypeOK, Issued
  <2>4. \A d \in Issued :
           /\ Rotated(s)[d].origin = certificates[d].origin
           /\ Rotated(s)[d].status = "Active" =>
                 certificates[d].status = "Active" /\ d # s.serial
    BY <2>2, <2>3 DEF Issued, Certificate
  <2>5. \A d \in Issued : certificates[d].origin # s.serial
    BY <2>1, <2>2 DEF CertificateInv, NoSuccessorYet
  <2> HIDE DEF Rotated
  <2>6. /\ OriginsKnown' /\ NoSuccessorYet' /\ OneCertificateEach'
        /\ \A d \in Issued' : certificates'[d].origin \in {s.serial} \cup
                                  {certificates[e].origin : e \in Issued}
    BY <2>1, <2>2, <2>4, <2>5, FirstOfItsOrigin
  <2> QED
    BY <1>2, <2>1, <2>2, <2>6 DEF CertificateInv
<1>10. ASSUME NEW c \in Serials, Revoke(c) PROVE CertificateInv'
  <2>1. certificates' = [certificates EXCEPT ![c].status = "Revoked"]
        /\ minted' = minted /\ account' = account
    BY <1>10 DEF Revoke
  <2>2. \A d \in Issued : certificates[d] \in Certificate
    BY DEF AccessTypeOK, Issued
  <2>3. Issued' = Issued
    BY <2>1 DEF Issued
  <2>4. \A d \in Issued :
           /\ certificates'[d].origin = certificates[d].origin
           /\ certificates'[d].status = "Active" => certificates[d].status = "Active"
    BY <2>1, <2>2 DEF Issued, Certificate
  <2>5. OriginsKnown' /\ NoSuccessorYet' /\ OneCertificateEach'
    BY <2>1, <2>3, <2>4, SameOrigins
  <2> QED
    BY <1>2, <2>1, <2>3, <2>4, <2>5 DEF CertificateInv
<1>11. ASSUME NEW w \in Workers, NEW m \in Signed, Accept(w, m) PROVE CertificateInv'
  BY <1>1, <1>3, <1>11 DEF Accept, Account
<1> QED
  BY <1>4, <1>5, <1>6, <1>7, <1>8, <1>9, <1>10, <1>11, StepKinds

\* A token gives at most one certificate and a certificate at most one
\* successor: what it is issued for is used up by the same transaction
\* (complete_enrollment, the store's rotate_certificate).
THEOREM OneCertificate == AccessSpec => []OneCertificateEach
<1>1. AccessInit => CertificateInv
  BY DEF AccessInit, CertificateInv, OriginsKnown, NoSuccessorYet, OneCertificateEach, Issued
<1>2. /\ AccessTypeOK /\ CertificateInv /\ [AccessNext]_accessVars
      => (AccessTypeOK /\ CertificateInv)'
  BY AccessTyped, CertificatesKeep
<1>3. CertificateInv => OneCertificateEach
  BY DEF CertificateInv
<1> QED
  BY <1>1, <1>2, <1>3, AccessTypeInit, PTL DEF AccessSpec

\* What a step may do to a revoked certificate: nothing, and no new one names
\* it as its origin.
StaysRevoked(c) ==
    certificates[c].status = "Revoked" =>
        /\ c \in Issued' /\ certificates'[c].status = "Revoked"
        /\ \A d \in Issued' \ Issued : certificates'[d].origin # c

\* No step issues a successor of a revoked certificate, or makes it active.
LEMMA RevocationKept ==
    ASSUME AccessTypeOK, [AccessNext]_accessVars, NEW c \in Issued
    PROVE  StaysRevoked(c)
<1>1. CASE certificates' = certificates
  BY <1>1 DEF StaysRevoked, Issued
<1>2. \A d \in Issued : certificates[d] \in Certificate /\ d \in Serials /\ d \notin Tokens
  BY AccessAssumption DEF AccessTypeOK, Issued
<1>3. ASSUME NEW d \in Serials, NEW k, NEW o, NEW others, Issue(d, k, o, others), o # c,
             others[c].status = certificates[c].status \/ certificates[c].status # "Revoked"
      PROVE  StaysRevoked(c)
  <2>1. Issued' = Issued \cup {d} /\ d \notin Issued
    BY <1>3 DEF Issue, Present, Issued
  <2>2. certificates'[d].origin = o /\ certificates'[c] = others[c]
    BY <1>3, <2>1 DEF Issue, Issued
  <2> QED
    BY <1>3, <2>1, <2>2 DEF StaysRevoked
<1>4. ASSUME NEW w \in Workers, NEW d \in Serials, CompleteEnrollment(w, d)
      PROVE  StaysRevoked(c)
  <2>1. PICK s \in sessions[w] :
           s.step = "claimed" /\ Issue(d, s.key, s.token, certificates)
    BY <1>4 DEF CompleteEnrollment
  <2>2. s.token \in Tokens
    BY <2>1 DEF AccessTypeOK, Session
  <2> QED
    BY <1>2, <1>3, <2>1, <2>2
<1>5. ASSUME NEW w \in Workers, NEW d \in Serials, CompleteRotation(w, d)
      PROVE  StaysRevoked(c)
  <2> DEFINE Rotated(s) == [certificates EXCEPT ![s.serial].status = "Rotating"]
  <2>1. PICK s \in sessions[w] :
           certificates[s.serial].status = "Active" /\ Issue(d, s.key, s.serial, Rotated(s))
    BY <1>5 DEF CompleteRotation, Rotatable
  <2>2. CASE certificates[c].status # "Revoked"
    BY <2>2 DEF StaysRevoked
  <2>3. CASE certificates[c].status = "Revoked"
    <3>1. s.serial # c /\ Rotated(s)[c] = certificates[c]
      BY <2>1, <2>3 DEF Issued
    <3> HIDE DEF Rotated
    <3> QED
      BY <1>3, <2>1, <3>1
  <2> QED
    BY <2>2, <2>3
<1>6. ASSUME NEW d \in Serials, Revoke(d) PROVE StaysRevoked(c)
  BY <1>2, <1>6 DEF Revoke, StaysRevoked, Issued, Certificate
<1> QED
  BY <1>1, <1>4, <1>5, <1>6, StepKinds DEF Quiet, CreateToken, EnrollKey, Claim, Accept

\* A revocation is final, and ends the line of the certificate, also where a
\* rotation had been authenticated before (revoke_certificate, rotate_certificate).
THEOREM RevocationFinal == AccessSpec => RevokedForGood
<1>1. AccessTypeOK /\ [AccessNext]_accessVars =>
         [\A c \in DOMAIN certificates :
             certificates[c].status = "Revoked" =>
                 /\ c \in DOMAIN certificates' /\ certificates'[c].status = "Revoked"
                 /\ \A d \in DOMAIN certificates' \ DOMAIN certificates :
                       certificates'[d].origin # c]_accessVars
  BY RevocationKept DEF StaysRevoked, Issued
<1>2. AccessTypeOK /\ [AccessNext]_accessVars => AccessTypeOK'
  BY AccessTyped
<1> QED
  BY <1>1, <1>2, AccessTypeInit, PTL DEF AccessSpec, RevokedForGood

-----------------------------------------------------------------------------
(***************************************************************************)
(* The history of events. A batch is compared with a view that other       *)
(* workers have overtaken when it is appended; what remains true is that   *)
(* the view is a prefix of the table, because rows are only appended, and  *)
(* that the batch fits the view.                                           *)
(***************************************************************************)

Stored(tab) ==
    /\ tab.rows \in Seq(Event)
    /\ tab.cursor = Len(tab.rows)
    /\ \A i \in 1..Len(tab.rows) : tab.rows[i].sequence = i

Prefix(view, tab) ==
    /\ Len(view.rows) <= Len(tab.rows)
    /\ \A i \in 1..Len(view.rows) : view.rows[i] = tab.rows[i]

\* What a worker holds is sound for a table: its view is an earlier one.
Holds(r, tab) ==
    /\ r.batch \in Batch
    /\ r.view \in Table
    /\ Stored(r.view)
    /\ Prefix(r.view, tab)
    /\ Fits(r.view, r.batch)

EInv ==
    /\ EventsTypeOK
    /\ Stored(table)
    /\ \A w \in Workers : \A r \in batches[w] : Holds(r, table)
    /\ AnsweredIsStored

(***************************************************************************)
(* Tables and batches.                                                     *)
(***************************************************************************)
\* The rows of a view are rows of the table it is a prefix of.
LEMMA RowsOfPrefix ==
    ASSUME NEW view \in Table, NEW tab \in Table, Prefix(view, tab)
    PROVE  Rows(view) \subseteq Rows(tab)
<1>1. DOMAIN view.rows = 1..Len(view.rows) /\ DOMAIN tab.rows = 1..Len(tab.rows)
  BY DEF Table
<1>2. Len(view.rows) \in Nat /\ Len(tab.rows) \in Nat
  BY DEF Table
<1>3. \A i \in 1..Len(view.rows) : i \in 1..Len(tab.rows) /\ view.rows[i] = tab.rows[i]
  BY <1>2 DEF Prefix
<1> QED
  BY <1>1, <1>3 DEF Rows

\* A batch has finitely many events, and so has its pending part.
LEMMA PendingIsFinite ==
    ASSUME NEW view, NEW batch \in Batch
    PROVE  /\ DOMAIN batch \subseteq 1..MaxSequence
           /\ Cardinality(Pending(view, batch)) \in Nat
<1>1. DOMAIN batch \subseteq 1..MaxSequence
  BY DEF Batch
<1>2. IsFiniteSet(1..MaxSequence)
  BY EventAssumption, FS_Interval
<1>3. Pending(view, batch) \subseteq 1..MaxSequence
  BY <1>1 DEF Pending
<1>4. IsFiniteSet(Pending(view, batch))
  BY <1>2, <1>3, FS_Subset
<1> QED
  BY <1>1, <1>4, FS_CardinalityType

\* What a batch that fits adds are events, numbered from the end of the view,
\* one for each event that is pending.
LEMMA AdditionFollows ==
    ASSUME NEW view \in Table, NEW batch \in Batch, Fits(view, batch)
    PROVE  LET n == Cardinality(Pending(view, batch))
               new == Addition(view, batch)
           IN  /\ n \in Nat
               /\ new \in Seq(Event)
               /\ Len(new) = n
               /\ \A i \in 1..n : new[i].sequence = view.cursor + i
               /\ \A s \in Pending(view, batch) :
                     /\ s - view.cursor \in 1..n
                     /\ new[s - view.cursor] = [sequence |-> s, body |-> batch[s]]
<1> DEFINE n == Cardinality(Pending(view, batch))
           new == Addition(view, batch)
<1>1. n \in Nat /\ DOMAIN batch \subseteq 1..MaxSequence
  BY PendingIsFinite
<1>2. view.cursor \in Nat
  BY DEF Table
<1>3. Pending(view, batch) = view.cursor + 1 .. view.cursor + n
  BY DEF Fits
<1>4. \A i \in 1..n : view.cursor + i \in Pending(view, batch)
  BY <1>1, <1>2, <1>3
<1>5. Pending(view, batch) \subseteq DOMAIN batch
  BY DEF Pending
<1>6. \A s \in DOMAIN batch : batch[s] \in Bodies
  BY DEF Batch
<1>7. \A i \in 1..n : [sequence |-> view.cursor + i, body |-> batch[view.cursor + i]] \in Event
  BY <1>1, <1>4, <1>5, <1>6 DEF Event
<1>8. new = [i \in 1..n |-> [sequence |-> view.cursor + i, body |-> batch[view.cursor + i]]]
  BY DEF Addition
<1>9. new \in Seq(Event) /\ Len(new) = n
  BY <1>1, <1>7, <1>8
<1>10. \A s \in Pending(view, batch) :
          s - view.cursor \in 1..n /\ view.cursor + (s - view.cursor) = s
  BY <1>1, <1>2, <1>3
<1> HIDE DEF n, new
<1>11. \A i \in 1..n : new[i].sequence = view.cursor + i
  BY <1>8
<1>12. \A s \in Pending(view, batch) :
          new[s - view.cursor] = [sequence |-> s, body |-> batch[s]]
  BY <1>8, <1>10
<1> QED
  BY <1>1, <1>9, <1>10, <1>11, <1>12 DEF n, new

\* The events of a batch are rows of a table if the known ones are in the view
\* that the batch fits and the pending ones are in the table.
LEMMA BatchStored ==
    ASSUME NEW r, NEW tab \in Table, Holds(r, tab),
           \A s \in Pending(r.view, r.batch) :
               [sequence |-> s, body |-> r.batch[s]] \in Rows(tab)
    PROVE  Events(r.batch) \subseteq Rows(tab)
<1>1. Rows(r.view) \subseteq Rows(tab)
  BY RowsOfPrefix DEF Holds
<1>2. \A s \in Known(r.view, r.batch) :
         [sequence |-> s, body |-> r.batch[s]] \in Rows(r.view)
  BY DEF Holds, Fits
<1>3. DOMAIN r.batch = Known(r.view, r.batch) \cup Pending(r.view, r.batch)
  BY DEF Known, Pending
<1> QED
  BY <1>1, <1>2, <1>3 DEF Events

(***************************************************************************)
(* The steps.                                                              *)
(***************************************************************************)
LEMMA EventsBegin == EventsInit => EInv
<1> SUFFICES ASSUME EventsInit PROVE EInv
  OBVIOUS
<1>1. table.rows = <<>> /\ table.cursor = 0 /\ table \in Table
  BY DEF EventsInit, Table
<1>2. Stored(table)
  BY <1>1 DEF Stored
<1>3. \A w \in Workers : batches[w] = {}
  BY DEF EventsInit
<1>4. EventsTypeOK
  BY <1>1 DEF EventsInit, EventsTypeOK
<1>5. AnsweredIsStored
  BY DEF EventsInit, AnsweredIsStored
<1> QED
  BY <1>2, <1>3, <1>4, <1>5 DEF EInv

\* A batch is read together with the table as it is.
LEMMA ReadKeeps ==
    ASSUME EInv, NEW w \in Workers, NEW batch \in Batch, Read(w, batch)
    PROVE  EInv'
<1> DEFINE r == [batch |-> batch, view |-> table]
<1>1. table' = table /\ told' = told /\ batches' = [batches EXCEPT ![w] = {r}]
  BY DEF Read
<1>2. table \in Table /\ Stored(table)
  BY DEF EInv, EventsTypeOK
<1>3. Prefix(table, table)
  BY <1>2 DEF Prefix, Table
<1>4. Fits(table, batch)
  BY DEF Read
<1>5. Holds(r, table)
  BY <1>2, <1>3, <1>4 DEF Holds
<1>6. \A v \in Workers : \A q \in batches'[v] : Holds(q, table)
  BY <1>1, <1>5 DEF EInv, EventsTypeOK
<1>7. r \in [batch: Batch, view: Table]
  BY <1>2
<1>8. EventsTypeOK'
  BY <1>1, <1>7 DEF EInv, EventsTypeOK
<1>9. AnsweredIsStored' /\ Stored(table')
  BY <1>1 DEF EInv, AnsweredIsStored
<1>10. \A v \in Workers : \A q \in batches'[v] : Holds(q, table')
  BY <1>1, <1>6
<1> QED
  BY <1>8, <1>9, <1>10 DEF EInv

\* The end of a request that leaves the table alone, answered with what is
\* stored, or not answered.
LEMMA EndKeeps ==
    ASSUME EInv, NEW w \in Workers, UNCHANGED table,
           batches' = [batches EXCEPT ![w] = {}],
           \/ told' = told
           \/ \E r \in batches[w] :
                 /\ \A s \in Pending(r.view, r.batch) :
                       [sequence |-> s, body |-> r.batch[s]] \in Rows(table)
                 /\ told' = told \cup Events(r.batch)
    PROVE  EInv'
<1>1. table \in Table
  BY DEF EInv, EventsTypeOK
<1>2. told' \subseteq Rows(table)
  <2>1. CASE told' = told
    BY <2>1 DEF EInv, AnsweredIsStored
  <2>2. ASSUME NEW r \in batches[w],
               \A s \in Pending(r.view, r.batch) :
                   [sequence |-> s, body |-> r.batch[s]] \in Rows(table),
               told' = told \cup Events(r.batch)
        PROVE  told' \subseteq Rows(table)
    <3>1. Events(r.batch) \subseteq Rows(table)
      BY <1>1, <2>2, BatchStored DEF EInv
    <3> QED
      BY <2>2, <3>1 DEF EInv, AnsweredIsStored
  <2> QED
    BY <2>1, <2>2
<1>3. Rows(table) \subseteq Event
  BY <1>1 DEF Rows, Table
<1>4. EventsTypeOK'
  BY <1>2, <1>3 DEF EInv, EventsTypeOK
<1>5. \A v \in Workers : \A q \in batches'[v] : Holds(q, table)
  BY DEF EInv, EventsTypeOK
<1> QED
  BY <1>2, <1>4, <1>5 DEF EInv, AnsweredIsStored

\* Appending after the current end: the view is the whole table.
LEMMA AppendKeeps ==
    ASSUME EInv, NEW w \in Workers, AppendEvents(w)
    PROVE  EInv'
<1>1. PICK r \in batches[w] :
         /\ Current(r.view)
         /\ table' = [rows |-> table.rows \o Addition(r.view, r.batch),
                      cursor |-> r.view.cursor + Cardinality(Pending(r.view, r.batch))]
         /\ batches' = [batches EXCEPT ![w] = {}]
         /\ told' = told \cup Events(r.batch)
  BY DEF AppendEvents, Answer
<1> DEFINE n == Cardinality(Pending(r.view, r.batch))
           new == Addition(r.view, r.batch)
           end == Len(table.rows)
<1>2. Holds(r, table) /\ table \in Table /\ Stored(table)
  BY DEF EInv, EventsTypeOK
<1>3. r.batch \in Batch /\ r.view \in Table /\ Fits(r.view, r.batch)
  BY <1>2 DEF Holds
<1>4. /\ n \in Nat /\ new \in Seq(Event) /\ Len(new) = n
      /\ \A i \in 1..n : new[i].sequence = r.view.cursor + i
      /\ \A s \in Pending(r.view, r.batch) :
            /\ s - r.view.cursor \in 1..n
            /\ new[s - r.view.cursor] = [sequence |-> s, body |-> r.batch[s]]
  BY <1>3, AdditionFollows
<1>5. r.view.cursor = end /\ end \in Nat /\ table.rows \in Seq(Event)
  BY <1>1, <1>2 DEF Current, Stored, Table
<1> HIDE DEF n, new, end
<1>6. table'.rows = table.rows \o new /\ table'.cursor = end + n
  BY <1>1, <1>5 DEF n, new
<1>7. /\ table'.rows \in Seq(Event)
      /\ Len(table'.rows) = end + n
      /\ \A i \in 1..end : table'.rows[i] = table.rows[i]
      /\ \A i \in 1..n : table'.rows[end + i] = new[i]
  <2> DEFINE old == table.rows
  <2>1. old \in Seq(Event) /\ Len(old) = end /\ table'.rows = old \o new
    BY <1>5, <1>6 DEF end
  <2> HIDE DEF old
  <2>2. new \in Seq(Event) /\ Len(new) = n /\ n \in Nat /\ end \in Nat
    BY <1>4, <1>5
  <2>3. old \o new \in Seq(Event)
    BY <2>1, <2>2, ConcatProperties, Zenon
  <2>4. Len(old \o new) = end + n
    BY <2>1, <2>2, ConcatProperties, Zenon
  <2>5. \A i \in 1..end : (old \o new)[i] = old[i]
    BY <2>1, <2>2
  <2>6. ASSUME NEW i \in 1..n PROVE (old \o new)[end + i] = new[i]
    BY <2>1, <2>2
  <2> QED
    BY <2>1, <2>3, <2>4, <2>5, <2>6 DEF old
<1>8. table' \in Table
  <2>1. end + n \in Nat
    BY <1>4, <1>5
  <2> QED
    BY <1>1, <1>6, <1>7, <2>1 DEF Table
<1>9. Stored(table')
  <2>1. ASSUME NEW i \in 1..(end + n) PROVE table'.rows[i].sequence = i
    <3>1. CASE i \in 1..end
      BY <1>2, <1>7, <3>1 DEF Stored, end
    <3>2. CASE i \notin 1..end
      <4>1. i - end \in 1..n /\ i = end + (i - end)
        BY <1>4, <1>5, <3>2
      <4>2. table'.rows[i] = new[i - end]
        BY <1>7, <4>1
      <4> QED
        BY <1>4, <1>5, <4>1, <4>2
    <3> QED
      BY <3>1, <3>2
  <2> QED
    BY <1>6, <1>7, <2>1 DEF Stored
<1>10. Rows(table) \subseteq Rows(table')
  <2>1. Prefix(table, table')
    BY <1>4, <1>5, <1>7 DEF Prefix, end
  <2> QED
    BY <1>2, <1>8, <2>1, RowsOfPrefix
<1>11. ASSUME NEW q, Holds(q, table) PROVE Holds(q, table')
  <2>1. Prefix(q.view, table')
    BY <1>4, <1>5, <1>7, <1>11 DEF Prefix, Holds, Table, end
  <2> QED
    BY <1>11, <2>1 DEF Holds
<1>12. \A s \in Pending(r.view, r.batch) :
          [sequence |-> s, body |-> r.batch[s]] \in Rows(table')
  <2> SUFFICES ASSUME NEW s \in Pending(r.view, r.batch)
               PROVE  [sequence |-> s, body |-> r.batch[s]] \in Rows(table')
    OBVIOUS
  <2>1. s - end \in 1..n /\ new[s - end] = [sequence |-> s, body |-> r.batch[s]]
    BY <1>4, <1>5
  <2>2. table'.rows[end + (s - end)] = [sequence |-> s, body |-> r.batch[s]]
    BY <1>7, <2>1
  <2>3. end + (s - end) \in DOMAIN table'.rows
    BY <1>4, <1>5, <1>7, <2>1
  <2> QED
    BY <2>2, <2>3 DEF Rows
<1>13. Events(r.batch) \subseteq Rows(table')
  BY <1>2, <1>8, <1>11, <1>12, BatchStored
<1>14. told' \subseteq Rows(table')
  BY <1>1, <1>10, <1>13 DEF EInv, AnsweredIsStored
<1>15. Rows(table') \subseteq Event
  BY <1>7 DEF Rows
<1>16. EventsTypeOK'
  BY <1>1, <1>8, <1>14, <1>15 DEF EInv, EventsTypeOK
<1>17. \A v \in Workers : \A q \in batches'[v] : Holds(q, table')
  BY <1>1, <1>11 DEF EInv, EventsTypeOK
<1> QED
  BY <1>9, <1>14, <1>16, <1>17 DEF EInv, AnsweredIsStored

\* Every step keeps the stored events and the cursor.
LEMMA EventsKeep == EInv /\ [EventsNext]_eventVars => EInv'
<1> SUFFICES ASSUME EInv, [EventsNext]_eventVars PROVE EInv'
  OBVIOUS
<1>1. CASE UNCHANGED eventVars
  BY <1>1 DEF eventVars, EInv, EventsTypeOK, AnsweredIsStored
<1>2. ASSUME NEW w \in Workers, NEW batch \in Batch, Read(w, batch) PROVE EInv'
  BY <1>2, ReadKeeps
<1>3. ASSUME NEW w \in Workers, AnswerKnown(w) PROVE EInv'
  <2>1. \E r \in batches[w] :
           /\ \A s \in Pending(r.view, r.batch) :
                 [sequence |-> s, body |-> r.batch[s]] \in Rows(table)
           /\ told' = told \cup Events(r.batch)
    BY <1>3 DEF AnswerKnown, Answer
  <2> QED
    BY <1>3, <2>1, EndKeeps DEF AnswerKnown, Answer
<1>4. ASSUME NEW w \in Workers, AppendEvents(w) PROVE EInv'
  BY <1>4, AppendKeeps
<1>5. ASSUME NEW w \in Workers, AnswerReplay(w) PROVE EInv'
  <2>1. \E r \in batches[w] :
           /\ \A s \in Pending(r.view, r.batch) :
                 [sequence |-> s, body |-> r.batch[s]] \in Rows(table)
           /\ told' = told \cup Events(r.batch)
    BY <1>5 DEF AnswerReplay, Answer, Replayed
  <2> QED
    BY <1>5, <2>1, EndKeeps DEF AnswerReplay, Answer
<1>6. ASSUME NEW w \in Workers, DropBatch(w) PROVE EInv'
  BY <1>6, EndKeeps DEF DropBatch
<1> QED
  BY <1>1, <1>2, <1>3, <1>4, <1>5, <1>6 DEF EventsNext, EventsStep

\* The invariant is enough.
LEMMA InvIsGapless == EInv => Gapless
BY DEF EInv, Stored, Gapless

\* Whatever overlapping batches are served to how many workers, and whatever
\* the database does with stale reads, the history of an operation has every
\* event once, in order, up to its cursor (append_events).
THEOREM HistoryIsGapless == EventsSpec => []Gapless
<1>1. EventsSpec => []EInv
  BY EventsBegin, EventsKeep, PTL DEF EventsSpec
<1> QED
  BY <1>1, InvIsGapless, PTL

\* Whatever an answered batch contained is stored as it was sent, also when the
\* answer came from recognising a replay (ingest_events, append_events).
THEOREM AnswersAreStored == EventsSpec => []AnsweredIsStored
<1>1. EventsSpec => []EInv
  BY EventsBegin, EventsKeep, PTL DEF EventsSpec
<1>2. EInv => AnsweredIsStored
  BY DEF EInv
<1> QED
  BY <1>1, <1>2, PTL

\* The tables and batches stay well-typed (append_events).
THEOREM EventsTypeCorrect == EventsSpec => []EventsTypeOK
<1>1. EventsSpec => []EInv
  BY EventsBegin, EventsKeep, PTL DEF EventsSpec
<1>2. EInv => EventsTypeOK
  BY DEF EInv
<1> QED
  BY <1>1, <1>2, PTL

-----------------------------------------------------------------------------
(***************************************************************************)
(* Signed requests that report events: the composition keeps what its      *)
(* parts promise, because each of its steps is, for either part, a step of *)
(* that part or none.                                                      *)
(***************************************************************************)

\* A request that reports events is a step of the access, of the events, or of both.
LEMMA ReportParts ==
    ASSUME Report
    PROVE  [AccessNext]_accessVars /\ [EventsNext]_eventVars
<1>1. PICK m \in Signed :
         \/ Sign(m) /\ UNCHANGED eventVars
         \/ \E w \in Workers :
               \/ Accept(w, m) /\ UNCHANGED eventVars
               \/ ServeEvents(w, m)
               \/ RefuseEvents(w, m)
  BY DEF Report
<1>2. CASE Sign(m) /\ UNCHANGED eventVars
  BY <1>2 DEF AccessNext
<1>3. ASSUME NEW w \in Workers, Accept(w, m) /\ UNCHANGED eventVars
      PROVE  [AccessNext]_accessVars /\ [EventsNext]_eventVars
  BY <1>3 DEF AccessNext
<1>4. ASSUME NEW w \in Workers, ServeEvents(w, m)
      PROVE  [AccessNext]_accessVars /\ [EventsNext]_eventVars
  <2>1. m.body \in Batch
    BY ReportAssumption DEF Signed
  <2>2. AccessNext
    BY <1>4 DEF ServeEvents, AccessNext
  <2>3. EventsNext
    BY <1>4, <2>1 DEF ServeEvents, EventsNext
  <2> QED
    BY <2>2, <2>3
<1>5. ASSUME NEW w \in Workers, RefuseEvents(w, m)
      PROVE  [AccessNext]_accessVars /\ [EventsNext]_eventVars
  BY <1>5 DEF RefuseEvents, AccessNext
<1> QED
  BY <1>1, <1>2, <1>3, <1>4, <1>5

\* Every step is a step of either part, or leaves it alone.
LEMMA Parts == [Next]_vars => [AccessNext]_accessVars /\ [EventsNext]_eventVars
<1> SUFFICES ASSUME [Next]_vars
             PROVE  [AccessNext]_accessVars /\ [EventsNext]_eventVars
  OBVIOUS
<1>1. CASE UNCHANGED vars
  BY <1>1 DEF vars
<1>2. CASE Report
  BY <1>2, ReportParts
<1>3. CASE \E w \in Workers : EventsStep(w) /\ UNCHANGED accessVars
  BY <1>3 DEF EventsNext
<1>4. CASE /\ \/ Tick \/ Administer \/ Enroll \/ Certify
              \/ \E w \in Workers : Fail(w)
           /\ UNCHANGED eventVars
  BY <1>4 DEF AccessNext
<1> QED
  BY <1>1, <1>2, <1>3, <1>4 DEF Next

\* The events that come in signed requests are a behaviour of the event log:
\* its history stays gapless whoever signs, repeats or delays requests, and
\* whichever worker serves them (_events, ingest_events).
THEOREM ReportsAreEvents == Spec => EventsSpec
  BY Parts, PTL DEF Spec, Init, EventsSpec

\* Serving events is, for the agent's access, serving a request.
THEOREM ReportsAreRequests == Spec => AccessSpec
  BY Parts, PTL DEF Spec, Init, AccessSpec

\* What is promised of either part holds for an agent whose events come in
\* signed requests (trusted_peer_and_route_from_frappe_request, _events).
THEOREM ReportsTypeCorrect == Spec => []TypeOK
<1>1. EventsTypeOK /\ AccessTypeOK => TypeOK
  BY DEF TypeOK
<1> QED
  BY <1>1, ReportsAreEvents, ReportsAreRequests, EventsTypeCorrect, AccessTypeCorrect, PTL

\* The invariants of the access and of the events hold of such an agent
\* (trusted_peer_and_route_from_frappe_request, ingest_events).
THEOREM ReportsSafe ==
    Spec => [](/\ HandledOnce /\ OneKeyPerToken /\ OneCertificateEach
               /\ Gapless /\ AnsweredIsStored)
  BY ReportsAreEvents, ReportsAreRequests, NoReplay, OneKey, OneCertificate,
     HistoryIsGapless, AnswersAreStored, PTL
=============================================================================
