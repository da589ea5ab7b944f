------------------------- MODULE AppApprovalProofs -------------------------
(***************************************************************************)
(* Signing in by approving on the app, for any number of users, keys,      *)
(* requests, sessions, concurrent handlers and database errors.            *)
(***************************************************************************)
EXTENDS AppApproval, TLAPS

\* The steps that enroll a key, those that know which, and those of a sign-in.
Enrolling == {"reject", "check_key", "advance", "confirm", "activate", "insert"}
Revocation == {"list", "remove", "end"}
Deciding == {"approve", "deny", "complete", "refuse", "admit", "establish", "link", "undo"}

\* What a handler holds at each of its steps.
Controlled(r) ==
  /\ r.pc \in Enrolling => r.e \in Enrollments
  /\ r.pc \in Enrolling \ {"reject"} => r.pk \in PublicKeys
  /\ r.pc \in Revocation \cup Deciding => r.k \in Keys
  /\ r.pc \in ActsForUser => r.user \in Users
  /\ r.pc \in Deciding => r.q \in Requests
  /\ r.pc \in {"link", "undo"} => r.s \in Sessions

Sound(r) == r \in CallRecord /\ Controlled(r)

Orderly == \A c \in Calls : Controlled(call[c])

\* An enrollment past its first stage has the key it was given.
Staged == \A e \in Enrollments :
  enrollment[e].st \in {"awaiting_confirmation", "confirmed"} => enrollment[e].pk \in PublicKeys

Typed == TypeOK /\ Orderly /\ Staged

\* The record a handler starts from is one.
LEMMA IdleType == Sound(Idle)
  BY DEF Idle, Sound, CallRecord, Steps, Controlled, Enrolling, Revocation, Deciding, ActsForUser

\* A handler writes its own record only.
LEMMA WriteType ==
  ASSUME Typed, NEW c \in Calls, NEW record, Sound(record),
         call' = [call EXCEPT ![c] = record]
  PROVE  /\ call' \in [Calls -> CallRecord] /\ Orderly'
         /\ \A d \in Calls : call'[d].pc \in ActsForUser => call'[d].user # None
<1>1. call' \in [Calls -> CallRecord] /\ Orderly'
  BY DEF Typed, Orderly, TypeOK, Sound
<1> QED
  BY <1>1, ApprovalAssumption DEF Orderly, Controlled

LEMMA BeginType ==
  ASSUME Typed, NEW c \in Calls, NEW record, Sound(record), Begin(c, record)
  PROVE  /\ call' \in [Calls -> CallRecord] /\ Orderly'
         /\ \A d \in Calls : call'[d].pc \in ActsForUser => call'[d].user # None
  BY WriteType DEF Begin

LEMMA GotoType ==
  ASSUME Typed, NEW c \in Calls, NEW pc, Sound([call[c] EXCEPT !.pc = pc]), Goto(c, pc)
  PROVE  /\ call' \in [Calls -> CallRecord] /\ Orderly'
         /\ \A d \in Calls : call'[d].pc \in ActsForUser => call'[d].user # None
  BY WriteType DEF Goto

LEMMA ReturnType ==
  ASSUME Typed, NEW c \in Calls, Return(c)
  PROVE  /\ call' \in [Calls -> CallRecord] /\ Orderly'
         /\ \A d \in Calls : call'[d].pc \in ActsForUser => call'[d].user # None
  BY IdleType, WriteType DEF Return

LEMMA FaultType ==
  ASSUME Typed, Fault
  PROVE  faults' \in 0..MaxFaults
  BY ApprovalAssumption DEF Typed, TypeOK, Fault

\* A step writes one enrollment.
EnrollmentSound(r) ==
  /\ r \in EnrollmentRow
  /\ r.st = "confirmed" => r.pk # None /\ r.user # None
  /\ r.st \in {"awaiting_confirmation", "confirmed"} => r.pk \in PublicKeys

LEMMA EnrollmentType ==
  ASSUME Typed, NEW e \in Enrollments, NEW r, EnrollmentSound(r),
         enrollment' = [enrollment EXCEPT ![e] = r]
  PROVE  /\ enrollment' \in [Enrollments -> EnrollmentRow] /\ Staged'
         /\ \A d \in Enrollments : enrollment'[d].st = "confirmed" =>
               enrollment'[d].pk # None /\ enrollment'[d].user # None
  BY DEF Typed, TypeOK, Staged, EnrollmentSound

\* What a step of enrolling does to the types.
LEMMA EnrollTypes ==
  ASSUME Typed, NEW c \in Calls,
         \/ \E e \in Enrollments : \/ SubmitKey(c, e)
                                   \/ Activate(c, e)
                                   \/ \E u \in Users : Confirm(c, e, u)
         \/ Reject(c) \/ CheckKey(c) \/ AdvanceKey(c) \/ AdvanceConfirmed(c)
         \/ TakeEnrollment(c) \/ InsertKey(c)
  PROVE  Typed'
<1> USE ApprovalAssumption DEF Typed, TypeOK, Rows, Rest
<1>0. call[c] \in CallRecord /\ Controlled(call[c])
  BY DEF Orderly
<1>1. ASSUME NEW e \in Enrollments, SubmitKey(c, e) PROVE Typed'
  <2>1. Sound([Idle EXCEPT !.pc = "reject", !.e = e])
    BY IdleType DEF Sound, Controlled, Idle, CallRecord, Steps, Enrolling, Revocation, Deciding,
       ActsForUser
  <2>2. \A p \in PublicKeys : Sound([Idle EXCEPT !.pc = "check_key", !.e = e, !.pk = p])
    BY IdleType DEF Sound, Controlled, Idle, CallRecord, Steps, Enrolling, Revocation, Deciding,
       ActsForUser
  <2> QED
    BY <1>1, <2>1, <2>2, BeginType DEF SubmitKey, Staged
<1>2. ASSUME NEW e \in Enrollments, Activate(c, e) PROVE Typed'
  <2>1. enrollment[e].pk \in PublicKeys /\ enrollment[e].user \in Users
    BY <1>2 DEF Activate, LiveIn, Staged, EnrollmentRow
  <2>2. Sound([Idle EXCEPT !.pc = "activate", !.e = e,
                           !.pk = enrollment[e].pk, !.user = enrollment[e].user])
    BY <2>1, IdleType DEF Sound, Controlled, Idle, CallRecord, Steps, Enrolling, Revocation,
       Deciding, ActsForUser
  <2> QED
    BY <1>2, <2>2, BeginType DEF Activate, Staged
<1>3. ASSUME NEW e \in Enrollments, NEW u \in Users, Confirm(c, e, u) PROVE Typed'
  <2>1. enrollment[e].pk \in PublicKeys
    BY <1>3 DEF Confirm, LiveIn, Staged
  <2>2. Sound([Idle EXCEPT !.pc = "confirm", !.e = e, !.user = u, !.pk = enrollment[e].pk])
    BY <2>1, IdleType DEF Sound, Controlled, Idle, CallRecord, Steps, Enrolling, Revocation,
       Deciding, ActsForUser
  <2> QED
    BY <1>3, <2>2, BeginType DEF Confirm, Staged
<1>4. CASE Reject(c)
  <2>1. call[c].e \in Enrollments
    BY <1>0, <1>4 DEF Reject, At, Controlled, Enrolling
  <2>2. EnrollmentSound([enrollment[call[c].e] EXCEPT !.st = "gone"])
    BY <2>1 DEF EnrollmentSound, EnrollmentRow
  <2> QED
    BY <1>4, <2>1, <2>2, EnrollmentType, ReturnType DEF Reject
<1>5. CASE CheckKey(c)
  <2>1. Sound([call[c] EXCEPT !.pc = "advance"])
    BY <1>0, <1>5 DEF CheckKey, At, Sound, Controlled, CallRecord, Steps, Enrolling, Revocation,
       Deciding, ActsForUser
  <2> QED
    BY <1>5, <2>1, GotoType, ReturnType DEF CheckKey, Staged
<1>6. CASE AdvanceKey(c)
  <2>1. call[c].e \in Enrollments /\ call[c].pk \in PublicKeys
    BY <1>0, <1>6 DEF AdvanceKey, At, Controlled, Enrolling
  <2> QED
    <3> DEFINE e == call[c].e
               r == [enrollment[e] EXCEPT !.st = "awaiting_confirmation", !.pk = call[c].pk]
    <3>1. EnrollmentSound(r)
      <4>1. enrollment[e] \in EnrollmentRow /\ None \notin PublicKeys
        BY <2>1
      <4>2. r \in EnrollmentRow /\ r.st = "awaiting_confirmation" /\ r.pk = call[c].pk
        BY <2>1, <4>1 DEF EnrollmentRow
      <4> HIDE DEF r
      <4> QED
        BY <2>1, <4>1, <4>2 DEF EnrollmentSound
    <3>2. enrollment' = enrollment \/ enrollment' = [enrollment EXCEPT ![e] = r]
      BY <1>6 DEF AdvanceKey, Advance
    <3> HIDE DEF r
    <3> QED
      BY <1>6, <2>1, <3>1, <3>2, EnrollmentType, ReturnType DEF AdvanceKey, Staged
<1>7. CASE AdvanceConfirmed(c)
  <2>1. call[c].e \in Enrollments /\ call[c].pk \in PublicKeys /\ call[c].user \in Users
    BY <1>0, <1>7 DEF AdvanceConfirmed, At, Controlled, Enrolling, ActsForUser, Steps
  <2> QED
    <3> DEFINE e == call[c].e
               r == [enrollment[e] EXCEPT !.st = "confirmed", !.pk = call[c].pk,
                                          !.user = call[c].user, !.valid = enrollment[e].fresh]
    <3>1. EnrollmentSound(r)
      <4>1. enrollment[e] \in EnrollmentRow /\ None \notin PublicKeys \cup Users
        BY <2>1
      <4>2. /\ r \in EnrollmentRow /\ r.st = "confirmed" /\ r.pk = call[c].pk
            /\ r.user = call[c].user
        BY <2>1, <4>1 DEF EnrollmentRow
      <4> HIDE DEF r
      <4> QED
        BY <2>1, <4>1, <4>2 DEF EnrollmentSound
    <3>2. enrollment' = enrollment \/ enrollment' = [enrollment EXCEPT ![e] = r]
      BY <1>7 DEF AdvanceConfirmed, Advance
    <3> HIDE DEF r
    <3> QED
      BY <1>7, <2>1, <3>1, <3>2, EnrollmentType, ReturnType DEF AdvanceConfirmed, Staged
<1>8. CASE TakeEnrollment(c)
  <2>1. call[c].e \in Enrollments
    BY <1>0, <1>8 DEF TakeEnrollment, At, Controlled, Enrolling
  <2>2. Sound([call[c] EXCEPT !.pc = "insert"])
    BY <1>0, <1>8 DEF TakeEnrollment, At, Sound, Controlled, CallRecord, Steps, Enrolling,
       Revocation, Deciding, ActsForUser
  <2>3. CASE enrollment[call[c].e].st = "gone"
    BY <1>8, <2>3, ReturnType DEF TakeEnrollment, Staged
  <2>4. CASE enrollment[call[c].e].st # "gone"
    <3>1. EnrollmentSound([enrollment[call[c].e] EXCEPT !.st = "gone"])
      BY <2>1 DEF EnrollmentSound, EnrollmentRow
    <3> QED
      BY <1>8, <2>1, <2>2, <2>4, <3>1, EnrollmentType, GotoType DEF TakeEnrollment
  <2> QED
    BY <2>3, <2>4
<1>9. CASE InsertKey(c)
  <2>1. key' \in [Keys -> KeyRow]
    BY <1>0, <1>9 DEF InsertKey, KeyRow, CallRecord
  <2> QED
    BY <1>9, <2>1, ReturnType DEF InsertKey, Staged
<1> QED
  BY <1>1, <1>2, <1>3, <1>4, <1>5, <1>6, <1>7, <1>8, <1>9

\* What a step of revoking does.
LEMMA RevokeTypes ==
  ASSUME Typed, NEW c \in Calls,
         \/ \E k \in Keys : Revoke(c, k)
         \/ ListSessions(c) \/ RemoveKey(c) \/ EndSession(c) \/ EndSessionFails(c)
  PROVE  Typed'
<1> USE ApprovalAssumption DEF Typed, TypeOK, Rows, Rest
<1>0. call[c] \in CallRecord /\ Controlled(call[c])
  BY DEF Orderly
<1>1. ASSUME NEW k \in Keys, Revoke(c, k) PROVE Typed'
  <2>1. \A s \in Sessions \cup {None} : Sound([Idle EXCEPT !.pc = "list", !.k = k, !.s = s])
    BY IdleType DEF Sound, Controlled, Idle, CallRecord, Steps, Enrolling, Revocation, Deciding,
       ActsForUser
  <2> QED
    BY <1>1, <2>1, BeginType DEF Revoke, Staged
<1>2. CASE ListSessions(c)
  <2>1. Sound([call[c] EXCEPT !.pc = "remove", !.list = Linked(call[c].k)])
    BY <1>0, <1>2 DEF ListSessions, Linked, At, Sound, Controlled, CallRecord, Steps, Enrolling,
       Revocation, Deciding, ActsForUser
  <2> QED
    BY <1>2, <2>1, WriteType DEF ListSessions, Staged
<1>3. CASE RemoveKey(c)
  <2>1. call[c].k \in Keys
    BY <1>0, <1>3 DEF RemoveKey, At, Controlled, Revocation
  <2>2. CASE key[call[c].k].st = "live"
    <3>1. key' \in [Keys -> KeyRow] /\ request' \in [Requests -> RequestRow]
      <4>1. [key[call[c].k] EXCEPT !.st = "gone"] \in KeyRow
        BY <2>1 DEF KeyRow
      <4>2. \A q \in Requests : [request[q] EXCEPT !.st = "gone"] \in RequestRow
        BY DEF RequestRow
      <4> QED
        BY <1>3, <2>2, <4>1, <4>2 DEF RemoveKey, DropKey
    <3>2. session' \in [Sessions -> SessionRow]
      <4>1. ASSUME NEW s \in Sessions,
                   NEW b \in BOOLEAN
            PROVE  [session[s] EXCEPT !.link = None, !.kept = b] \in SessionRow
        <5>1. session[s] \in SessionRow
          OBVIOUS
        <5> QED
          BY ONLY <4>1, <5>1 DEF SessionRow
      <4>2. \A s \in Sessions :
              (session[s].kept \/ (s \in call[c].list /\ s = call[c].s)) \in BOOLEAN
        OBVIOUS
      <4>3. session' = Unlinked(call[c].k, call[c].list, call[c].s)
        BY <1>3, <2>2 DEF RemoveKey
      <4> QED
        BY <4>1, <4>2, <4>3 DEF Unlinked
    <3>3. Sound([call[c] EXCEPT !.pc = "end", !.list = @ \ {call[c].s}])
      BY <1>0, <2>1 DEF Sound, Controlled, CallRecord, Steps, Enrolling, Revocation, Deciding,
         ActsForUser
    <3>4. \A q \in Requests : request'[q].st \in {"approved", "completed", "refused"} =>
             request'[q].key # None /\ request'[q].user # None
      BY <1>3, <2>2 DEF RemoveKey, DropKey, RequestRow
    <3>5. /\ call' \in [Calls -> CallRecord] /\ Orderly'
          /\ \A d \in Calls : call'[d].pc \in ActsForUser => call'[d].user # None
      <4>1. call' = [call EXCEPT ![c] = [call[c] EXCEPT !.pc = "end", !.list = @ \ {call[c].s}]]
        BY <1>3, <2>2 DEF RemoveKey
      <4> QED
        BY <3>3, <4>1, WriteType
    <3> QED
      BY <1>3, <3>1, <3>2, <3>4, <3>5 DEF RemoveKey, Staged
  <2>3. CASE key[call[c].k].st # "live"
    BY <1>3, <2>3, ReturnType DEF RemoveKey, Staged
  <2> QED
    BY <2>2, <2>3
<1>4. CASE EndSession(c)
  <2>1. CASE call[c].list = {}
    BY <1>4, <2>1, ReturnType DEF EndSession, Staged
  <2>2. CASE call[c].list # {}
    <3>1. PICK s \in call[c].list : /\ session' = [session EXCEPT ![s].st = "ended"]
                                    /\ call' = [call EXCEPT ![c].list = @ \ {s}]
      BY <1>4, <2>2 DEF EndSession
    <3>2. Sound([call[c] EXCEPT !.list = @ \ {s}])
      BY <1>0 DEF Sound, Controlled, CallRecord
    <3>3. session' \in [Sessions -> SessionRow]
      BY <3>1 DEF SessionRow
    <3> QED
      BY <1>4, <3>1, <3>2, <3>3, WriteType DEF EndSession, Staged
  <2> QED
    BY <2>1, <2>2
<1>5. CASE EndSessionFails(c)
  <2>1. call[c].list \subseteq Sessions
    BY <1>0 DEF CallRecord
  <2> QED
    BY <1>5, <2>1, ReturnType, FaultType DEF EndSessionFails, Staged
<1> QED
  BY <1>1, <1>2, <1>3, <1>4, <1>5

\* What a step of a request, of the decision on it and of the sign-in does.
LEMMA SignInTypes ==
  ASSUME Typed, NEW c \in Calls,
         \/ \E k \in Keys, q \in Requests : Decide(c, q, k)
         \/ Approve(c) \/ Deny(c)
         \/ \E q \in Requests : Complete(c, q)
         \/ TakeRequest(c) \/ RefuseAnotherBrowser(c) \/ Admit(c) \/ Establish(c)
         \/ LinkSession(c) \/ LinkFails(c) \/ UndoSession(c) \/ UndoFails(c)
  PROVE  Typed'
<1> USE ApprovalAssumption DEF Typed, TypeOK, Rows, Rest
<1>0. call[c] \in CallRecord /\ Controlled(call[c])
  BY DEF Orderly
<1>1. ASSUME NEW k \in Keys, NEW q \in Requests, Decide(c, q, k) PROVE Typed'
  <2>1. key[k].user \in Users
    BY <1>1 DEF Decide
  <2>2. \A pc \in {"approve", "deny"} :
          Sound([Idle EXCEPT !.pc = pc, !.q = q, !.k = k, !.user = key[k].user])
    BY <2>1, IdleType DEF Sound, Controlled, Idle, CallRecord, Steps, Enrolling, Revocation,
       Deciding, ActsForUser
  <2> QED
    BY <1>1, <2>2, BeginType DEF Decide, Staged
<1>2. CASE Approve(c)
  <2>1. call[c].q \in Requests /\ call[c].k \in Keys /\ call[c].user \in Users
    BY <1>0, <1>2 DEF Approve, At, Controlled, Deciding, ActsForUser, Steps
  <2> DEFINE r == [request[call[c].q] EXCEPT !.st = "approved", !.key = call[c].k,
                                             !.user = call[c].user,
                                             !.valid = request[call[c].q].fresh]
  <2>2. request' = request \/ request' = [request EXCEPT ![call[c].q] = r]
    BY <1>2 DEF Approve
  <2>3. request[call[c].q] \in RequestRow
    BY <2>1
  <2>4. r \in RequestRow /\ r.key # None /\ r.user # None
    <3>1. r \in RequestRow /\ r.key = call[c].k /\ r.user = call[c].user
      BY <2>1, <2>3 DEF RequestRow
    <3> QED
      BY <2>1, <3>1
  <2> HIDE DEF r
  <2>5. /\ request' \in [Requests -> RequestRow]
        /\ \A q \in Requests : request'[q].st \in {"approved", "completed", "refused"} =>
              request'[q].key # None /\ request'[q].user # None
    BY <2>1, <2>2, <2>4
  <2> QED
    BY <1>2, <2>5, ReturnType DEF Approve, Staged
<1>3. ASSUME NEW from, NEW to, NEW q, Transition(q, from, to),
             \/ to \in {"completed", "refused"} /\ from = "approved"
             \/ to = "denied"
      PROVE  /\ request' \in [Requests -> RequestRow]
             /\ \A p \in Requests : request'[p].st \in {"approved", "completed", "refused"} =>
                  request'[p].key # None /\ request'[p].user # None
  <2>1. CASE request' = request
    BY <2>1
  <2>2. CASE q \in Requests /\ request[q].st = from /\ request' = [request EXCEPT ![q].st = to]
    <3>1. request[q] \in RequestRow
      BY <2>2
    <3> DEFINE r == [request[q] EXCEPT !.st = to]
    <3>2. /\ r \in RequestRow /\ r.st = to /\ r.key = request[q].key /\ r.user = request[q].user
      BY <1>3, <3>1 DEF RequestRow
    <3>3. request' = [request EXCEPT ![q] = r]
      BY <2>2
    <3> HIDE DEF r
    <3> QED
      BY <1>3, <2>2, <3>2, <3>3
  <2>3. CASE q \notin Requests /\ request' = [request EXCEPT ![q].st = to]
    BY <2>3
  <2> QED
    BY <1>3, <2>1, <2>2, <2>3 DEF Transition
<1>4. CASE Deny(c)
  BY <1>3, <1>4, ReturnType DEF Deny, Staged
<1>5. ASSUME NEW q \in Requests, Complete(c, q) PROVE Typed'
  <2>1. request[q].key \in Keys /\ request[q].user \in Users
    BY <1>5 DEF Complete, RequestRow
  <2>2. \A pc \in {"complete", "refuse"} :
          Sound([Idle EXCEPT !.pc = pc, !.q = q, !.k = request[q].key, !.user = request[q].user])
    BY <2>1, IdleType DEF Sound, Controlled, Idle, CallRecord, Steps, Enrolling, Revocation,
       Deciding, ActsForUser
  <2> QED
    BY <1>5, <2>2, BeginType DEF Complete, Staged
<1>6. CASE TakeRequest(c)
  <2>1. Sound([call[c] EXCEPT !.pc = "admit"])
    BY <1>0, <1>6 DEF TakeRequest, At, Sound, Controlled, CallRecord, Steps, Enrolling, Revocation,
       Deciding, ActsForUser
  <2>2. /\ call' \in [Calls -> CallRecord] /\ Orderly'
        /\ \A d \in Calls : call'[d].pc \in ActsForUser => call'[d].user # None
    BY <1>6, <2>1, GotoType, ReturnType DEF TakeRequest
  <2> QED
    BY <1>3, <1>6, <2>2 DEF TakeRequest, Staged
<1>7. CASE RefuseAnotherBrowser(c)
  BY <1>3, <1>7, ReturnType DEF RefuseAnotherBrowser, Staged
<1>8. CASE Admit(c)
  <2>1. Sound([call[c] EXCEPT !.pc = "establish"])
    BY <1>0, <1>8 DEF Admit, At, Sound, Controlled, CallRecord, Steps, Enrolling, Revocation,
       Deciding, ActsForUser
  <2> QED
    BY <1>8, <2>1, GotoType, ReturnType DEF Admit, Staged
<1>9. CASE Establish(c)
  <2>1. PICK s \in Sessions :
          /\ session' = [session EXCEPT ![s] =
                [st |-> "live", user |-> call[c].user, link |-> None,
                 request |-> call[c].q, by |-> call[c].k, kept |-> FALSE]]
          /\ call' = [call EXCEPT ![c].pc = "link", ![c].s = s]
    BY <1>9 DEF Establish
  <2>2. session' \in [Sessions -> SessionRow]
    BY <1>0, <2>1 DEF SessionRow, CallRecord
  <2>3. Sound([call[c] EXCEPT !.pc = "link", !.s = s])
    BY <1>0, <1>9 DEF Establish, At, Sound, Controlled, CallRecord, Steps, Enrolling, Revocation,
       Deciding, ActsForUser
  <2>4. /\ call' \in [Calls -> CallRecord] /\ Orderly'
        /\ \A d \in Calls : call'[d].pc \in ActsForUser => call'[d].user # None
    <3>1. call' = [call EXCEPT ![c] = [call[c] EXCEPT !.pc = "link", !.s = s]]
      BY <2>1
    <3> QED
      BY <2>3, <3>1, WriteType
  <2> QED
    BY <1>9, <2>2, <2>4 DEF Establish, Staged
<1>10. ASSUME At(c, "link") PROVE Sound([call[c] EXCEPT !.pc = "undo"])
  BY <1>0, <1>10 DEF At, Sound, Controlled, CallRecord, Steps, Enrolling, Revocation, Deciding,
     ActsForUser
<1>11. CASE LinkSession(c)
  <2>1. call[c].s \in Sessions /\ call[c].k \in Keys
    BY <1>0, <1>11 DEF LinkSession, At, Controlled, Deciding
  <2>2. [session[call[c].s] EXCEPT !.link = call[c].k] \in SessionRow
    BY <2>1 DEF SessionRow
  <2>3. session' \in [Sessions -> SessionRow] /\ windowed' \in SUBSET Sessions
    BY <1>11, <2>1, <2>2 DEF LinkSession
  <2>4. /\ call' \in [Calls -> CallRecord] /\ Orderly'
        /\ \A d \in Calls : call'[d].pc \in ActsForUser => call'[d].user # None
    BY <1>10, <1>11, GotoType, ReturnType DEF LinkSession
  <2> QED
    BY <1>11, <2>3, <2>4 DEF LinkSession, Staged
<1>12. CASE LinkFails(c)
  BY <1>10, <1>12, GotoType, FaultType DEF LinkFails, Staged
<1>13. CASE UndoSession(c)
  <2>1. session' \in [Sessions -> SessionRow]
    BY <1>13 DEF UndoSession, SessionRow
  <2> QED
    BY <1>13, <2>1, ReturnType DEF UndoSession, Staged
<1>14. CASE UndoFails(c)
  <2>1. call[c].s \in Sessions
    BY <1>0, <1>14 DEF UndoFails, At, Controlled
  <2> QED
    BY <1>14, <2>1, ReturnType, FaultType DEF UndoFails, Staged
<1> QED
  BY <1>1, <1>2, <1>4, <1>5, <1>6, <1>7, <1>8, <1>9, <1>11, <1>12, <1>13, <1>14

\* Time, and what happens elsewhere.
LEMMA OutsideTypes ==
  ASSUME Typed,
         \/ \E e \in Enrollments : StartEnrollment(e) \/ ExpireEnrollment(e)
         \/ \E q \in Requests : StartRequest(q) \/ ExpireRequest(q)
         \/ ExpireCodes
         \/ \E s \in Sessions : SignOut(s)
         \/ \E u \in Users : SetMember(u)
  PROVE  Typed'
<1> USE ApprovalAssumption DEF Typed, TypeOK, Rows, Rest
<1>1. ASSUME NEW e \in Enrollments, StartEnrollment(e) PROVE Typed'
  <2>1. EnrollmentSound([enrollment[e] EXCEPT !.st = "awaiting_key"])
    BY DEF EnrollmentSound, EnrollmentRow
  <2> QED
    BY <1>1, <2>1, EnrollmentType DEF StartEnrollment, Orderly
<1>2. ASSUME NEW e \in Enrollments, ExpireEnrollment(e) PROVE Typed'
  <2>0. enrollment[e] \in EnrollmentRow /\ EnrollmentSound(enrollment[e])
    BY DEF EnrollmentSound, Staged
  <2>1. EnrollmentSound([enrollment[e] EXCEPT !.st = "gone"])
    BY <2>0 DEF EnrollmentSound, EnrollmentRow
  <2>2. EnrollmentSound([enrollment[e] EXCEPT !.fresh = FALSE, !.valid = FALSE])
    BY <2>0 DEF EnrollmentSound, EnrollmentRow
  <2> QED
    BY <1>2, <2>1, <2>2, EnrollmentType DEF ExpireEnrollment, Orderly
<1>3. ASSUME NEW q \in Requests, StartRequest(q) PROVE Typed'
  BY <1>3 DEF StartRequest, RequestRow, Orderly, Staged
<1>4. ASSUME NEW q \in Requests, ExpireRequest(q) PROVE Typed'
  <2>1. /\ [request[q] EXCEPT !.st = "gone"] \in RequestRow
        /\ [request[q] EXCEPT !.fresh = FALSE, !.valid = FALSE] \in RequestRow
    BY DEF RequestRow
  <2>2. request' \in [Requests -> RequestRow]
    BY <1>4, <2>1 DEF ExpireRequest
  <2>3. \A p \in Requests : request'[p].st \in {"approved", "completed", "refused"} =>
          request'[p].key # None /\ request'[p].user # None
    BY <1>4 DEF ExpireRequest, RequestRow
  <2> QED
    BY <1>4, <2>2, <2>3 DEF ExpireRequest, Orderly, Staged
<1>5. CASE ExpireCodes
  <2>1. ASSUME NEW e \in Enrollments, enrollment' = [enrollment EXCEPT ![e].valid = FALSE]
        PROVE  /\ enrollment' \in [Enrollments -> EnrollmentRow] /\ Staged'
               /\ \A d \in Enrollments : enrollment'[d].st = "confirmed" =>
                     enrollment'[d].pk # None /\ enrollment'[d].user # None
    <3>1. EnrollmentSound([enrollment[e] EXCEPT !.valid = FALSE])
      BY DEF EnrollmentSound, EnrollmentRow, Staged
    <3> QED
      BY <2>1, <3>1, EnrollmentType
  <2>2. ASSUME NEW q \in Requests, request' = [request EXCEPT ![q].valid = FALSE]
        PROVE  /\ request' \in [Requests -> RequestRow]
               /\ \A p \in Requests : request'[p].st \in {"approved", "completed", "refused"} =>
                    request'[p].key # None /\ request'[p].user # None
    BY <2>2 DEF RequestRow
  <2>3. CASE UNCHANGED request
    BY <1>5, <2>1, <2>3 DEF ExpireCodes, Orderly, Staged
  <2>4. CASE UNCHANGED enrollment
    BY <1>5, <2>2, <2>4 DEF ExpireCodes, Orderly, Staged
  <2> QED
    BY <1>5, <2>3, <2>4 DEF ExpireCodes
<1>6. ASSUME NEW s \in Sessions, SignOut(s) PROVE Typed'
  BY <1>6 DEF SignOut, SessionRow, Orderly, Staged
<1>7. ASSUME NEW u \in Users, SetMember(u) PROVE Typed'
  BY <1>7 DEF SetMember, Orderly, Staged
<1> QED
  BY <1>1, <1>2, <1>3, <1>4, <1>5, <1>6, <1>7

LEMMA InitTypes == Init => Typed
<1> SUFFICES ASSUME Init PROVE Typed
  OBVIOUS
<1>1. call \in [Calls -> CallRecord] /\ Orderly /\ \A c \in Calls : call[c].pc \notin ActsForUser
  BY IdleType DEF Init, Sound, Orderly, ActsForUser, Idle
<1>2. /\ enrollment \in [Enrollments -> EnrollmentRow] /\ key \in [Keys -> KeyRow]
      /\ request \in [Requests -> RequestRow] /\ session \in [Sessions -> SessionRow]
  BY DEF Init, EnrollmentRow, KeyRow, RequestRow, SessionRow
<1>3. member \in SUBSET Users /\ windowed = {} /\ abandoned = {} /\ faults \in 0..MaxFaults
  BY ApprovalAssumption DEF Init
<1>4. /\ \A e \in Enrollments : enrollment[e].st = "new"
      /\ \A q \in Requests : request[q].st = "new"
  BY DEF Init
<1> QED
  BY <1>1, <1>2, <1>3, <1>4 DEF Typed, TypeOK, Staged

LEMMA NextTypes == Typed /\ [Next]_vars => Typed'
<1> SUFFICES ASSUME Typed, [Next]_vars PROVE Typed'
  OBVIOUS
<1>1. CASE UNCHANGED vars
  BY <1>1 DEF vars, Typed, TypeOK, Orderly, Staged
<1>2. ASSUME NEW c \in Calls, Handler(c) PROVE Typed'
  BY <1>2, EnrollTypes, RevokeTypes, SignInTypes DEF Handler
<1> QED
  BY <1>1, <1>2, OutsideTypes DEF Next

LEMMA AlwaysTyped == Spec => []Typed
  BY InitTypes, NextTypes, PTL DEF Spec

(* The rows of the approval tables and what the handlers hold keep their    *)
(* types: a confirmed enrollment has a key and an owner, an approved        *)
(* request a key and a user, and a handler that acts for a user knows whom. *)
THEOREM Typing == Spec => []TypeOK
<1>1. Typed => TypeOK
  BY DEF Typed
<1> QED
  BY <1>1, AlwaysTyped, PTL

-----------------------------------------------------------------------------
(* What a step may do, whichever it is.                                    *)

\* A handler leaves the others' records alone, and goes on in one of these ways.
LEMMA StepTo ==
  ASSUME Typed, NEW c \in Calls, Handler(c)
  PROVE  /\ \A d \in Calls : d # c => call'[d] = call[d]
         /\ \/ call'[c] = Idle
            \/ call'[c].pc \in {"reject", "check_key", "advance", "confirm", "list"}
            \/ (\E e \in Enrollments : Activate(c, e)) /\ call'[c].pc = "activate"
            \/ /\ TakeEnrollment(c) /\ enrollment[call[c].e].st # "gone"
               /\ call'[c] = [call[c] EXCEPT !.pc = "insert"]
            \/ ListSessions(c) /\ call'[c].pc = "remove"
            \/ (RemoveKey(c) \/ EndSession(c)) /\ call'[c].pc = "end"
            \/ /\ \E k \in Keys, q \in Requests : Decide(c, q, k)
               /\ call'[c].pc \in {"approve", "deny"}
            \/ (\E q \in Requests : Complete(c, q)) /\ call'[c].pc \in {"complete", "refuse"}
            \/ /\ TakeRequest(c) /\ request[call[c].q].st = "approved"
               /\ call'[c] = [call[c] EXCEPT !.pc = "admit"]
            \/ Admit(c) /\ call'[c] = [call[c] EXCEPT !.pc = "establish"]
            \/ Establish(c) /\ call'[c].pc = "link"
            \/ LinkSession(c) /\ call'[c] = [call[c] EXCEPT !.pc = "undo"]
            \/ LinkFails(c) /\ call'[c] = [call[c] EXCEPT !.pc = "undo"]
<1> USE DEF Typed, TypeOK, Begin, Goto, Return, At
<1>0. call[c] \in CallRecord /\ call \in [Calls -> CallRecord]
  OBVIOUS
<1>1. ASSUME NEW e \in Enrollments, SubmitKey(c, e)
      PROVE  /\ \A d \in Calls : d # c => call'[d] = call[d]
             /\ call'[c].pc \in {"reject", "check_key"}
  BY <1>1 DEF SubmitKey, Idle
<1>2. ASSUME NEW e \in Enrollments, Activate(c, e)
      PROVE  (\A d \in Calls : d # c => call'[d] = call[d]) /\ call'[c].pc = "activate"
  BY <1>2 DEF Activate, Idle
<1>3. ASSUME NEW e \in Enrollments, NEW u \in Users, Confirm(c, e, u)
      PROVE  (\A d \in Calls : d # c => call'[d] = call[d]) /\ call'[c].pc = "confirm"
  BY <1>3 DEF Confirm, Idle
<1>4. CASE Reject(c) \/ AdvanceKey(c) \/ AdvanceConfirmed(c) \/ InsertKey(c) \/ EndSessionFails(c)
           \/ Approve(c) \/ Deny(c) \/ RefuseAnotherBrowser(c) \/ UndoSession(c) \/ UndoFails(c)
  BY <1>4 DEF Reject, AdvanceKey, AdvanceConfirmed, InsertKey, EndSessionFails, Approve, Deny,
     RefuseAnotherBrowser, UndoSession, UndoFails
<1>5. CASE CheckKey(c)
  BY <1>0, <1>5 DEF CheckKey, CallRecord
<1>6. CASE TakeEnrollment(c)
  BY <1>6 DEF TakeEnrollment
<1>7. ASSUME NEW k \in Keys, Revoke(c, k)
      PROVE  (\A d \in Calls : d # c => call'[d] = call[d]) /\ call'[c].pc = "list"
  BY <1>7 DEF Revoke, Idle
<1>8. CASE ListSessions(c)
  BY <1>0, <1>8 DEF ListSessions, CallRecord
<1>9. CASE RemoveKey(c)
  BY <1>0, <1>9 DEF RemoveKey, CallRecord
<1>10. CASE EndSession(c)
  <2>1. CASE call[c].list = {}
    BY <1>10, <2>1 DEF EndSession
  <2>2. ASSUME NEW s \in call[c].list, call' = [call EXCEPT ![c].list = @ \ {s}]
        PROVE  (\A d \in Calls : d # c => call'[d] = call[d]) /\ call'[c].pc = call[c].pc
    BY <1>0, <2>2 DEF CallRecord
  <2> QED
    BY <1>10, <2>1, <2>2 DEF EndSession
<1>11. ASSUME NEW k \in Keys, NEW q \in Requests, Decide(c, q, k)
      PROVE  /\ \A d \in Calls : d # c => call'[d] = call[d]
             /\ call'[c].pc \in {"approve", "deny"}
  BY <1>11 DEF Decide, Idle
<1>12. ASSUME NEW q \in Requests, Complete(c, q)
      PROVE  /\ \A d \in Calls : d # c => call'[d] = call[d]
             /\ call'[c].pc \in {"complete", "refuse"}
  BY <1>12 DEF Complete, Idle
<1>13. CASE TakeRequest(c)
  BY <1>13 DEF TakeRequest
<1>14. CASE Admit(c)
  BY <1>14 DEF Admit
<1>15. CASE Establish(c)
  <2>1. ASSUME NEW s \in Sessions, call' = [call EXCEPT ![c].pc = "link", ![c].s = s]
        PROVE  (\A d \in Calls : d # c => call'[d] = call[d]) /\ call'[c].pc = "link"
    BY <1>0, <2>1 DEF CallRecord
  <2> QED
    BY <1>15, <2>1 DEF Establish
<1>16. CASE LinkSession(c)
  BY <1>16 DEF LinkSession
<1>17. CASE LinkFails(c)
  BY <1>17 DEF LinkFails
<1> QED
  BY <1>1, <1>2, <1>3, <1>4, <1>5, <1>6, <1>7, <1>8, <1>9, <1>10, <1>11, <1>12, <1>13, <1>14,
     <1>15, <1>16, <1>17 DEF Handler

\* Time and what happens elsewhere touch no handler, no key and no history.
LEMMA OutsideShape ==
  ASSUME \/ UNCHANGED vars
         \/ \E e \in Enrollments : StartEnrollment(e) \/ ExpireEnrollment(e)
         \/ \E q \in Requests : StartRequest(q) \/ ExpireRequest(q)
         \/ ExpireCodes
         \/ \E s \in Sessions : SignOut(s)
         \/ \E u \in Users : SetMember(u)
  PROVE  UNCHANGED <<call, key, windowed, abandoned>>
  BY DEF vars, StartEnrollment, ExpireEnrollment, StartRequest, ExpireRequest, ExpireCodes, SignOut,
     SetMember, Rows, Rest

\* A step of a handler, or of nobody's.
LEMMA Stepping ==
  ASSUME [Next]_vars
  PROVE  (\E c \in Calls : Handler(c)) \/ UNCHANGED <<call, key, windowed, abandoned>>
  BY OutsideShape DEF Next

\* A confirmed enrollment keeps its key and its owner, and a deleted one stays deleted.
LEMMA EnrollmentShape ==
  ASSUME Typed, [Next]_vars, NEW e \in Enrollments, enrollment[e].st \in {"confirmed", "gone"}
  PROVE  /\ enrollment'[e].pk = enrollment[e].pk /\ enrollment'[e].user = enrollment[e].user
         /\ enrollment'[e].st \in {enrollment[e].st, "gone"}
<1> USE DEF Typed, TypeOK, Rows, Rest
<1>0. enrollment[e] \in EnrollmentRow /\ enrollment \in [Enrollments -> EnrollmentRow]
  OBVIOUS
<1>1. CASE UNCHANGED enrollment
  BY <1>1
<1>2. ASSUME NEW d \in Enrollments, StartEnrollment(d) PROVE enrollment'[e] = enrollment[e]
  BY <1>0, <1>2 DEF StartEnrollment
<1>3. ASSUME NEW d \in Enrollments, ExpireEnrollment(d)
      PROVE  /\ enrollment'[e].pk = enrollment[e].pk /\ enrollment'[e].user = enrollment[e].user
             /\ enrollment'[e].st \in {enrollment[e].st, "gone"}
  BY <1>0, <1>3 DEF ExpireEnrollment, EnrollmentRow
<1>4. CASE ExpireCodes
  BY <1>0, <1>4 DEF ExpireCodes, EnrollmentRow
<1>5. ASSUME NEW c \in Calls, AdvanceKey(c) \/ AdvanceConfirmed(c)
      PROVE  enrollment'[e] = enrollment[e]
  BY <1>0, <1>5 DEF AdvanceKey, AdvanceConfirmed, Advance
<1>6. ASSUME NEW c \in Calls, Reject(c) \/ TakeEnrollment(c)
      PROVE  /\ enrollment'[e].pk = enrollment[e].pk /\ enrollment'[e].user = enrollment[e].user
             /\ enrollment'[e].st \in {enrollment[e].st, "gone"}
  BY <1>0, <1>6 DEF Reject, TakeEnrollment, EnrollmentRow
<1>7. ASSUME NEW c \in Calls, Handler(c)
      PROVE  UNCHANGED enrollment \/ AdvanceKey(c) \/ AdvanceConfirmed(c) \/ Reject(c)
             \/ TakeEnrollment(c)
  BY <1>7 DEF Handler, SubmitKey, Activate, Confirm, CheckKey, InsertKey, Revoke, Decide, ListSessions,
     RemoveKey, EndSession, EndSessionFails, Approve, Deny, Complete, TakeRequest,
     RefuseAnotherBrowser, Admit, Establish, LinkSession, LinkFails, UndoSession, UndoFails
<1>8. \/ UNCHANGED vars
      \/ \E q \in Requests : StartRequest(q) \/ ExpireRequest(q)
      \/ \E s \in Sessions : SignOut(s)
      \/ \E u \in Users : SetMember(u)
      => UNCHANGED enrollment
  BY DEF vars, StartRequest, ExpireRequest, SignOut, SetMember
<1> QED
  BY <1>1, <1>2, <1>3, <1>4, <1>5, <1>6, <1>7, <1>8 DEF Next

\* A key that was inserted keeps what it was inserted with, and a deleted one stays deleted.
LEMMA KeyShape ==
  ASSUME Typed, [Next]_vars, NEW k \in Keys
  PROVE  \/ key'[k] = key[k]
         \/ key[k].st = "live" /\ key'[k] = [key[k] EXCEPT !.st = "gone"]
         \/ /\ key[k].st = "new"
            /\ \E c \in Calls : InsertKey(c)
<1> USE DEF Typed, TypeOK, Rows, Rest
<1>1. ASSUME NEW c \in Calls, Handler(c)
      PROVE  UNCHANGED key \/ InsertKey(c) \/ RemoveKey(c)
  BY <1>1 DEF Handler, SubmitKey, Activate, Confirm, CheckKey, Revoke, Decide, ListSessions, Reject,
     AdvanceKey, AdvanceConfirmed, TakeEnrollment,
     EndSession, EndSessionFails, Approve, Deny, Complete, TakeRequest,
     RefuseAnotherBrowser, Admit, Establish, LinkSession, LinkFails, UndoSession, UndoFails
<1>2. ASSUME NEW c \in Calls, InsertKey(c) PROVE key'[k] = key[k] \/ key[k].st = "new"
  BY <1>2 DEF InsertKey
<1>3. ASSUME NEW c \in Calls, RemoveKey(c)
      PROVE  \/ key'[k] = key[k]
             \/ key[k].st = "live" /\ key'[k] = [key[k] EXCEPT !.st = "gone"]
  BY <1>3 DEF RemoveKey, DropKey
<1> QED
  BY <1>1, <1>2, <1>3, Stepping

-----------------------------------------------------------------------------
(* A key is the one its owner confirmed.                                   *)

\* Who activates an enrollment holds the key and the owner that were confirmed, and only
\* who deleted it goes on to insert a key.
Activating(c) ==
  call[c].pc \in {"activate", "insert"}
  => LET e == call[c].e IN
     /\ enrollment[e].st \in {"confirmed", "gone"}
     /\ enrollment[e].pk = call[c].pk /\ enrollment[e].user = call[c].user
     /\ call[c].pc = "insert" =>
          /\ enrollment[e].st = "gone"
          /\ \A k \in Keys : key[k].st # "new" => key[k].from # e

KeyInv ==
  /\ \A c \in Calls : Activating(c)
  /\ \A c, d \in Calls : At(c, "insert") /\ At(d, "insert") /\ call[c].e = call[d].e => c = d
  /\ \A k \in Keys : key[k].st # "new" => key[k].from \in Enrollments
  /\ KeyAsConfirmed

\* Steps that neither start an activation, nor take an enrollment, nor insert a key.
LEMMA KeyStays ==
  ASSUME Typed, KeyInv, [Next]_vars,
         \A c \in Calls : call'[c].pc \in {"activate", "insert"} => call'[c] = call[c],
         \A k \in Keys : \/ key'[k] = key[k]
                         \/ key[k].st = "live" /\ key'[k] = [key[k] EXCEPT !.st = "gone"]
  PROVE  KeyInv'
<1>1. \A k \in Keys : /\ key'[k].st # "new" => key[k].st # "new"
                      /\ key'[k].st = "live" => key[k].st = "live"
                      /\ key'[k].from = key[k].from /\ key'[k].user = key[k].user
                      /\ key'[k].pk = key[k].pk
  BY DEF Typed, TypeOK, KeyRow
<1>2. \A c \in Calls : call[c].pc \in {"activate", "insert"} => call[c].e \in Enrollments
  BY DEF Typed, Orderly, Controlled, Enrolling
<1>3. \A c \in Calls : Activating(c)'
  BY <1>1, <1>2, EnrollmentShape DEF KeyInv, Activating
<1>4. /\ \A c, d \in Calls : At(c, "insert")' /\ At(d, "insert")' /\ call'[c].e = call'[d].e => c = d
      /\ \A k \in Keys : key'[k].st # "new" => key'[k].from \in Enrollments
  BY <1>1 DEF KeyInv, At
<1>5. KeyAsConfirmed'
  BY <1>1, EnrollmentShape DEF KeyInv, KeyAsConfirmed
<1> QED
  BY <1>3, <1>4, <1>5 DEF KeyInv

LEMMA KeyStep == Typed /\ KeyInv /\ [Next]_vars => KeyInv'
<1> SUFFICES ASSUME Typed, KeyInv, [Next]_vars PROVE KeyInv'
  OBVIOUS
<1> USE DEF Rows, Rest
<1>0. /\ call \in [Calls -> CallRecord] /\ enrollment \in [Enrollments -> EnrollmentRow]
      /\ key \in [Keys -> KeyRow]
      /\ \A c \in Calls : call[c].pc \in {"activate", "insert"} => call[c].e \in Enrollments
  BY DEF Typed, TypeOK, Orderly, Controlled, Enrolling
<1>1. ASSUME NEW c \in Calls, InsertKey(c) PROVE KeyInv'
  <2>1. /\ call'[c] = Idle /\ (\A d \in Calls : d # c => call'[d] = call[d])
        /\ enrollment' = enrollment /\ call[c].pc = "insert"
    BY <1>0, <1>1 DEF InsertKey, Return, At
  <2>2. CASE UNCHANGED key
    BY <2>1, <2>2, KeyStays DEF Idle
  <2>3. CASE key' # key
    <3>1. PICK k \in Keys :
            /\ key[k].st = "new" /\ LiveKeys(call[c].pk) = {}
            /\ key' = [key EXCEPT ![k] = [st |-> "live", pk |-> call[c].pk, user |-> call[c].user,
                                          from |-> call[c].e]]
      BY <1>1, <2>3 DEF InsertKey
    <3>2. /\ key'[k].st = "live" /\ key'[k].pk = call[c].pk /\ key'[k].user = call[c].user
          /\ key'[k].from = call[c].e
          /\ \A l \in Keys : l # k => key'[l] = key[l]
      BY <1>0, <3>1
    <3>3. /\ enrollment[call[c].e].st = "gone" /\ enrollment[call[c].e].pk = call[c].pk
          /\ enrollment[call[c].e].user = call[c].user
          /\ \A l \in Keys : key[l].st # "new" => key[l].from # call[c].e
      BY <2>1 DEF KeyInv, Activating
    <3>4. ASSUME NEW d \in Calls PROVE Activating(d)'
      <4>1. CASE d = c
        BY <2>1, <4>1 DEF Activating, Idle
      <4>2. CASE d # c
        <5>1. call[d].pc = "insert" => call[d].e # call[c].e
          BY <2>1, <4>2 DEF KeyInv, At
        <5> QED
          BY <2>1, <3>2, <4>2, <5>1 DEF KeyInv, Activating
      <4> QED
        BY <4>1, <4>2
    <3>5. /\ \A d, b \in Calls :
               At(d, "insert")' /\ At(b, "insert")' /\ call'[d].e = call'[b].e => d = b
          /\ \A l \in Keys : key'[l].st # "new" => key'[l].from \in Enrollments
      BY <1>0, <2>1, <3>2 DEF KeyInv, At, Idle
    <3>6. KeyAsConfirmed'
      <4>1. \A l \in Keys : key[l].st = "live" => key[l].pk # call[c].pk
        BY <3>1 DEF LiveKeys
      <4>2. ASSUME NEW i \in Keys, NEW l \in Keys, key'[i].st # "new"
            PROVE  LET e == key'[i].from IN
                   /\ enrollment'[e].st = "gone"
                   /\ key'[i].user = enrollment'[e].user /\ key'[i].pk = enrollment'[e].pk
                   /\ i # l /\ key'[l].st # "new" => key'[l].from # e
                   /\ i # l /\ key'[i].st = "live" /\ key'[l].st = "live" => key'[i].pk # key'[l].pk
        <5>1. CASE i = k
          BY <2>1, <3>2, <3>3, <4>1, <5>1
        <5>2. CASE i # k
          BY <2>1, <3>2, <3>3, <4>1, <4>2, <5>2 DEF KeyInv, KeyAsConfirmed
        <5> QED
          BY <5>1, <5>2
      <4> QED
        BY <4>2 DEF KeyAsConfirmed
    <3> QED
      BY <3>4, <3>5, <3>6 DEF KeyInv
  <2> QED
    BY <2>2, <2>3
<1>2. ASSUME NEW c \in Calls, TakeEnrollment(c), enrollment[call[c].e].st # "gone" PROVE KeyInv'
  <2> DEFINE e == call[c].e
  <2>1. /\ call[c].pc = "activate" /\ e \in Enrollments /\ key' = key
        /\ call'[c].pc = "insert" /\ call'[c].e = e
        /\ call'[c].pk = call[c].pk /\ call'[c].user = call[c].user
        /\ \A d \in Calls : d # c => call'[d] = call[d]
        /\ enrollment'[e].st = "gone" /\ enrollment'[e].pk = enrollment[e].pk
        /\ enrollment'[e].user = enrollment[e].user
        /\ \A d \in Enrollments : d # e => enrollment'[d] = enrollment[d]
    BY <1>0, <1>2 DEF TakeEnrollment, At, Goto, CallRecord, EnrollmentRow
  <2>2. \A k \in Keys : key[k].st # "new" => key[k].from # e
    BY <1>2 DEF KeyInv, KeyAsConfirmed
  <2>3. \A d \in Calls : call[d].pc = "insert" => call[d].e # e
    BY <1>2 DEF KeyInv, Activating
  <2>4. ASSUME NEW d \in Calls PROVE Activating(d)'
    <3>1. CASE d = c
      BY <2>1, <2>2, <3>1 DEF KeyInv, Activating
    <3>2. CASE d # c
      BY <1>0, <2>1, <3>2, EnrollmentShape DEF KeyInv, Activating
    <3> QED
      BY <3>1, <3>2
  <2>5. KeyAsConfirmed'
    BY <2>1, EnrollmentShape DEF KeyInv, KeyAsConfirmed
  <2>6. /\ \A d, b \in Calls :
             At(d, "insert")' /\ At(b, "insert")' /\ call'[d].e = call'[b].e => d = b
        /\ \A k \in Keys : key'[k].st # "new" => key'[k].from \in Enrollments
    BY <2>1, <2>3 DEF KeyInv, At
  <2> QED
    BY <2>4, <2>5, <2>6 DEF KeyInv
<1>3. ASSUME NEW c \in Calls, NEW e \in Enrollments, Activate(c, e) PROVE KeyInv'
  <2>1. /\ call'[c].pc = "activate" /\ call'[c].e = e /\ call'[c].pk = enrollment[e].pk
        /\ call'[c].user = enrollment[e].user /\ enrollment[e].st = "confirmed"
        /\ \A d \in Calls : d # c => call'[d] = call[d]
        /\ UNCHANGED <<key, enrollment>>
    BY <1>0, <1>3 DEF Activate, LiveIn, Begin, Idle
  <2>2. ASSUME NEW d \in Calls PROVE Activating(d)'
    BY <2>1 DEF KeyInv, Activating
  <2> QED
    BY <2>1, <2>2 DEF KeyInv, KeyAsConfirmed, At
<1>4. CASE ~\E c \in Calls : \/ InsertKey(c)
                             \/ TakeEnrollment(c) /\ enrollment[call[c].e].st # "gone"
                             \/ \E e \in Enrollments : Activate(c, e)
  <2>1. \A c \in Calls : call'[c].pc \in {"activate", "insert"} => call'[c] = call[c]
    <3>1. ASSUME NEW c \in Calls, Handler(c), call'[c].pc \in {"activate", "insert"} PROVE FALSE
      <4>1. call'[c] # Idle
        BY <3>1 DEF Idle
      <4>2. /\ call'[c] # [call[c] EXCEPT !.pc = "admit"]
            /\ call'[c] # [call[c] EXCEPT !.pc = "establish"]
            /\ call'[c] # [call[c] EXCEPT !.pc = "undo"]
        BY <1>0, <3>1 DEF CallRecord
      <4> QED
        BY <1>4, <3>1, <4>1, <4>2, StepTo
    <3>2. ASSUME NEW c \in Calls, Handler(c), NEW d \in Calls, d # c PROVE call'[d] = call[d]
      BY <3>2, StepTo
    <3> QED
      BY <3>1, <3>2, Stepping
  <2> QED
    BY <1>4, <2>1, KeyShape, KeyStays
<1> QED
  BY <1>1, <1>2, <1>3, <1>4

LEMMA AlwaysKeys == Spec => []KeyInv
<1>1. Init => KeyInv
  BY DEF Init, KeyInv, KeyAsConfirmed, Activating, At, Idle
<1> QED
  BY <1>1, KeyStep, AlwaysTyped, PTL DEF Spec

(* activate: only the handler that deleted a confirmed enrollment inserts   *)
(* its key, so a key belongs to who confirmed it, an enrollment gives one,  *)
(* and no key pair is registered twice, however many handlers activate,     *)
(* submit and confirm at once.                                              *)
THEOREM KeysAreAsConfirmed == Spec => []KeyAsConfirmed
<1>1. KeyInv => KeyAsConfirmed
  BY DEF KeyInv
<1> QED
  BY <1>1, AlwaysKeys, PTL

-----------------------------------------------------------------------------
(* A request, its decision and the session that comes of it.               *)

Decided == {"approved", "completed", "refused"}

\* A completed or deleted request stays so, and a decided one names who approved it.
LEMMA RequestShape ==
  ASSUME Typed, [Next]_vars, NEW q \in Requests
  PROVE  /\ request[q].st \in {"completed", "gone"} => request'[q].st \in {"completed", "gone"}
         /\ request'[q].st \in Decided
            => \/ /\ request[q].st \in Decided
                  /\ request'[q].key = request[q].key /\ request'[q].user = request[q].user
               \/ \E c \in Calls : /\ At(c, "approve")
                                   /\ request'[q].key = call[c].k
                                   /\ request'[q].user = call[c].user
<1> USE DEF Typed, TypeOK, Rows, Rest, Decided
<1>0. request[q] \in RequestRow /\ request \in [Requests -> RequestRow]
  OBVIOUS
<1>1. CASE UNCHANGED request
  BY <1>1
<1>2. ASSUME NEW p \in Requests, StartRequest(p)
      PROVE  request'[q] = request[q] \/ (request[q].st = "new" /\ request'[q].st = "pending")
  BY <1>0, <1>2 DEF StartRequest, RequestRow
<1>3. ASSUME NEW p \in Requests, ExpireRequest(p)
      PROVE  /\ request'[q].st \in {request[q].st, "gone"}
             /\ request'[q].key = request[q].key /\ request'[q].user = request[q].user
  BY <1>0, <1>3 DEF ExpireRequest, RequestRow
<1>4. ASSUME ExpireCodes
      PROVE  /\ request'[q].st = request[q].st
             /\ request'[q].key = request[q].key /\ request'[q].user = request[q].user
  BY <1>0, <1>4 DEF ExpireCodes, RequestRow
<1>5. ASSUME NEW c \in Calls, Approve(c)
      PROVE  \/ request'[q] = request[q]
             \/ /\ request[q].st = "pending" /\ At(c, "approve")
                /\ request'[q].key = call[c].k /\ request'[q].user = call[c].user
  BY <1>0, <1>5 DEF Approve, RequestRow
<1>6. ASSUME NEW p, NEW from, NEW to, Transition(p, from, to), from \in {"pending", "approved"},
             to = "denied" \/ from = "approved"
      PROVE  \/ request'[q] = request[q]
             \/ /\ request[q].st = from /\ request'[q].st = to
                /\ request'[q].key = request[q].key /\ request'[q].user = request[q].user
  BY <1>0, <1>6 DEF Transition, RequestRow
<1>8. ASSUME NEW c \in Calls, Handler(c)
      PROVE  \/ UNCHANGED request \/ Approve(c) \/ RemoveKey(c)
             \/ \E p : \/ Transition(p, "pending", "denied")
                       \/ \E to : Transition(p, "approved", to)
  BY <1>8 DEF Handler, SubmitKey, Activate, Confirm, CheckKey, Revoke, Decide, ListSessions, Reject,
     AdvanceKey, AdvanceConfirmed, TakeEnrollment, InsertKey,
     EndSession, EndSessionFails, Deny, Complete, TakeRequest,
     RefuseAnotherBrowser, Admit, Establish, LinkSession, LinkFails, UndoSession, UndoFails
<1>9. \/ UNCHANGED vars
      \/ \E e \in Enrollments : StartEnrollment(e) \/ ExpireEnrollment(e)
      \/ \E s \in Sessions : SignOut(s)
      \/ \E u \in Users : SetMember(u)
      => UNCHANGED request
  BY DEF vars, StartEnrollment, ExpireEnrollment, SignOut, SetMember
<1>10. ASSUME NEW p, Transition(p, "pending", "denied")
       PROVE  request'[q] = request[q] \/ (request[q].st = "pending" /\ request'[q].st = "denied")
  BY <1>6, <1>10
<1>11. ASSUME NEW p, NEW to, Transition(p, "approved", to)
       PROVE  \/ request'[q] = request[q]
              \/ /\ request[q].st = "approved"
                 /\ request'[q].key = request[q].key /\ request'[q].user = request[q].user
  BY <1>6, <1>11
<1>12. CASE \E c \in Calls : Handler(c)
  <2> PICK c \in Calls : Handler(c)
    BY <1>12
  <2>1. CASE \E p : Transition(p, "pending", "denied")
    BY <1>10, <2>1
  <2>2. CASE \E p, to : Transition(p, "approved", to)
    BY <1>11, <2>2
  <2>3. CASE Approve(c)
    BY <1>5, <2>3
  <2>4. CASE RemoveKey(c)
    BY <1>0, <2>4 DEF RemoveKey, DropKey, RequestRow
  <2> QED
    BY <1>1, <1>8, <2>1, <2>2, <2>3, <2>4
<1> QED
  BY <1>1, <1>2, <1>3, <1>4, <1>9, <1>12 DEF Next

\* A session keeps the request, the key and the user it was signed in with.
LEMMA SessionShape ==
  ASSUME Typed, [Next]_vars, NEW s \in Sessions
  PROVE  \/ /\ session'[s].request = session[s].request /\ session'[s].by = session[s].by
            /\ session'[s].user = session[s].user
         \/ \E c \in Calls : Establish(c)
<1> USE DEF Typed, TypeOK, Rows, Rest
<1>0. session[s] \in SessionRow /\ session \in [Sessions -> SessionRow]
  OBVIOUS
<1>1. CASE UNCHANGED session
  BY <1>1
<1>2. ASSUME NEW t \in Sessions, SignOut(t)
      PROVE  /\ session'[s].request = session[s].request /\ session'[s].by = session[s].by
             /\ session'[s].user = session[s].user
  BY <1>0, <1>2 DEF SignOut, SessionRow
<1>3. ASSUME NEW c \in Calls, RemoveKey(c)
      PROVE  /\ session'[s].request = session[s].request /\ session'[s].by = session[s].by
             /\ session'[s].user = session[s].user
  <2>1. CASE key[call[c].k].st = "live" /\ session[s].link = call[c].k
    <3> DEFINE b == session[s].kept \/ (s \in call[c].list /\ s = call[c].s)
    <3>1. session'[s] = [session[s] EXCEPT !.link = None, !.kept = b]
      BY <1>3, <2>1 DEF RemoveKey, Unlinked
    <3> HIDE DEF b
    <3> QED
      BY <1>0, <3>1 DEF SessionRow
  <2>2. CASE ~(key[call[c].k].st = "live" /\ session[s].link = call[c].k)
    BY <1>3, <2>2 DEF RemoveKey, Unlinked
  <2> QED
    BY <2>1, <2>2
<1>4. ASSUME NEW c \in Calls, EndSession(c)
      PROVE  /\ session'[s].request = session[s].request /\ session'[s].by = session[s].by
             /\ session'[s].user = session[s].user
  BY <1>0, <1>4 DEF EndSession, SessionRow
<1>5. ASSUME NEW c \in Calls, LinkSession(c) \/ UndoSession(c)
      PROVE  /\ session'[s].request = session[s].request /\ session'[s].by = session[s].by
             /\ session'[s].user = session[s].user
  BY <1>0, <1>5 DEF LinkSession, UndoSession, SessionRow
<1>6. ASSUME NEW c \in Calls, Handler(c)
      PROVE  \/ UNCHANGED session \/ Establish(c) \/ RemoveKey(c) \/ EndSession(c)
             \/ LinkSession(c) \/ UndoSession(c)
  BY <1>6 DEF Handler, SubmitKey, Activate, Confirm, CheckKey, Revoke, Decide, ListSessions, Reject,
     AdvanceKey, AdvanceConfirmed, TakeEnrollment, InsertKey, EndSessionFails, Approve, Deny, Complete,
     TakeRequest, RefuseAnotherBrowser, Admit, LinkFails, UndoFails
<1>7. \/ UNCHANGED vars
      \/ \E e \in Enrollments : StartEnrollment(e) \/ ExpireEnrollment(e)
      \/ \E q \in Requests : StartRequest(q) \/ ExpireRequest(q)
      \/ ExpireCodes
      \/ \E u \in Users : SetMember(u)
      => UNCHANGED session
  BY DEF vars, StartEnrollment, ExpireEnrollment, StartRequest, ExpireRequest, ExpireCodes, SetMember
<1> QED
  BY <1>1, <1>2, <1>3, <1>4, <1>5, <1>6, <1>7 DEF Next

\* A handler in the middle of a decision or a sign-in has kept what it read.
LEMMA DecidingShape ==
  ASSUME Typed, NEW c \in Calls, Handler(c), call'[c].pc \in Deciding
  PROVE  \/ \E k \in Keys, q \in Requests : Decide(c, q, k)
         \/ \E q \in Requests : Complete(c, q)
         \/ /\ call[c].pc \in Deciding
            /\ call'[c].k = call[c].k /\ call'[c].user = call[c].user /\ call'[c].q = call[c].q
            /\ call'[c].pc \in {"admit", "establish"}
               => \/ call[c].pc \in {"admit", "establish"}
                  \/ TakeRequest(c) /\ request[call[c].q].st = "approved"
<1>0. call[c] \in CallRecord /\ call \in [Calls -> CallRecord]
  BY DEF Typed, TypeOK
<1>1. call'[c] # Idle /\ call'[c].pc \notin {"reject", "check_key", "advance", "confirm", "list",
                                             "activate", "remove", "end"}
  BY DEF Deciding, Idle
<1>2. CASE call'[c] = [call[c] EXCEPT !.pc = "insert"]
  BY <1>0, <1>2 DEF Deciding, CallRecord
<1>3. CASE /\ TakeRequest(c) /\ request[call[c].q].st = "approved"
           /\ call'[c] = [call[c] EXCEPT !.pc = "admit"]
  BY <1>0, <1>3 DEF TakeRequest, At, Deciding, CallRecord
<1>4. CASE Admit(c) /\ call'[c] = [call[c] EXCEPT !.pc = "establish"]
  BY <1>0, <1>4 DEF Admit, At, Deciding, CallRecord
<1>5. CASE Establish(c)
  BY <1>0, <1>5 DEF Establish, At, Deciding, CallRecord
<1>6. CASE (LinkSession(c) \/ LinkFails(c)) /\ call'[c] = [call[c] EXCEPT !.pc = "undo"]
  BY <1>0, <1>6 DEF LinkSession, LinkFails, At, Deciding, CallRecord
<1> QED
  BY <1>1, <1>2, <1>3, <1>4, <1>5, <1>6, StepTo

-----------------------------------------------------------------------------
(* Whoever a request, a handler or a session acts for owns the key.        *)

Owns(u, k) == k \in Keys /\ key[k].st # "new" /\ key[k].user = u

OwnerInv ==
  /\ \A q \in Requests : request[q].st \in Decided => Owns(request[q].user, request[q].key)
  /\ \A c \in Calls : call[c].pc \in Deciding => Owns(call[c].user, call[c].k)
  /\ \A s \in Sessions : session[s].request # None => Owns(session[s].user, session[s].by)

LEMMA OwnerStep == Typed /\ OwnerInv /\ [Next]_vars => OwnerInv'
<1> SUFFICES ASSUME Typed, OwnerInv, [Next]_vars PROVE OwnerInv'
  OBVIOUS
<1>1. \A k \in Keys : key[k].st # "new" => key'[k].st # "new" /\ key'[k].user = key[k].user
  BY KeyShape DEF Typed, TypeOK, KeyRow
<1>2. ASSUME NEW q \in Requests, request'[q].st \in Decided
      PROVE  Owns(request[q].user, request[q].key)'
  <2>1. CASE /\ request[q].st \in Decided
             /\ request'[q].key = request[q].key /\ request'[q].user = request[q].user
    BY <1>1, <2>1 DEF OwnerInv, Owns
  <2>2. ASSUME NEW c \in Calls, At(c, "approve"), request'[q].key = call[c].k,
               request'[q].user = call[c].user
        PROVE  Owns(request[q].user, request[q].key)'
    <3>1. call[c].pc \in Deciding
      BY <2>2 DEF At, Deciding
    <3> QED
      BY <1>1, <2>2, <3>1 DEF OwnerInv, Owns
  <2> QED
    BY <1>2, <2>1, <2>2, RequestShape
<1>3. ASSUME NEW d \in Calls, call'[d].pc \in Deciding PROVE Owns(call[d].user, call[d].k)'
  <2>1. CASE call'[d] = call[d]
    BY <1>1, <1>3, <2>1 DEF OwnerInv, Owns
  <2>2. CASE call'[d] # call[d]
    <3>1. Handler(d)
      BY <2>2, Stepping, StepTo
    <3>2. ASSUME NEW k \in Keys, NEW q \in Requests, Decide(d, q, k)
          PROVE  call'[d].k = k /\ call'[d].user = key[k].user /\ key[k].st = "live"
      BY <3>2 DEF Decide, Begin, Idle, Typed, TypeOK
    <3>3. ASSUME NEW q \in Requests, Complete(d, q)
          PROVE  /\ call'[d].user = request[q].user /\ call'[d].k = request[q].key
                 /\ request[q].st \in Decided
      BY <3>3 DEF Complete, Begin, Idle, Decided, Typed, TypeOK
    <3> QED
      BY <1>1, <1>3, <3>1, <3>2, <3>3, DecidingShape DEF OwnerInv, Owns
  <2> QED
    BY <2>1, <2>2
<1>4. ASSUME NEW s \in Sessions, session'[s].request # None
      PROVE  Owns(session[s].user, session[s].by)'
  <2>1. CASE \E c \in Calls : Establish(c)
    <3> PICK c \in Calls : Establish(c)
      BY <2>1
    <3>1. call[c].pc \in Deciding
      BY DEF Establish, At, Deciding
    <3>2. \/ session'[s] = session[s]
          \/ session'[s].user = call[c].user /\ session'[s].by = call[c].k
      BY DEF Establish, Typed, TypeOK
    <3> QED
      BY <1>1, <1>4, <3>1, <3>2 DEF OwnerInv, Owns
  <2>2. CASE ~\E c \in Calls : Establish(c)
    BY <1>1, <1>4, <2>2, SessionShape DEF OwnerInv, Owns
  <2> QED
    BY <2>1, <2>2
<1> QED
  BY <1>2, <1>3, <1>4 DEF OwnerInv

LEMMA AlwaysOwned == Spec => []OwnerInv
<1>1. Init => OwnerInv
  BY DEF Init, OwnerInv, Decided, Deciding, Idle
<1> QED
  BY <1>1, OwnerStep, AlwaysTyped, PTL DEF Spec

-----------------------------------------------------------------------------
(* An approval signs in once.                                              *)

\* The handler has taken the request and not yet made the session.
Taking(c) == call[c].pc \in {"admit", "establish"}

TakenInv ==
  /\ \A c \in Calls : Taking(c) => /\ request[call[c].q].st \in {"completed", "gone"}
                                   /\ \A s \in Sessions : session[s].request # call[c].q
  /\ \A c, d \in Calls : Taking(c) /\ Taking(d) /\ call[c].q = call[d].q => c = d
  /\ \A s, t \in Sessions :
        session[s].request # None /\ session[s].request = session[t].request => s = t
  /\ \A s \in Sessions : session[s].request # None =>
        request[session[s].request].st \in {"completed", "gone"}

LEMMA TakenStep == Typed /\ TakenInv /\ [Next]_vars => TakenInv'
<1> SUFFICES ASSUME Typed, TakenInv, [Next]_vars PROVE TakenInv'
  OBVIOUS
<1> USE DEF Rows, Rest
<1>0. /\ call \in [Calls -> CallRecord] /\ session \in [Sessions -> SessionRow]
      /\ request \in [Requests -> RequestRow]
      /\ \A c \in Calls : call[c].pc \in Deciding => call[c].q \in Requests
      /\ \A s \in Sessions : session[s].request # None => session[s].request \in Requests
  BY DEF Typed, TypeOK, Orderly, Controlled, SessionRow
<1>1. \A q \in Requests : request[q].st \in {"completed", "gone"} =>
        request'[q].st \in {"completed", "gone"}
  BY RequestShape
<1>2. ASSUME NEW c \in Calls, Establish(c) PROVE TakenInv'
  <2>1. PICK s \in Sessions :
          /\ session[s].st = "new"
          /\ session' = [session EXCEPT ![s] =
                [st |-> "live", user |-> call[c].user, link |-> None,
                 request |-> call[c].q, by |-> call[c].k, kept |-> FALSE]]
          /\ call' = [call EXCEPT ![c].pc = "link", ![c].s = s]
    BY <1>2 DEF Establish
  <2>2. /\ request' = request /\ call[c].pc = "establish" /\ call[c].q \in Requests
        /\ call'[c].pc = "link" /\ (\A d \in Calls : d # c => call'[d] = call[d])
        /\ session'[s].request = call[c].q
        /\ \A t \in Sessions : t # s => session'[t] = session[t]
    BY <1>0, <1>2, <2>1 DEF Establish, At, Deciding, CallRecord
  <2>3. /\ request[call[c].q].st \in {"completed", "gone"}
        /\ \A t \in Sessions : session[t].request # call[c].q
        /\ \A d \in Calls : Taking(d) /\ d # c => call[d].q # call[c].q
    BY <2>2 DEF TakenInv, Taking
  <2> QED
    BY <2>2, <2>3 DEF TakenInv, Taking
<1>3. CASE ~\E c \in Calls : Establish(c)
  <2>1. \A s \in Sessions : session'[s].request = session[s].request
    BY <1>3, SessionShape
  <2>2. ASSUME NEW c \in Calls, Taking(c)'
        PROVE  \/ Taking(c) /\ call'[c].q = call[c].q
               \/ /\ TakeRequest(c) /\ request[call[c].q].st = "approved"
                  /\ call'[c].q = call[c].q /\ call[c].q \in Requests
    <3>1. CASE call'[c] = call[c]
      BY <2>2, <3>1 DEF Taking
    <3>2. CASE call'[c] # call[c]
      <4>1. Handler(c) /\ call'[c].pc \in Deciding
        BY <2>2, <3>2, Stepping, StepTo DEF Taking, Deciding
      <4>2. ~\E k \in Keys, q \in Requests : Decide(c, q, k)
        <5> SUFFICES ASSUME NEW k \in Keys, NEW q \in Requests, Decide(c, q, k) PROVE FALSE
          OBVIOUS
        <5> QED
          BY <1>0, <2>2 DEF Decide, Begin, Idle, Taking
      <4>3. ~\E q \in Requests : Complete(c, q)
        <5> SUFFICES ASSUME NEW q \in Requests, Complete(c, q) PROVE FALSE
          OBVIOUS
        <5> QED
          BY <1>0, <2>2 DEF Complete, Begin, Idle, Taking
      <4> QED
        BY <1>0, <2>2, <4>1, <4>2, <4>3, DecidingShape DEF Taking
    <3> QED
      BY <3>1, <3>2
  <2>3. ASSUME NEW c \in Calls, TakeRequest(c), request[call[c].q].st = "approved",
               call[c].q \in Requests
        PROVE  /\ request'[call[c].q].st = "completed"
               /\ \A d \in Calls : d # c => call'[d] = call[d]
    BY <1>0, <2>3 DEF TakeRequest, Transition, Goto, RequestRow
  <2>4. ASSUME NEW c \in Calls, Taking(c)'
        PROVE  /\ request'[call'[c].q].st \in {"completed", "gone"}
               /\ \A s \in Sessions : session'[s].request # call'[c].q
    <3>1. CASE Taking(c) /\ call'[c].q = call[c].q
      BY <1>0, <1>1, <2>1, <3>1 DEF TakenInv, Taking, Deciding
    <3>2. CASE /\ TakeRequest(c) /\ request[call[c].q].st = "approved"
               /\ call'[c].q = call[c].q /\ call[c].q \in Requests
      <4>1. \A s \in Sessions : session[s].request # call[c].q
        BY <1>0, <3>2, ApprovalAssumption DEF TakenInv
      <4> QED
        BY <2>1, <2>3, <3>2, <4>1
    <3> QED
      BY <2>2, <2>4, <3>1, <3>2
  <2>5. ASSUME NEW c \in Calls, NEW d \in Calls, Taking(c)', Taking(d)', call'[c].q = call'[d].q, c # d
        PROVE  FALSE
    <3>1. CASE Taking(c) /\ Taking(d) /\ call'[c].q = call[c].q /\ call'[d].q = call[d].q
      BY <2>5, <3>1 DEF TakenInv
    <3>2. ASSUME NEW a \in Calls, NEW b \in Calls, a # b, Taking(b)', call'[b].q = call[a].q,
                 TakeRequest(a), request[call[a].q].st = "approved", call[a].q \in Requests
          PROVE  FALSE
      <4>1. call'[b] = call[b]
        BY <2>3, <3>2
      <4> QED
        BY <3>2, <4>1 DEF TakenInv, Taking
    <3> QED
      BY <2>2, <2>5, <3>1, <3>2
  <2>6. \A s \in Sessions : session'[s].request # None =>
          request'[session'[s].request].st \in {"completed", "gone"}
    BY <1>0, <1>1, <2>1 DEF TakenInv
  <2> QED
    BY <2>1, <2>4, <2>5, <2>6 DEF TakenInv
<1> QED
  BY <1>2, <1>3

(* complete_request: the completion that moves the request from approved    *)
(* to completed signs in, so an approval gives at most one session, for the *)
(* owner of the key that approved it, and a request that was denied or      *)
(* refused to another browser gives none.                                   *)
THEOREM ApprovalsSignInOnce == Spec => []OneSignInPerApproval
<1>1. Init => TakenInv
  BY DEF Init, TakenInv, Taking, Idle
<1>2. TakenInv /\ OwnerInv => OneSignInPerApproval
  BY DEF TakenInv, OwnerInv, Owns, OneSignInPerApproval
<1> QED
  BY <1>1, <1>2, TakenStep, AlwaysTyped, AlwaysOwned, PTL DEF Spec

-----------------------------------------------------------------------------
(* Revoking a key ends the sessions it approved.                           *)

\* A live session is linked to its live key, or its sign-in or its end is under way, or it
\* is one of the exceptions.
Accounted(s) ==
  \/ \E c \in Calls : Signing(c, s)
  \/ s \in abandoned
  \/ key[session[s].by].st = "live" /\ session[s].link = session[s].by
  \/ /\ key[session[s].by].st = "gone"
     /\ session[s].kept \/ s \in windowed \/ \E c \in Calls : Ending(c, s)

SigningKnown(c, s) == Signing(c, s) => session[s].st # "new" /\ session[s].by = call[c].k

\* A revocation that is about to delete the key has listed every session linked to it, but
\* those linked since.
Listed(c) == At(c, "remove") => \A s \in Linked(call[c].k) : s \in call[c].list \/ s \in windowed

EndInv ==
  /\ \A c \in Calls, s \in Sessions : SigningKnown(c, s)
  /\ \A c \in Calls : Listed(c)
  /\ \A s \in Sessions : session[s].st = "live" =>
        session[s].by \in Keys /\ key[session[s].by].st # "new" /\ Accounted(s)

\* The steps of a sign-in and of a revocation that the invariant is about.
Critical == {"link", "undo", "remove", "end"}

\* Steps of anybody else, which write neither sessions nor history.
LEMMA EndStays ==
  ASSUME Typed, EndInv, UNCHANGED <<session, windowed, abandoned>>,
         \A k \in Keys : key[k].st # "new" => key'[k] = key[k],
         \A c \in Calls : call'[c] = call[c] \/ {call'[c].pc, call[c].pc} \cap Critical = {}
  PROVE  EndInv'
<1>1. ASSUME NEW c \in Calls, NEW s \in Sessions PROVE SigningKnown(c, s)'
  BY DEF EndInv, SigningKnown, Signing, Critical
<1>2. ASSUME NEW c \in Calls PROVE Listed(c)'
  <2>1. CASE call'[c] = call[c]
    BY <2>1 DEF EndInv, Listed, At, Linked
  <2>2. CASE call'[c].pc \notin Critical
    BY <2>2 DEF Listed, At, Critical
  <2> QED
    BY <2>1, <2>2
<1>3. ASSUME NEW s \in Sessions, session[s].st = "live"
      PROVE  session[s].by \in Keys /\ key'[session[s].by].st # "new" /\ Accounted(s)'
  <2>1. session[s].by \in Keys /\ key'[session[s].by] = key[session[s].by] /\ Accounted(s)
        /\ key[session[s].by].st # "new"
    BY <1>3 DEF EndInv
  <2>2. \A c \in Calls : (Signing(c, s) => Signing(c, s)') /\ (Ending(c, s) => Ending(c, s)')
    BY DEF Signing, Ending, At, Critical
  <2> QED
    BY <2>1, <2>2 DEF Accounted
<1> QED
  BY <1>1, <1>2, <1>3 DEF EndInv

\* The session, from Establish until it is linked or undone.
LEMMA EndSigning ==
  ASSUME Typed, OwnerInv, EndInv, NEW c \in Calls,
         Establish(c) \/ LinkSession(c) \/ LinkFails(c) \/ UndoSession(c) \/ UndoFails(c)
  PROVE  EndInv'
<1> USE DEF Rows, Rest
<1>0. /\ call \in [Calls -> CallRecord] /\ session \in [Sessions -> SessionRow]
      /\ call[c] \in CallRecord
      /\ \A d \in Calls : call[d].pc \in Revocation \cup Deciding => call[d].k \in Keys
      /\ call[c].pc \in {"link", "undo"} => call[c].s \in Sessions
  BY DEF Typed, TypeOK, Orderly, Controlled
<1>1. CASE Establish(c)
  <2>1. PICK t \in Sessions :
          /\ session[t].st = "new"
          /\ session' = [session EXCEPT ![t] =
                [st |-> "live", user |-> call[c].user, link |-> None,
                 request |-> call[c].q, by |-> call[c].k, kept |-> FALSE]]
          /\ call' = [call EXCEPT ![c].pc = "link", ![c].s = t]
    BY <1>1 DEF Establish
  <2>2. /\ call[c].pc = "establish" /\ call'[c].pc = "link" /\ call'[c].s = t
        /\ call'[c].k = call[c].k /\ call[c].k \in Keys
        /\ \A d \in Calls : d # c => call'[d] = call[d]
        /\ session'[t].st = "live" /\ session'[t].by = call[c].k /\ session'[t].link = None
        /\ \A s \in Sessions : s # t => session'[s] = session[s]
        /\ UNCHANGED <<key, windowed, abandoned>>
    BY <1>0, <1>1, <2>1 DEF Establish, At, CallRecord, Deciding
  <2>3. key[call[c].k].st # "new"
    BY <2>2 DEF OwnerInv, Owns, Deciding
  <2>4. ASSUME NEW d \in Calls, NEW s \in Sessions PROVE SigningKnown(d, s)'
    <3>1. CASE d = c
      BY <2>2, <3>1 DEF SigningKnown, Signing
    <3>2. CASE d # c
      <4>1. Signing(d, s) => s # t
        BY <2>1 DEF EndInv, SigningKnown
      <4> QED
        BY <2>2, <3>2, <4>1 DEF EndInv, SigningKnown, Signing
    <3> QED
      BY <3>1, <3>2
  <2>5. ASSUME NEW d \in Calls PROVE Listed(d)'
    <3>1. CASE d = c
      BY <2>2, <3>1 DEF Listed, At
    <3>2. CASE d # c /\ call[d].pc = "remove"
      <4>1. call[d].k # None
        BY <1>0, <3>2, ApprovalAssumption DEF Revocation
      <4> QED
        BY <2>2, <3>2, <4>1 DEF EndInv, Listed, At, Linked
    <3>3. CASE d # c /\ call[d].pc # "remove"
      BY <2>2, <3>3 DEF Listed, At
    <3> QED
      BY <3>1, <3>2, <3>3
  <2>6. ASSUME NEW s \in Sessions, session'[s].st = "live"
        PROVE  session'[s].by \in Keys /\ key'[session'[s].by].st # "new" /\ Accounted(s)'
    <3>1. CASE s = t
      BY <2>2, <2>3, <3>1 DEF Accounted, Signing
    <3>2. CASE s # t
      <4>1. \A d \in Calls : (Signing(d, s) => Signing(d, s)') /\ (Ending(d, s) => Ending(d, s)')
        BY <2>2 DEF Signing, Ending, At
      <4> QED
        BY <2>2, <2>6, <3>2, <4>1 DEF EndInv, Accounted
    <3> QED
      BY <3>1, <3>2
  <2> QED
    BY <2>4, <2>5, <2>6 DEF EndInv
<1>2. ASSUME LinkSession(c), key[call[c].k].st = "live" PROVE EndInv'
  <2> DEFINE t == call[c].s
             k == call[c].k
  <2>1. /\ call[c].pc = "link" /\ call'[c] = Idle /\ t \in Sessions /\ k \in Keys
        /\ \A d \in Calls : d # c => call'[d] = call[d]
        /\ session'[t].st = session[t].st /\ session'[t].by = session[t].by
        /\ session'[t].link = k
        /\ \A s \in Sessions : s # t => session'[s] = session[s]
        /\ UNCHANGED <<key, abandoned>> /\ windowed \subseteq windowed'
        /\ Revoking(k) => t \in windowed'
    BY <1>0, <1>2 DEF LinkSession, Return, At, SessionRow, Deciding
  <2>2. session[t].by = k
    BY <2>1 DEF EndInv, SigningKnown, Signing
  <2>4. ASSUME NEW d \in Calls, NEW s \in Sessions PROVE SigningKnown(d, s)'
    BY <2>1 DEF EndInv, SigningKnown, Signing, Idle
  <2>5. ASSUME NEW d \in Calls PROVE Listed(d)'
    <3>1. CASE d = c
      BY <2>1, <3>1 DEF Listed, At, Idle
    <3>2. CASE d # c /\ call[d].pc = "remove"
      <4>1. call[d].k = k => t \in windowed'
        BY <2>1, <3>2 DEF Revoking, At
      <4>2. \A s \in Linked(call[d].k)' : s = t \/ s \in Linked(call[d].k)
        BY <2>1, <3>2 DEF Linked
      <4>3. t \in Linked(call[d].k)' => call[d].k = k
        BY <2>1, <3>2 DEF Linked
      <4> QED
        BY <2>1, <3>2, <4>1, <4>2, <4>3 DEF EndInv, Listed, At
    <3>3. CASE d # c /\ call[d].pc # "remove"
      BY <2>1, <3>3 DEF Listed, At
    <3> QED
      BY <3>1, <3>2, <3>3
  <2>6. ASSUME NEW s \in Sessions, session'[s].st = "live"
        PROVE  session'[s].by \in Keys /\ key'[session'[s].by].st # "new" /\ Accounted(s)'
    <3>1. CASE s = t
      BY <1>2, <2>1, <2>2, <3>1 DEF Accounted
    <3>2. CASE s # t
      <4>1. \A d \in Calls : (Signing(d, s) => Signing(d, s)') /\ (Ending(d, s) => Ending(d, s)')
        BY <2>1, <3>2 DEF Signing, Ending, At
      <4> QED
        BY <2>1, <2>6, <3>2, <4>1 DEF EndInv, Accounted
    <3> QED
      BY <3>1, <3>2
  <2> QED
    BY <2>4, <2>5, <2>6 DEF EndInv
<1>3. ASSUME \/ LinkSession(c) /\ key[call[c].k].st # "live"
             \/ LinkFails(c)
      PROVE  EndInv'
  <2>1. /\ call[c].pc = "link" /\ call'[c].pc = "undo" /\ call'[c].s = call[c].s
        /\ call'[c].k = call[c].k
        /\ \A d \in Calls : d # c => call'[d] = call[d]
        /\ UNCHANGED <<session, key, windowed, abandoned>>
    BY <1>0, <1>3 DEF LinkSession, LinkFails, Goto, At, CallRecord
  <2>2. \A d \in Calls, s \in Sessions : /\ Signing(d, s)' = Signing(d, s)
                                        /\ Ending(d, s)' = Ending(d, s)
    BY <2>1 DEF Signing, Ending, At
  <2>4. ASSUME NEW d \in Calls, NEW s \in Sessions PROVE SigningKnown(d, s)'
    BY <2>1 DEF EndInv, SigningKnown, Signing
  <2>5. ASSUME NEW d \in Calls PROVE Listed(d)'
    BY <2>1 DEF EndInv, Listed, At, Linked
  <2>6. ASSUME NEW s \in Sessions, session'[s].st = "live"
        PROVE  session'[s].by \in Keys /\ key'[session'[s].by].st # "new" /\ Accounted(s)'
    BY <2>1, <2>2, <2>6 DEF EndInv, Accounted
  <2> QED
    BY <2>4, <2>5, <2>6 DEF EndInv
<1>4. ASSUME UndoSession(c) \/ UndoFails(c) PROVE EndInv'
  <2> DEFINE t == call[c].s
  <2>1. /\ call[c].pc = "undo" /\ call'[c] = Idle /\ t \in Sessions
        /\ \A d \in Calls : d # c => call'[d] = call[d]
        /\ \A s \in Sessions : s # t => session'[s] = session[s]
        /\ session'[t].by = session[t].by /\ session'[t].link = session[t].link
        /\ session'[t].st \in {session[t].st, "ended"}
        /\ session'[t].st = "ended" \/ t \in abandoned'
        /\ UNCHANGED <<key, windowed>> /\ abandoned \subseteq abandoned'
    BY <1>0, <1>4 DEF UndoSession, UndoFails, Return, At, SessionRow
  <2>4. ASSUME NEW d \in Calls, NEW s \in Sessions PROVE SigningKnown(d, s)'
    BY <2>1 DEF EndInv, SigningKnown, Signing, Idle
  <2>5. ASSUME NEW d \in Calls PROVE Listed(d)'
    BY <2>1 DEF EndInv, Listed, At, Linked, Idle
  <2>6. ASSUME NEW s \in Sessions, session'[s].st = "live"
        PROVE  session'[s].by \in Keys /\ key'[session'[s].by].st # "new" /\ Accounted(s)'
    <3>1. CASE s = t
      BY <2>1, <2>6, <3>1 DEF EndInv, Accounted
    <3>2. CASE s # t
      <4>1. \A d \in Calls : (Signing(d, s) => Signing(d, s)') /\ (Ending(d, s) => Ending(d, s)')
        BY <2>1, <3>2 DEF Signing, Ending, At
      <4> QED
        BY <2>1, <2>6, <3>2, <4>1 DEF EndInv, Accounted
    <3> QED
      BY <3>1, <3>2
  <2> QED
    BY <2>4, <2>5, <2>6 DEF EndInv
<1> QED
  BY <1>1, <1>2, <1>3, <1>4

\* The revocation, from listing the sessions until they are ended.
LEMMA EndRevoking ==
  ASSUME Typed, EndInv, NEW c \in Calls,
         ListSessions(c) \/ RemoveKey(c) \/ EndSession(c) \/ EndSessionFails(c)
  PROVE  EndInv'
<1> USE DEF Rows, Rest
<1>0. /\ call \in [Calls -> CallRecord] /\ session \in [Sessions -> SessionRow]
      /\ call[c] \in CallRecord /\ key \in [Keys -> KeyRow]
      /\ call[c].pc \in Revocation => call[c].k \in Keys
      /\ call[c].list \subseteq Sessions
      /\ \A s \in Sessions : session[s].link \in Keys \cup {None}
  BY DEF Typed, TypeOK, Orderly, Controlled, CallRecord, SessionRow
<1>1. CASE ListSessions(c)
  <2>1. /\ call[c].pc = "list" /\ call'[c].pc = "remove" /\ call'[c].k = call[c].k
        /\ call'[c].list = Linked(call[c].k)
        /\ \A d \in Calls : d # c => call'[d] = call[d]
        /\ UNCHANGED <<session, key, windowed, abandoned>>
    BY <1>0, <1>1 DEF ListSessions, At, CallRecord
  <2>2. \A d \in Calls, s \in Sessions : (Signing(d, s) => Signing(d, s)') /\ (Ending(d, s) => Ending(d, s)')
    BY <2>1 DEF Signing, Ending, At
  <2>4. ASSUME NEW d \in Calls, NEW s \in Sessions PROVE SigningKnown(d, s)'
    BY <2>1 DEF EndInv, SigningKnown, Signing
  <2>5. ASSUME NEW d \in Calls PROVE Listed(d)'
    <3>1. CASE d = c
      BY <2>1, <3>1 DEF Listed, At, Linked
    <3>2. CASE d # c
      BY <2>1, <3>2 DEF EndInv, Listed, At, Linked
    <3> QED
      BY <3>1, <3>2
  <2>6. ASSUME NEW s \in Sessions, session'[s].st = "live"
        PROVE  session'[s].by \in Keys /\ key'[session'[s].by].st # "new" /\ Accounted(s)'
    BY <2>1, <2>2, <2>6 DEF EndInv, Accounted
  <2> QED
    BY <2>4, <2>5, <2>6 DEF EndInv
<1>2. ASSUME RemoveKey(c), key[call[c].k].st = "live" PROVE EndInv'
  <2> DEFINE k == call[c].k
  <2>1. /\ call[c].pc = "remove" /\ call'[c].pc = "end" /\ call'[c].list = call[c].list \ {call[c].s}
        /\ \A d \in Calls : d # c => call'[d] = call[d]
        /\ k \in Keys /\ key'[k].st = "gone" /\ (\A l \in Keys : l # k => key'[l] = key[l])
        /\ UNCHANGED <<windowed, abandoned>>
    BY <1>0, <1>2 DEF RemoveKey, DropKey, At, CallRecord, KeyRow, Revocation
  <2>2. ASSUME NEW s \in Sessions
        PROVE  /\ session'[s].st = session[s].st /\ session'[s].by = session[s].by
               /\ session[s].link # k => session'[s] = session[s]
               /\ session[s].link = k =>
                     /\ session'[s].link = None
                     /\ s \in call[c].list /\ s = call[c].s => session'[s].kept
    <3>1. session' = Unlinked(k, call[c].list, call[c].s)
      BY <1>2 DEF RemoveKey
    <3>2. CASE session[s].link # k
      BY <3>1, <3>2 DEF Unlinked
    <3>3. CASE session[s].link = k
      <4> DEFINE b == session[s].kept \/ (s \in call[c].list /\ s = call[c].s)
      <4>1. session'[s] = [session[s] EXCEPT !.link = None, !.kept = b]
        BY <3>1, <3>3 DEF Unlinked
      <4>2. s \in call[c].list /\ s = call[c].s => b
        OBVIOUS
      <4> HIDE DEF b
      <4>3. session'[s].kept = b /\ session'[s].link = None /\ session'[s].st = session[s].st
            /\ session'[s].by = session[s].by
        BY <1>0, <4>1 DEF SessionRow
      <4> QED
        BY <3>3, <4>2, <4>3
    <3> QED
      BY <3>2, <3>3
  <2>3. \A d \in Calls, s \in Sessions : (Signing(d, s) => Signing(d, s)') /\ (Ending(d, s) => Ending(d, s)')
    BY <2>1 DEF Signing, Ending, At
  <2>4. ASSUME NEW d \in Calls, NEW s \in Sessions PROVE SigningKnown(d, s)'
    <3>1. CASE d = c
      BY <2>1, <3>1 DEF SigningKnown, Signing
    <3>2. CASE d # c
      BY <2>1, <2>2, <3>2 DEF EndInv, SigningKnown, Signing
    <3> QED
      BY <3>1, <3>2
  <2>5. ASSUME NEW d \in Calls PROVE Listed(d)'
    <3>1. CASE d = c
      BY <2>1, <3>1 DEF Listed, At
    <3>2. CASE d # c /\ call[d].pc = "remove"
      <4>1. call[d].k \in Keys
        BY <3>2 DEF Typed, Orderly, Controlled, Revocation
      <4>2. Linked(call[d].k)' \subseteq Linked(call[d].k)
        BY <2>1, <2>2, <3>2, <4>1, ApprovalAssumption DEF Linked
      <4> QED
        BY <2>1, <3>2, <4>2 DEF EndInv, Listed, At
    <3>3. CASE d # c /\ call[d].pc # "remove"
      BY <2>1, <3>3 DEF Listed, At
    <3> QED
      BY <3>1, <3>2, <3>3
  <2>6. ASSUME NEW s \in Sessions, session'[s].st = "live"
        PROVE  session'[s].by \in Keys /\ key'[session'[s].by].st # "new" /\ Accounted(s)'
    <3>1. session[s].st = "live" /\ session[s].by \in Keys /\ key[session[s].by].st # "new"
          /\ Accounted(s) /\ session'[s].by = session[s].by
      BY <2>2, <2>6 DEF EndInv
    <3>2. CASE (\E d \in Calls : Signing(d, s)) \/ s \in abandoned
      BY <2>1, <2>3, <3>1, <3>2 DEF Accounted
    <3>3. CASE session[s].by = k /\ session[s].link = k
      <4>1. s \in Linked(k)
        BY <3>1, <3>3 DEF Linked
      <4>2. s \in call[c].list \/ s \in windowed
        BY <2>1, <4>1 DEF EndInv, Listed, At
      <4>3. s \in call[c].list => session'[s].kept \/ Ending(c, s)'
        BY <2>1, <2>2, <3>3 DEF Ending, At
      <4> QED
        BY <2>1, <3>1, <3>3, <4>2, <4>3 DEF Accounted
    <3>4. CASE session[s].by # k /\ session[s].link = session[s].by
      BY <2>1, <2>2, <2>3, <3>1, <3>4 DEF Accounted
    <3>5. CASE /\ key[session[s].by].st = "gone"
               /\ s \in windowed \/ \E d \in Calls : Ending(d, s)
      BY <1>2, <2>1, <2>3, <3>1, <3>5 DEF Accounted
    <3>6. CASE key[session[s].by].st = "gone" /\ session[s].kept
      <4>1. session'[s].kept
        <5>1. CASE session[s].link # k
          BY <2>2, <3>6, <5>1
        <5>2. CASE session[s].link = k
          <6> DEFINE b == session[s].kept \/ (s \in call[c].list /\ s = call[c].s)
          <6>1. session'[s] = [session[s] EXCEPT !.link = None, !.kept = b]
            BY <1>2, <5>2 DEF RemoveKey, Unlinked
          <6>2. b
            BY <3>6
          <6> HIDE DEF b
          <6> QED
            BY <1>0, <6>1, <6>2 DEF SessionRow
        <5> QED
          BY <5>1, <5>2
      <4> QED
        BY <1>2, <2>1, <3>1, <3>6, <4>1 DEF Accounted
    <3> QED
      BY <2>1, <3>1, <3>2, <3>3, <3>4, <3>5, <3>6 DEF Accounted
  <2> QED
    BY <2>4, <2>5, <2>6 DEF EndInv
<1>3. ASSUME \/ RemoveKey(c) /\ key[call[c].k].st # "live"
             \/ EndSession(c) /\ call[c].list = {}
             \/ EndSessionFails(c)
      PROVE  EndInv'
  <2>1. /\ call[c].pc \in {"remove", "end"} /\ call'[c] = Idle
        /\ \A d \in Calls : d # c => call'[d] = call[d]
        /\ UNCHANGED <<session, key, windowed>> /\ abandoned \subseteq abandoned'
        /\ \A s \in Sessions : Ending(c, s) => s \in abandoned'
    BY <1>0, <1>3 DEF RemoveKey, EndSession, EndSessionFails, Return, At, Ending
  <2>4. ASSUME NEW d \in Calls, NEW s \in Sessions PROVE SigningKnown(d, s)'
    BY <2>1 DEF EndInv, SigningKnown, Signing, Idle
  <2>5. ASSUME NEW d \in Calls PROVE Listed(d)'
    BY <2>1 DEF EndInv, Listed, At, Linked, Idle
  <2>6. ASSUME NEW s \in Sessions, session'[s].st = "live"
        PROVE  session'[s].by \in Keys /\ key'[session'[s].by].st # "new" /\ Accounted(s)'
    <3>1. session[s].by \in Keys /\ key[session[s].by].st # "new" /\ Accounted(s)
      BY <2>1, <2>6 DEF EndInv
    <3>2. CASE s \in abandoned'
      BY <2>1, <3>1, <3>2 DEF Accounted
    <3>3. CASE s \notin abandoned'
      <4>1. session'[s] = session[s] /\ key' = key /\ windowed' = windowed /\ s \notin abandoned
        BY <2>1, <3>3
      <4>2. /\ (\E d \in Calls : Signing(d, s)) => \E d \in Calls : Signing(d, s)'
            /\ (\E d \in Calls : Ending(d, s)) => \E d \in Calls : Ending(d, s)'
        BY <2>1, <3>3 DEF Signing, Ending, At
      <4> QED
        BY <3>1, <4>1, <4>2 DEF Accounted
    <3> QED
      BY <3>2, <3>3
  <2> QED
    BY <2>4, <2>5, <2>6 DEF EndInv
<1>4. ASSUME EndSession(c), call[c].list # {} PROVE EndInv'
  <2>1. PICK t \in call[c].list : /\ session' = [session EXCEPT ![t].st = "ended"]
                                  /\ call' = [call EXCEPT ![c].list = @ \ {t}]
    BY <1>4 DEF EndSession
  <2>2. /\ call[c].pc = "end" /\ call'[c].pc = "end" /\ call'[c].list = call[c].list \ {t}
        /\ \A d \in Calls : d # c => call'[d] = call[d]
        /\ \A s \in Sessions : s # t => session'[s] = session[s]
        /\ session'[t].st = "ended" /\ session'[t].by = session[t].by
        /\ session'[t].link = session[t].link /\ t \in Sessions
        /\ UNCHANGED <<key, windowed, abandoned>>
    BY <1>0, <1>4, <2>1 DEF EndSession, At, CallRecord, SessionRow
  <2>4. ASSUME NEW d \in Calls, NEW s \in Sessions PROVE SigningKnown(d, s)'
    BY <2>2 DEF EndInv, SigningKnown, Signing
  <2>5. ASSUME NEW d \in Calls PROVE Listed(d)'
    BY <2>2 DEF EndInv, Listed, At, Linked
  <2>6. ASSUME NEW s \in Sessions, session'[s].st = "live"
        PROVE  session'[s].by \in Keys /\ key'[session'[s].by].st # "new" /\ Accounted(s)'
    <3>1. s # t
      BY <2>2, <2>6
    <3>2. \A d \in Calls : (Signing(d, s) => Signing(d, s)') /\ (Ending(d, s) => Ending(d, s)')
      BY <2>2, <3>1 DEF Signing, Ending, At
    <3> QED
      BY <2>2, <2>6, <3>1, <3>2 DEF EndInv, Accounted
  <2> QED
    BY <2>4, <2>5, <2>6 DEF EndInv
<1> QED
  BY <1>1, <1>2, <1>3, <1>4

LEMMA EndStep == Typed /\ OwnerInv /\ EndInv /\ [Next]_vars => EndInv'
<1> SUFFICES ASSUME Typed, OwnerInv, EndInv, [Next]_vars PROVE EndInv'
  OBVIOUS
<1> USE DEF Rows, Rest
<1>0. call \in [Calls -> CallRecord] /\ session \in [Sessions -> SessionRow]
  BY DEF Typed, TypeOK
<1>1. ASSUME NEW t \in Sessions, SignOut(t) PROVE EndInv'
  <2>1. /\ \A s \in Sessions : s # t => session'[s] = session[s]
        /\ session'[t].st = "ended" /\ session'[t].by = session[t].by
        /\ session'[t].link = session[t].link
        /\ UNCHANGED <<call, key, windowed, abandoned>>
    BY <1>0, <1>1 DEF SignOut, SessionRow
  <2>2. ASSUME NEW d \in Calls, NEW s \in Sessions PROVE SigningKnown(d, s)'
    BY <2>1 DEF EndInv, SigningKnown, Signing
  <2>3. ASSUME NEW d \in Calls PROVE Listed(d)'
    BY <2>1 DEF EndInv, Listed, At, Linked
  <2>4. ASSUME NEW s \in Sessions, session'[s].st = "live"
        PROVE  session'[s].by \in Keys /\ key'[session'[s].by].st # "new" /\ Accounted(s)'
    <3>1. s # t
      BY <2>1, <2>4
    <3> QED
      BY <2>1, <2>4, <3>1 DEF EndInv, Accounted, Signing, Ending, At
  <2> QED
    BY <2>2, <2>3, <2>4 DEF EndInv
<1>2. ASSUME \/ UNCHANGED vars
             \/ \E e \in Enrollments : StartEnrollment(e) \/ ExpireEnrollment(e)
             \/ \E q \in Requests : StartRequest(q) \/ ExpireRequest(q)
             \/ ExpireCodes
             \/ \E u \in Users : SetMember(u)
      PROVE  EndInv'
  <2>1. UNCHANGED session
    BY <1>2 DEF vars, StartEnrollment, ExpireEnrollment, StartRequest, ExpireRequest, ExpireCodes,
       SetMember
  <2> QED
    BY <1>2, <2>1, OutsideShape, EndStays
<1>3. ASSUME NEW c \in Calls, Handler(c),
             ~(Establish(c) \/ LinkSession(c) \/ LinkFails(c) \/ UndoSession(c) \/ UndoFails(c)),
             ~(ListSessions(c) \/ RemoveKey(c) \/ EndSession(c) \/ EndSessionFails(c))
      PROVE  EndInv'
  <2>1. /\ UNCHANGED <<session, windowed, abandoned>>
        /\ UNCHANGED key \/ InsertKey(c)
    BY <1>3 DEF Handler, SubmitKey, Activate, Confirm, CheckKey, Revoke, Decide, Reject, AdvanceKey,
       AdvanceConfirmed, TakeEnrollment, InsertKey, Approve, Deny, Complete, TakeRequest,
       RefuseAnotherBrowser, Admit
  <2>2. \A k \in Keys : key[k].st # "new" => key'[k] = key[k]
    BY <2>1 DEF InsertKey, Typed, TypeOK
  <2>3. call[c].pc \notin Critical
    BY <1>3 DEF Handler, SubmitKey, Activate, Confirm, CheckKey, Revoke, Decide, Reject, AdvanceKey,
       AdvanceConfirmed, TakeEnrollment, InsertKey, Approve, Deny, Complete, TakeRequest,
       RefuseAnotherBrowser, Admit, At, Begin, Critical
  <2>4. call'[c].pc \notin Critical
    <3>1. Idle.pc = "idle" /\ call[c] \in CallRecord
      BY <1>0 DEF Idle
    <3>2. CASE \/ call'[c] = [call[c] EXCEPT !.pc = "insert"]
               \/ call'[c] = [call[c] EXCEPT !.pc = "admit"]
               \/ call'[c] = [call[c] EXCEPT !.pc = "establish"]
      BY <3>1, <3>2 DEF CallRecord, Critical
    <3> QED
      BY <1>3, <3>1, <3>2, StepTo DEF Critical
  <2>5. \A d \in Calls : d # c => call'[d] = call[d]
    BY <1>3, StepTo
  <2> QED
    BY <2>1, <2>2, <2>3, <2>4, <2>5, EndStays
<1> QED
  BY <1>1, <1>2, <1>3, EndSigning, EndRevoking DEF Next

(* remove_key and sign_in: once the key is gone, a live session it approved *)
(* is being ended or undone, or is the account screen, was linked between   *)
(* the listing and the DELETE, or was let be by a database error.           *)
THEOREM SessionsEndWithTheirKey == Spec => []SessionsEndWithKey
<1>1. Init => EndInv
  BY DEF Init, EndInv, SigningKnown, Signing, Listed, At, Idle
<1>2. EndInv => SessionsEndWithKey
  BY DEF EndInv, Accounted, SessionsEndWithKey
<1> QED
  BY <1>1, <1>2, EndStep, AlwaysTyped, AlwaysOwned, PTL DEF Spec
=============================================================================
