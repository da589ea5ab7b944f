----------------------------- MODULE AppApproval -----------------------------
(***************************************************************************)
(* Signing in by approving on the authenticator app                        *)
(* (application/app_approval.rs, domain/app_approver.rs, the repository    *)
(* app_approver.rs and migration 0075).                                    *)
(*                                                                         *)
(* An app enrolls a key: it opens an enrollment, submits an attested key,  *)
(* the user confirms on the account screen and the app activates it.  A    *)
(* browser then opens a request, the app approves or denies it with the    *)
(* key, and the code the app was given completes the sign-in in the        *)
(* browser that opened the request, and in no other.  Revoking a key is    *)
(* meant to end the sessions it approved.                                  *)
(*                                                                         *)
(* A handler is a process (call); each database statement that another     *)
(* handler can come before is a step of its own.  A handler that refuses   *)
(* before it has written anything is not a step.  Codes are random and     *)
(* given out once, to the app, so "the code matches" is "the row is in the *)
(* stage that gave the code out, and the caller got it".  Expiry is a      *)
(* clock that may pass at any moment: fresh is "not expired yet", valid    *)
(* the same of the code, whose expiry is capped by the row's.              *)
(***************************************************************************)
EXTENDS Naturals, FiniteSets

CONSTANTS
    Users,
    Enrollments,   \* enrollments that may be opened
    PublicKeys,    \* key pairs of apps (key_id is the hash of the public key)
    Keys,          \* ids of app_approver_keys rows
    Requests,      \* approval requests that may be opened
    Sessions,      \* SSO sessions to create
    Calls,         \* handlers running at once
    MaxFaults,     \* bound: database calls that fail
    None

ASSUME ApprovalAssumption ==
    /\ None \notin Users \cup PublicKeys \cup Keys \cup Requests
                   \cup Enrollments \cup Sessions
    /\ MaxFaults \in Nat

VARIABLES
    member,      \* users who are active, not locked and members here
    enrollment,  \* app_approver_enrollments
    key,         \* app_approver_keys
    request,     \* app_approval_requests
    session,     \* sso_sessions that came of an approval, and their context
    call,        \* the handlers
    windowed,    \* history: sessions linked to a key while its revocation was
                 \* between listing the key's sessions and deleting the key
    abandoned,   \* history: sessions whose end failed with a database error
    faults

vars == <<member, enrollment, key, request, session, call, windowed,
          abandoned, faults>>

\* st: not opened, the stages, deleted.  by, history, is who confirmed.
EnrollmentRow ==
    [st: {"new", "awaiting_key", "awaiting_confirmation", "confirmed", "gone"},
     fresh: BOOLEAN, valid: BOOLEAN,
     pk: PublicKeys \cup {None}, user: Users \cup {None}]

\* from, history, is the enrollment the row came of.
KeyRow == [st: {"new", "live", "gone"}, pk: PublicKeys \cup {None},
           user: Users \cup {None}, from: Enrollments \cup {None}]

RequestRow ==
    [st: {"new", "pending", "approved", "denied", "completed", "refused", "gone"},
     fresh: BOOLEAN, valid: BOOLEAN,
     key: Keys \cup {None}, user: Users \cup {None}]

\* link: sso_session_contexts.approver_key_id.  request, by and kept,
\* history, are the request and the key it was signed in with, and whether a
\* revocation from the account screen left it because it was that screen's.
SessionRow ==
    [st: {"new", "live", "ended"}, user: Users \cup {None},
     link: Keys \cup {None}, request: Requests \cup {None},
     by: Keys \cup {None}, kept: BOOLEAN]

Steps == {"idle", "reject", "check_key", "advance", "confirm", "activate",
          "insert", "list", "remove", "end", "approve", "deny", "complete",
          "refuse", "admit", "establish", "link", "undo"}

ActsForUser == Steps \ {"idle", "reject", "check_key", "advance", "list",
                        "remove", "end"}

CallRecord ==
    [pc: Steps, e: Enrollments \cup {None}, q: Requests \cup {None},
     k: Keys \cup {None}, pk: PublicKeys \cup {None}, user: Users \cup {None},
     s: Sessions \cup {None}, list: SUBSET Sessions]

(* The types; a row past its first stage has the columns that stage sets,  *)
(* and a handler that acts for a user knows which (complete_request and    *)
(* activate take them out of the row they read).                           *)
TypeOK ==
    /\ member \in SUBSET Users
    /\ enrollment \in [Enrollments -> EnrollmentRow]
    /\ key \in [Keys -> KeyRow]
    /\ request \in [Requests -> RequestRow]
    /\ session \in [Sessions -> SessionRow]
    /\ call \in [Calls -> CallRecord]
    /\ windowed \in SUBSET Sessions
    /\ abandoned \in SUBSET Sessions
    /\ faults \in 0..MaxFaults
    /\ \A e \in Enrollments : enrollment[e].st = "confirmed" =>
          enrollment[e].pk # None /\ enrollment[e].user # None
    /\ \A q \in Requests : request[q].st \in {"approved", "completed", "refused"} =>
          request[q].key # None /\ request[q].user # None
    /\ \A c \in Calls : call[c].pc \in ActsForUser => call[c].user # None

Idle == [pc |-> "idle", e |-> None, q |-> None, k |-> None, pk |-> None,
         user |-> None, s |-> None, list |-> {}]

Init ==
    /\ member = Users
    /\ enrollment = [e \in Enrollments |->
          [st |-> "new", fresh |-> TRUE, valid |-> TRUE, pk |-> None, user |-> None]]
    /\ key = [k \in Keys |->
          [st |-> "new", pk |-> None, user |-> None, from |-> None]]
    /\ request = [q \in Requests |->
          [st |-> "new", fresh |-> TRUE, valid |-> TRUE, key |-> None, user |-> None]]
    /\ session = [s \in Sessions |->
          [st |-> "new", user |-> None, link |-> None, request |-> None,
           by |-> None, kept |-> FALSE]]
    /\ call = [c \in Calls |-> Idle]
    /\ windowed = {}
    /\ abandoned = {}
    /\ faults = 0

-----------------------------------------------------------------------------
(* The handlers' control *)

Rows == <<enrollment, key, request, session>>
Rest == <<member, windowed, abandoned, faults>>

Begin(c, next)  == call[c].pc = "idle" /\ call' = [call EXCEPT ![c] = next]
At(c, pc)       == call[c].pc = pc
Goto(c, pc)     == call' = [call EXCEPT ![c].pc = pc]
Return(c)       == call' = [call EXCEPT ![c] = Idle]

-----------------------------------------------------------------------------
(* Enrolling a key *)

\* live_enrollment
LiveIn(e, stage) == enrollment[e].st = stage /\ enrollment[e].fresh

\* start_enrollment
StartEnrollment(e) ==
    /\ enrollment[e].st = "new"
    /\ enrollment' = [enrollment EXCEPT ![e].st = "awaiting_key"]
    /\ UNCHANGED <<key, request, session, call>> /\ UNCHANGED Rest

\* submit_key: the enrollment is read and the certificate chain verified.
SubmitKey(c, e) ==
    /\ LiveIn(e, "awaiting_key")
    /\ \/ \E p \in PublicKeys :
             Begin(c, [Idle EXCEPT !.pc = "check_key", !.e = e, !.pk = p])
       \/ Begin(c, [Idle EXCEPT !.pc = "reject", !.e = e])
    /\ UNCHANGED Rows /\ UNCHANGED Rest

\* A chain that was not accepted costs the enrollment, whatever another
\* submission has made of it meanwhile.
Reject(c) ==
    /\ At(c, "reject")
    /\ enrollment' = [enrollment EXCEPT ![call[c].e].st = "gone"]
    /\ Return(c)
    /\ UNCHANGED <<key, request, session>> /\ UNCHANGED Rest

LiveKeys(p) == {k \in Keys : key[k].st = "live" /\ key[k].pk = p}

\* submit_key: find_by_key_id
CheckKey(c) ==
    /\ At(c, "check_key")
    /\ IF LiveKeys(call[c].pk) # {} THEN Return(c) ELSE Goto(c, "advance")
    /\ UNCHANGED Rows /\ UNCHANGED Rest

\* advance: UPDATE ... WHERE id = ? AND stage = ?
Advance(e, expected, row) ==
    enrollment' = IF enrollment[e].st = expected
                  THEN [enrollment EXCEPT ![e] = row] ELSE enrollment

AdvanceKey(c) ==
    /\ At(c, "advance")
    /\ LET e == call[c].e IN
          Advance(e, "awaiting_key",
                  [enrollment[e] EXCEPT !.st = "awaiting_confirmation",
                                        !.pk = call[c].pk])
    /\ Return(c)
    /\ UNCHANGED <<key, request, session>> /\ UNCHANGED Rest

\* confirm_enrollment: a user at the account screen, with a passkey verified
\* in the last five minutes.  The key they are shown is written back with
\* the stage.
Confirm(c, e, u) ==
    /\ u \in member
    /\ LiveIn(e, "awaiting_confirmation")
    /\ Begin(c, [Idle EXCEPT !.pc = "confirm", !.e = e, !.user = u,
                             !.pk = enrollment[e].pk])
    /\ UNCHANGED Rows /\ UNCHANGED Rest

AdvanceConfirmed(c) ==
    /\ At(c, "confirm")
    /\ LET e == call[c].e IN
          Advance(e, "awaiting_confirmation",
                  [enrollment[e] EXCEPT !.st = "confirmed", !.pk = call[c].pk,
                                        !.user = call[c].user,
                                        !.valid = enrollment[e].fresh])
    /\ Return(c)
    /\ UNCHANGED <<key, request, session>> /\ UNCHANGED Rest

\* activate: the code and the key's signature over it.
Activate(c, e) ==
    /\ LiveIn(e, "confirmed")
    /\ enrollment[e].valid
    /\ Begin(c, [Idle EXCEPT !.pc = "activate", !.e = e,
                             !.pk = enrollment[e].pk, !.user = enrollment[e].user])
    /\ UNCHANGED Rows /\ UNCHANGED Rest

\* (mutant) activate goes on whether or not its DELETE found the row.
TakeEnrollmentAnyway(c) ==
    /\ At(c, "activate")
    /\ enrollment' = [enrollment EXCEPT ![call[c].e].st = "gone"]
    /\ Goto(c, "insert")
    /\ UNCHANGED <<key, request, session>> /\ UNCHANGED Rest

\* Only the activation that deletes the enrollment goes on.
TakeEnrollment(c) ==
    /\ At(c, "activate")
    /\ IF enrollment[call[c].e].st = "gone"
       THEN Return(c) /\ UNCHANGED enrollment
       ELSE /\ enrollment' = [enrollment EXCEPT ![call[c].e].st = "gone"]
            /\ Goto(c, "insert")
    /\ UNCHANGED <<key, request, session>> /\ UNCHANGED Rest

\* The owner is still a member, and key_id is UNIQUE.
InsertKey(c) ==
    /\ At(c, "insert")
    /\ IF call[c].user \in member /\ LiveKeys(call[c].pk) = {}
       THEN \E k \in Keys :
               /\ key[k].st = "new"
               /\ key' = [key EXCEPT ![k] =
                     [st |-> "live", pk |-> call[c].pk, user |-> call[c].user,
                      from |-> call[c].e]]
       ELSE UNCHANGED key
    /\ Return(c)
    /\ UNCHANGED <<enrollment, request, session>> /\ UNCHANGED Rest

-----------------------------------------------------------------------------
(* Revoking a key *)

\* revoke_by_app (signed with the key) and revoke_from_account (from a
\* session of the owner, which is kept; it may itself be one the app
\* approved, or another).
Revoke(c, k) ==
    /\ key[k].st = "live"
    /\ \E keep \in {None} \cup {s \in Sessions : /\ session[s].st = "live"
                                                 /\ session[s].user = key[k].user} :
          Begin(c, [Idle EXCEPT !.pc = "list", !.k = k, !.s = keep])
    /\ UNCHANGED Rows /\ UNCHANGED Rest

Linked(k) == {s \in Sessions : session[s].st = "live" /\ session[s].link = k}

\* remove_key: approved_sessions
ListSessions(c) ==
    /\ At(c, "list")
    /\ call' = [call EXCEPT ![c].pc = "remove", ![c].list = Linked(call[c].k)]
    /\ UNCHANGED Rows /\ UNCHANGED Rest

\* The DELETE of a key takes its approval requests with it (ON DELETE
\* CASCADE) and clears the link of its sessions (ON DELETE SET NULL).
DropKey(k) ==
    /\ key' = [key EXCEPT ![k].st = "gone"]
    /\ request' = [q \in Requests |->
          IF request[q].key = k THEN [request[q] EXCEPT !.st = "gone"] ELSE request[q]]

Unlinked(k, ending, keep) ==
    [s \in Sessions |->
        IF session[s].link # k THEN session[s]
        ELSE [session[s] EXCEPT !.link = None,
                                !.kept = @ \/ (s \in ending /\ s = keep)]]

RemoveKey(c) ==
    LET k == call[c].k IN
    /\ At(c, "remove")
    /\ IF key[k].st = "live"
       THEN /\ DropKey(k)
            /\ session' = Unlinked(k, call[c].list, call[c].s)
            /\ call' = [call EXCEPT ![c].pc = "end", ![c].list = @ \ {call[c].s}]
       ELSE Return(c) /\ UNCHANGED <<key, request, session>>
    /\ UNCHANGED enrollment /\ UNCHANGED Rest

\* One session after the other: its row is deleted, then its refresh tokens
\* are revoked.  It counts as ended when both are done; an error in either
\* statement is EndSessionFails.
EndSession(c) ==
    /\ At(c, "end")
    /\ IF call[c].list = {}
       THEN Return(c) /\ UNCHANGED session
       ELSE \E s \in call[c].list :
               /\ session' = [session EXCEPT ![s].st = "ended"]
               /\ call' = [call EXCEPT ![c].list = @ \ {s}]
    /\ UNCHANGED <<enrollment, key, request>> /\ UNCHANGED Rest

Fault == faults < MaxFaults /\ faults' = faults + 1

\* A database error aborts remove_key; the key is gone, so nobody can ask
\* for it again.
EndSessionFails(c) ==
    /\ At(c, "end") /\ call[c].list # {}
    /\ Fault
    /\ abandoned' = abandoned \cup call[c].list
    /\ Return(c)
    /\ UNCHANGED Rows /\ UNCHANGED <<member, windowed>>

-----------------------------------------------------------------------------
(* A request, the decision on it and the sign-in *)

\* start_request
StartRequest(q) ==
    /\ request[q].st = "new"
    /\ request' = [request EXCEPT ![q].st = "pending"]
    /\ UNCHANGED <<enrollment, key, session, call>> /\ UNCHANGED Rest

\* signed_decision
Decide(c, q, k) ==
    /\ request[q].st = "pending" /\ request[q].fresh
    /\ key[k].st = "live"
    /\ key[k].user \in member
    /\ \E pc \in {"approve", "deny"} :
          Begin(c, [Idle EXCEPT !.pc = pc, !.q = q, !.k = k, !.user = key[k].user])
    /\ UNCHANGED Rows /\ UNCHANGED Rest

\* approve: UPDATE ... WHERE state = 'pending'; a key that has been deleted
\* breaks the foreign key.
Approve(c) ==
    LET q == call[c].q IN
    /\ At(c, "approve")
    /\ request' = IF request[q].st = "pending" /\ key[call[c].k].st = "live"
                  THEN [request EXCEPT ![q].st = "approved", ![q].key = call[c].k,
                                       ![q].user = call[c].user,
                                       ![q].valid = request[q].fresh]
                  ELSE request
    /\ Return(c)
    /\ UNCHANGED <<enrollment, key, session>> /\ UNCHANGED Rest

\* transition: UPDATE ... SET state = to WHERE id = ? AND state = from
Transition(q, from, to) ==
    request' = IF request[q].st = from THEN [request EXCEPT ![q].st = to] ELSE request

Deny(c) ==
    /\ At(c, "deny")
    /\ Transition(call[c].q, "pending", "denied")
    /\ Return(c)
    /\ UNCHANGED <<enrollment, key, session>> /\ UNCHANGED Rest

\* complete_request: the code is right; the browser has the request's
\* cookie, or it does not.
Complete(c, q) ==
    /\ request[q].st = "approved" /\ request[q].valid
    /\ \E pc \in {"complete", "refuse"} :
          Begin(c, [Idle EXCEPT !.pc = pc, !.q = q, !.k = request[q].key,
                                !.user = request[q].user])
    /\ UNCHANGED Rows /\ UNCHANGED Rest

\* (mutant) complete_request does not look at what its UPDATE changed.
TakeRequestAnyway(c) ==
    LET q == call[c].q IN
    /\ At(c, "complete")
    /\ Transition(q, "approved", "completed")
    /\ Goto(c, "admit")
    /\ UNCHANGED <<enrollment, key, session>> /\ UNCHANGED Rest

\* Only the completion that moves the state goes on.
TakeRequest(c) ==
    LET q == call[c].q IN
    /\ At(c, "complete")
    /\ Transition(q, "approved", "completed")
    /\ IF request[q].st = "approved" THEN Goto(c, "admit") ELSE Return(c)
    /\ UNCHANGED <<enrollment, key, session>> /\ UNCHANGED Rest

\* refuse_another_browser
RefuseAnotherBrowser(c) ==
    /\ At(c, "refuse")
    /\ Transition(call[c].q, "approved", "refused")
    /\ Return(c)
    /\ UNCHANGED <<enrollment, key, session>> /\ UNCHANGED Rest

\* member and the authentication policy, which may say no.
Admit(c) ==
    /\ At(c, "admit")
    /\ \/ call[c].user \in member /\ Goto(c, "establish")
       \/ Return(c)
    /\ UNCHANGED Rows /\ UNCHANGED Rest

\* establish_sso_with_binding
Establish(c) ==
    /\ At(c, "establish")
    /\ \E s \in Sessions :
          /\ session[s].st = "new"
          /\ session' = [session EXCEPT ![s] =
                [st |-> "live", user |-> call[c].user, link |-> None,
                 request |-> call[c].q, by |-> call[c].k, kept |-> FALSE]]
          /\ call' = [call EXCEPT ![c].pc = "link", ![c].s = s]
    /\ UNCHANGED <<enrollment, key, request>> /\ UNCHANGED Rest

\* A revocation of k is past its list and has not deleted the key yet.
Revoking(k) == \E d \in Calls : At(d, "remove") /\ call[d].k = k

\* (mutant) sign_in goes on when the session could not be linked.
LinkOrNot(c) ==
    LET s == call[c].s
        k == call[c].k
    IN
    /\ At(c, "link")
    /\ IF key[k].st = "live"
       THEN /\ session' = [session EXCEPT ![s].link = k]
            /\ windowed' = IF Revoking(k) THEN windowed \cup {s} ELSE windowed
       ELSE UNCHANGED <<session, windowed>>
    /\ Return(c)
    /\ UNCHANGED <<enrollment, key, request, member, abandoned, faults>>

\* link_session: the foreign key refuses a key that has been deleted.
LinkSession(c) ==
    LET s == call[c].s
        k == call[c].k
    IN
    /\ At(c, "link")
    /\ IF key[k].st = "live"
       THEN /\ session' = [session EXCEPT ![s].link = k]
            /\ windowed' = IF Revoking(k) THEN windowed \cup {s} ELSE windowed
            /\ Return(c)
       ELSE Goto(c, "undo") /\ UNCHANGED <<session, windowed>>
    /\ UNCHANGED <<enrollment, key, request, member, abandoned, faults>>

\* The session that could not be linked is deleted and the sign-in refused.
UndoSession(c) ==
    /\ At(c, "undo")
    /\ session' = [session EXCEPT ![call[c].s].st = "ended"]
    /\ Return(c)
    /\ UNCHANGED <<enrollment, key, request>> /\ UNCHANGED Rest

\* let _ = delete(..): an error is dropped, and the session stays.
UndoFails(c) ==
    /\ At(c, "undo")
    /\ Fault
    /\ abandoned' = abandoned \cup {call[c].s}
    /\ Return(c)
    /\ UNCHANGED Rows /\ UNCHANGED <<member, windowed>>

\* LinkSession when the database fails for another reason.
LinkFails(c) ==
    /\ At(c, "link")
    /\ Fault
    /\ Goto(c, "undo")
    /\ UNCHANGED Rows /\ UNCHANGED <<member, windowed, abandoned>>

-----------------------------------------------------------------------------
(* Time, and what happens elsewhere *)

\* is_expired_at, then the purge of expired rows.
ExpireEnrollment(e) ==
    /\ enrollment[e].st \notin {"new", "gone"}
    /\ enrollment' = [enrollment EXCEPT ![e] =
          IF enrollment[e].fresh
          THEN [enrollment[e] EXCEPT !.fresh = FALSE, !.valid = FALSE]
          ELSE [enrollment[e] EXCEPT !.st = "gone"]]
    /\ UNCHANGED <<key, request, session, call>> /\ UNCHANGED Rest

ExpireRequest(q) ==
    /\ request[q].st \notin {"new", "gone"}
    /\ request' = [request EXCEPT ![q] =
          IF request[q].fresh
          THEN [request[q] EXCEPT !.fresh = FALSE, !.valid = FALSE]
          ELSE [request[q] EXCEPT !.st = "gone"]]
    /\ UNCHANGED <<enrollment, key, session, call>> /\ UNCHANGED Rest

\* The code of 120 s, or of 30 s, runs out before the row does.
ExpireCodes ==
    /\ \/ \E e \in Enrollments :
             /\ enrollment[e].st = "confirmed" /\ enrollment[e].valid
             /\ enrollment' = [enrollment EXCEPT ![e].valid = FALSE]
             /\ UNCHANGED request
       \/ \E q \in Requests :
             /\ request[q].st = "approved" /\ request[q].valid
             /\ request' = [request EXCEPT ![q].valid = FALSE]
             /\ UNCHANGED enrollment
    /\ UNCHANGED <<key, session, call>> /\ UNCHANGED Rest

\* A session is signed out or runs out.
SignOut(s) ==
    /\ session[s].st = "live"
    /\ session' = [session EXCEPT ![s].st = "ended"]
    /\ UNCHANGED <<enrollment, key, request, call>> /\ UNCHANGED Rest

\* The user is disabled, locked or suspended here, or comes back.
SetMember(u) ==
    /\ member' = IF u \in member THEN member \ {u} ELSE member \cup {u}
    /\ UNCHANGED Rows /\ UNCHANGED <<call, windowed, abandoned, faults>>

Handler(c) ==
    \/ \E e \in Enrollments : \/ SubmitKey(c, e)
                              \/ Activate(c, e)
                              \/ \E u \in Users : Confirm(c, e, u)
    \/ Reject(c) \/ CheckKey(c) \/ AdvanceKey(c) \/ AdvanceConfirmed(c)
    \/ TakeEnrollment(c) \/ InsertKey(c)
    \/ \E k \in Keys : Revoke(c, k) \/ \E q \in Requests : Decide(c, q, k)
    \/ ListSessions(c) \/ RemoveKey(c) \/ EndSession(c) \/ EndSessionFails(c)
    \/ Approve(c) \/ Deny(c)
    \/ \E q \in Requests : Complete(c, q)
    \/ TakeRequest(c) \/ RefuseAnotherBrowser(c) \/ Admit(c) \/ Establish(c)
    \/ LinkSession(c) \/ LinkFails(c) \/ UndoSession(c) \/ UndoFails(c)

Next ==
    \/ \E c \in Calls : Handler(c)
    \/ \E e \in Enrollments : StartEnrollment(e) \/ ExpireEnrollment(e)
    \/ \E q \in Requests : StartRequest(q) \/ ExpireRequest(q)
    \/ ExpireCodes
    \/ \E s \in Sessions : SignOut(s)
    \/ \E u \in Users : SetMember(u)

Spec == Init /\ [][Next]_vars

-----------------------------------------------------------------------------
(* Properties *)

Signing(c, s) == call[c].pc \in {"link", "undo"} /\ call[c].s = s
Ending(c, s)  == At(c, "end") /\ s \in call[c].list

(* remove_key and sign_in: a live session whose key has been revoked is    *)
(* about to be ended, or is the screen the revocation was asked from, or   *)
(* was linked in the window between listing the sessions and deleting the  *)
(* key, or a database error let it be.                                     *)
SessionsEndWithKey ==
    \A s \in Sessions :
        session[s].st = "live" /\ key[session[s].by].st = "gone"
        => \/ \E c \in Calls : Signing(c, s) \/ Ending(c, s)
           \/ session[s].kept
           \/ s \in windowed
           \/ s \in abandoned

(* complete_request: an approval signs in at most once, its owner only, and *)
(* only if nobody has denied it or tried it in another browser.            *)
OneSignInPerApproval ==
    /\ \A s, t \in Sessions :
          session[s].request # None /\ session[s].request = session[t].request
          => s = t
    /\ \A s \in Sessions :
          session[s].request # None
          => /\ request[session[s].request].st \in {"completed", "gone"}
             /\ session[s].user = key[session[s].by].user

(* activate: a key belongs to the user who confirmed that very key, an     *)
(* enrollment gives at most one, and no key pair is registered twice.      *)
KeyAsConfirmed ==
    \A k, l \in Keys :
        key[k].st # "new"
        => LET e == key[k].from IN
           /\ enrollment[e].st = "gone"
           /\ key[k].user = enrollment[e].user
           /\ key[k].pk = enrollment[e].pk
           /\ k # l /\ key[l].st # "new" => key[l].from # e
           /\ k # l /\ key[k].st = "live" /\ key[l].st = "live"
              => key[k].pk # key[l].pk
=============================================================================
