----------------------------- MODULE Membership -----------------------------
(***************************************************************************)
(* Guests of one tenant: invitations, suspension and removal               *)
(* (application/invitation.rs over tenant_memberships), the rights a guest *)
(* may be given there (permission_management.rs over user_permissions),    *)
(* and the two things that live off both: console tokens (admin_access.rs, *)
(* management_token.rs) and refresh tokens, which a sign-in issues and the *)
(* refresh grant (token.rs) renews.                                        *)
(*                                                                         *)
(* Each handler reads the membership first and writes later, with          *)
(* statements that name the row by (tenant, user) only, so a handler may   *)
(* write to another row than the one it read.  The first read starts the   *)
(* request; a read that refuses it leaves no trace and is not a step.      *)
(***************************************************************************)
EXTENDS Naturals

CONSTANTS
    Users,        \* guests: users whose home is another tenant
    Founders,     \* guests created ACTIVE with the tenant
    Requests,
    None

ASSUME GuestsAssumption ==
    /\ Founders \subseteq Users
    /\ None \notin Users

VARIABLES
    row,        \* tenant_memberships of this tenant
    rights,     \* user_permissions with this tenant as scope: who has a code
    tokens,     \* who has a live refresh token issued in this tenant
    strays,     \* who has one that a suspension has missed
    console,    \* who has an unexpired management token that carries the code
    req,
    everIn      \* history: who has ever accepted (or founded)

vars == <<row, rights, tokens, strays, console, req, everIn>>

\* MembershipStatus; "lapsed" is INVITED past invitation_expires_at.
Status == {"none", "invited", "lapsed", "active", "suspended"}

Steps == {"idle", "create", "activate", "suspend", "revoke_tokens", "resume",
          "revoke_rights", "delete", "grant", "revoke", "codes", "sign", "issue",
          "rotate", "renew"}

\* raced: the token this request issues or renews has escaped a suspension.
RequestRecord == [pc: Steps, user: Users \cup {None}, raced: BOOLEAN]

TypeOK ==
    /\ row \in [Users -> Status]
    /\ rights \in SUBSET Users
    /\ tokens \in SUBSET Users
    /\ strays \in SUBSET Users
    /\ console \in SUBSET Users
    /\ req \in [Requests -> RequestRecord]
    /\ everIn \in SUBSET Users

Idle == [pc |-> "idle", user |-> None, raced |-> FALSE]

Init ==
    /\ row = [u \in Users |-> IF u \in Founders THEN "active" ELSE "none"]
    /\ rights = Founders
    /\ tokens = {}
    /\ strays = {}
    /\ console = {}
    /\ req = [r \in Requests |-> Idle]
    /\ everIn = Founders

\* is_active_member (the home tenant is taken to be ACTIVE)
Active(u) == row[u] = "active"

Begin(r, step, u) ==
    /\ req[r].pc = "idle"
    /\ req' = [req EXCEPT ![r] = [Idle EXCEPT !.pc = step, !.user = u]]
    /\ UNCHANGED <<row, rights, tokens, strays, console, everIn>>

Goto(r, step) ==
    req' = [req EXCEPT ![r] = IF step = "idle" THEN Idle ELSE [@ EXCEPT !.pc = step]]

\* r goes on as the record, and has overtaken the requests of u at the steps.
Overtake(r, record, u, steps) ==
    req' = [q \in Requests |->
               IF q = r THEN record
               ELSE IF req[q].pc \in steps /\ req[q].user = u
                    THEN [req[q] EXCEPT !.raced = TRUE]
                    ELSE req[q]]

-----------------------------------------------------------------------------
(* Invitation *)

\* create_invitation: no row yet.
FindNoRow(r, u) == row[u] = "none" /\ Begin(r, "create", u)

\* INSERT: a row that has appeared meanwhile is a unique violation.
CreateInvitation(r) ==
    LET u == req[r].user IN
    /\ req[r].pc = "create"
    /\ row' = IF row[u] = "none" THEN [row EXCEPT ![u] = "invited"] ELSE row
    /\ Goto(r, "idle")
    /\ UNCHANGED <<rights, tokens, strays, console, everIn>>

\* accept_invitation: the token names the INVITED row of the signed-in user,
\* which has not expired.
FindInvitation(r, u) == row[u] = "invited" /\ Begin(r, "activate", u)

\* UPDATE ... SET status of the user's row, if there is one, whatever it has
\* become since it was read
UpdateStatus(u, status) ==
    row' = IF row[u] = "none" THEN row ELSE [row EXCEPT ![u] = status]

Activate(r) ==
    /\ req[r].pc = "activate"
    /\ UpdateStatus(req[r].user, "active")
    /\ everIn' = everIn \cup {req[r].user}
    /\ Goto(r, "idle")
    /\ UNCHANGED <<rights, tokens, strays, console>>

\* invitation_expires_at passes.
Lapse(u) ==
    /\ row[u] = "invited"
    /\ row' = [row EXCEPT ![u] = "lapsed"]
    /\ UNCHANGED <<rights, tokens, strays, console, req, everIn>>

-----------------------------------------------------------------------------
(* Suspension and removal *)

\* can_be_suspended
FindToSuspend(r, u) == row[u] = "active" /\ Begin(r, "suspend", u)

\* update_status(SUSPENDED); sign-ins that have checked are overtaken.
Suspend(r) ==
    LET u == req[r].user IN
    /\ req[r].pc = "suspend"
    /\ UpdateStatus(u, "suspended")
    /\ Overtake(r, [req[r] EXCEPT !.pc = "revoke_tokens"], u, {"issue"})
    /\ UNCHANGED <<rights, tokens, strays, console, everIn>>

\* (mutant) The statement names another tenant and finds no token.
RevokeTokensOfNobody(r) ==
    /\ req[r].pc = "revoke_tokens"
    /\ Goto(r, "idle")
    /\ UNCHANGED <<row, rights, tokens, strays, console, everIn>>

\* refresh_tokens.revoke_all_for_user_in_tenant: every row there is, not the
\* child that a refresh has yet to insert.
RevokeTokens(r) ==
    LET u == req[r].user IN
    /\ req[r].pc = "revoke_tokens"
    /\ tokens' = tokens \ {u}
    /\ strays' = strays \ {u}
    /\ Overtake(r, Idle, u, {"renew"})
    /\ UNCHANGED <<row, rights, console, everIn>>

\* (mutant) Any membership can be resumed, one not yet accepted included.
FindAnyToResume(r, u) == row[u] \in {"invited", "suspended"} /\ Begin(r, "resume", u)

\* can_be_resumed
FindToResume(r, u) == row[u] = "suspended" /\ Begin(r, "resume", u)

\* update_status(ACTIVE)
Resume(r) ==
    LET u == req[r].user IN
    /\ req[r].pc = "resume"
    /\ UpdateStatus(u, "active")
    /\ Goto(r, "idle")
    /\ UNCHANGED <<rights, tokens, strays, console, everIn>>

\* revoke_membership of a guest in any state
FindToRemove(r, u) == row[u] # "none" /\ Begin(r, "revoke_rights", u)

\* user_permissions.revoke_all_for_user_in_tenant, one transaction
RevokeRights(r) ==
    /\ req[r].pc = "revoke_rights"
    /\ rights' = rights \ {req[r].user}
    /\ Goto(r, "delete")
    /\ UNCHANGED <<row, tokens, strays, console, everIn>>

DeleteRow(r) ==
    /\ req[r].pc = "delete"
    /\ row' = [row EXCEPT ![req[r].user] = "none"]
    /\ Goto(r, "idle")
    /\ UNCHANGED <<rights, tokens, strays, console, everIn>>

-----------------------------------------------------------------------------
(* Rights *)

\* (mutant) A row is enough, whatever its status.
CheckTargetRow(r, u, step) == row[u] # "none" /\ Begin(r, step, u)

\* ensure_user_in_tenant: the target is an ACTIVE member.
CheckTarget(r, u, step) == Active(u) /\ Begin(r, step, u)

GrantRight(r) ==
    /\ req[r].pc = "grant"
    /\ rights' = rights \cup {req[r].user}
    /\ Goto(r, "idle")
    /\ UNCHANGED <<row, tokens, strays, console, everIn>>

RevokeRight(r) ==
    /\ req[r].pc = "revoke"
    /\ rights' = rights \ {req[r].user}
    /\ Goto(r, "idle")
    /\ UNCHANGED <<row, tokens, strays, console, everIn>>

-----------------------------------------------------------------------------
(* What membership and rights are for *)

\* (mutant) Rights alone decide.
CheckMemberByRights(r, u) == u \in rights /\ Begin(r, "codes", u)

\* resolve_session_grant for a valid session: is the user an active member?
\* A user who is not gets a token without codes, which opens nothing.
CheckMember(r, u) == Active(u) /\ Begin(r, "codes", u)

\* list_codes_for_user
ReadCodes(r) ==
    /\ req[r].pc = "codes"
    /\ Goto(r, IF req[r].user \in rights THEN "sign" ELSE "idle")
    /\ UNCHANGED <<row, rights, tokens, strays, console, everIn>>

\* issue_for_session signs a token that carries the codes.
Sign(r) ==
    /\ req[r].pc = "sign"
    /\ console' = console \cup {req[r].user}
    /\ Goto(r, "idle")
    /\ UNCHANGED <<row, rights, tokens, strays, everIn>>

\* The management token's exp passes.
ExpireConsole(u) ==
    /\ u \in console
    /\ console' = console \ {u}
    /\ UNCHANGED <<row, rights, tokens, strays, req, everIn>>

\* sso_restore checks the membership; the code and its tokens follow.
CheckSignIn(r, u) == Active(u) /\ Begin(r, "issue", u)

\* INSERT of a refresh token by r
Insert(r) ==
    LET u == req[r].user IN
    /\ IF req[r].raced THEN strays' = strays \cup {u} /\ UNCHANGED tokens
                       ELSE tokens' = tokens \cup {u} /\ UNCHANGED strays
    /\ Goto(r, "idle")
    /\ UNCHANGED <<row, rights, console, everIn>>

IssueToken(r) == req[r].pc = "issue" /\ Insert(r)

\* exchange_refresh_token has found a live token of the user.  Nothing in it
\* reads the membership.
FindToken(r, u) == u \in tokens /\ Begin(r, "rotate", u)

FindStray(r, u) ==
    /\ req[r].pc = "idle"
    /\ u \in strays
    /\ req' = [req EXCEPT ![r] = [Idle EXCEPT !.pc = "rotate", !.user = u, !.raced = TRUE]]
    /\ UNCHANGED <<row, rights, tokens, strays, console, everIn>>

\* A live row of the user of r goes; another of the same kind may remain.
Drop(r) ==
    LET u == req[r].user IN
    IF req[r].raced THEN strays' \in {strays, strays \ {u}} /\ UNCHANGED tokens
                    ELSE tokens' \in {tokens, tokens \ {u}} /\ UNCHANGED strays

\* UPDATE ... SET revoked_at: one row, and the refresh goes on; no row, or an
\* application the user may no longer use, and the family is revoked.  Which
\* of the user's rows it names is not kept, so either may happen.
Rotate(r) ==
    /\ req[r].pc = "rotate"
    /\ Drop(r)
    /\ \/ req[r].user \in (IF req[r].raced THEN strays ELSE tokens) /\ Goto(r, "renew")
       \/ Goto(r, "idle")
    /\ UNCHANGED <<row, rights, console, everIn>>

\* The child is inserted, whatever has happened since the UPDATE.
Renew(r) == req[r].pc = "renew" /\ Insert(r)

\* The family expires or is revoked by its client.
LoseToken(u) ==
    /\ \/ u \in tokens /\ tokens' = tokens \ {u} /\ UNCHANGED strays
       \/ u \in strays /\ strays' = strays \ {u} /\ UNCHANGED tokens
    /\ UNCHANGED <<row, rights, console, req, everIn>>

\* A statement fails or the connection goes away.
Abandon(r) ==
    /\ req[r].pc \notin {"idle", "revoke_tokens"}
    /\ Goto(r, "idle")
    /\ UNCHANGED <<row, rights, tokens, strays, console, everIn>>

\* A suspension that stops before its tokens are revoked answers with an
\* error; the tokens it leaves, and those being renewed, have escaped it.
AbandonSweep(r) ==
    LET u == req[r].user IN
    /\ req[r].pc = "revoke_tokens"
    /\ strays' = strays \cup (tokens \cap {u})
    /\ tokens' = tokens \ {u}
    /\ Overtake(r, Idle, u, {"rotate", "renew"})
    /\ UNCHANGED <<row, rights, console, everIn>>

Step(r) ==
    \/ CreateInvitation(r)
    \/ Activate(r)
    \/ Suspend(r)
    \/ RevokeTokens(r)
    \/ Resume(r)
    \/ RevokeRights(r)
    \/ DeleteRow(r)
    \/ GrantRight(r)
    \/ RevokeRight(r)
    \/ ReadCodes(r)
    \/ Sign(r)
    \/ IssueToken(r)
    \/ Rotate(r)
    \/ Renew(r)

Request(r, u) ==
    \/ FindNoRow(r, u)
    \/ FindInvitation(r, u)
    \/ FindToSuspend(r, u)
    \/ FindToResume(r, u)
    \/ FindToRemove(r, u)
    \/ CheckTarget(r, u, "grant")
    \/ CheckTarget(r, u, "revoke")
    \/ CheckMember(r, u)
    \/ CheckSignIn(r, u)
    \/ FindToken(r, u)
    \/ FindStray(r, u)

Serve ==
    \/ \E r \in Requests : Step(r) \/ \E u \in Users : Request(r, u)
    \/ \E u \in Users : ExpireConsole(u) \/ LoseToken(u) \/ Lapse(u)

Next == Serve \/ \E r \in Requests : Abandon(r) \/ AbandonSweep(r)

Spec == Init /\ [][Next]_vars

\* A handler that has begun is driven on, and a signed token's time passes.
FairSpec ==
    /\ Spec
    /\ \A r \in Requests : WF_vars(Step(r))
    /\ \A u \in Users : WF_vars(ExpireConsole(u))

-----------------------------------------------------------------------------
\* Whoever has ever been ACTIVE or SUSPENDED here accepted an invitation of
\* this tenant or founded it: no interleaving of stale administrative writes
\* lets in a user who never said yes.
NobodyInUnasked ==
    \A u \in Users : row[u] \in {"active", "suspended"} => u \in everIn

\* Rights in the tenant, and console tokens that carry them, belong only to
\* users who have been members.
RightsOnlyForMembers == rights \cup console \subseteq everIn

\* What the two rest on: the writes still to come are for users who have been
\* members too.
PendingForMembers ==
    /\ \A r \in Requests :
          req[r].pc \in {"suspend", "revoke_tokens", "resume", "grant", "revoke",
                         "codes", "sign", "issue"} => req[r].user \in everIn
    /\ \A r \in Requests : req[r].pc # "idle" => req[r].user \in Users

\* A suspended guest has no live refresh token but the ones the suspension is
\* about to revoke.  The strays are what it misses, and there are no others
\* than these: the token of a sign-in that had passed its check before the
\* status changed, the child of a refresh that was between its UPDATE and its
\* INSERT when the tokens were revoked, the tokens left by a suspension that
\* failed half-way (it answered with an error), and their renewals.
SuspensionReachesTokens ==
    \A u \in Users : row[u] = "suspended" /\ u \in tokens =>
        \E r \in Requests : req[r].pc = "revoke_tokens" /\ req[r].user = u

\* A sign-in that no suspension has overtaken is not for a suspended guest;
\* a refresh that no sweep has overtaken may be, until the sweep.
OvertakenIsKnown ==
    \A r \in Requests : ~req[r].raced =>
        /\ req[r].pc = "issue" => row[req[r].user] # "suspended"
        /\ req[r].pc = "renew" /\ row[req[r].user] = "suspended" =>
              \E q \in Requests : req[q].pc = "revoke_tokens" /\ req[q].user = req[r].user

MemberInv ==
    /\ TypeOK
    /\ NobodyInUnasked
    /\ RightsOnlyForMembers
    /\ PendingForMembers
    /\ SuspensionReachesTokens
    /\ OvertakenIsKnown

\* Rights read at every exchange: a guest who stays out for good ends up with
\* no console token that opens anything, even though suspension leaves the
\* rights in place.
ConsoleCloses ==
    \A u \in Users : <>[](~Active(u)) => <>[](u \notin console)
=============================================================================
