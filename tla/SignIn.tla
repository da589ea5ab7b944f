------------------------------- MODULE SignIn -------------------------------
(***************************************************************************)
(* An authorization request from /authorize to its code: the auth_sessions *)
(* row that carries it (domain/auth_session.rs), the ways to sign in       *)
(* (login.rs, mfa_login.rs, change_password.rs, passkey_authentication.rs, *)
(* external_login.rs, app_approval.rs), the restoration of an SSO session  *)
(* (authorize.rs, sso_restore.rs), consent (consent.rs) and the issue of   *)
(* the code (sign_in_completion.rs, code_issuance.rs).                     *)
(*                                                                         *)
(* A handler finds the row by the id its browser presents, decides, and    *)
(* writes later with WHERE id_hash = <the id it found>; every write that   *)
(* advances the flow also replaces the id.  Ids are random and never come  *)
(* back, so all that matters of the id a handler holds is whether it is    *)
(* still the row's (fresh); a write under an older id changes no row and   *)
(* is still answered Ok.  A handler that refuses before writing anything   *)
(* is not a step.  Every user is an ACTIVE member.                         *)
(***************************************************************************)
EXTENDS Naturals

CONSTANTS
    Users,
    Flows,          \* authorization requests, all of one client
    Sids,           \* SSO sessions to create
    Requests,       \* handlers running at once
    TotpUsers,      \* users with a confirmed TOTP authenticator
    Reissued,       \* users who have to change their password at sign-in
    Decided,        \* what the tenant's policies may decide for a flow
    Silent,         \* flows with prompt=none
    Forced,         \* flows with prompt=login or select_account
    ConsentPrompt,  \* flows with prompt=consent
    Scopes,         \* scopes other than openid
    Asks,           \* scopes_needing_consent of a flow; empty for openid alone
    None

\* PolicyDecision: Allow, Deny, RequireMfa, RequireMethods (of TOTP, of
\* WebAuthn).
Decisions == {"allow", "deny", "mfa", "totp", "webauthn"}

ASSUME SignInAssumption ==
    /\ TotpUsers \subseteq Users
    /\ Reissued \subseteq Users
    /\ Decided \subseteq Decisions
    /\ Silent \subseteq Flows
    /\ Forced \subseteq Flows \ Silent       \* none goes with no other prompt
    /\ ConsentPrompt \subseteq Flows \ Silent
    /\ Asks \in [Flows -> SUBSET Scopes]
    /\ None \notin Users \cup Sids

VARIABLES
    policy,      \* what the tenant's policies decide for a flow
    row,         \* auth_sessions
    sso,         \* sso_sessions
    consents,    \* client_consents: the scopes of a user's record for this client
    mustChange,  \* users whose password has to be changed at sign-in
    codes,       \* history: authorization codes issued
    approved,    \* history: <<flow, user>> of approved consent screens
    req

vars == <<policy, row, sso, consents, mustChange, codes, approved, req>>

Methods == {"password", "totp", "email_otp", "webauthn", "external_idp", "app_approval"}

\* is_second_factor
SecondFactors == {"totp", "email_otp", "webauthn", "app_approval"}

\* st: not yet created, in the table, deleted.  shown: some browser has been
\* given the id.  handle: handle_hash is set.  user, auth (auth_time is set),
\* pw (password_verified_at is set), sid, methods: the columns.
AuthSessionRow ==
    [st: {"new", "live", "gone"}, shown: BOOLEAN, handle: BOOLEAN,
     user: Users \cup {None}, auth: BOOLEAN, pw: BOOLEAN,
     sid: Sids \cup {None}, methods: SUBSET Methods]

\* flow, history, is the flow the session was established in.
SsoRow == [st: {"new", "live", "ended"}, user: Users \cup {None},
           methods: SUBSET Methods, flow: Flows \cup {None}]

Code == [flow: Flows, user: Users, methods: SUBSET Methods, sid: Sids]

Steps == {"idle", "save_password", "change", "establish", "refind", "link", "save",
          "consent", "exchange", "restore", "restored", "grant", "issue", "delete"}

RequestRecord ==
    [pc: Steps, flow: Flows \cup {None}, fresh: BOOLEAN, restoring: BOOLEAN,
     user: Users \cup {None}, methods: SUBSET Methods, sid: Sids \cup {None}]

TypeOK ==
    /\ policy \in [Flows -> Decisions]
    /\ row \in [Flows -> AuthSessionRow]
    /\ sso \in [Sids -> SsoRow]
    /\ consents \in [Users -> SUBSET Scopes]
    /\ mustChange \in SUBSET Users
    /\ codes \in SUBSET Code
    /\ approved \in SUBSET (Flows \X Users)
    /\ req \in [Requests -> RequestRecord]

NewRow == [st |-> "new", shown |-> FALSE, handle |-> FALSE, user |-> None,
           auth |-> FALSE, pw |-> FALSE, sid |-> None, methods |-> {}]

NewSso == [st |-> "new", user |-> None, methods |-> {}, flow |-> None]

Idle == [pc |-> "idle", flow |-> None, fresh |-> FALSE, restoring |-> FALSE,
         user |-> None, methods |-> {}, sid |-> None]

Init ==
    /\ policy \in [Flows -> Decided]
    /\ row = [f \in Flows |-> NewRow]
    /\ sso = [s \in Sids |-> NewSso]
    /\ consents = [u \in Users |-> {}]
    /\ mustChange = Reissued
    /\ codes = {}
    /\ approved = {}
    /\ req = [r \in Requests |-> Idle]

-----------------------------------------------------------------------------
(* The row *)

\* reconstitute
Progress(f) ==
    CASE row[f].user = None -> "anonymous"
      [] row[f].user # None /\ row[f].auth -> "authenticated"
      [] row[f].user # None /\ ~row[f].auth /\ row[f].pw -> "password_verified"
      [] OTHER -> "anonymous"

\* password_verified_user: the user the row names, when a password was
\* verified in this flow
PasswordVerifiedUser(f) == IF row[f].pw THEN row[f].user ELSE None

\* find: some browser can present the id.
Findable(f) == row[f].st = "live" /\ row[f].shown

\* unmet_method_requirement
Unmet(d, ms) == d \in {"totp", "webauthn"} /\ d \notin ms

\* What a decision asks of a completed authentication.
Meets(d, ms) ==
    /\ d # "deny"
    /\ d = "mfa" => ms \cap SecondFactors # {}
    /\ ~Unmet(d, ms)

\* r has found f and goes on to step with this user and these methods.
Begin(r, step, f, u, ms) ==
    /\ req[r].pc = "idle"
    /\ req' = [req EXCEPT ![r] =
                 [Idle EXCEPT !.pc = step, !.flow = f, !.fresh = TRUE, !.user = u, !.methods = ms]]

Goto(r, step) ==
    req' = [req EXCEPT ![r] = IF step = "idle" THEN Idle ELSE [@ EXCEPT !.pc = step]]

\* r replaces the id of f's row or deletes it: whoever else holds the id holds
\* an old one.
GotoAlone(r, step) ==
    req' = [q \in Requests |->
               IF q = r THEN IF step = "idle" THEN Idle ELSE [req[q] EXCEPT !.pc = step]
               ELSE IF req[q].flow = req[r].flow THEN [req[q] EXCEPT !.fresh = FALSE]
               ELSE req[q]]

\* A write by id: to the row while the id is the row's, else to no row.
Write(r, new) ==
    row' = IF req[r].fresh THEN [row EXCEPT ![req[r].flow] = new] ELSE row

\* The answer carries the id.
Show(r) ==
    row' = IF req[r].fresh THEN [row EXCEPT ![req[r].flow] = [@ EXCEPT !.shown = TRUE]] ELSE row

GotoAfterWrite(r, step) == IF req[r].fresh THEN GotoAlone(r, step) ELSE Goto(r, step)

\* authorize: a row with a handle; its id is given to nobody.
Authorize(f) ==
    /\ row[f].st = "new"
    /\ row' = [row EXCEPT ![f] = [NewRow EXCEPT !.st = "live", !.handle = TRUE]]
    /\ UNCHANGED <<policy, sso, consents, mustChange, codes, approved, req>>

\* The row expires and is deleted by the purge or by the next to find it.
ExpireRow(f) ==
    /\ row[f].st = "live"
    /\ row' = [row EXCEPT ![f] = [NewRow EXCEPT !.st = "gone"]]
    /\ req' = [q \in Requests |->
                  IF req[q].flow = f THEN [req[q] EXCEPT !.fresh = FALSE] ELSE req[q]]
    /\ UNCHANGED <<policy, sso, consents, mustChange, codes, approved>>

-----------------------------------------------------------------------------
(* Ways to sign in *)

\* login: the password is right.  A password to be changed and a confirmed
\* TOTP are a second step away; otherwise the password has to be enough.
Login(r, f, u) ==
    /\ Findable(f)
    /\ policy[f] # "deny"
    /\ IF u \in mustChange \cup TotpUsers
          THEN Begin(r, "save_password", f, u, {})
          ELSE /\ policy[f] # "mfa"
               /\ ~Unmet(policy[f], {"password"})
               /\ Begin(r, "establish", f, u, {"password"})
    /\ UNCHANGED <<policy, row, sso, consents, mustChange, codes, approved>>

\* (mutant) The authentication an earlier sign-in left in the row stays.
SavePasswordOnly(r) ==
    /\ req[r].pc = "save_password"
    /\ Write(r, [row[req[r].flow] EXCEPT !.user = req[r].user, !.pw = TRUE, !.shown = TRUE])
    /\ GotoAfterWrite(r, "idle")
    /\ UNCHANGED <<policy, sso, consents, mustChange, codes, approved>>

\* save_password_verification: an earlier authentication is cleared; the
\* answer carries the new id.
SavePassword(r) ==
    /\ req[r].pc = "save_password"
    /\ Write(r, [row[req[r].flow] EXCEPT !.user = req[r].user, !.pw = TRUE, !.shown = TRUE,
                                         !.auth = FALSE, !.sid = None, !.methods = {}])
    /\ GotoAfterWrite(r, "idle")
    /\ UNCHANGED <<policy, sso, consents, mustChange, codes, approved>>

\* (mutant) The policy is not asked again once the second factor is known.
MfaUnasked(r, f, m) ==
    LET u == PasswordVerifiedUser(f) IN
    /\ Findable(f)
    /\ u # None
    /\ m = "totp" => u \in TotpUsers
    /\ Begin(r, "establish", f, u, {"password", m})
    /\ UNCHANGED <<policy, row, sso, consents, mustChange, codes, approved>>

\* mfa_login verify: a second factor of the user whose password was verified,
\* and the policy asked again with the methods used.
Mfa(r, f, m) ==
    LET u == PasswordVerifiedUser(f) IN
    /\ Findable(f)
    /\ u # None
    /\ m = "totp" => u \in TotpUsers
    /\ policy[f] # "deny"
    /\ ~Unmet(policy[f], {"password", m})
    /\ Begin(r, "establish", f, u, {"password", m})
    /\ UNCHANGED <<policy, row, sso, consents, mustChange, codes, approved>>

\* change: the user has to change the password.
BeginChange(r, f) ==
    LET u == PasswordVerifiedUser(f) IN
    /\ Findable(f)
    /\ u \in mustChange
    /\ Begin(r, "change", f, u, {"password"})
    /\ UNCHANGED <<policy, row, sso, consents, mustChange, codes, approved>>

\* update_password, conditional on the hash that was read; then the policy.
\* RequireMfa and an unmet requirement end here (an MfaRequired answer leaves
\* the row and its id as they are).
ChangePassword(r) ==
    LET u == req[r].user
        d == policy[req[r].flow] IN
    /\ req[r].pc = "change"
    /\ mustChange' = mustChange \ {u}
    /\ Goto(r, IF u \in mustChange /\ d \notin {"deny", "mfa"} /\ ~Unmet(d, {"password"})
                  THEN "establish" ELSE "idle")
    /\ UNCHANGED <<policy, row, sso, consents, codes, approved>>

\* passkey_authentication complete: a passkey satisfies RequireMfa.
Passkey(r, f, u) ==
    /\ Findable(f)
    /\ policy[f] # "deny"
    /\ ~Unmet(policy[f], {"webauthn"})
    /\ Begin(r, "establish", f, u, {"webauthn"})
    /\ UNCHANGED <<policy, row, sso, consents, mustChange, codes, approved>>

\* external_login complete: an external sign-in is a single factor.
External(r, f, u) ==
    /\ Findable(f)
    /\ policy[f] \notin {"deny", "mfa"}
    /\ ~Unmet(policy[f], {"external_idp"})
    /\ Begin(r, "establish", f, u, {"external_idp"})
    /\ UNCHANGED <<policy, row, sso, consents, mustChange, codes, approved>>

\* app_approval complete, of an approved request: the row is found by the id
\* the login screen had when it asked.  An approval satisfies RequireMfa, and
\* no requirement of a method.
AppApproval(r, f, u) ==
    /\ Findable(f)
    /\ policy[f] # "deny"
    /\ ~Unmet(policy[f], {"app_approval"})
    /\ Begin(r, "establish", f, u, {"app_approval"})
    /\ UNCHANGED <<policy, row, sso, consents, mustChange, codes, approved>>

\* What an external sign-in and an approval do before the row is written.
AfterEstablish(ms) ==
    CASE ms = {"external_idp"} -> "refind"
      [] ms = {"app_approval"} -> "link"
      [] OTHER                 -> "save"

\* establish_sso: the session is saved before the row learns of it.
Establish(r) ==
    /\ req[r].pc = "establish"
    /\ \E s \in Sids :
          /\ sso[s].st = "new"
          /\ sso' = [sso EXCEPT ![s] = [st |-> "live", user |-> req[r].user,
                                        methods |-> req[r].methods, flow |-> req[r].flow]]
          /\ req' = [req EXCEPT ![r] =
                       [@ EXCEPT !.sid = s, !.pc = AfterEstablish(req[r].methods)]]
    /\ UNCHANGED <<policy, row, consents, mustChange, codes, approved>>

\* resume_authorization: the row is looked up again, by the id held.
Refind(r) ==
    /\ req[r].pc = "refind"
    /\ Goto(r, IF req[r].fresh THEN "save" ELSE "idle")
    /\ UNCHANGED <<policy, row, sso, consents, mustChange, codes, approved>>

\* link_session ties the session to the approving key; a session that cannot
\* be tied is deleted and the sign-in refused.
Link(r) ==
    /\ req[r].pc = "link"
    /\ \/ UNCHANGED sso /\ Goto(r, "save")
       \/ /\ sso' = [sso EXCEPT ![req[r].sid] = [@ EXCEPT !.st = "ended"]]
          /\ Goto(r, "idle")
    /\ UNCHANGED <<policy, row, consents, mustChange, codes, approved>>

\* save_authentication: password_verified_at stays as it was.  A restored
\* session is saved for the consent screen, whose address carries the new id.
SaveAuthentication(r) ==
    /\ req[r].pc = "save"
    /\ Write(r, [row[req[r].flow] EXCEPT !.user = req[r].user, !.auth = TRUE,
                                         !.sid = req[r].sid, !.methods = req[r].methods,
                                         !.shown = req[r].restoring])
    /\ GotoAfterWrite(r, IF req[r].restoring THEN "idle" ELSE "consent")
    /\ UNCHANGED <<policy, sso, consents, mustChange, codes, approved>>

\* consent_is_granted: openid alone needs no record; every other scope has to
\* be in the record.
Granted(u, f) == Asks[f] \subseteq consents[u]

\* continue_authorization: consent_is_granted, else the consent screen;
\* prompt=consent is not looked at here.
CheckConsent(r) ==
    /\ req[r].pc = "consent"
    /\ \/ /\ Granted(req[r].user, req[r].flow)
          /\ Goto(r, "issue")
          /\ UNCHANGED row
       \/ /\ ~Granted(req[r].user, req[r].flow)
          /\ Goto(r, "idle")
          /\ Show(r)
    /\ UNCHANGED <<policy, sso, consents, mustChange, codes, approved>>

-----------------------------------------------------------------------------
(* Restoring an SSO session *)

\* resume finds the row by its handle.
Resume(r, f) ==
    /\ row[f].st = "live"
    /\ row[f].handle
    /\ Begin(r, "exchange", f, None, {})
    /\ UNCHANGED <<policy, row, sso, consents, mustChange, codes, approved>>

\* save_handoff_exchange: one exchange wins.
Exchange(r) ==
    /\ req[r].pc = "exchange"
    /\ Write(r, [row[req[r].flow] EXCEPT !.handle = FALSE])
    /\ IF req[r].fresh THEN GotoAlone(r, "restore") ELSE Goto(r, "idle")
    /\ UNCHANGED <<policy, sso, consents, mustChange, codes, approved>>

\* continue_with_sso, from the login screen
Continue(r, f) ==
    /\ Findable(f)
    /\ Progress(f) = "anonymous"
    /\ Begin(r, "restore", f, None, {})
    /\ UNCHANGED <<policy, row, sso, consents, mustChange, codes, approved>>

\* (mutant) prompt=login does not stop the restoration.
RestoreAlways(r, s) ==
    LET f == req[r].flow IN
    /\ req[r].pc = "restore"
    /\ sso[s].st = "live"
    /\ Meets(policy[f], sso[s].methods)
    /\ req' = [req EXCEPT ![r] = [@ EXCEPT !.pc = "restored", !.restoring = TRUE,
                 !.user = sso[s].user, !.methods = sso[s].methods, !.sid = s]]
    /\ UNCHANGED <<policy, row, sso, consents, mustChange, codes, approved>>

\* complete_with_sso: a live session of an active user, whose methods meet
\* what the policy decides for this flow
Restore(r, s) ==
    LET f == req[r].flow IN
    /\ req[r].pc = "restore"
    /\ f \notin Forced
    /\ sso[s].st = "live"
    /\ Meets(policy[f], sso[s].methods)
    /\ req' = [req EXCEPT ![r] = [@ EXCEPT !.pc = "restored", !.restoring = TRUE,
                 !.user = sso[s].user, !.methods = sso[s].methods, !.sid = s]]
    /\ UNCHANGED <<policy, row, sso, consents, mustChange, codes, approved>>

\* A deny policy ends the flow.
RestoreDenied(r, s) ==
    /\ req[r].pc = "restore"
    /\ req[r].flow \notin Forced
    /\ sso[s].st = "live"
    /\ policy[req[r].flow] = "deny"
    /\ Goto(r, "delete")
    /\ UNCHANGED <<policy, row, sso, consents, mustChange, codes, approved>>

\* No session, one that has expired, does not do or is too old for max_age: the
\* login screen, which prompt=none cannot show.
RestoreFails(r) ==
    /\ req[r].pc = "restore"
    /\ \/ /\ req[r].flow \in Silent
          /\ Goto(r, "delete")
          /\ UNCHANGED row
       \/ /\ req[r].flow \notin Silent
          /\ Goto(r, "idle")
          /\ Show(r)
    /\ UNCHANGED <<policy, sso, consents, mustChange, codes, approved>>

\* (mutant) A consent that is missing does not stop prompt=none.
RestoredConsentOrSilent(r) ==
    LET f == req[r].flow IN
    /\ req[r].pc = "restored"
    /\ Goto(r, IF f \in Silent \/ Granted(req[r].user, f) THEN "issue" ELSE "save")
    /\ UNCHANGED <<policy, row, sso, consents, mustChange, codes, approved>>

\* authorize_restored: consent, unless prompt=consent asks anew
CheckRestoredConsent(r) ==
    LET f == req[r].flow IN
    /\ req[r].pc = "restored"
    /\ Goto(r, IF f \notin ConsentPrompt /\ Granted(req[r].user, f) THEN "issue"
               ELSE IF f \in Silent THEN "delete" ELSE "save")
    /\ UNCHANGED <<policy, row, sso, consents, mustChange, codes, approved>>

-----------------------------------------------------------------------------
(* Consent and the code *)

\* approve: the completed authentication of the row
Approve(r, f) ==
    /\ Findable(f)
    /\ Progress(f) = "authenticated"
    /\ req[r].pc = "idle"
    /\ req' = [req EXCEPT ![r] =
                 [Idle EXCEPT !.pc = "grant", !.flow = f, !.fresh = TRUE, !.user = row[f].user,
                              !.methods = row[f].methods, !.sid = row[f].sid]]
    /\ UNCHANGED <<policy, row, sso, consents, mustChange, codes, approved>>

\* client_consents.upsert: the record holds the scopes of this request and no
\* longer those of an earlier one.
GrantConsent(r) ==
    /\ req[r].pc = "grant"
    /\ consents' = [consents EXCEPT ![req[r].user] = Asks[req[r].flow]]
    /\ approved' = approved \cup {<<req[r].flow, req[r].user>>}
    /\ Goto(r, "issue")
    /\ UNCHANGED <<policy, row, sso, mustChange, codes>>

\* deny
Deny(r, f) ==
    /\ Findable(f)
    /\ Begin(r, "delete", f, None, {})
    /\ UNCHANGED <<policy, row, sso, consents, mustChange, codes, approved>>

\* code_issuance issue: whether the user may use the application is decided
\* here, for every way in.
Issue(r) ==
    /\ req[r].pc = "issue"
    /\ \/ /\ codes' = codes \cup {[flow |-> req[r].flow, user |-> req[r].user,
                                   methods |-> req[r].methods, sid |-> req[r].sid]}
          /\ Goto(r, "delete")
       \/ /\ UNCHANGED codes
          /\ Goto(r, IF req[r].restoring /\ req[r].flow \in Silent THEN "delete" ELSE "idle")
    /\ UNCHANGED <<policy, row, sso, consents, mustChange, approved>>

\* delete by the id held
Delete(r) ==
    /\ req[r].pc = "delete"
    /\ Write(r, [NewRow EXCEPT !.st = "gone"])
    /\ GotoAfterWrite(r, "idle")
    /\ UNCHANGED <<policy, sso, consents, mustChange, codes, approved>>

-----------------------------------------------------------------------------
(* The rest of the world *)

\* Logout or "sign out this device" deletes the row.
EndSession(s) ==
    /\ sso[s].st = "live"
    /\ sso' = [sso EXCEPT ![s] = [@ EXCEPT !.st = "ended"]]
    /\ UNCHANGED <<policy, row, consents, mustChange, codes, approved, req>>

\* The account's list of applications: consent is withdrawn.
WithdrawConsent(u) ==
    /\ consents[u] # {}
    /\ consents' = [consents EXCEPT ![u] = {}]
    /\ UNCHANGED <<policy, row, sso, mustChange, codes, approved, req>>

\* An error, or a handler that goes away
Abandon(r) ==
    /\ req[r].pc # "idle"
    /\ Goto(r, "idle")
    /\ UNCHANGED <<policy, row, sso, consents, mustChange, codes, approved>>

Step(r) ==
    \/ SavePassword(r)
    \/ ChangePassword(r)
    \/ Establish(r)
    \/ Refind(r)
    \/ Link(r)
    \/ SaveAuthentication(r)
    \/ CheckConsent(r)
    \/ Exchange(r)
    \/ \E s \in Sids : Restore(r, s) \/ RestoreDenied(r, s)
    \/ RestoreFails(r)
    \/ CheckRestoredConsent(r)
    \/ GrantConsent(r)
    \/ Issue(r)
    \/ Delete(r)

Arrive(r, f) ==
    \/ \E u \in Users : \/ Login(r, f, u) \/ Passkey(r, f, u)
                         \/ External(r, f, u) \/ AppApproval(r, f, u)
    \/ \E m \in {"totp", "email_otp"} : Mfa(r, f, m)
    \/ BeginChange(r, f)
    \/ Resume(r, f)
    \/ Continue(r, f)
    \/ Approve(r, f)
    \/ Deny(r, f)

Environment ==
    \/ \E f \in Flows : Authorize(f) \/ ExpireRow(f)
    \/ \E s \in Sids : EndSession(s)
    \/ \E u \in Users : WithdrawConsent(u)

Next ==
    \/ \E r \in Requests : Step(r) \/ Abandon(r) \/ \E f \in Flows : Arrive(r, f)
    \/ Environment

Spec == Init /\ [][Next]_vars

-----------------------------------------------------------------------------
\* An authentication (user, methods, sid) is that of the SSO session sid.
Backed(a) ==
    /\ a.sid \in Sids
    /\ sso[a.sid].st # "new"
    /\ a.user = sso[a.sid].user
    /\ a.methods = sso[a.sid].methods

\* Whoever signs in, in whatever order of tabs and devices, a code and a row
\* that can be approved are for the user, the methods and the session of one
\* and the same completed sign-in, with its session saved first: never one
\* user's session under another user's name, nor the methods of one sign-in
\* with the session of another (record_password_verification keeps nothing of
\* an earlier authentication).  It does not say whose password was counted:
\* complete_authentication keeps password_verified_at of whoever typed one in
\* the flow, and the second factor of the next user is counted on top of it.
AuthMatchesSession ==
    /\ \A f \in Flows : Progress(f) = "authenticated" => Backed(row[f])
    /\ \A c \in codes : Backed(c)

\* However the methods came together (password first, second factor later, a
\* session from another flow), a code is issued only under what the policy
\* decides for its own flow.
PolicyHonoured == \A c \in codes : Meets(policy[c.flow], c.methods)

\* Each of these scopes was on a consent screen of this client u approved.
HasApproved(u, scopes) ==
    \A x \in scopes : \E f \in Flows : <<f, u>> \in approved /\ x \in Asks[f]

\* By whichever way a flow got to its code, every scope it asks for beyond
\* openid was on a consent screen its user approved; for openid alone the code
\* comes without one.
ConsentBeforeCode == \A c \in codes : HasApproved(c.user, Asks[c.flow])

\* prompt=none ends in a code only on the strength of a session of another
\* flow, prompt=login only on the strength of one of its own.
PromptHonoured ==
    \A c \in codes : /\ c.flow \in Silent => sso[c.sid].flow # c.flow
                     /\ c.flow \in Forced => sso[c.sid].flow = c.flow

\* An authentication that may lead to a code of f.
Sound(f, a) ==
    /\ Backed(a)
    /\ Meets(policy[f], a.methods)
    /\ f \in Forced => sso[a.sid].flow = f

SessionsInv ==
    \A s \in Sids : sso[s].st # "new" => sso[s].user \in Users /\ sso[s].flow \in Flows \ Silent

RowsInv ==
    \A f \in Flows : /\ row[f].auth => Sound(f, row[f])
                     /\ row[f].shown => f \notin Silent

RequestInv(q) ==
    /\ q.pc # "idle" => q.flow \in Flows
    /\ q.pc \in {"save_password", "change", "establish"} => q.user \in Users
    /\ q.pc = "change" => q.methods = {"password"}
    /\ q.pc = "establish" => Meets(policy[q.flow], q.methods)
    /\ q.pc \in {"refind", "link", "save", "consent", "restored", "grant", "issue"}
          => Sound(q.flow, q)
    /\ q.pc \in {"save_password", "change", "establish", "refind", "link", "save", "consent",
                 "grant"} => q.flow \notin Silent
    /\ q.pc = "issue" => HasApproved(q.user, Asks[q.flow])

ConsentsInv == \A u \in Users : HasApproved(u, consents[u])

CodesInv == \A c \in codes : Sound(c.flow, c) /\ HasApproved(c.user, Asks[c.flow])

\* The inductive invariant behind the four properties: what a handler carries
\* between its reads and its writes is as good as what the rows hold.
SignInInv ==
    /\ TypeOK
    /\ SessionsInv
    /\ RowsInv
    /\ \A r \in Requests : RequestInv(req[r])
    /\ ConsentsInv
    /\ CodesInv

=============================================================================
