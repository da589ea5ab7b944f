----------------------------- MODULE TokenGrant -----------------------------
(***************************************************************************)
(* The token endpoint of the identity provider: authorization codes, the   *)
(* refresh token families that grow from them, and the requests that       *)
(* exchange, rotate and revoke them (application/token.rs, revocation.rs,  *)
(* and the authorization_codes and refresh_tokens repositories).           *)
(*                                                                         *)
(* Every SQL statement is atomic and no transaction spans two of them, so  *)
(* each request is a small process whose steps are the statements of its   *)
(* handler.  One tenant is modelled: every statement of these handlers is  *)
(* confined to the tenant of the request's path.                           *)
(***************************************************************************)
EXTENDS Integers

CONSTANTS
    Codes,       \* authorization codes (their hashes)
    Tokens,      \* refresh tokens (their hashes), the random values to draw
    Requests,    \* concurrent HTTP requests
    Clients, Users, Sids,
    Keys,        \* DPoP keys (their thumbprints)
    Legacy,      \* refresh tokens issued before grant_hash existed
    CodeTtl, RefreshTtl,
    MaxTime,     \* bound on the clock
    None

ASSUME IdsAssumption ==
    /\ Codes \cap Tokens = {}
    /\ None \notin Codes \cup Tokens \cup Clients \cup Users \cup Sids \cup Keys \cup Nat
    /\ Legacy \subseteq Tokens

ASSUME TimeAssumption ==
    /\ CodeTtl \in Nat \ {0}
    /\ RefreshTtl \in Nat \ {0}
    /\ MaxTime \in Nat

VARIABLES
    clock,         \* the wall clock every handler reads
    codes,         \* table authorization_codes
    rt,            \* table refresh_tokens
    req,           \* what each request has read so far, and its next step
    userActive,    \* users.status and the home tenant's status, both ACTIVE
    stopped        \* history: families a revoke_family statement has run for

vars == <<clock, codes, rt, req, userActive, stopped>>

Families == Codes \cup Tokens
Rows == {"absent", "live", "revoked", "purged"}

CodeRecord == [st: {"absent", "active", "used", "purged"}, client: Clients \cup {None},
               user: Users \cup {None}, sid: Sids \cup {None}, offline: BOOLEAN,
               exp: Nat, authTime: Nat]

TokenRecord == [st: Rows, parent: Tokens \cup {None}, grant: Families \cup {None},
                client: Clients \cup {None}, user: Users \cup {None},
                sid: Sids \cup {None}, jkt: Keys \cup {None},
                exp: Nat, created: Nat, authTime: Nat \cup {None}]

Steps == {"idle",
          "consume", "find_used", "redeem", "load_code_user", "create_root",
          "find", "check_reuse", "load_user", "gate", "rotate", "create_child",
          "revoke_family", "find_to_revoke", "revoke"}

RequestRecord == [pc: Steps, code: Codes \cup {None}, token: Tokens \cup {None},
                  client: Clients \cup {None}, key: Keys \cup {None}, now: Nat,
                  sawLive: BOOLEAN, verifier: BOOLEAN, family: Families \cup {None}]

-----------------------------------------------------------------------------
(* The rows. *)

\* RefreshToken::family_hash
Family(t) == IF rt[t].grant = None THEN t ELSE rt[t].grant

\* RefreshToken::auth_time_or_issued
AuthTimeOrIssued(t) == IF rt[t].authTime = None THEN rt[t].created ELSE rt[t].authTime

Present(t) == rt[t].st \in {"live", "revoked"}

Live(t) == rt[t].st = "live"

\* UPDATE refresh_tokens SET revoked_at = ? WHERE ... AND revoked_at IS NULL
RevokeRows(S) ==
    rt' = [t \in Tokens |-> IF t \in S /\ Live(t) THEN [rt[t] EXCEPT !.st = "revoked"]
                                                  ELSE rt[t]]

\* refresh_tokens.revoke_family: grant_hash = ? OR token_hash = ?
FamilyRows(f) == {t \in Tokens : rt[t].grant = f \/ t = f}

\* refresh_tokens.create with a fresh random value
InsertToken(row) ==
    \E t \in Tokens : /\ rt[t].st = "absent"
                      /\ rt' = [rt EXCEPT ![t] = row]

\* Rows that do not exist yet, and a request that has not begun.
BlankCode == [st |-> "absent", client |-> None, user |-> None, sid |-> None,
              offline |-> FALSE, exp |-> 0, authTime |-> 0]

BlankToken == [st |-> "absent", parent |-> None, grant |-> None,
               client |-> None, user |-> None, sid |-> None, jkt |-> None,
               exp |-> 0, created |-> 0, authTime |-> None]

\* A row written before grant_hash, sid and auth_time were columns.
LegacyToken(client, u) == [BlankToken EXCEPT !.st = "live", !.client = client, !.user = u,
                                             !.exp = RefreshTtl]

IdleRequest == [pc |-> "idle", code |-> None, token |-> None, client |-> None,
                key |-> None, now |-> 0, sawLive |-> FALSE, verifier |-> FALSE,
                family |-> None]

\* The request goes on with the given step, or ends and forgets what it read.
Goto(r, step) ==
    req' = [req EXCEPT ![r] = IF step = "idle" THEN IdleRequest ELSE [@ EXCEPT !.pc = step]]

\* The request goes on to stop a family.
GotoStop(r, f) ==
    req' = [req EXCEPT ![r] = [@ EXCEPT !.pc = "revoke_family", !.family = f]]

TablesUnchanged == UNCHANGED <<clock, codes, rt, userActive, stopped>>

-----------------------------------------------------------------------------
(* grant_type = authorization_code *)

\* The request arrives with a verified DPoP proof or none (exchange and
\* verify_dpop_proof run before the grant) from an active client that has
\* authenticated; a request refused earlier touches nothing.  It presents a
\* code that was issued: any other value is not found and touches nothing.
StartCode(r, c, client, key, verifier) ==
    /\ req[r].pc = "idle"
    /\ codes[c].st # "absent"
    /\ req' = [req EXCEPT ![r] = [IdleRequest EXCEPT
                   !.pc = "consume", !.code = c, !.client = client, !.key = key,
                   !.now = clock, !.verifier = verifier]]
    /\ TablesUnchanged

\* (mutant) The row is checked and marked, but not `used_at IS NULL`.
ConsumeTwice(r) ==
    LET c == req[r].code
        fresh == codes[c].st \in {"active", "used"} /\ codes[c].exp > req[r].now
    IN /\ req[r].pc = "consume"
       /\ codes' = IF fresh THEN [codes EXCEPT ![c].st = "used"] ELSE codes
       /\ Goto(r, IF fresh THEN "redeem" ELSE "find_used")
       /\ UNCHANGED <<clock, rt, userActive, stopped>>

\* codes.consume: one UPDATE decides who redeems the code.
Consume(r) ==
    LET c == req[r].code
        fresh == codes[c].st = "active" /\ codes[c].exp > req[r].now
    IN /\ req[r].pc = "consume"
       /\ codes' = IF fresh THEN [codes EXCEPT ![c].st = "used"] ELSE codes
       /\ Goto(r, IF fresh THEN "redeem" ELSE "find_used")
       /\ UNCHANGED <<clock, rt, userActive, stopped>>

\* codes.find_used: a used code is a replay, anything else is just invalid.
FindUsed(r) ==
    /\ req[r].pc = "find_used"
    /\ IF codes[req[r].code].st = "used" THEN GotoStop(r, req[r].code) ELSE Goto(r, "idle")
    /\ TablesUnchanged

\* AuthorizationCode::redeem: client_id, then redirect_uri and PKCE.  A
\* mismatch leaves the code used.
Redeem(r) ==
    /\ req[r].pc = "redeem"
    /\ Goto(r, IF codes[req[r].code].client = req[r].client /\ req[r].verifier
               THEN "load_code_user" ELSE "idle")
    /\ TablesUnchanged

\* load_active_user; without offline_access the exchange ends here.
LoadCodeUser(r) ==
    LET c == codes[req[r].code]
    IN /\ req[r].pc = "load_code_user"
       /\ Goto(r, IF userActive[c.user] /\ c.offline THEN "create_root" ELSE "idle")
       /\ TablesUnchanged

CreateRoot(r) ==
    LET c == codes[req[r].code]
    IN /\ req[r].pc = "create_root"
       /\ InsertToken([st |-> "live", parent |-> None, grant |-> req[r].code,
                       client |-> req[r].client, user |-> c.user, sid |-> c.sid,
                       jkt |-> req[r].key, exp |-> req[r].now + RefreshTtl,
                       created |-> req[r].now, authTime |-> c.authTime])
       /\ Goto(r, "idle")
       /\ UNCHANGED <<clock, codes, userActive, stopped>>

-----------------------------------------------------------------------------
(* grant_type = refresh_token *)

StartRefresh(r, t, client, key) ==
    /\ req[r].pc = "idle"
    /\ rt[t].st # "absent"
    /\ req' = [req EXCEPT ![r] = [IdleRequest EXCEPT
                   !.pc = "find", !.token = t, !.client = client, !.key = key, !.now = clock]]
    /\ TablesUnchanged

\* The DPoP binding of the presented token admits the key of the proof.
KeyAdmitted(t, key) == rt[t].jkt = None \/ rt[t].jkt = key

\* (mutant) The key is not compared before reuse detection.
FindWithoutKey(r) ==
    LET t == req[r].token
    IN /\ req[r].pc = "find"
       /\ req' = [req EXCEPT ![r] =
                    IF Present(t) /\ rt[t].client = req[r].client
                    THEN [@ EXCEPT !.pc = "check_reuse", !.sawLive = Live(t)]
                    ELSE IdleRequest]
       /\ TablesUnchanged

\* refresh_tokens.find_by_hash, then the client and the key: both are looked
\* at before reuse detection, so a presenter without the key revokes nothing.
Find(r) ==
    LET t == req[r].token
        accepted == /\ Present(t)
                    /\ rt[t].client = req[r].client
                    /\ KeyAdmitted(t, req[r].key)
    IN /\ req[r].pc = "find"
       /\ req' = [req EXCEPT ![r] =
                    IF accepted THEN [@ EXCEPT !.pc = "check_reuse", !.sawLive = Live(t)]
                                ELSE IdleRequest]
       /\ TablesUnchanged

\* refresh_tokens.exists_by_parent_hash, then is_valid_at on the row read by
\* Find: what was read there may be stale by now.
CheckReuse(r) ==
    LET t == req[r].token
        rotated == \E u \in Tokens : Present(u) /\ rt[u].parent = t
        valid == req[r].sawLive /\ req[r].now < rt[t].exp
    IN /\ req[r].pc = "check_reuse"
       /\ IF rotated THEN GotoStop(r, Family(t)) ELSE Goto(r, IF valid THEN "load_user" ELSE "idle")
       /\ TablesUnchanged

LoadUser(r) ==
    /\ req[r].pc = "load_user"
    /\ Goto(r, IF userActive[rt[req[r].token].user] THEN "gate" ELSE "idle")
    /\ TablesUnchanged

\* application_access.check answers `admitted`; a refusal stops the whole family.
Gate(r, admitted) ==
    /\ req[r].pc = "gate"
    /\ IF admitted
       THEN Goto(r, "rotate") ELSE GotoStop(r, Family(req[r].token))
    /\ TablesUnchanged

\* (mutant) The number of rows the UPDATE changed is ignored.
RotateUncounted(r) ==
    /\ req[r].pc = "rotate"
    /\ RevokeRows({req[r].token})
    /\ Goto(r, "create_child")
    /\ UNCHANGED <<clock, codes, userActive, stopped>>

\* refresh_tokens.revoke: only the request whose UPDATE changed the row goes on.
Rotate(r) ==
    LET t == req[r].token
    IN /\ req[r].pc = "rotate"
       /\ RevokeRows({t})
       /\ IF Live(t) THEN Goto(r, "create_child") ELSE GotoStop(r, Family(t))
       /\ UNCHANGED <<clock, codes, userActive, stopped>>

\* (mutant) The child is inserted without the session of the login.
CreateChildWithoutSid(r) ==
    LET t == req[r].token
    IN /\ req[r].pc = "create_child"
       /\ InsertToken([st |-> "live", parent |-> t, grant |-> Family(t),
                       client |-> req[r].client, user |-> rt[t].user, sid |-> None,
                       jkt |-> IF rt[t].jkt = None THEN req[r].key ELSE rt[t].jkt,
                       exp |-> rt[t].exp, created |-> req[r].now,
                       authTime |-> AuthTimeOrIssued(t)])
       /\ Goto(r, "idle")
       /\ UNCHANGED <<clock, codes, userActive, stopped>>

\* The child inherits the family, the session, the login time and the expiry;
\* its key is the parent's, or the presenter's when the parent had none.
CreateChild(r) ==
    LET t == req[r].token
    IN /\ req[r].pc = "create_child"
       /\ InsertToken([st |-> "live", parent |-> t, grant |-> Family(t),
                       client |-> req[r].client, user |-> rt[t].user, sid |-> rt[t].sid,
                       jkt |-> IF rt[t].jkt = None THEN req[r].key ELSE rt[t].jkt,
                       exp |-> rt[t].exp, created |-> req[r].now,
                       authTime |-> AuthTimeOrIssued(t)])
       /\ Goto(r, "idle")
       /\ UNCHANGED <<clock, codes, userActive, stopped>>

\* The one statement that stops a family: after a replayed code, a reused
\* token, a lost rotation race or a refusing application gate.
RevokeFamily(r) ==
    /\ req[r].pc = "revoke_family"
    /\ RevokeRows(FamilyRows(req[r].family))
    /\ stopped' = stopped \cup {req[r].family}
    /\ Goto(r, "idle")
    /\ UNCHANGED <<clock, codes, userActive>>

-----------------------------------------------------------------------------
(* POST /revoke with a refresh token (RevocationService::revoke) *)

StartRevocation(r, t, client) ==
    /\ req[r].pc = "idle"
    /\ rt[t].st # "absent"
    /\ req' = [req EXCEPT ![r] = [IdleRequest EXCEPT
                   !.pc = "find_to_revoke", !.token = t, !.client = client, !.now = clock]]
    /\ TablesUnchanged

FindToRevoke(r) ==
    LET t == req[r].token
    IN /\ req[r].pc = "find_to_revoke"
       /\ Goto(r, IF Present(t) /\ rt[t].client = req[r].client THEN "revoke" ELSE "idle")
       /\ TablesUnchanged

Revoke(r) ==
    /\ req[r].pc = "revoke"
    /\ RevokeRows({req[r].token})
    /\ Goto(r, "idle")
    /\ UNCHANGED <<clock, codes, userActive, stopped>>

\* A repository error, a dropped connection or a restart of the process ends a
\* request between two statements; what it wrote stays.
Abandon(r) ==
    /\ req[r].pc # "idle"
    /\ Goto(r, "idle")
    /\ TablesUnchanged

-----------------------------------------------------------------------------
(* The other writers of the two tables. *)

NoRequest == UNCHANGED <<clock, req, userActive, stopped>>

\* AuthorizationCode::issue and codes.create, at the end of a login.
IssueCode(c, client, user, sid, offline) ==
    /\ codes[c].st = "absent"
    /\ codes' = [codes EXCEPT ![c] =
                   [st |-> "active", client |-> client, user |-> user, sid |-> sid,
                    offline |-> offline, exp |-> clock + CodeTtl, authTime |-> clock]]
    /\ UNCHANGED rt
    /\ NoRequest

\* codes.revoke_all_active_for_user
RevokeCodesOfUser(u) ==
    /\ codes' = [c \in Codes |->
                   IF codes[c].st = "active" /\ codes[c].user = u /\ codes[c].exp > clock
                   THEN [codes[c] EXCEPT !.st = "used"] ELSE codes[c]]
    /\ UNCHANGED rt
    /\ NoRequest

\* refresh_tokens.revoke_all_for_user leaves expired rows alone.
RevokeTokensOfUser(u) ==
    /\ RevokeRows({t \in Tokens : rt[t].user = u /\ rt[t].exp > clock})
    /\ UNCHANGED codes
    /\ NoRequest

\* refresh_tokens.revoke_all_for_user_in_tenant
RevokeTokensOfMember(u) ==
    /\ RevokeRows({t \in Tokens : rt[t].user = u})
    /\ UNCHANGED codes
    /\ NoRequest

\* refresh_tokens.revoke_all_for_session
RevokeTokensOfSession(u, sid) ==
    /\ RevokeRows({t \in Tokens : rt[t].user = u /\ rt[t].sid = sid})
    /\ UNCHANGED codes
    /\ NoRequest

\* refresh_tokens.revoke_all_for_user_and_client
RevokeTokensOfClient(u, client) ==
    /\ RevokeRows({t \in Tokens : rt[t].user = u /\ rt[t].client = client})
    /\ UNCHANGED codes
    /\ NoRequest

\* expired_records: DELETE FROM authorization_codes WHERE expires_at <= ?
PurgeCodes ==
    /\ codes' = [c \in Codes |->
                   IF codes[c].st \in {"active", "used"} /\ codes[c].exp <= clock
                   THEN [codes[c] EXCEPT !.st = "purged"] ELSE codes[c]]
    /\ UNCHANGED rt
    /\ NoRequest

\* expired_records: DELETE FROM refresh_tokens WHERE expires_at <= ?
PurgeTokens ==
    /\ rt' = [t \in Tokens |-> IF Present(t) /\ rt[t].exp <= clock
                               THEN [rt[t] EXCEPT !.st = "purged"] ELSE rt[t]]
    /\ UNCHANGED codes
    /\ NoRequest

\* An administrator disables or enables the user or the user's home tenant.
SetUserActive(u, b) ==
    /\ userActive' = [userActive EXCEPT ![u] = b]
    /\ UNCHANGED <<clock, codes, rt, req, stopped>>

Tick ==
    /\ clock < MaxTime
    /\ clock' = clock + 1
    /\ UNCHANGED <<codes, rt, req, userActive, stopped>>

-----------------------------------------------------------------------------

Init ==
    /\ clock = 0
    /\ codes = [c \in Codes |-> BlankCode]
    /\ \E client \in Clients, u \in Users :
           rt = [t \in Tokens |-> IF t \in Legacy THEN LegacyToken(client, u) ELSE BlankToken]
    /\ req = [r \in Requests |-> IdleRequest]
    /\ userActive = [u \in Users |-> TRUE]
    /\ stopped = {}

\* What a request does next once it has started.
Continue(r) ==
    \/ Consume(r) \/ FindUsed(r) \/ Redeem(r) \/ LoadCodeUser(r) \/ CreateRoot(r)
    \/ Find(r) \/ CheckReuse(r) \/ LoadUser(r) \/ (\E b \in BOOLEAN : Gate(r, b)) \/ Rotate(r) \/ CreateChild(r)
    \/ RevokeFamily(r)
    \/ FindToRevoke(r) \/ Revoke(r)

Start(r) ==
    \/ \E c \in Codes, client \in Clients, key \in Keys \cup {None}, v \in BOOLEAN :
           StartCode(r, c, client, key, v)
    \/ \E t \in Tokens, client \in Clients, key \in Keys \cup {None} :
           StartRefresh(r, t, client, key)
    \/ \E t \in Tokens, client \in Clients : StartRevocation(r, t, client)

Sweep ==
    \/ \E u \in Users : RevokeCodesOfUser(u) \/ RevokeTokensOfUser(u) \/ RevokeTokensOfMember(u)
    \/ \E u \in Users, sid \in Sids : RevokeTokensOfSession(u, sid)
    \/ \E u \in Users, client \in Clients : RevokeTokensOfClient(u, client)
    \/ PurgeCodes
    \/ PurgeTokens

Next ==
    \/ \E r \in Requests : Start(r) \/ Continue(r) \/ Abandon(r)
    \/ \E c \in Codes, client \in Clients, u \in Users, sid \in Sids, o \in BOOLEAN :
           IssueCode(c, client, u, sid, o)
    \/ Sweep
    \/ \E u \in Users, b \in BOOLEAN : SetUserActive(u, b)
    \/ Tick

Spec == Init /\ [][Next]_vars

-----------------------------------------------------------------------------
(* Properties. *)

\* Every row, request and switch has its type.
TypeOK ==
    /\ clock \in Nat
    /\ codes \in [Codes -> CodeRecord]
    /\ rt \in [Tokens -> TokenRecord]
    /\ req \in [Requests -> RequestRecord]
    /\ userActive \in [Users -> BOOLEAN]
    /\ stopped \subseteq Families

\* However requests race, a family never holds two usable refresh tokens: the
\* promise of step 8 of exchange_refresh_token, that two requests with the same
\* token never make two live chains.
OneLiveTokenPerFamily ==
    \A t1, t2 \in Tokens : Live(t1) /\ Live(t2) /\ Family(t1) = Family(t2) => t1 = t2

\* A code is exchanged once and a refresh token rotated once: no two tokens
\* have the same parent, and no two roots come from the same code.
NoFork ==
    \A t1, t2 \in Tokens :
        /\ rt[t1].st # "absent" /\ rt[t2].st # "absent"
        /\ rt[t1].grant # None /\ rt[t1].grant = rt[t2].grant
        /\ rt[t1].parent = rt[t2].parent
        => t1 = t2

\* What a refresh may not change: along a chain the expiry does not slide, the
\* session, user, client and login time stay those of the login, and a key
\* binding once made is kept.
ChainInherits ==
    \A t \in Tokens : rt[t].st # "absent" /\ rt[t].parent # None =>
        LET p == rt[t].parent
        IN /\ rt[p].st # "absent"
           /\ rt[t].exp = rt[p].exp /\ rt[t].authTime = AuthTimeOrIssued(p)
           /\ rt[t].user = rt[p].user /\ rt[t].sid = rt[p].sid
           /\ rt[t].client = rt[p].client
           /\ rt[p].jkt # None => rt[t].jkt = rt[p].jkt

\* Presenting a bound token without its key never changes any row, not even
\* when the token was rotated long ago: the key is looked at before reuse
\* detection (ADR-0075, decision 7).
PresentsForeignToken(r) ==
    /\ req[r].token \in Tokens
    /\ req[r].pc \notin {"find_to_revoke", "revoke"}
    /\ rt[req[r].token].st # "absent"
    /\ ~KeyAdmitted(req[r].token, req[r].key)

WithoutKeyNothingChanges ==
    [][\A r \in Requests : PresentsForeignToken(r) /\ req'[r] # req[r] => rt' = rt]_vars

\* A family whose reuse was detected stays stopped (the comment of step 8:
\* a request that lost the race stops the family as a whole).
StoppedFamilyStaysStopped ==
    \A t \in Tokens : Live(t) => Family(t) \notin stopped

-----------------------------------------------------------------------------
(* The inductive invariant behind the safety properties.  A family is like a *)
(* baton: it is an unused code, or one live token, or one request between    *)
(* taking it (consume, revoke) and passing it on (create), or it is gone.    *)

Redeeming(r) == req[r].pc \in {"redeem", "load_code_user", "create_root"}
Refreshing(r) == req[r].pc \in {"check_reuse", "load_user", "gate", "rotate", "create_child"}

Holds(r, f) ==
    \/ Redeeming(r) /\ req[r].code = f
    \/ req[r].pc = "create_child" /\ Family(req[r].token) = f

\* What a request relies on between two statements still holds at the second.
Grounded(r) ==
    /\ req[r].pc \in {"consume", "find_used"} => req[r].code \in Codes
    /\ Redeeming(r) => /\ req[r].code \in Codes
                       /\ codes[req[r].code].st \in {"used", "purged"}
    /\ req[r].pc \in {"find", "find_to_revoke", "revoke"} => req[r].token \in Tokens
    /\ Refreshing(r) => /\ req[r].token \in Tokens
                        /\ rt[req[r].token].st # "absent"
                        /\ rt[req[r].token].client = req[r].client
                        /\ KeyAdmitted(req[r].token, req[r].key)
    /\ req[r].pc = "create_child" => ~Live(req[r].token)
    /\ req[r].pc = "revoke_family" => req[r].family \in Families

RequestsAreGrounded == \A r \in Requests : Grounded(r)

HolderExcludesLive ==
    \A r \in Requests, t \in Tokens : Live(t) => ~Holds(r, Family(t))

OneHolder ==
    \A r1, r2 \in Requests, f \in Families : Holds(r1, f) /\ Holds(r2, f) => r1 = r2

\* Absent rows are blank and nobody's parent.
AbsentIsBlank ==
    \A t \in Tokens : rt[t].st = "absent" =>
        /\ rt[t].grant = None /\ rt[t].parent = None
        /\ \A u \in Tokens : rt[u].parent # t

RootsComeOnce ==
    /\ \A c \in Codes : codes[c].st \in {"absent", "active"} => \A t \in Tokens : rt[t].grant # c
    /\ \A r \in Requests : Redeeming(r) => \A t \in Tokens : rt[t].grant # req[r].code

ChildrenComeOnce ==
    /\ \A t, u \in Tokens : Live(t) => rt[u].parent # t
    /\ \A r \in Requests : req[r].pc = "create_child" =>
                               \A u \in Tokens : rt[u].parent # req[r].token

FamilyInv ==
    /\ TypeOK
    /\ RequestsAreGrounded
    /\ OneLiveTokenPerFamily
    /\ HolderExcludesLive
    /\ OneHolder
    /\ AbsentIsBlank
    /\ RootsComeOnce
    /\ ChildrenComeOnce
    /\ NoFork
    /\ ChainInherits

-----------------------------------------------------------------------------
(* The abstract promise: GrantFamily. *)

FamilyState(f) ==
    IF \E r \in Requests : Holds(r, f) THEN "held"
    ELSE IF \E t \in Tokens : Live(t) /\ Family(t) = f THEN "live"
    ELSE IF f \in Codes /\ codes[f].st = "absent" THEN "unissued"
    ELSE IF f \in Codes /\ codes[f].st = "active" THEN "issued"
    ELSE "dead"

Abstract == INSTANCE GrantFamily
    WITH Fresh <- Codes, Inherited <- Legacy,
         fam <- [f \in Codes \cup Legacy |-> FamilyState(f)]

\* The token endpoint implements the baton: a used code or a rotated token is
\* never usable again, and a dead family never gets a live token.
ImplementsGrantFamily == Abstract!Spec

=============================================================================
