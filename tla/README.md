# A TLA+ verification of the identity provider

The repository is a multi-tenant OpenID provider in Rust: a core crate with the
domain, the application services and the SQL repositories, an HTTP
API and a web front end on top of it. Its services share one habit that decides
what can go wrong: a handler runs several SQL statements, each atomic, with no
transaction around them, and any number of handlers (and several instances of
the server) run at once. A handler therefore acts on what it read a few
statements earlier, and may die between two of them. This project models the
services whose correctness hangs on that, one module per component and one step
per statement, checks them with TLC on small instances and proves every safety
property it checks with TLAPS for all instances.

Paths below are relative to `src/crates/core/src/`: `app/` is `application/`,
`repo/` is `infrastructure/repositories/`.

## The system and its parts

| Part | State | Operations | What is hard | What makes it correct |
|---|---|---|---|---|
| Token endpoint (`app/token.rs`, `app/revocation.rs`, `repo/refresh_token.rs`, `repo/authorization_code.rs`) | `authorization_codes`, `refresh_tokens` | code exchange, refresh with rotation, reuse detection, revocation, sweeps, purge | two requests with one token; reuse detection against an insert under way; a request that dies half-way | one usable token per grant, chains that never fork, nothing gained by refreshing |
| Replay guard (`app/client_authentication.rs`, `app/dpop_proof_verification.rs`, `repo/client_assertion.rs`, `repo/dpop_proof.rs`) | `client_assertion_jtis`, `dpop_proof_jtis` | verify, record, purge | the same statement on two connections; a purge with an older clock; boundary seconds | a statement is accepted once while it is valid |
| Permissions (`app/permission_management.rs`, `repo/cached_user_permission.rs`, `infrastructure/cache.rs`) | `user_permissions`, an in-process cache | has, grant, revoke, revoke all | a fill that overtakes an invalidation, an invalidation lost | only holders hand out the right; a revocation takes effect |
| Guests (`app/invitation.rs`, `app/admin_access.rs`, `app/management_token.rs`, `repo/tenant_membership.rs`) | `tenant_memberships`, rights, console tokens, refresh tokens | invite, accept, suspend, resume, remove, grant, revoke, console exchange, sign-in, refresh | writes by (tenant, user) to a row that has been replaced; tokens issued and renewed around a sweep | nobody in unasked, rights follow membership, suspension reaches tokens |
| Sign-in (`app/authorize.rs`, `login.rs`, `mfa_login.rs`, `change_password.rs`, `passkey_authentication.rs`, `external_login.rs`, `app_approval.rs`, `sign_in_completion.rs`, `consent.rs`, `code_issuance.rs`, `domain/auth_session.rs`) | `auth_sessions`, `sso_sessions`, `client_consents`, codes | authorize, hand-off, sign in by password, second factor, password change, passkey, external provider or app approval, restore, consent, issue | tabs that advance one flow; steps that are separate endpoints; sessions of other flows | one sign-in behind a code, the policy, prompt and consent of its own flow |
| Signing keys and access tokens (`app/key_service.rs`, `domain/signing_key.rs`, `app/access_token_verification.rs`) | `signing_keys` | bootstrap, rotate, generate, retire, delete; sign, verify | readings of the table acted on later; two retirements at once; leads and lifetimes against each other | a signer always, published before use, kept as long as its tokens |
| Access-token deny list (`app/revocation.rs`, `domain/revoked_access_token.rs`) | `revoked_access_tokens` | revoke, look up, purge | failures answered as success; the purge against the skew | not modelled, see below |
| Account (`app/user_lifecycle.rs`, `account_password.rs`, `password_reset.rs`, `account_setup.rs`, `login.rs`) | `users`, `password_reset_tokens`, `webauthn_credentials`, and every session, code and refresh token of the user | sign in, change, reset by link, forced reset, set up by passkey, disable, enable, MFA reset, unlock | many statements, failures ignored or not; links and hashes read earlier; guesses in flight at the lock | a stop reaches all that came before it, a link sets one credential, a password is replaced once, guesses are bounded |
| Back-channel logout (`app/backchannel_logout.rs`, `stop_announcement.rs`) | `backchannel_logout_deliveries` | announce, select, claim, post, record, purge | several loops, crashes, answers that are lost | nobody is told twice for one attempt, or again after a recorded delivery unless two attempts overlapped; delivered or out of attempts in the end |
| App approval (`app/app_approval.rs`, `repo/app_approver.rs`) | enrollments, keys, requests, links of sessions | enroll, confirm, activate, approve, deny, complete, revoke | two browsers, two apps; a revocation against a sign-in | keys as confirmed, one sign-in per approval, revocation ends sessions |
| Second factors, step-up, session keys, devices | TOTP steps, codes, challenges, tickets | issue, redeem | single use | used once, by its owner |
| Rate limits (`infrastructure/rate_limit.rs`) | counters in memory | count | | |
| Policies (`domain/authentication_policy.rs`) | none | a pure function | | what it decides equals its definition |
| Settings, directories, audit, SAML and XML, mail, HTTP, web | configuration, read models, I/O | | | |

How they interact: sign-in creates an SSO session and issues a code; the token
endpoint turns the code into a refresh token family that carries the session's
id; logout, suspension, disabling and password changes sweep codes and refresh
tokens by user, session, client or membership; the purge deletes expired rows of
every table; the permission cache stands before every administrative decision;
stopping a user also queues notifications to the relying parties, which the
delivery loop signs with the current signing key.
`PROJECT.json` lists every part and the reason where one is not modelled, and
the hazards of the code at the line where each bites.

## Modules

| Module | Models | Extends / instantiates |
|---|---|---|
| `TokenGrant` | token and revocation endpoints | refines `GrantFamily` |
| `GrantFamily` | what the token endpoint promises of one grant | |
| `ReplayGuard` | single use of client assertions and DPoP proofs | |
| `PermissionCache` | the administrator right through the cache | |
| `Membership` | guests, their rights, console and refresh tokens | |
| `SignIn` | from `/authorize` to the code | |
| `Account` | password, links, passkeys, lock and what a stop sweeps | |
| `SigningKeys` | key rotation and the access tokens the keys sign | |
| `LogoutDelivery` | the queue of back-channel logout notifications | |
| `AppApproval` | sign-in by approval on the authenticator app | |
| `MC*` | the small instances | the module they are named after |
| `*Proofs` | the theorems | the module they are named after, TLAPS |
| `RetentionProofs` | the theorems on what must be kept long enough: keys, replay rows | `SigningKeys`, `ReplayGuard`, TLAPS |

Conventions. A request is a record in `req` with a program counter named after
the statement it is about to run, and the values the handler holds in local
variables. An action is one SQL statement together with the code up to the next
one. A handler that is refused before it has written anything leaves no trace
and is not a step. `Abandon` is the request that dies: a statement that reports
an error, a dropped connection, a stopped instance. Random values (tokens, ids)
are elements drawn from a set, each at most once. Variables marked *history*
are not in the code; no guard reads one, except a bound that is named as such.
Definitions whose comment begins with "(mutant)" are faulty variants of the
definition that follows; no specification uses them.

**TokenGrant.** `codes` and `rt` are the two tables, `userActive` the status
read by the grants, `clock` the wall clock. The authorization code grant is
`Consume` (the conditional UPDATE), `FindUsed` (reuse of a code), `Redeem`
(client, PKCE, key), `LoadCodeUser`, `CreateRoot`; the refresh grant is `Find`
(with the client and key checks, before anything else), `CheckReuse`
(`find_child`), `LoadUser`, `Gate` (the application gate, any answer),
`Rotate` (the UPDATE whose row count decides) and `CreateChild`;
`RevokeFamily` is common. Around them: revocation by the client, the sweeps by
user, session, client and member, the purge, the clock. `grant` may be empty:
rows written before `grant_hash` existed form a family of their own (`Legacy`).

**ReplayGuard.** One statement type stands for assertions and proofs, which
differ in numbers only: `Until` is the time the row is kept, `Ahead` how far it
may lie in the future. `Verify` reads the clock, `Record` is the INSERT that
arbitrates, `StartPurge` and `DeleteExpired` are the purge that reads the clock
once and deletes later. Its specification is `GuardSpec`, so that one module can
extend both `SigningKeys` and this one.

**PermissionCache.** `Lookup`, `ReadRow` and `Fill` are `has_permission`;
`Change` and `Drop` are the write and the invalidation of grant, revoke and
revoke-all. The time to live is an entry that may expire at any moment.

**Membership.** `row` is the membership of each guest; every handler of
`invitation.rs` is a read that starts it and writes by (tenant, user) that
follow; `CheckTarget`/`GrantRight`/`RevokeRight` are permission management for other
codes, `CheckMember`/`ReadCodes`/`Sign` the console exchange,
`CheckSignIn`/`IssueToken` a sign-in and `FindToken` (or `FindStray`), `Rotate`,
`Renew` the refresh grant, which reads no membership. Of the refresh tokens of a
guest only the kind is kept, and there may be any number of each: `tokens` are
those a suspension still has to answer for, `strays` those that have escaped
one. A token becomes a stray in three ways and no other (`raced` marks the
request that will make it one): its sign-in had passed the check when the status
changed, its refresh was between its UPDATE and its INSERT when the sweep ran, or
the suspension failed before its sweep and said so; a stray renewed is a stray.
`RevokeTokens` reaches both kinds.

**SignIn.** `row` is `auth_sessions`, reconstituted by `Progress` exactly as
the domain does; the id a browser presents is replaced by every advancing write,
so all that is kept of it is whether the id a handler holds is still the row's
(`fresh`). A write under an old id changes no row and is answered Ok, as in
the repository. The tenant's policy is what it decides for a flow, fixed in
`Init`; consents, passwords to be changed and sessions are tables. `Asks` gives
the scopes of a flow beyond `openid`; a flow that asks for none needs no consent
record and shows no screen (`Granted`, `consent_is_granted`), and an approval
replaces the record by the scopes of the request approved, so that a wider
earlier consent is forgotten. `AppApproval` and `Link` are the sign-in by the
authenticator app as far as the flow is concerned; the approval itself is the
module `AppApproval`'s.

**Account.** `user` is one row of `users`, `link` its set-up and reset links,
`passkey` its passkeys, `held` the live sessions, codes and refresh tokens, each
with the number of stops ordered before it was made. A hash is the number of
replacements so far, since salted hashes never repeat. `SignIn`,
`WrongPassword`, `RecordLoginFailure`, `RightPassword`, `ClearFailures` and
`Establish` are a sign-in with its lock; `Change`, `Consume`/`LoadOwner`/`Refuse`
and `ResetPasswordFor` are the three ways to `WritePassword` (or `LoseUpdate`,
when the hash read is no longer the row's); `Disable`, `ResetMfa` and the
password writes share `Sweep`, one statement per kind, whose failure is logged by
all but the MFA reset; `Invalidate`/`Create` issue a link;
`Resolve`/`Register`/`FinishSetup`/`ConsumeAfter`/`Discard` register a passkey with one.
What goes on inside a sign-in is `SignIn`'s subject, the tables of the grants
`TokenGrant`'s; here both are one step.

**SigningKeys.** A key has the ticks until `not_before` and `not_after`, so time
is relative and behaviours never end. `Boot` is `ensure_active_key` (its INSERT
looks again under the lock), `RotateIfNeeded` reads clock and table once,
`RetireOvertaken`, `MakeKey` and `InsertKey` carry out what it decided;
`GenerateKey`, `RetireKey`/`RetireWrite` and `DeleteKey` are the administrator's.
Making a key pair is the one step that may take `Delay` ticks; every other step
of a handler comes before the next tick. One access token is followed from
`Issue` to its end. History
variables: `dry` counts the ticks since the last signer, `shown` those a key has
been in the JWKS; `exposed` records that a key was retired on the word of one
that can no longer sign or not for long, or that a check was cut short (a failure,
a restart) when no signer was left for long; `meddled` that an administrator or a
fault has interfered with the rotation.

**LogoutDelivery.** `row` is the queue; `announce` inserts a row per relying
party. A loop is `Select` (the clock and the SELECT), `Claim` (compare-and-swap
on `attempts`, which also holds the row back), `Post` or `Refuse`, `Record`.
`ClaimFails`, `SignFails`, `RecordFails`, `AnnounceFails` and `Crash` are the
faults. A POST fails as often as it likes and is no fault. Time is relative here
too.

**AppApproval.** Tables of enrollments, keys, requests and sessions, with their
foreign keys (deleting a key deletes its requests and clears its sessions' link);
a handler reads, checks and then runs conditional writes (`AND stage = ?`,
`AND state = ?`) whose row count decides whether it goes on. Codes are random and
given out once, so a right code is a row in the stage that gave it out.

## Runs

| Run | Instance | Shows |
|---|---|---|
| `grant_races` | one code, three tokens, two requests, one client, one DPoP key | a family never has two usable tokens and never forks; what refreshing hands down; a bound token presented without its key changes no row; every step is one of `GrantFamily` |
| `reuse_stop` | as `grant_races` | violation, see Findings |
| `replay_guard` | three statements on two keys, two requests, clock to 4 | accepted at most once before the row may be deleted |
| `permission_cache` | two users, two requests | only holders change holders; every stale entry has one of three causes; revocations take effect |
| `membership` | one guest invited any number of times, three requests | nobody in unasked; rights only for people who have been members; a suspension reaches all tokens but the strays; the console closes |
| `signin_races` | two users with TOTP, one flow under a policy that requires MFA, two requests, two sessions | a code and an approvable row belong to one sign-in, and what a handler carries stays sound when another overtakes it |
| `signin_flows` | one user with a password to be changed, three flows (`consent` with `openid` alone, `none` with the profile, `login` with profile and address), one session, three policy decisions (allow, deny, passkey required) in every combination | policy, prompt and consent of the flow itself |
| `account` | two requests at once, five in all; two links, two passkeys, two stops, lock after two failures, one fault | a stop whose sweeps went through leaves nothing older; an MFA reset never claims more than it did; one credential per link, one replacement per password; guesses bounded |
| `one_live_link` | as `account` | violation, see Findings |
| `signing_keys` | five kids, one process, two administrators, two events of which one may be a fault; leads `<<6,2>>` (fits) and `<<2,3>>` (longer than what the signer has left) | a signer stays but for the exceptions named and returns whatever happens; keys are known before they sign; tokens do not outlive them |
| `logout_delivery` | one stop, two relying parties (one with a refused address), two loops, three attempts, one fault | an attempt is worked on by one loop; none is lost without a fault; a recorded delivery is repeated only when two attempts overlapped; every notification is settled in the end |
| `app_approval` | two users, two enrollments, one key pair, two key rows, one request, two sessions, two handlers, one fault | sessions end with their key but for the windows named; one sign-in per approval; keys as confirmed |

Bounds. Two requests suffice for every race of these handlers that involves two
statements; three tokens give a parent with two children and a chain of length
three; the third request of `membership` lets a removal and a second invitation
finish while an acceptance waits, or a suspension while a refresh is between its
statements; two sessions let one user's sign-in overtake another's, and three flows
give a session restored in flows that accept, ask anew and refuse it. In `account` five requests let a
link be issued, used twice and overtaken by a stop, and two stops let one
replacement overtake another; in `signing_keys` five kids hold a signer, its
successor, two keys of administrators and the key of a token, and retired keys no
one refers to make room for new ones; in `logout_delivery` three attempts give a
wait below and a wait at the cap; in `app_approval` one key pair enrolled twice is the
only way two key rows can clash. The instance of `grant_races` has
one client, no rows from before `grant_hash` and a clock of one tick: the second
client, the legacy rows and that refreshing never extends the expiry are covered
by the proofs of `FamilyInv` and `ChainInherits` alone. `MaxTime` bounds the clocks and `MaxUses` the counters of `ReplayGuard`.
`MaxCalls`, `MaxStops`, `MaxEvents` and `MaxFaults` bound
requests, stops, administrators' operations and faults.
The safety properties are also proved without any of these bounds. Symmetry is
used only in runs without liveness. Deadlock is checked where the system can
always go on; in `SignIn` and `Account` random values or requests run out (every
session used), and a tenant of `Membership` may rest, so those runs switch it off.

Fairness. `RevocationTakesEffect` and `ConsoleCloses` assume that a handler that
has begun is driven on (weak fairness of each request's own steps: the runtime
polls every task, and dying is still allowed) and that time passes for a cache
entry and for a signed console token (`ExpireConsole`, `Expire`: both have a
fixed lifetime). `EventuallySettled` assumes weak
fairness of each delivery loop's own steps and of time: the loop in
`crates/api/src/lib.rs` polls for ever and is started again with its process;
crashes, failed calls and relying parties that never answer remain allowed.
Nothing is assumed about which requests arrive.

## What is proved

| Module | Theorem | Statement |
|---|---|---|
| `TokenGrantProofs` | `Typing`, `FamilyInvariant` | `TypeOK` and the inductive `FamilyInv` |
| | `SingleLiveToken`, `ChainsDoNotFork`, `RefreshInherits` | `OneLiveTokenPerFamily`, `NoFork`, `ChainInherits` |
| | `KeylessPresenterChangesNothing` | the action property `WithoutKeyNothingChanges` |
| | `Refinement` | `ImplementsGrantFamily`: every step is one of `GrantFamily` or a stutter |
| `PermissionCacheProofs` | `CacheInvariant`, `HoldersOnly`, `StalenessExplained` | `CacheInv`, `OnlyHoldersChange`, `StaleOnlyByRace` |
| `MembershipProofs` | `MemberInvariant`, `OnlyTheInvited`, `RightsBelongToMembers`, `SuspensionIsThorough` | `MemberInv`, `NobodyInUnasked`, `RightsOnlyForMembers`, `SuspensionReachesTokens` |
| `SignInProofs` | `SignInInvariant`, `OneSignIn`, `PoliciesAreHonoured`, `ConsentComesFirst`, `PromptsAreHonoured` | `SignInInv`, `AuthMatchesSession`, `PolicyHonoured`, `ConsentBeforeCode`, `PromptHonoured` |
| `AccountProofs` | `Typing`, `PasswordsReplacedOnce`, `SweepsReachAll`, `MfaResetsFailClosed` | `TypeOK`, `OneReplacementPerPassword`, `SweepReachesAll`, `MfaResetFailsClosed` |
| | `LinksSetOneCredential`, `GuessesAreBounded` | `OneCredentialPerLink`, `GuessesBounded` |
| `AppApprovalProofs` | `Typing`, `KeysAreAsConfirmed`, `ApprovalsSignInOnce`, `SessionsEndWithTheirKey` | `TypeOK`, `KeyAsConfirmed`, `OneSignInPerApproval`, `SessionsEndWithKey` |
| `LogoutDeliveryProofs` | `Typing`, `ClaimsAreExclusive`, `AttemptsAreAccounted`, `DeliveredIsNotRepeated` | `TypeOK`, `HeldByOne`, `NoAttemptLost`, `NoNeedlessPost` |
| `RetentionProofs` | `Typing`, `RelyingPartiesKnowTheKey`, `SigningComesBack`, `SignersStay`, `KeysOutliveTokens` | of `SigningKeys`: `TypeOK`, `RelyingPartyVerifies`, `SignerReturns`, `SignerStays`, `TokenOutlivedByKey` |
| | `GuardInvariant`, `AcceptedOnce` | of `ReplayGuard`: `GuardInv`, `AcceptedOnceWhileKept` |

All are theorems of the specification for every value of the constants that
satisfies the named assumptions, which TLC evaluates on its instances. Most say
that ids are not `None`, that lifetimes are positive and that subsets are
subsets. The others: requests, links, delivery loops and queue rows are finite,
because `OneCredentialPerLink`, `GuessesBounded` and `NoAttemptLost` count them; there is
at least one request and at least one rotation loop; and a key is valid for
longer than a rotation interval and the making of a key (`Validity > Interval +
Delay`: 365 days against a check every hour and a key pair made in seconds).

*TokenGrant.* That a family has one live token is not inductive: between the
UPDATE of `Rotate` and the INSERT of `CreateChild` no token is live and a
request is about to make one. The invariant treats the family as a baton: a
live token excludes a request that holds it (`HolderExcludesLive`), two requests
never hold it (`OneHolder`), a live or held token has no child yet
(`ChildrenComeOnce`) and a code not yet spent has no root (`RootsComeOnce`).
`Grounded` carries what a handler checked to the statement that relies on it.
`EntitledInv` adds that a request about to revoke a family over a refresh token
was admitted with that token's key, from which the action property follows. The refinement
maps tables and requests to one state per family; with `FamilyInv` each action is one of
`GrantFamily`'s or leaves the mapped state alone.

*ReplayGuard.* An accepted statement holds its key with its own expiry until a
purge has run with a time that reaches it, and no purge runs ahead of the clock.

*PermissionCache.* A positive entry, or a positive answer on its way to the
cache, was true once; an answer no change has overtaken is true still.

*Membership.* The writes still to come are for users who have been members
(`PendingForMembers`); a sign-in that no suspension has overtaken is not for a
suspended guest, and a refresh about to insert its child for one is marked or
has the sweep still ahead of it (`OvertakenIsKnown`).

*SignIn.* What a handler carries between its reads and its writes (user,
methods, session) is as sound as what the rows hold (`RequestInv`): it is that of
one session and meets the policy and prompt of the flow it will be written to. A
consent record names only scopes that were on an approved screen
(`ConsentsInv`), and a handler about to issue has all of its flow's approved.

*Account.* Several invariants over a common one (`Typed`, and `Orderly`: what a
request holds fits its program counter). `PasswordInv`: a hash that was replaced
is behind the row's, so the compare-and-swap of `WritePassword` fails for whoever
read it. `SweepInv`: the kinds a stop has swept so far (`SweptSoFar`) hold nothing
older than it, and what a sign-in or grant adds later is younger. `CredentialInv`:
nothing has come of a link that is not spent, and of one that is, at most one thing:
a passkey that stays (`Won`), a password set, or a request about to set one
(`Resetting`). `GuessInv`: guesses tried and guesses being verified (`Verifying`)
together stay below the threshold plus the requests that run at once; while the
lock is open every guess is counted or about to be.

*AppApproval.* `KeyInv`: an enrollment being activated still carries the key that
was confirmed. `OwnerInv` and `TakenInv`: a decided request carries a key of
its own user, and the conditional write that takes it leaves it for nobody
else. `EndInv`: a live session is linked to its live key, is being signed in or
ended, or is one of the exceptions the property names (`Accounted`), and a
revocation about to delete a key has listed what was linked to it (`Listed`).

*LogoutDelivery.* The hold a claim places on its row and the claim's age add up to
the first back-off, so a later claim has waited for the earlier one to age
(`Guarded`); what a loop read is no newer than the row, and if it is still current,
whoever made the last attempt has outlived its hold (`ReadLate`). `Counted`: POSTs
and claims still waiting never exceed the attempts counted, and only faults make up
the difference. For `NoNeedlessPost`, `ReachInv`: the attempt
under way is no longer in the batch (`Apart`), and whoever still holds a claim on
a delivered row shares it with another attempt (`Reached`).

*SigningKeys.* `RelyingPartyVerifies` rests on `Announced`: before a key signs,
the lead left and the time it has been shown add up to the lifetime of a relying
party's cache. `SignerReturns` is a bound on time: in a state without a signer
each process has a remaining way to a new one (`Rest`), which `dry` and the bound
leave room for (`Patient`), and a fault buys one more round. `SignerStays` and
`TokenOutlivedByKey` say that something comes before something else: every key
announced (`Waits`) or being made (`Makes`) signs before the signers have been gone
for longer than the making of a key, and every process comes to its next check
before that (`Cared`); for tokens, the signers last as long as a process needs to
bring the next one plus the life of a token (`Need`, `Served`), or the next one is
announced and comes in time (`Succession`).

What the proofs changed in the models. Two branches of `Account`'s `AfterSweep`
overlapped. `dry` forgot the signer that an INSERT brings. `SignerStays` is false when checks are rarer than
`LeadDays`, and `SignerStays` and `TokenOutlivedByKey` when a check is cut
short or a process restarts while the last signer is about to expire, or a key is retired on the word of
such a signer; their premises and `exposed` now say so, and the latter also asks
that the validity of a key leaves room for what the lead leaves room for.

## What is only model-checked

- `RevocationTakesEffect`, `ConsoleCloses` and `EventuallySettled`: liveness under
  fairness is out of the prover's reach.
- The two violations.

The type invariants of `Account`, `AppApproval`, `LogoutDelivery` and
`SigningKeys` are proved and in no run. No module has a recursive operator; induction over data is neither needed nor
available.

## Findings

Two runs refute what a comment says.

- `reuse_stop`. A request that loses the race for a refresh token revokes the
  family while the winner has not yet inserted its child; the child is inserted
  live afterwards. The comment says the family is stopped as a whole. What does
  hold is that the survivor is the family's only token.
- `one_live_link`. `account_setup.rs:192` and `password_reset.rs:258` say that a
  user has one live link, the newest. Issuing is an UPDATE that invalidates and
  then an INSERT; two issues that overlap both invalidate first, and both links
  are live. What holds is that each of them sets at most one credential
  (`OneCredentialPerLink`).

Other limits, met while reading and visible in how the properties and actions are stated:

- the purge deletes replay rows with `expires_at <= now` while verification still
  accepts at that same second, so a statement swept at the boundary is accepted
  again (`AcceptedOnceWhileKept` speaks of the time before the row may go);
- a forced password change under an allowing policy signs a user with TOTP in on
  the password alone, and the MFA step completes a sign-in whose password still
  has to be changed; the comments in `login.rs` say otherwise (`PolicyHonoured`
  is what holds);
- `prompt=consent` is looked at when a session is restored (`authorize.rs:489`)
  and not after an interactive sign-in (`ConsentBeforeCode` asks for an approved
  screen, not for a new one);
- a request for `openid` alone gets its code with no consent screen and no record
  (`consent.rs:286`), as its comment says; `ConsentBeforeCode` therefore speaks of
  the other scopes;
- an actor who has just lost the administrator right, or still has it in the
  cache, goes on to hand it out (`OnlyHoldersChange` speaks of people who have
  held it);
- a lookup that read a right before its revocation fills the cache after it, so
  the revoked right is served until the entry expires (`doubt` in
  `StaleOnlyByRace`);
- `activate` and `update_status` name a membership by (tenant, user): a late
  acceptance or resumption activates a row that a removal and a second
  invitation have put in its place, and a duplicate acceptance ends a suspension
  (`NobodyInUnasked` therefore speaks of having accepted at some time);
- a grant that passed its check before a removal inserts the right after it
  (`RightsOnlyForMembers` speaks of people who have been members);
- a consent screen open at sign-out can still be approved and issues a code of
  the ended session: nothing on the way to the refresh token asks whether the
  session lives;
- `complete_authentication` keeps `password_verified_at` of whoever typed a
  password in the flow (`auth_session.rs:602`): after one user's password and
  another's passkey, the second factor of the latter completes a sign-in that
  counts a password this user never typed, although the comment at
  `auth_session.rs:536` says that such an authentication does not count.
  `AuthMatchesSession` says that user, methods and session of a code belong
  together; it does not say who typed the password;
- a refresh between its UPDATE and its INSERT, and a sign-in past its check, leave
  a suspended guest a live refresh token that no statement of the suspension
  revokes and that can be renewed until it expires (`strays` in `Membership`);
- a sign-in in flight at a stop, and a code exchanged between the sweep of the
  tokens and that of the codes, leave credentials issued after the stop was
  ordered (`SweepReachesAll` speaks of those issued before it);
- `complete_passkey` may finish the set-up of an account and then lose the link;
  the passkey is given back and the account is left set up without one;
- a wrong current password in a change is not counted towards the lock, and a
  passkey sign-in does not look at it;
- `retire_key` asks for another key that can sign now, not for how long, and two
  retirements at once can leave none (`exposed` in `SignerStays`); the rotation
  check makes a new one (`SignerReturns`);
- a rotation check that fails, or a restart, close to the end of the last signer
  can leave none until the next check (`exposed` again); nothing compares the
  rotation lead with the interval of the checks, so a lead of zero days makes the successor only
  after the signer has gone, and the publication lead may exceed what the signer has left (`early`
  in `RelyingPartyVerifies`);
- revoking an access token whose lookup or INSERT fails is logged and answered
  with success, without a deny row (`revocation.rs:211`, `:236`), and between `exp`
  and `exp` plus the skew a purged deny row lets a revoked token through; with that
  no property of the deny list worth stating is left, and it is not modelled;
- a batch of notifications that takes longer than the hold of its claim is taken
  up by a second loop and sent again (`HeldByOne`, `NoNeedlessPost`);
- the comment on `abandon` says that attempts go to the maximum; `mark_failed`
  leaves them as they are, so a refused row is never purged (`EventuallySettled`
  therefore leaves refused addresses out);
- a session linked between the listing and the DELETE of `remove_key` survives the
  revocation of its key, and a database error after the DELETE leaves sessions no
  one can ask to end (`windowed`, `abandoned` in `SessionsEndWithKey`);
- removing a guest leaves the refresh tokens issued in the tenant.

## Not modelled

Cryptography, formats and transport (signatures, JWT and XML, WebAuthn, mail,
SMS, HTTP, templates) are taken as given: a credential is right or the request
is refused. One tenant and one client stand for each component, since every
statement is confined to its tenant. Configuration screens, directories and
audit hold no decision others depend on. In `SignIn`, lockout and rate limits are
the freedom not to proceed; the lock itself is in `Account`, with its durations
abstracted to a lock that may lapse at any time. Not modelled of the account are
its creation and deletion, profile edits, the history of passwords (one
nondeterministic refusal) and `must_change_password` (in `SignIn`). Not modelled
at all: the deny list of access tokens, an app approval whose auth session has gone
meanwhile (it signs in and ends without a flow), TOTP steps, recovery and one-time
codes, step-up, the device registry, the sign-ins of the portal and the console,
SAML, the rate limiter. Most of these are a
handful of conditional statements of the kinds modelled here.

## Plan

In order of importance:

1. Second factors: TOTP steps, recovery and one-time codes, and step-up, each
   consumed by a conditional statement.
2. `evaluate_policies` as a pure operator against a reference definition.
3. A composition of `Membership` and `TokenGrant` (the refresh tokens of a removed
   guest, family by family), and of `SignIn` with the sign-out that a consent
   screen outlives.
4. Theorems that join components: that a suspension which reaches the tokens
   (`SuspensionIsThorough`) leaves a family without a live token, from
   `GrantFamily`'s promise rather than from the details of `TokenGrant`.
