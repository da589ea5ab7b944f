------------------------------ MODULE Account ------------------------------
(***************************************************************************)
(* One account and everything that lets its owner in: the row of users     *)
(* (password hash, pending_setup, status, failed_login_count, locked_until),*)
(* the set-up and reset links that may replace the password or register a   *)
(* passkey, the passkeys, and what was issued on the strength of a sign-in: *)
(* SSO sessions, authorization codes and refresh tokens.  Every operation   *)
(* is a sequence of SQL statements without a transaction; a call holds what *)
(* it read between them.                                                    *)
(*                                                                         *)
(* Abstractions.  A password hash is the number of replacements made so    *)
(* far (salted hashes never repeat) and chosen says whether the owner knows *)
(* it.  The lock is a flag that LockLapses clears.  Length, breach and      *)
(* reuse rules are one nondeterministic refusal.  What happens inside a     *)
(* sign-in (policy, MFA, consent) is the subject of SignIn, and the token   *)
(* endpoint that of TokenGrant.                                             *)
(***************************************************************************)
EXTENDS Naturals, FiniteSets

CONSTANTS
  Calls,       \* requests that may be in progress at once
  Links,       \* rows password_reset_tokens may come to hold
  Passkeys,    \* rows webauthn_credentials may come to hold
  None,        \* no link, no passkey
  Threshold,   \* failures after which the account is locked
  MaxCalls,    \* bound: requests started
  MaxStops,    \* bound: password replacements, disablings and MFA resets
  MaxFaults    \* bound: statements that fail and calls that are dropped

ASSUME AccountAssumption ==
  /\ IsFiniteSet(Calls) /\ Calls # {}
  /\ None \notin Links \cup Passkeys
  /\ Threshold \in Nat \ {0} /\ MaxCalls \in Nat /\ MaxStops \in Nat
  /\ MaxFaults \in Nat

VARIABLES
  user,      \* the row of users
  link,      \* the rows of password_reset_tokens
  passkey,   \* the rows of webauthn_credentials
  held,      \* live sessions, codes and refresh tokens, with the stop they follow
  call,      \* what each request in progress holds
  stops,     \* history: stops ordered so far
  gave,      \* history: links through which a password was set
  guesses,   \* history: wrong passwords tried since the lock last opened
  started,   \* requests started so far
  faults     \* faults so far

vars == <<user, link, passkey, held, call, stops, gave, guesses, started, faults>>

Kinds == {"session", "token", "code"}

\* The columns the operations look at; failed_login_count is capped one past the threshold.
UserRow == [hash: 0..MaxStops, chosen: BOOLEAN, pending: BOOLEAN, active: BOOLEAN,
            fails: 0..(Threshold + 1), locked: BOOLEAN]

\* A link: spent stands for used, invalidated and expired alike.
LinkRow == [st: {"absent", "live", "spent"}, purpose: {"setup", "reset"}]

PasskeyRow == [st: {"absent", "live", "gone"}, link: Links \cup {None}]

\* What a sign-in left behind, and the number of stops ordered before it was made.
Held == [kind: Kinds, made: 0..MaxStops, kept: BOOLEAN]

Ops == {"none", "sign_in", "change", "request", "reset", "passkey", "forced", "disable", "mfa"}

Steps == {"idle", "verify", "count", "clear", "establish",
          "load", "write", "finish", "sweep_session", "sweep_token", "sweep_code",
          "invalidate", "create", "register", "consume", "discard", "ok"}

\* hash, knows, fails and pend are the row as the call read it, stop the stop it ordered,
\* own the session a change keeps, and lost whether one of its sweeps failed.
CallRecord == [op: Ops, pc: Steps, hash: 0..MaxStops, knows: BOOLEAN, fails: BOOLEAN, pend: BOOLEAN,
               link: Links \cup {None}, key: Passkeys \cup {None},
               own: SUBSET Held, stop: 0..MaxStops, lost: BOOLEAN]

Idle == [op |-> "none", pc |-> "idle", hash |-> 0, knows |-> FALSE, fails |-> FALSE, pend |-> FALSE,
         link |-> None, key |-> None, own |-> {}, stop |-> 0, lost |-> FALSE]

\* The types of the rows and of what a call holds; a link is for set-up or reset (issue,
\* request_reset), never named after the request that asked for it.
TypeOK ==
  /\ user \in UserRow
  /\ link \in [Links -> LinkRow]
  /\ passkey \in [Passkeys -> PasskeyRow]
  /\ held \subseteq Held
  /\ call \in [Calls -> CallRecord]
  /\ stops \in 0..MaxStops
  /\ gave \subseteq Links
  /\ guesses \in Nat
  /\ started \in 0..MaxCalls
  /\ faults \in 0..MaxFaults

----------------------------------------------------------------------------
(* The row and the calls.                                                  *)

IsActive == user.active /\ ~user.pending

CanFinishSetup == user.active

Live == {l \in Links : link[l].st = "live"}

Free(c) == call[c].pc = "idle"

At(c, step) == call[c].pc = step

Goto(c, step) == call' = [call EXCEPT ![c].pc = step]

\* The call answers with an error or with nothing anyone relies on.
Leave(c) == call' = [call EXCEPT ![c] = Idle]

\* A request arrives and holds what it has read.
Begin(c, record) ==
  /\ Free(c) /\ started < MaxCalls
  /\ started' = started + 1
  /\ call' = [call EXCEPT ![c] = record]

Fault == faults < MaxFaults /\ faults' = faults + 1

Made(kind) == [kind |-> kind, made |-> stops, kept |-> FALSE]

----------------------------------------------------------------------------
(* Sign-in with a password and the lock.                                   *)

\* The row is read once; lock and status are judged on it before the slow verification.
SignIn(c) ==
  /\ ~user.locked /\ IsActive
  /\ Begin(c, [Idle EXCEPT !.op = "sign_in", !.pc = "verify",
                    !.knows = user.chosen, !.fails = user.fails > 0])
  /\ UNCHANGED <<user, link, passkey, held, stops, gave, guesses, faults>>

WrongPassword(c) ==
  /\ At(c, "verify")
  /\ Goto(c, "count") /\ guesses' = guesses + 1
  /\ UNCHANGED <<user, link, passkey, held, stops, gave, started, faults>>

\* (mutant) The count is written back from what the call had read.
CountFromRead(c) ==
  LET n == IF call[c].fails THEN 2 ELSE 1 IN
  /\ At(c, "count")
  /\ user' = [user EXCEPT !.fails = n, !.locked = n >= Threshold \/ @]
  /\ Leave(c)
  /\ UNCHANGED <<link, passkey, held, stops, gave, guesses, started, faults>>

\* record_login_failure: the count and the lock are one UPDATE.
RecordLoginFailure(c) ==
  LET n == IF user.fails > Threshold THEN user.fails ELSE user.fails + 1 IN
  /\ At(c, "count")
  /\ user' = [user EXCEPT !.fails = n, !.locked = n >= Threshold \/ @]
  /\ Leave(c)
  /\ UNCHANGED <<link, passkey, held, stops, gave, guesses, started, faults>>

\* The password and the counter are those of the row as read.
RightPassword(c) ==
  /\ At(c, "verify") /\ call[c].knows
  /\ Goto(c, IF call[c].fails THEN "clear" ELSE "establish")
  /\ UNCHANGED <<user, link, passkey, held, stops, gave, guesses, started, faults>>

\* update_login_state(0, None), whatever the row has become.
ClearFailures(c) ==
  /\ At(c, "clear")
  /\ user' = [user EXCEPT !.fails = 0, !.locked = FALSE]
  /\ guesses' = 0
  /\ Goto(c, "establish")
  /\ UNCHANGED <<link, passkey, held, stops, gave, started, faults>>

\* An assertion of a registered passkey; the lock is of passwords only.
PasskeySignIn(c, k) ==
  /\ passkey[k].st = "live" /\ IsActive
  /\ Begin(c, [Idle EXCEPT !.op = "sign_in", !.pc = "establish"])
  /\ UNCHANGED <<user, link, passkey, held, stops, gave, guesses, faults>>

\* The session, and the code the authorization continues to.
Establish(c) ==
  /\ At(c, "establish")
  /\ held' = held \cup {Made("session"), Made("code")}
  /\ Leave(c)
  /\ UNCHANGED <<user, link, passkey, stops, gave, guesses, started, faults>>

\* The token endpoint exchanges a code of an active user.
Exchange(a) ==
  /\ a.kind = "code" /\ IsActive
  /\ held' = (held \ {a}) \cup {Made("token")}
  /\ UNCHANGED <<user, link, passkey, call, stops, gave, guesses, started, faults>>

LockLapses ==
  /\ user.locked
  /\ user' = [user EXCEPT !.locked = FALSE]
  /\ guesses' = 0
  /\ UNCHANGED <<link, passkey, held, call, stops, gave, started, faults>>

UnlockAccount ==
  /\ user.fails > 0
  /\ user' = [user EXCEPT !.fails = 0, !.locked = FALSE]
  /\ guesses' = 0
  /\ UNCHANGED <<link, passkey, held, call, stops, gave, started, faults>>

----------------------------------------------------------------------------
(* Replacing the password: by its owner, through a link, by an             *)
(* administrator.                                                          *)

\* AccountPasswordService::change up to the write; keeps the session it came with.
Change(c, a) ==
  /\ a.kind = "session" /\ IsActive /\ user.chosen
  /\ Begin(c, [Idle EXCEPT !.op = "change", !.pc = "write", !.hash = user.hash, !.own = {a}])
  /\ UNCHANGED <<user, link, passkey, held, stops, gave, guesses, faults>>

\* reset_password spends the link first ...
Consume(c, l) ==
  /\ l \in Live
  /\ link' = [link EXCEPT ![l].st = "spent"]
  /\ Begin(c, [Idle EXCEPT !.op = "reset", !.pc = "load", !.link = l])
  /\ UNCHANGED <<user, passkey, held, stops, gave, guesses, faults>>

\* ... then reads its owner: only a set-up link is for an account still pending.
MayUse(l) == IF link[l].purpose = "setup" THEN CanFinishSetup ELSE IsActive

LoadOwner(c) ==
  /\ At(c, "load") /\ MayUse(call[c].link)
  /\ call' = [call EXCEPT ![c].pc = "write", ![c].hash = user.hash, ![c].pend = user.pending]
  /\ UNCHANGED <<user, link, passkey, held, stops, gave, guesses, started, faults>>

\* The owner may not use the link, or the password was used before.
Refuse(c) ==
  /\ At(c, "load")
  /\ ~MayUse(call[c].link) \/ ~user.pending
  /\ Leave(c)
  /\ UNCHANGED <<user, link, passkey, held, stops, gave, guesses, started, faults>>

\* reset_password_for: an administrator reads the row.
ResetPasswordFor(c) ==
  /\ Begin(c, [Idle EXCEPT !.op = "forced", !.pc = "write", !.hash = user.hash])
  /\ UNCHANGED <<user, link, passkey, held, stops, gave, guesses, faults>>

\* (mutant) UPDATE ... WHERE id = ?, without the hash that was read.
MatchesAny(c) == TRUE

\* update_password and reset_password_forced match the hash that was read.
HashMatches(c) == user.hash = call[c].hash

WritePassword(c) ==
  /\ At(c, "write") /\ HashMatches(c) /\ stops < MaxStops
  /\ user' = [user EXCEPT !.hash = stops + 1, !.chosen = call[c].op # "forced"]
  /\ stops' = stops + 1
  /\ gave' = IF call[c].op = "reset" THEN gave \cup {call[c].link} ELSE gave
  /\ call' = [call EXCEPT ![c].pc = IF call[c].pend THEN "finish" ELSE "sweep_session",
                          ![c].stop = stops + 1]
  /\ UNCHANGED <<link, passkey, held, guesses, started, faults>>

\* Another request has replaced the password since.
LoseUpdate(c) ==
  /\ At(c, "write") /\ ~HashMatches(c)
  /\ Leave(c)
  /\ UNCHANGED <<user, link, passkey, held, stops, gave, guesses, started, faults>>

\* finish_setup, of a reset and of a passkey registration.
FinishSetup(c) ==
  /\ At(c, "finish")
  /\ user' = [user EXCEPT !.pending = FALSE]
  /\ Goto(c, IF call[c].op = "passkey" THEN "consume" ELSE "sweep_session")
  /\ UNCHANGED <<link, passkey, held, stops, gave, guesses, started, faults>>

----------------------------------------------------------------------------
(* Disabling, MFA reset and the sweeps they share with the above.          *)

Disable(c) ==
  /\ stops < MaxStops
  /\ user' = [user EXCEPT !.active = FALSE]
  /\ stops' = stops + 1
  /\ Begin(c, [Idle EXCEPT !.op = "disable", !.pc = "sweep_session", !.stop = stops + 1])
  /\ UNCHANGED <<link, passkey, held, gave, guesses, faults>>

Enable ==
  /\ ~user.active
  /\ user' = [user EXCEPT !.active = TRUE]
  /\ UNCHANGED <<link, passkey, held, call, stops, gave, guesses, started, faults>>

\* reset_mfa removes the authenticators, then sweeps.
ResetMfa(c) ==
  /\ stops < MaxStops
  /\ passkey' = [k \in Passkeys |->
                   IF passkey[k].st = "live" THEN [passkey[k] EXCEPT !.st = "gone"] ELSE passkey[k]]
  /\ stops' = stops + 1
  /\ Begin(c, [Idle EXCEPT !.op = "mfa", !.pc = "sweep_session", !.stop = stops + 1])
  /\ UNCHANGED <<user, link, held, gave, guesses, faults>>

\* What follows a sweep of one kind.
AfterSweep(c) ==
  CASE call[c].pc = "sweep_session" -> "sweep_token"
    [] call[c].pc = "sweep_token" -> "sweep_code"
    [] call[c].pc = "sweep_code" /\ call[c].op = "forced" -> "invalidate"
    [] OTHER -> "ok"

SweptKind(c) ==
  [sweep_session |-> "session", sweep_token |-> "token", sweep_code |-> "code"][call[c].pc]

Sweeping(c) == call[c].pc \in {"sweep_session", "sweep_token", "sweep_code"}

\* (mutant) The MFA reset, too, only logs the failure.
SweptAnyway(c, lost) == [call[c] EXCEPT !.pc = AfterSweep(c), !.lost = lost]

\* A failed sweep never stops the next one; an MFA reset with one answers with an error.
Swept(c, lost) ==
  IF call[c].pc = "sweep_code" /\ call[c].op = "mfa" /\ lost
  THEN Idle
  ELSE [call[c] EXCEPT !.pc = AfterSweep(c), !.lost = lost]

\* (mutant) The sweep forgets the authorization codes.
ToSweepButCodes(c) == {a \in held : a.kind = SweptKind(c) /\ a.kind # "code"}

\* delete_all_for_user, revoke_all_for_user, revoke_all_active_for_user.
ToSweep(c) == {a \in held : a.kind = SweptKind(c)}

\* One statement; that of a change spares the session the change came with.
Sweep(c) ==
  /\ Sweeping(c)
  /\ held' = (held \ ToSweep(c)) \cup {[a EXCEPT !.kept = TRUE] : a \in ToSweep(c) \cap call[c].own}
  /\ call' = [call EXCEPT ![c] = Swept(c, call[c].lost)]
  /\ UNCHANGED <<user, link, passkey, stops, gave, guesses, started, faults>>

SweepFails(c) ==
  /\ Sweeping(c) /\ Fault
  /\ call' = [call EXCEPT ![c] = Swept(c, TRUE)]
  /\ UNCHANGED <<user, link, passkey, held, stops, gave, guesses, started>>

\* reissue_tokens: the refresh tokens and nothing else.
ReissueTokens ==
  /\ \E a \in held : a.kind = "token"
  /\ held' = {a \in held : a.kind # "token"}
  /\ UNCHANGED <<user, link, passkey, call, stops, gave, guesses, started, faults>>

----------------------------------------------------------------------------
(* Links.                                                                  *)

\* invalidate_all_for_user
Spent(S) == [l \in Links |-> IF l \in S THEN [link[l] EXCEPT !.st = "spent"] ELSE link[l]]

\* request_reset of an account that is active as read.
RequestReset(c) ==
  /\ IsActive
  /\ Begin(c, [Idle EXCEPT !.op = "request", !.pc = "invalidate"])
  /\ UNCHANGED <<user, link, passkey, held, stops, gave, guesses, faults>>

\* The unused links of the user go first ...
Invalidate(c) ==
  /\ At(c, "invalidate")
  /\ link' = Spent(Live)
  /\ Goto(c, "create")
  /\ UNCHANGED <<user, passkey, held, stops, gave, guesses, started, faults>>

\* An administrator's link finishes a set-up, that of a forgotten password does not.
Purpose(c) == IF call[c].op = "forced" THEN "setup" ELSE "reset"

\* ... and then the new one is inserted.
Create(c, l) ==
  /\ At(c, "create") /\ link[l].st = "absent"
  /\ link' = [link EXCEPT ![l] = [st |-> "live", purpose |-> Purpose(c)]]
  /\ Goto(c, "ok")
  /\ UNCHANGED <<user, passkey, held, stops, gave, guesses, started, faults>>

ExpireLink(l) ==
  /\ l \in Live
  /\ link' = Spent({l})
  /\ UNCHANGED <<user, passkey, held, call, stops, gave, guesses, started, faults>>

----------------------------------------------------------------------------
(* Registering a passkey with a set-up link.                               *)

\* complete_passkey resolves the link without spending it.
Resolve(c, l) ==
  /\ l \in Live /\ CanFinishSetup /\ link[l].purpose = "setup"
  /\ Begin(c, [Idle EXCEPT !.op = "passkey", !.pc = "register", !.link = l, !.pend = user.pending])
  /\ UNCHANGED <<user, link, passkey, held, stops, gave, guesses, faults>>

Register(c, k) ==
  /\ At(c, "register") /\ passkey[k].st = "absent"
  /\ passkey' = [passkey EXCEPT ![k] = [st |-> "live", link |-> call[c].link]]
  /\ call' = [call EXCEPT ![c].key = k, ![c].pc = IF call[c].pend THEN "finish" ELSE "consume"]
  /\ UNCHANGED <<user, link, held, stops, gave, guesses, started, faults>>

\* (mutant) Whether the link was still there is not looked at.
ConsumeBlindly(c) ==
  /\ At(c, "consume")
  /\ link' = Spent({call[c].link})
  /\ Goto(c, "ok")
  /\ UNCHANGED <<user, passkey, held, stops, gave, guesses, started, faults>>

\* The link is spent after the registration; whoever comes second gives the passkey back.
ConsumeAfter(c) ==
  /\ At(c, "consume")
  /\ link' = Spent({call[c].link} \cap Live)
  /\ Goto(c, IF call[c].link \in Live THEN "ok" ELSE "discard")
  /\ UNCHANGED <<user, passkey, held, stops, gave, guesses, started, faults>>

Discard(c) ==
  /\ At(c, "discard")
  /\ passkey' = [passkey EXCEPT ![call[c].key].st = "gone"]
  /\ Leave(c)
  /\ UNCHANGED <<user, link, held, stops, gave, guesses, started, faults>>

----------------------------------------------------------------------------
Reply(c) ==
  /\ At(c, "ok")
  /\ Leave(c)
  /\ UNCHANGED <<user, link, passkey, held, stops, gave, guesses, started, faults>>

\* A statement of the call fails, or the call is dropped: what it did stays done.
Fails(c) ==
  /\ ~Free(c) /\ ~At(c, "ok") /\ Fault
  /\ Leave(c)
  /\ UNCHANGED <<user, link, passkey, held, stops, gave, guesses, started>>

\* A new account, pending with the link its administrator was given, or one in use.
Init ==
  /\ \E new \in BOOLEAN :
       /\ user = [hash |-> 0, chosen |-> ~new, pending |-> new, active |-> TRUE,
                  fails |-> 0, locked |-> FALSE]
       /\ link \in {f \in [Links -> LinkRow] :
                      /\ \A l \in Links : f[l].purpose = "setup" /\ f[l].st \in {"absent", "live"}
                      /\ Cardinality({l \in Links : f[l].st = "live"}) = IF new THEN 1 ELSE 0}
  /\ passkey = [k \in Passkeys |-> [st |-> "absent", link |-> None]]
  /\ held = {}
  /\ call = [c \in Calls |-> Idle]
  /\ stops = 0 /\ gave = {} /\ guesses = 0 /\ started = 0 /\ faults = 0

Start(c) ==
  \/ SignIn(c) \/ RequestReset(c) \/ ResetPasswordFor(c) \/ Disable(c) \/ ResetMfa(c)
  \/ \E a \in held : Change(c, a)
  \/ \E k \in Passkeys : PasskeySignIn(c, k)
  \/ \E l \in Links : Consume(c, l) \/ Resolve(c, l)

Continue(c) ==
  \/ WrongPassword(c) \/ RecordLoginFailure(c) \/ RightPassword(c) \/ ClearFailures(c)
  \/ Establish(c)
  \/ LoadOwner(c) \/ Refuse(c) \/ WritePassword(c) \/ LoseUpdate(c) \/ FinishSetup(c)
  \/ Sweep(c) \/ SweepFails(c)
  \/ Invalidate(c) \/ (\E l \in Links : Create(c, l))
  \/ (\E k \in Passkeys : Register(c, k)) \/ ConsumeAfter(c) \/ Discard(c)
  \/ Reply(c) \/ Fails(c)

Environment ==
  \/ LockLapses \/ UnlockAccount \/ Enable \/ ReissueTokens
  \/ \E a \in held : Exchange(a)
  \/ \E l \in Links : ExpireLink(l)

Next == Environment \/ \E c \in Calls : Start(c) \/ Continue(c)

Spec == Init /\ [][Next]_vars

----------------------------------------------------------------------------
\* Issued before the stop the call ordered, and not the session a change keeps.
Outlives(c, a) ==
  /\ a.made < call[c].stop
  /\ a \notin {[o EXCEPT !.kept = TRUE] : o \in call[c].own}

\* A password replacement, a disabling or an MFA reset whose sweeps all went through
\* leaves no session, code or refresh token issued before it, whatever signed in,
\* exchanged or changed the password meanwhile (revoke_credentials, change,
\* reset_password).
SweepReachesAll ==
  \A c \in Calls : At(c, "ok") /\ ~call[c].lost => ~\E a \in held : Outlives(c, a)

\* An MFA reset answered with success has ended everything issued before it, also when
\* a statement failed on the way (revoke_credentials_strict is fail-closed).
MfaResetFailsClosed ==
  \A c \in Calls : At(c, "ok") /\ call[c].op = "mfa" => ~\E a \in held : Outlives(c, a)

\* The calls that registered a passkey with the link and have not settled it.
Settling(l) == {c \in Calls : call[c].link = l /\ call[c].pc \in {"finish", "consume", "discard"}}

\* What came of a link: passkeys that stayed, and a password.
Yield(l) == {k \in Passkeys : passkey[k] = [st |-> "live", link |-> l]}
            \cup (IF l \in gave THEN {None} ELSE {})

\* One link sets one credential: a password or one passkey, however many requests came
\* with it at once (complete_passkey discards what it registered when it loses the
\* link), unless a statement failed.
OneCredentialPerLink ==
  \A l \in Links : faults = 0 /\ Settling(l) = {} => Cardinality(Yield(l)) <= 1

\* What the comments say of issue (account_setup.rs: two live links at once must not be)
\* and of request_reset (password_reset.rs: the valid reset link is always the newest one,
\* and only that): an account has at most one live link.
OneLiveLink == Cardinality(Live) <= 1

\* The wrong passwords about to be counted.
Uncounted == {c \in Calls : At(c, "count")}

\* While the lock is open every wrong password tried since it opened is counted or about
\* to be, and a lock that lapsed closes at the first one; between two openings at most
\* Threshold are tried, and those of the requests that were past the check when the last
\* one was counted (record_login_failure counts and locks in one UPDATE).  A statement
\* that fails forgives one.
GuessesBounded ==
  /\ guesses < Threshold + Cardinality(Calls) + faults
  /\ ~user.locked =>
       guesses <= (IF user.fails < Threshold THEN user.fails ELSE 0)
                  + Cardinality(Uncounted) + faults

\* The calls that replaced the password and have not answered yet.
Replacing == {c \in Calls : call[c].op \in {"change", "reset", "forced"} /\ call[c].stop # 0}

\* A password is replaced once: of the owner who proved it, a link whose owner was read
\* and an administrator, all of them past their reading, one wins and none of the others
\* overwrites what the winner set (update_password and reset_password_forced compare
\* and swap).
OneReplacementPerPassword ==
  \A c, d \in Replacing : c # d => call[c].hash # call[d].hash
=============================================================================
