---------------------------- MODULE ReplayGuard ----------------------------
(***************************************************************************)
(* Signed statements that may be used once: the client assertions of       *)
(* private_key_jwt (client_authentication.rs, domain/client_assertion.rs)  *)
(* and DPoP proofs (dpop_proof_verification.rs, domain/dpop.rs).  Both are *)
(* verified against the clock and then recorded by one INSERT on a primary *)
(* key; the row carries the time until which it must be kept, and the      *)
(* purge of expired rows deletes it from that time on.                     *)
(*                                                                         *)
(* The two differ only in numbers.  An assertion is kept until exp plus    *)
(* the leeway, a proof until iat plus its greatest age: Until gives that   *)
(* time for either, and Ahead how far in the future it may lie (lifetime   *)
(* plus two leeways, or greatest age plus the clock-ahead allowance).      *)
(*                                                                         *)
(* Names that SigningKeys has too carry the prefix Guard: RetentionProofs  *)
(* extends both modules.                                                   *)
(***************************************************************************)
EXTENDS Integers

CONSTANTS
    Statements,  \* signed statements clients may present
    Keys,        \* (tenant, client, jti), or the hash of (jkt, jti)
    KeyOf,       \* the primary key of each statement
    Until,       \* replay_guard_until / retain_until of each statement
    Ahead,       \* how far ahead of the clock Until may lie
    Requests,
    MaxTime,     \* bound on the clock
    MaxUses,     \* bound on the counters
    Nothing

ASSUME StatementsAssumption ==
    /\ KeyOf \in [Statements -> Keys]
    /\ Until \in [Statements -> Nat]
    /\ Ahead \in Nat
    /\ MaxTime \in Nat
    /\ MaxUses \in Nat
    /\ Nothing \notin Statements \cup Nat

VARIABLES
    clock,
    rows,       \* client_assertion_jtis / dpop_proof_jtis: key -> expires_at
    req,        \* a statement verified but not yet recorded
    purge,      \* the time the running purge has read, or Nothing
    purged,     \* history: the latest time a purge has deleted with
    early,      \* history: acceptances of each statement before Until
    uses        \* history: all acceptances of each statement

guardVars == <<clock, rows, req, purge, purged, early, uses>>

GuardTypes ==
    /\ clock \in Nat
    /\ rows \in [Keys -> Nat \cup {Nothing}]
    /\ req \in [Requests -> Statements \cup {Nothing}]
    /\ purge \in Nat \cup {Nothing}
    /\ purged \in Nat
    /\ early \in [Statements -> Nat]
    /\ uses \in [Statements -> Nat]

GuardInit ==
    /\ clock = 0
    /\ rows = [k \in Keys |-> Nothing]
    /\ req = [r \in Requests |-> Nothing]
    /\ purge = Nothing
    /\ purged = 0
    /\ early = [s \in Statements |-> 0]
    /\ uses = [s \in Statements |-> 0]

-----------------------------------------------------------------------------
\* verify_client_assertion and dpop::verify_proof: the statement is refused
\* when Until has passed and when it lies too far ahead.  Until itself is
\* still accepted.
InWindow(s, now) == now <= Until[s] /\ Until[s] - now <= Ahead

\* A request reads the clock and verifies the statement it carries; one that
\* does not verify is refused and leaves no trace.
Verify(r, s) ==
    /\ req[r] = Nothing
    /\ InWindow(s, clock)
    /\ req' = [req EXCEPT ![r] = s]
    /\ UNCHANGED <<clock, rows, purge, purged, early, uses>>

\* (mutant) A SELECT for the key that does not see the row just inserted.
RecordUnchecked(r) ==
    LET s == req[r] IN
    /\ s # Nothing
    /\ uses[s] < MaxUses
    /\ rows' = [rows EXCEPT ![KeyOf[s]] = Until[s]]
    /\ uses' = [uses EXCEPT ![s] = @ + 1]
    /\ early' = IF clock < Until[s] THEN [early EXCEPT ![s] = @ + 1] ELSE early
    /\ req' = [req EXCEPT ![r] = Nothing]
    /\ UNCHANGED <<clock, purge, purged>>

\* record_if_unused: the INSERT succeeds and the statement is accepted, or
\* the key is taken and it is refused as replayed.
Record(r) ==
    LET s == req[r]
        fresh == rows[KeyOf[s]] = Nothing
    IN /\ s # Nothing
       /\ fresh => uses[s] < MaxUses
       /\ rows' = IF fresh THEN [rows EXCEPT ![KeyOf[s]] = Until[s]] ELSE rows
       /\ uses' = IF fresh THEN [uses EXCEPT ![s] = @ + 1] ELSE uses
       /\ early' = IF fresh /\ clock < Until[s] THEN [early EXCEPT ![s] = @ + 1] ELSE early
       /\ req' = [req EXCEPT ![r] = Nothing]
       /\ UNCHANGED <<clock, purge, purged>>

\* The request dies with its connection, or the INSERT reports an error.
Abandon(r) ==
    /\ req[r] # Nothing
    /\ req' = [req EXCEPT ![r] = Nothing]
    /\ UNCHANGED <<clock, rows, purge, purged, early, uses>>

\* purge_once reads the clock once and deletes table after table with it.
StartPurge ==
    /\ purge = Nothing
    /\ purge' = clock
    /\ UNCHANGED <<clock, rows, req, purged, early, uses>>

\* (mutant) The row is deleted a second early.
DeleteExpiredEarly ==
    /\ purge # Nothing
    /\ rows' = [k \in Keys |-> IF rows[k] # Nothing /\ rows[k] <= purge + 1 THEN Nothing ELSE rows[k]]
    /\ purged' = IF purge > purged THEN purge ELSE purged
    /\ purge' = Nothing
    /\ UNCHANGED <<clock, req, early, uses>>

\* DELETE FROM ... WHERE expires_at <= now
DeleteExpired ==
    /\ purge # Nothing
    /\ rows' = [k \in Keys |-> IF rows[k] # Nothing /\ rows[k] <= purge THEN Nothing ELSE rows[k]]
    /\ purged' = IF purge > purged THEN purge ELSE purged
    /\ purge' = Nothing
    /\ UNCHANGED <<clock, req, early, uses>>

GuardTick ==
    /\ clock < MaxTime
    /\ clock' = clock + 1
    /\ UNCHANGED <<rows, req, purge, purged, early, uses>>

GuardNext ==
    \/ \E r \in Requests : \/ \E s \in Statements : Verify(r, s)
                           \/ Record(r)
                           \/ Abandon(r)
    \/ StartPurge
    \/ DeleteExpired
    \/ GuardTick

GuardSpec == GuardInit /\ [][GuardNext]_guardVars

-----------------------------------------------------------------------------
\* Concurrent presentations, retries and the purge together never let a
\* statement be accepted twice before the time its row is kept until: the
\* INSERT arbitrates, and no purge running with an older clock removes the
\* row too soon.
AcceptedOnceWhileKept == \A s \in Statements : early[s] <= 1

\* What makes it inductive: an accepted statement holds its key, with its own
\* expiry, until a purge has run with a time that reaches that expiry; and no
\* purge runs with a time the clock has not reached.
RowHeld ==
    /\ \A s \in Statements :
          early[s] > 0 /\ purged < Until[s] => rows[KeyOf[s]] = Until[s]
    /\ purged <= clock
    /\ purge # Nothing => purge <= clock

GuardInv == GuardTypes /\ RowHeld /\ AcceptedOnceWhileKept
=============================================================================
