-------------------------- MODULE PermissionCache --------------------------
(***************************************************************************)
(* Who may hand out idp.system.admin: permission_management.rs lets only a *)
(* holder grant or revoke it and asks the cached repository                *)
(* (cached_user_permission.rs over infrastructure/cache.rs).  The lookup   *)
(* reads the cache, then the row, then fills the cache; a change writes    *)
(* the row and then drops the entry.  Nothing orders a lookup's fill with  *)
(* a change's drop.                                                        *)
(*                                                                         *)
(* The rows are those of the root tenant, the only one in which this code  *)
(* can be held.  The time to live is abstracted to an entry that may       *)
(* expire at any moment.                                                   *)
(***************************************************************************)
EXTENDS Naturals

CONSTANTS
    Users,
    Requests,
    FirstAdmins,  \* holders created with the root tenant
    None

ASSUME AdminsAssumption ==
    /\ FirstAdmins \subseteq Users
    /\ None \notin Users

VARIABLES
    held,      \* user_permissions: who holds the code
    cache,     \* (tenant, user, code) -> bool
    req,
    everHeld,  \* history: who has ever held it
    doubt      \* history: entries filled across a change, or whose drop was lost

vars == <<held, cache, req, everHeld, doubt>>

Ops == {"grant", "revoke", "revoke_all"}
Steps == {"idle", "lookup", "read_row", "fill", "change", "drop"}

RequestRecord == [pc: Steps, op: Ops, actor: Users \cup {None}, target: Users \cup {None},
                  val: BOOLEAN, raced: BOOLEAN]

TypeOK ==
    /\ held \in [Users -> BOOLEAN]
    /\ cache \in [Users -> {"none", "yes", "no"}]
    /\ req \in [Requests -> RequestRecord]
    /\ everHeld \in SUBSET Users
    /\ doubt \in SUBSET Users

Idle == [pc |-> "idle", op |-> "grant", actor |-> None, target |-> None,
         val |-> FALSE, raced |-> FALSE]

Init ==
    /\ held = [u \in Users |-> u \in FirstAdmins]
    /\ cache = [u \in Users |-> "none"]
    /\ req = [r \in Requests |-> Idle]
    /\ everHeld = FirstAdmins
    /\ doubt = {}

Goto(r, step) ==
    req' = [req EXCEPT ![r] = IF step = "idle" THEN Idle ELSE [@ EXCEPT !.pc = step]]

-----------------------------------------------------------------------------
\* PermissionManagementService::grant and ::revoke for an actor whose
\* management token admitted the call (its codes are those of an earlier
\* moment, so the actor may be anyone).  Removing a membership
\* (InvitationService::revoke_membership) goes straight to the rows.
Start(r, op, actor, target) ==
    /\ req[r].pc = "idle"
    /\ req' = [req EXCEPT ![r] = [Idle EXCEPT !.op = op, !.actor = actor, !.target = target,
                  !.pc = IF op = "revoke_all" THEN "change" ELSE "lookup"]]
    /\ UNCHANGED <<held, cache, everHeld, doubt>>

\* (mutant) The actor's right is never asked for.
LookupSkipped(r) ==
    /\ req[r].pc = "lookup"
    /\ Goto(r, "change")
    /\ UNCHANGED <<held, cache, everHeld, doubt>>

\* has_permission, the cache: a hit decides, a miss goes to the row.
Lookup(r) ==
    LET a == req[r].actor IN
    /\ req[r].pc = "lookup"
    /\ Goto(r, CASE cache[a] = "yes" -> "change"
                 [] cache[a] = "no" -> "idle"
                 [] cache[a] = "none" -> "read_row")
    /\ UNCHANGED <<held, cache, everHeld, doubt>>

\* has_permission, SELECT 1 FROM user_permissions
ReadRow(r) ==
    /\ req[r].pc = "read_row"
    /\ req' = [req EXCEPT ![r] = [@ EXCEPT !.pc = "fill", !.val = held[req[r].actor],
                                           !.raced = FALSE]]
    /\ UNCHANGED <<held, cache, everHeld, doubt>>

\* has_permission, cache.insert; then the answer decides.
Fill(r) ==
    LET a == req[r].actor IN
    /\ req[r].pc = "fill"
    /\ cache' = [cache EXCEPT ![a] = IF req[r].val THEN "yes" ELSE "no"]
    /\ doubt' = IF req[r].raced THEN doubt \cup {a} ELSE doubt \ {a}
    /\ Goto(r, IF req[r].val THEN "change" ELSE "idle")
    /\ UNCHANGED <<held, everHeld>>

\* The row is inserted or deleted, before the entry is dropped.
Change(r) ==
    LET t == req[r].target
        on == req[r].op = "grant"
    IN /\ req[r].pc = "change"
       /\ held' = [held EXCEPT ![t] = on]
       /\ everHeld' = IF on THEN everHeld \cup {t} ELSE everHeld
       /\ req' = [q \in Requests |->
                     IF q = r THEN [req[q] EXCEPT !.pc = "drop"]
                     ELSE IF req[q].pc = "fill" /\ req[q].actor = t
                          THEN [req[q] EXCEPT !.raced = TRUE]
                          ELSE req[q]]
       /\ UNCHANGED <<cache, doubt>>

\* (mutant) The entry of the actor is dropped, not the target's.
DropActor(r) ==
    LET a == IF req[r].actor = None THEN req[r].target ELSE req[r].actor IN
    /\ req[r].pc = "drop"
    /\ cache' = [cache EXCEPT ![a] = "none"]
    /\ doubt' = doubt \ {a}
    /\ Goto(r, "idle")
    /\ UNCHANGED <<held, everHeld>>

\* cache.invalidate for every code the statement touched
Drop(r) ==
    LET t == req[r].target IN
    /\ req[r].pc = "drop"
    /\ cache' = [cache EXCEPT ![t] = "none"]
    /\ doubt' = doubt \ {t}
    /\ Goto(r, "idle")
    /\ UNCHANGED <<held, everHeld>>

\* A statement reports an error or the connection goes away: the handler
\* stops where it stands.  Between Change and Drop the row is changed and
\* the entry stays.
Abandon(r) ==
    LET t == req[r].target IN
    /\ req[r].pc # "idle"
    /\ doubt' = IF req[r].pc = "drop" /\ cache[t] # "none" THEN doubt \cup {t} ELSE doubt
    /\ Goto(r, "idle")
    /\ UNCHANGED <<held, cache, everHeld>>

\* (mutant) Only negative answers are given a time to live.
ExpireNegative(u) ==
    /\ cache[u] = "no"
    /\ cache' = [cache EXCEPT ![u] = "none"]
    /\ doubt' = doubt \ {u}
    /\ UNCHANGED <<held, req, everHeld>>

\* InMemoryTtlCache::get removes an entry whose time has passed.
Expire(u) ==
    /\ cache[u] # "none"
    /\ cache' = [cache EXCEPT ![u] = "none"]
    /\ doubt' = doubt \ {u}
    /\ UNCHANGED <<held, req, everHeld>>

Step(r) == Lookup(r) \/ ReadRow(r) \/ Fill(r) \/ Change(r) \/ Drop(r)

\* Every handler runs to its end.
Serve ==
    \/ \E r \in Requests :
          \/ \E op \in Ops, actor \in Users, target \in Users : Start(r, op, actor, target)
          \/ Lookup(r)
          \/ ReadRow(r)
          \/ Fill(r)
          \/ Change(r)
          \/ Drop(r)
    \/ \E u \in Users : Expire(u)

Next == Serve \/ \E r \in Requests : Abandon(r)

Spec == Init /\ [][Next]_vars

\* A handler that has begun is driven on, and an entry's time passes.
FairSpec ==
    /\ Spec
    /\ \A r \in Requests : WF_vars(Step(r))
    /\ \A u \in Users : WF_vars(Expire(u))

-----------------------------------------------------------------------------
Dropping(u) == \E r \in Requests : req[r].pc = "drop" /\ req[r].target = u

Agrees(u) == (cache[u] = "yes") = held[u]

\* Only someone who holds or has held idp.system.admin ever gets as far as
\* changing who holds it, whatever the cache serves.
OnlyHoldersChange ==
    \A r \in Requests : req[r].pc \in {"change", "drop"} /\ req[r].op # "revoke_all"
                           => req[r].actor \in everHeld

\* An entry disagrees with its row only while a change of the row has not
\* yet dropped it, or because it was filled by a lookup that a change
\* overtook, or because the drop was lost with its request.
StaleOnlyByRace ==
    \A u \in Users : cache[u] # "none" /\ ~Agrees(u) => Dropping(u) \/ u \in doubt

\* What the two rest on: a positive entry or a positive answer on its way to
\* the cache was true once, an answer no change has overtaken is still true,
\* and who holds the code has held it.
LookupsAreHonest ==
    /\ \A u \in Users : cache[u] = "yes" => u \in everHeld
    /\ \A u \in Users : held[u] => u \in everHeld
    /\ \A r \in Requests : req[r].pc # "idle" => req[r].target \in Users /\ req[r].actor \in Users
    /\ \A r \in Requests : req[r].pc = "fill" =>
          /\ req[r].val => req[r].actor \in everHeld
          /\ req[r].raced \/ req[r].val = held[req[r].actor]

CacheInv == TypeOK /\ LookupsAreHonest /\ OnlyHoldersChange /\ StaleOnlyByRace

\* A revocation that is never undone takes effect in the end: from some point
\* on the cache no longer vouches for the user.
RevocationTakesEffect ==
    \A u \in Users : <>[](~held[u]) => <>[](cache[u] # "yes")
=============================================================================
