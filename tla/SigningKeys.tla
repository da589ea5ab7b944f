----------------------------- MODULE SigningKeys -----------------------------
(***************************************************************************)
(* The signing keys, their rotation and the access tokens they sign        *)
(* (application/key_service.rs, domain/signing_key.rs, the repository      *)
(* signing_key.rs).                                                        *)
(*                                                                         *)
(* An api process bootstraps a key when it starts and then checks the keys *)
(* at regular intervals: it retires what the current signer has overtaken  *)
(* and publishes a successor, which signs only PublishLead later so that   *)
(* relying parties that cache the JWKS know it by then.  Administrators    *)
(* generate, retire and delete keys at any moment.  A handler reads the    *)
(* keys once and writes later; nothing locks the table but the bootstrap.  *)
(*                                                                         *)
(* Time is relative, in ticks: a key has the ticks until not_before (wait) *)
(* and until not_after (left).  So behaviours never end.  One access token *)
(* is followed at a time, any of those issued, and a retired key that did  *)
(* not sign it makes room for a new kid.                                   *)
(***************************************************************************)
EXTENDS Integers, FiniteSets

CONSTANTS
    NKeys,        \* bound: keys that matter at once
    Loops,        \* api processes
    Admins,       \* administrators' requests in progress
    Settings,     \* <<lead_days, publish_lead_hours>> the operator may set
    Validity,     \* KEY_VALIDITY_DAYS
    Interval,     \* sleep between two rotation checks
    Delay,        \* ticks the generation of a key pair may take
    TokenTtl,     \* lifetime of an access token
    CacheTtl,     \* how long a relying party verifies with a JWKS it fetched
    MaxEvents,    \* bound: operations of administrators and faults
    MaxFaults,    \* bound: crashes and failed calls among them
    None

Kids == 1..NKeys

ASSUME KeysAssumption ==
    /\ NKeys \in Nat \ {0}
    /\ Loops # {} /\ Loops \cap Admins = {}
    /\ Settings \subseteq Nat \X Nat
    /\ {Validity, Interval, TokenTtl} \subseteq Nat \ {0}
    /\ {Delay, CacheTtl, MaxEvents, MaxFaults} \subseteq Nat
    /\ Validity > Interval + Delay
    /\ None \notin Kids

VARIABLES
    settings,  \* lead_days and publish_lead_hours, in ticks
    key,       \* signing_keys
    token,     \* the access token followed
    proc,      \* the handlers
    dry,       \* history: ticks begun since the last signer, up to a bound
    exposed,   \* history: a key was retired on the word of one that can no
               \* longer sign or not for long, or a check was cut short
               \* when no key could sign for long
    meddled,   \* history: an administrator retired or deleted a key, or a
               \* rotation check did not run to its end
    acts, faults

vars == <<settings, key, token, proc, dry, exposed, meddled, acts, faults>>

LeadDays    == settings[1]
PublishLead == settings[2]

\* early, history: the key was to sign before every JWKS in use has it.
\* shown, history: ticks it has been in the JWKS, up to CacheTtl.
KeyRow == [st: {"none", "ACTIVE", "RETIRED"}, wait: Nat, left: Nat,
           early: BOOLEAN, shown: 0..CacheTtl]

NoKey == [st |-> "none", wait |-> 0, left |-> 0,
          early |-> FALSE, shown |-> 0]

\* left: ticks to exp.
NoToken == [k |-> None, left |-> 0]

Idle == [pc |-> "idle", age |-> 0, k |-> None, by |-> {}, list |-> {},
         lead |-> 0, gen |-> FALSE, boot |-> FALSE, sleep |-> 0]

Procs == Loops \cup Admins

Init ==
    /\ settings \in Settings
    /\ key = [k \in Kids |-> NoKey]
    /\ token = NoToken
    /\ proc = [p \in Procs |-> IF p \in Loops THEN [Idle EXCEPT !.pc = "boot"]
                                              ELSE Idle]
    /\ dry = 0
    /\ exposed = FALSE
    /\ meddled = FALSE
    /\ acts = 0
    /\ faults = 0

-----------------------------------------------------------------------------
(* domain/signing_key.rs *)

\* is_usable_for_signing_at, is_pending_at
Usable(k)  == key[k].st = "ACTIVE" /\ key[k].wait = 0 /\ key[k].left > 0
Pending(k) == key[k].st = "ACTIVE" /\ key[k].wait > 0

HasSigner == \E k \in Kids : Usable(k)

\* current_signer_at, find_active: the latest not_before, which is the latest
\* not_after.  Equal ones are told apart by neither; each reading may differ.
Signers == {k \in Kids : Usable(k) /\ \A j \in Kids : Usable(j) => key[j].left =< key[k].left}

\* (mutant) A JWKS of the keys that sign or have signed.
PublishedWhenUsed == {k \in Kids : key[k].st # "none" /\ key[k].left > 0 /\ key[k].wait = 0}

\* list_published
Published == {k \in Kids : key[k].st # "none" /\ key[k].left > 0}

-----------------------------------------------------------------------------
(* Handlers *)

At(p, pc)  == proc[p].pc = pc
Idles(p)   == [Idle EXCEPT !.sleep = IF p \in Loops THEN Interval ELSE 0]
Return(p)  == proc' = [proc EXCEPT ![p] = Idles(p)]
Goto(p, r) == proc' = [proc EXCEPT ![p] = r]

Referenced == {token.k}
              \cup UNION {{proc[p].k} \cup proc[p].by \cup proc[p].list : p \in Procs}

\* A retired key that did not sign the token and that no handler holds: the
\* row stays in the table, and nothing here will ever depend on it again.
Forgotten == {k \in Kids : key[k].st = "RETIRED" /\ k \notin Referenced}

\* Kids that can stand for a new one; it does not matter which of them does.
FreeKids == Forgotten \cup {k \in Kids : key[k].st = "none" /\ k \notin Referenced}
NewKid   == CHOOSE k \in FreeKids : TRUE

\* generate_keypair, then the clock: not_before is counted from here.
MakeKey(p) ==
    /\ At(p, "make")
    /\ Goto(p, [proc[p] EXCEPT !.pc = "insert", !.age = 0])
    /\ UNCHANGED <<settings, key, token, dry, exposed, meddled, acts, faults>>

\* not_before = now + publish_lead, not_after = not_before + 365 days.
NewRow(p) ==
    [st |-> "ACTIVE", wait |-> proc[p].lead, left |-> proc[p].lead + Validity,
     early |-> proc[p].lead < CacheTtl, shown |-> 0]

\* insert; insert_if_no_active looks again, under GET_LOCK.
InsertKey(p) ==
    /\ At(p, "insert")
    /\ IF proc[p].boot /\ HasSigner
       THEN UNCHANGED key
       ELSE FreeKids # {} /\ key' = [key EXCEPT ![NewKid] = NewRow(p)]
    /\ dry' = IF HasSigner' THEN 0 ELSE dry
    /\ Return(p)
    /\ UNCHANGED <<settings, token, exposed, meddled, acts, faults>>

-----------------------------------------------------------------------------
(* The api process: ensure_active_key, then rotate_if_needed for ever *)

Boot(l) ==
    /\ At(l, "boot")
    /\ IF HasSigner THEN Return(l)
       ELSE Goto(l, [Idle EXCEPT !.pc = "make", !.boot = TRUE])
    /\ UNCHANGED <<settings, key, token, dry, exposed, meddled, acts, faults>>

Overtaken(a) == {k \in Kids : key[k].st = "ACTIVE" /\ k # a /\ key[k].wait = 0}

\* signs_from - now, and capped_publish_lead
Lead(a) == IF PublishLead < key[a].left THEN PublishLead ELSE key[a].left

\* (mutant) A successor only when the signer has no more than the lead left.
SuccessorLate(a) == (\A k \in Kids : ~Pending(k)) /\ key[a].left =< PublishLead

SuccessorDue(a) == (\A k \in Kids : ~Pending(k)) /\ key[a].left =< LeadDays

\* (mutant) Without a current signer there is nothing to rotate.
RotateOnly(l) ==
    /\ At(l, "idle") /\ l \in Loops /\ proc[l].sleep = 0
    /\ \/ ~HasSigner /\ Return(l)
       \/ \E a \in Signers :
             LET due == SuccessorDue(a) IN
             Goto(l, [Idle EXCEPT !.pc = "retire", !.by = {a}, !.list = Overtaken(a),
                                  !.gen = due, !.lead = IF due THEN Lead(a) ELSE 0])
    /\ UNCHANGED <<settings, key, token, dry, exposed, meddled, acts, faults>>

\* One reading of the clock and one of the table decide it all.
RotateIfNeeded(l) ==
    /\ At(l, "idle") /\ l \in Loops /\ proc[l].sleep = 0
    /\ \/ /\ ~HasSigner
          /\ Goto(l, [Idle EXCEPT !.pc = "make"])
       \/ \E a \in Signers :
             LET due == SuccessorDue(a) IN
             Goto(l, [Idle EXCEPT !.pc = "retire", !.by = {a}, !.list = Overtaken(a),
                                  !.gen = due, !.lead = IF due THEN Lead(a) ELSE 0])
    /\ UNCHANGED <<settings, key, token, dry, exposed, meddled, acts, faults>>

\* history: k can sign until the next check has come and gone, and until any
\* successor under way takes over.
Lasts(k) == Usable(k) /\ key[k].left > Interval + Delay /\ key[k].left >= PublishLead
Steady   == \E k \in Kids : Lasts(k)

\* update_status of what by has overtaken, one key after the other.
RetireOvertaken(l) ==
    /\ At(l, "retire") /\ l \in Loops
    /\ IF proc[l].list = {}
       THEN /\ IF proc[l].gen THEN Goto(l, [proc[l] EXCEPT !.pc = "make"]) ELSE Return(l)
            /\ UNCHANGED <<key, exposed, meddled>>
       ELSE \E k \in proc[l].list :
               IF key[k].st = "none"
               THEN /\ Return(l) /\ meddled' = TRUE /\ exposed' = (exposed \/ ~Steady)
                    /\ UNCHANGED key
               ELSE /\ key' = [key EXCEPT ![k].st = "RETIRED"]
                    /\ exposed' = (exposed \/ \A j \in proc[l].by : ~Usable(j))
                    /\ Goto(l, [proc[l] EXCEPT !.list = @ \ {k}])
                    /\ UNCHANGED meddled
    /\ UNCHANGED <<settings, token, dry, acts, faults>>

Fault == faults < MaxFaults /\ acts + faults < MaxEvents /\ faults' = faults + 1

\* A database error: the check is over until the next one.
CheckFails(l) ==
    /\ l \in Loops /\ proc[l].pc \in {"retire", "insert"} /\ ~proc[l].boot
    /\ Fault
    /\ meddled' = TRUE
    /\ exposed' = (exposed \/ ~Steady)
    /\ Return(l)
    /\ UNCHANGED <<settings, key, token, dry, acts>>

\* The process is replaced.
Restart(l) ==
    /\ l \in Loops
    /\ Fault
    /\ meddled' = TRUE
    /\ exposed' = (exposed \/ (HasSigner /\ ~Steady))
    /\ Goto(l, [Idle EXCEPT !.pc = "boot"])
    /\ UNCHANGED <<settings, key, token, dry, acts>>

-----------------------------------------------------------------------------
(* Administrators *)

Act(a) == At(a, "idle") /\ a \in Admins /\ acts + faults < MaxEvents /\ acts' = acts + 1

\* generate_key: immediately, or with the lead capped_publish_lead allows.
GenerateKey(a) ==
    /\ Act(a)
    /\ \E lead \in {0} \cup {Lead(s) : s \in Signers} :
          Goto(a, [Idle EXCEPT !.pc = "make", !.lead = lead])
    /\ UNCHANGED <<settings, key, token, dry, exposed, meddled, faults>>

\* (mutant) The last key that can sign may be retired.
RetireAnyKey(a, k) ==
    /\ key[k].st = "ACTIVE"
    /\ Act(a)
    /\ Goto(a, [Idle EXCEPT !.pc = "retire", !.k = k])
    /\ meddled' = TRUE
    /\ UNCHANGED <<settings, key, token, dry, exposed, faults>>

\* retire_key: another key can sign, by the list that was read.
RetireKey(a, k) ==
    LET others == {j \in Kids \ {k} : Usable(j)} IN
    /\ key[k].st = "ACTIVE"
    /\ others # {}
    /\ Act(a)
    /\ Goto(a, [Idle EXCEPT !.pc = "retire", !.k = k, !.by = others])
    /\ meddled' = TRUE
    /\ UNCHANGED <<settings, key, token, dry, exposed, faults>>

RetireWrite(a) ==
    LET k == proc[a].k IN
    /\ At(a, "retire") /\ a \in Admins
    /\ IF key[k].st = "none"
       THEN UNCHANGED <<key, exposed>>
       ELSE /\ key' = [key EXCEPT ![k].st = "RETIRED"]
            /\ exposed' = (exposed \/ (proc[a].by # {} /\ \A j \in proc[a].by : ~Lasts(j)))
    /\ Return(a)
    /\ UNCHANGED <<settings, token, dry, meddled, acts, faults>>

\* delete_key: not an ACTIVE one.  RETIRED is for ever, so the DELETE that
\* follows the reading may as well be one step with it.
DeleteKey(a, k) ==
    /\ key[k].st = "RETIRED"
    /\ Act(a)
    /\ key' = [key EXCEPT ![k] = NoKey]
    /\ meddled' = TRUE
    /\ UNCHANGED <<settings, token, proc, dry, exposed, faults>>

-----------------------------------------------------------------------------
(* Access tokens *)

\* active_signing_key: a token is signed with the current signer.
Issue ==
    /\ token.k = None
    /\ \E k \in Signers : token' = [k |-> k, left |-> TokenTtl]
    /\ UNCHANGED <<settings, key, proc, dry, exposed, meddled, acts, faults>>

-----------------------------------------------------------------------------
(* The clock *)

Down(n, floor) == IF n > floor THEN n - 1 ELSE n

Awake(p) == ~At(p, "idle") \/ (p \in Loops /\ proc[p].sleep = 0)

\* The one slow step of a handler is the generation of a key pair; the next
\* tick waits for the others.
Tick ==
    /\ \A p \in Procs : Awake(p) => At(p, "make") /\ proc[p].age < Delay
    /\ key' = [k \in Kids |->
          IF k \in Forgotten THEN NoKey
          ELSE [key[k] EXCEPT !.wait = Down(@, 0), !.left = Down(@, 0),
                              !.shown = IF k \notin Published THEN 0
                                        ELSE IF @ < CacheTtl THEN @ + 1 ELSE @]]
    /\ token' = IF token.k = None \/ token.left - 1 =< 0
                THEN NoToken
                ELSE [token EXCEPT !.left = @ - 1]
    /\ proc' = [p \in Procs |->
          IF Awake(p) THEN [proc[p] EXCEPT !.age = @ + 1]
          ELSE [proc[p] EXCEPT !.sleep = Down(@, 0)]]
    /\ dry' = IF HasSigner' THEN 0
              ELSE IF dry > (1 + MaxFaults) * (Interval + 2 * Delay) + 1 THEN dry
              ELSE dry + 1
    /\ UNCHANGED <<settings, exposed, meddled, acts, faults>>

Next ==
    \/ \E l \in Loops : \/ Boot(l) \/ RotateIfNeeded(l) \/ RetireOvertaken(l)
                        \/ CheckFails(l) \/ Restart(l)
    \/ \E p \in Procs : MakeKey(p) \/ InsertKey(p)
    \/ \E a \in Admins : \/ GenerateKey(a) \/ RetireWrite(a)
                         \/ \E k \in Kids : RetireKey(a, k) \/ DeleteKey(a, k)
    \/ Issue \/ Tick

Spec == Init /\ [][Next]_vars

-----------------------------------------------------------------------------
(* Properties *)

(* The types; and the validity of a key is counted from the moment it      *)
(* signs, however long it was published before (new_key_material).         *)
TypeOK ==
    /\ settings \in Settings
    /\ key \in [Kids -> KeyRow]
    /\ token.k \in Kids \cup {None} /\ token.left \in 0..TokenTtl
    /\ dry \in Nat /\ acts \in 0..MaxEvents /\ faults \in 0..MaxFaults
    /\ {exposed, meddled} \subseteq BOOLEAN
    /\ \A k \in Kids : Pending(k) => key[k].left = key[k].wait + Validity

(* Publishing a successor PublishLead before it signs: a relying party that *)
(* verifies with a JWKS younger than CacheTtl knows the key of every token *)
(* not yet expired, unless the key had to sign early, was deleted or has   *)
(* itself expired.                                                         *)
RelyingPartyVerifies ==
    token.k # None /\ token.left > 0 /\ token.k \in Published
    /\ ~key[token.k].early
    => key[token.k].shown = CacheTtl

(* rotate_if_needed starts LeadDays early: when that, and the validity of   *)
(* a key, leave room for the lead, the interval, the handlers and the      *)
(* token, no token outlives its key's publication, as long as              *)
(* administrators, other processes and the database let the rotation run.  *)
TokenOutlivedByKey ==
    /\ LeadDays >= PublishLead + Interval + Delay + TokenTtl
    /\ Validity >= PublishLead + Interval + 2 * Delay + TokenTtl
    /\ ~meddled /\ ~exposed
    /\ token.k # None /\ token.left > 0
    => key[token.k].left >= token.left

(* retire_key refuses the last key that can sign and the leads are capped: *)
(* once bootstrapped, and with a check at least every LeadDays, there is   *)
(* always a signer, but for the Delay of making the successor, unless two  *)
(* retirements raced, one relied on a key about to expire (which           *)
(* retire_key does not look at), or a check was cut short near the end.    *)
SignerStays ==
    LeadDays >= Interval /\ ~HasSigner
    => \/ exposed
       \/ dry =< Delay + 1
       \/ \E l \in Loops : At(l, "boot") \/ proc[l].boot

(* The rotation check makes a key when none can sign: however it came to   *)
(* that, signing comes back after one interval and two key generations, or *)
(* one more of these for every fault.                                      *)
SignerReturns == dry =< (1 + faults) * (Interval + 2 * Delay) + 1
=============================================================================
