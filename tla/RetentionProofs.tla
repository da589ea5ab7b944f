-------------------------- MODULE RetentionProofs --------------------------
(***************************************************************************)
(* The two components that rest on rows kept until a time and then deleted *)
(* or passed over: the signing keys (SigningKeys) and the replay guard     *)
(* (ReplayGuard).  For any keys, processes, administrators, lifetimes and  *)
(* leads:                                                                  *)
(*   - a token is signed with a key that every JWKS in use holds           *)
(*     (Announced, SignedInTime);                                          *)
(*   - without a signer, every api process is some steps from making one   *)
(*     (Rest), and its steps are counted against dry (Patient);            *)
(*   - each process comes to its next check, or has a key on its way,      *)
(*     before the signers are gone for long (Within, Cared), and before    *)
(*     they are too old to sign another token (Need, Served).              *)
(* And for any statements, keys, windows and requests: a statement is      *)
(* accepted at most once while its row has to be kept.                     *)
(***************************************************************************)
EXTENDS SigningKeys, ReplayGuard, TLAPS

-----------------------------------------------------------------------------
(* The types of SigningKeys *)

TokenRow == [k: Kids \cup {None}, left: 0..TokenTtl]

Handler == [pc: {"idle", "boot", "make", "insert", "retire"}, age: 0..Delay,
            k: Kids \cup {None}, by: SUBSET Kids, list: SUBSET Kids, lead: Nat,
            gen: BOOLEAN, boot: BOOLEAN, sleep: 0..Interval]

\* A retirement on its way names a key.
Named == \A a \in Admins : At(a, "retire") => proc[a].k \in Kids

Typed == TypeOK /\ token \in TokenRow /\ proc \in [Procs -> Handler] /\ Named

LEMMA Numbers ==
    /\ {Validity, Interval, TokenTtl} \subseteq Nat \ {0}
    /\ {Delay, CacheTtl, MaxEvents, MaxFaults, NKeys} \subseteq Nat
    /\ Kids \subseteq Nat /\ None \notin Kids
    /\ Loops \subseteq Procs /\ Admins \subseteq Procs
    /\ \A a \in Admins : a \notin Loops
    /\ Validity > Interval + Delay
BY KeysAssumption DEF Kids, Procs

LEMMA Leads ==
    ASSUME Typed
    PROVE  /\ LeadDays \in Nat /\ PublishLead \in Nat
           /\ \A a \in Kids : Lead(a) \in Nat /\ (Lead(a) =< PublishLead)
<1>1. settings \in Nat \X Nat
  BY KeysAssumption DEF Typed, TypeOK
<1>2. LeadDays \in Nat /\ PublishLead \in Nat
  BY <1>1 DEF LeadDays, PublishLead
<1> QED
  BY <1>2 DEF Lead, Typed, TypeOK, KeyRow

\* What a handler becomes: Idle and its variants are handlers.
LEMMA Idleness ==
    /\ Idle \in Handler
    /\ \A p \in Procs : Idles(p) \in Handler /\ Idles(p).pc = "idle"
    /\ \A p \in Loops : Idles(p).sleep = Interval
<1>1. Idle \in Handler
  BY Numbers DEF Idle, Handler
<1>2. ASSUME NEW p \in Procs
      PROVE  /\ Idles(p) \in Handler /\ Idles(p).pc = "idle"
             /\ p \in Loops => Idles(p).sleep = Interval
  <2>1. Idles(p) = [Idle EXCEPT !.sleep = Idles(p).sleep]
    BY <1>1 DEF Idles, Handler
  <2>2. Idles(p).sleep \in 0..Interval /\ (p \in Loops => Idles(p).sleep = Interval)
    BY <1>1, Numbers DEF Idles, Handler
  <2> QED
    BY <1>1, <2>1, <2>2 DEF Handler, Idle
<1> QED
  BY <1>1, <1>2, Numbers

\* A new key has a kid of its own: no key that can sign or is published for a
\* token gives way to it.
LEMMA NewKidIsFree ==
    ASSUME FreeKids # {}
    PROVE  NewKid \in Kids /\ key[NewKid].st # "ACTIVE" /\ NewKid # token.k
<1>1. NewKid \in FreeKids
  BY DEF NewKid
<1> QED
  BY <1>1 DEF FreeKids, Forgotten, Referenced

LEMMA InitTyped == Init => Typed
<1> SUFFICES ASSUME Init
             PROVE  Typed
  OBVIOUS
<1>1. NoKey \in KeyRow /\ NoToken \in TokenRow
  BY Numbers DEF NoKey, KeyRow, NoToken, TokenRow
<1>2. proc \in [Procs -> Handler] /\ \A p \in Procs : proc[p].pc \in {"idle", "boot"}
  BY Idleness DEF Init, Idle, Handler
<1>3. \A k \in Kids : ~Pending(k)
  BY DEF Init, Pending, NoKey
<1>4. Named
  BY <1>2, Numbers DEF Named, At
<1>5. TypeOK
  <2>1. settings \in Settings /\ key \in [Kids -> KeyRow]
    BY <1>1 DEF Init
  <2>2. token.k \in Kids \cup {None} /\ token.left \in 0..TokenTtl
    BY <1>1 DEF Init, TokenRow
  <2>3. dry \in Nat /\ acts \in 0..MaxEvents /\ faults \in 0..MaxFaults
    BY Numbers DEF Init
  <2>4. {exposed, meddled} \subseteq BOOLEAN
    BY DEF Init
  <2> QED
    BY <1>3, <2>1, <2>2, <2>3, <2>4 DEF TypeOK
<1> QED
  BY <1>1, <1>2, <1>4, <1>5 DEF Init, Typed

-----------------------------------------------------------------------------
(* What a step does to the keys and to the token *)

Retires(k) == key[k].st # "none" /\ key' = [key EXCEPT ![k].st = "RETIRED"] /\ UNCHANGED token
Deletes(k) == /\ key[k].st = "RETIRED" /\ key' = [key EXCEPT ![k] = NoKey]
              /\ meddled' /\ UNCHANGED token
Adds(p)    == /\ At(p, "insert") /\ FreeKids # {}
              /\ key' = [key EXCEPT ![NewKid] = NewRow(p)]
              /\ UNCHANGED token

\* Between two ticks a step leaves keys and token alone, changes one key, or
\* changes the token.
LEMMA KeySteps ==
    ASSUME Typed, [Next]_vars
    PROVE  \/ UNCHANGED <<key, token>>
           \/ \E k \in Kids : Retires(k) \/ Deletes(k)
           \/ \E p \in Procs : InsertKey(p) /\ Adds(p)
           \/ UNCHANGED key /\ Issue
           \/ Tick
<1>1. ASSUME NEW l \in Loops, Boot(l) \/ RotateIfNeeded(l) \/ CheckFails(l) \/ Restart(l)
      PROVE  UNCHANGED <<key, token>>
  BY <1>1 DEF Boot, RotateIfNeeded, CheckFails, Restart
<1>2. ASSUME NEW l \in Loops, RetireOvertaken(l)
      PROVE  UNCHANGED <<key, token>> \/ \E k \in Kids : Retires(k)
  <2>1. CASE UNCHANGED key
    BY <1>2, <2>1 DEF RetireOvertaken
  <2>2. CASE ~UNCHANGED key
    <3>1. PICK k \in proc[l].list : key[k].st # "none" /\ key' = [key EXCEPT ![k].st = "RETIRED"]
      BY <1>2, <2>2 DEF RetireOvertaken
    <3>2. k \in Kids
      BY <3>1, Numbers DEF Typed, Handler
    <3> QED
      BY <1>2, <3>1, <3>2 DEF RetireOvertaken, Retires
  <2> QED
    BY <2>1, <2>2
<1>3. ASSUME NEW p \in Procs, MakeKey(p)
      PROVE  UNCHANGED <<key, token>>
  BY <1>3 DEF MakeKey
<1>4. ASSUME NEW p \in Procs, InsertKey(p)
      PROVE  UNCHANGED <<key, token>> \/ Adds(p)
  BY <1>4 DEF InsertKey, Adds
<1>5. ASSUME NEW a \in Admins, GenerateKey(a) \/ \E k \in Kids : RetireKey(a, k)
      PROVE  UNCHANGED <<key, token>>
  BY <1>5 DEF GenerateKey, RetireKey
<1>6. ASSUME NEW a \in Admins, RetireWrite(a)
      PROVE  UNCHANGED <<key, token>> \/ \E k \in Kids : Retires(k)
  <2>1. proc[a].k \in Kids
    BY <1>6 DEF RetireWrite, Typed, Named
  <2> QED
    BY <1>6, <2>1 DEF RetireWrite, Retires
<1>7. ASSUME NEW a \in Admins, NEW k \in Kids, DeleteKey(a, k)
      PROVE  Deletes(k)
  BY <1>7 DEF DeleteKey, Deletes
<1>8. ASSUME Issue
      PROVE  UNCHANGED key
  BY <1>8 DEF Issue
<1>9. CASE UNCHANGED vars
  BY <1>9 DEF vars
<1> QED
  BY <1>1, <1>2, <1>3, <1>4, <1>5, <1>6, <1>7, <1>8, <1>9 DEF Next

\* A tick, key by key.
LEMMA TickKeys ==
    ASSUME Typed, Tick, NEW k \in Kids
    PROVE  \/ key'[k] = NoKey /\ key[k].st # "ACTIVE" /\ k # token.k
           \/ /\ key'[k].st = key[k].st /\ key'[k].early = key[k].early
              /\ key'[k].wait = Down(key[k].wait, 0) /\ key'[k].left = Down(key[k].left, 0)
              /\ key'[k].shown \in 0..CacheTtl
              /\ k \in Published => key'[k].shown >= CacheTtl \/ key'[k].shown = key[k].shown + 1
              /\ key'[k] \in KeyRow
<1>1. key[k] \in KeyRow
  BY DEF Typed, TypeOK
<1>2. CASE k \in Forgotten
  BY <1>2 DEF Tick, Forgotten, Referenced
<1>3. CASE k \notin Forgotten
  <2>1. key'[k] = [key[k] EXCEPT !.wait = Down(@, 0), !.left = Down(@, 0),
                                 !.shown = IF k \notin Published THEN 0
                                           ELSE IF @ < CacheTtl THEN @ + 1 ELSE @]
    BY <1>3 DEF Tick
  <2>2. Down(key[k].wait, 0) \in Nat /\ Down(key[k].left, 0) \in Nat
    BY <1>1 DEF Down, KeyRow
  <2>3. key'[k].shown \in 0..CacheTtl
    BY <1>1, <2>1, Numbers DEF KeyRow
  <2>4. k \in Published => key'[k].shown >= CacheTtl \/ key'[k].shown = key[k].shown + 1
    BY <1>1, <2>1, Numbers DEF KeyRow
  <2> QED
    BY <1>1, <2>1, <2>2, <2>3, <2>4 DEF KeyRow
<1> QED
  BY <1>2, <1>3

-----------------------------------------------------------------------------
(* Every step keeps the types *)

LEMMA NewRowTyped ==
    ASSUME Typed, NEW p \in Procs
    PROVE  /\ NewRow(p) \in KeyRow
           /\ NewRow(p).left = NewRow(p).wait + Validity
           /\ NewRow(p).st = "ACTIVE" /\ NewRow(p).shown = 0
           /\ NewRow(p).wait = proc[p].lead
           /\ ~NewRow(p).early => NewRow(p).wait >= CacheTtl
<1>1. proc[p].lead \in Nat
  BY DEF Typed, Handler
<1>2. /\ NewRow(p).st = "ACTIVE" /\ NewRow(p).shown = 0 /\ NewRow(p).wait = proc[p].lead
      /\ NewRow(p).left = proc[p].lead + Validity
  BY DEF NewRow
<1>3. NewRow(p).early \in BOOLEAN
  BY DEF NewRow
<1>4. ~NewRow(p).early => ~(proc[p].lead < CacheTtl)
  BY DEF NewRow
<1>5. NewRow(p) \in KeyRow
  <2>1. proc[p].lead + Validity \in Nat /\ 0 \in 0..CacheTtl
    BY <1>1, Numbers
  <2>2. (proc[p].lead < CacheTtl) \in BOOLEAN
    OBVIOUS
  <2> QED
    BY <1>1, <2>1, <2>2, Zenon DEF NewRow, KeyRow
<1>6. ~NewRow(p).early => NewRow(p).wait >= CacheTtl
  <2>1. proc[p].lead < CacheTtl \/ proc[p].lead >= CacheTtl
    BY <1>1, Numbers
  <2> QED
    BY <2>1, <1>2, <1>4
<1> QED
  BY <1>2, <1>5, <1>6

LEMMA KeysTyped ==
    ASSUME Typed, [Next]_vars
    PROVE  /\ key' \in [Kids -> KeyRow]
           /\ \A k \in Kids : Pending(k)' => key'[k].left = key'[k].wait + Validity
<1> USE DEF Pending
<1>1. /\ key \in [Kids -> KeyRow]
      /\ \A k \in Kids : Pending(k) => key[k].left = key[k].wait + Validity
  BY DEF Typed, TypeOK
<1>2. NoKey \in KeyRow /\ NoKey.st = "none"
  BY Numbers DEF NoKey, KeyRow
<1>3. CASE UNCHANGED key
  BY <1>1, <1>3
<1>4. ASSUME NEW k \in Kids, Retires(k) \/ Deletes(k)
      PROVE  /\ key' \in [Kids -> KeyRow]
             /\ \A j \in Kids : Pending(j)' => key'[j].left = key'[j].wait + Validity
  <2>1. PICK r \in KeyRow : r.st # "ACTIVE" /\ key' = [key EXCEPT ![k] = r]
    <3>1. CASE Retires(k)
      <4>1. [key[k] EXCEPT !.st = "RETIRED"] \in KeyRow
        BY <1>1 DEF KeyRow
      <4>2. key' = [key EXCEPT ![k] = [key[k] EXCEPT !.st = "RETIRED"]]
        BY <3>1, <1>1 DEF Retires
      <4> QED
        BY <4>1, <4>2, <1>1 DEF KeyRow
    <3>2. CASE Deletes(k)
      BY <3>2, <1>2 DEF Deletes
    <3> QED
      BY <1>4, <3>1, <3>2
  <2> QED
    BY <1>1, <2>1
<1>5. ASSUME NEW p \in Procs, Adds(p)
      PROVE  /\ key' \in [Kids -> KeyRow]
             /\ \A j \in Kids : Pending(j)' => key'[j].left = key'[j].wait + Validity
  <2>1. NewKid \in Kids
    BY <1>5, NewKidIsFree DEF Adds
  <2> QED
    BY <1>1, <1>5, <2>1, NewRowTyped DEF Adds
<1>6. CASE Tick
  <2>1. ASSUME NEW k \in Kids
        PROVE  key'[k] \in KeyRow /\ (Pending(k)' => key'[k].left = key'[k].wait + Validity)
    <3>1. CASE key'[k] = NoKey
      BY <3>1, <1>2
    <3>2. CASE key'[k] # NoKey
      <4>1. /\ key'[k] \in KeyRow /\ key'[k].st = key[k].st
            /\ key'[k].wait = Down(key[k].wait, 0) /\ key'[k].left = Down(key[k].left, 0)
        BY <1>6, <3>2, TickKeys
      <4>2. key[k].wait \in Nat /\ key[k].left \in Nat /\ Validity \in Nat \ {0}
        BY <1>1, Numbers DEF KeyRow
      <4> QED
        BY <1>1, <4>1, <4>2 DEF Down
    <3> QED
      BY <3>1, <3>2
  <2>2. key' = [k \in Kids |-> key'[k]]
    BY <1>6 DEF Tick
  <2> QED
    BY <2>1, <2>2
<1> QED
  BY <1>3, <1>4, <1>5, <1>6, KeySteps

LEMMA TokenTyped ==
    ASSUME Typed, [Next]_vars
    PROVE  token' \in TokenRow
<1>1. token \in TokenRow /\ NoToken \in TokenRow
  BY Numbers DEF Typed, NoToken, TokenRow
<1>2. CASE UNCHANGED token
  BY <1>1, <1>2
<1>3. CASE Issue
  <2>1. PICK k \in Kids : token' = [k |-> k, left |-> TokenTtl]
    BY <1>3 DEF Issue, Signers
  <2>2. TokenTtl \in 0..TokenTtl
    BY Numbers
  <2> QED
    BY <1>1, <2>1, <2>2 DEF TokenRow
<1>5. CASE Tick
  <2>1. token.left \in Int /\ 0 =< token.left /\ token.left =< TokenTtl
    BY <1>1, Numbers DEF TokenRow
  <2>2. token.left - 1 > 0 => token.left - 1 \in 0..TokenTtl
    BY <2>1, Numbers
  <2>3. CASE token' = NoToken
    BY <1>1, <2>3
  <2>4. CASE token' # NoToken
    <3>1. ~(token.left - 1 =< 0) /\ token' = [token EXCEPT !.left = @ - 1]
      BY <1>5, <2>4 DEF Tick
    <3> QED
      BY <1>1, <2>1, <2>2, <3>1, Numbers DEF TokenRow
  <2> QED
    BY <2>3, <2>4
<1> QED
  BY <1>2, <1>3, <1>5, KeySteps DEF Retires, Deletes, Adds

LEMMA GotoTyped ==
    ASSUME Typed, NEW p \in Procs, NEW r \in Handler, Goto(p, r),
           p \in Admins /\ r.pc = "retire" => r.k \in Kids
    PROVE  proc' \in [Procs -> Handler] /\ Named'
BY Numbers DEF Goto, Typed, Named, At

LEMMA ReturnTyped ==
    ASSUME Typed, NEW p \in Procs, Return(p)
    PROVE  proc' \in [Procs -> Handler] /\ Named'
<1>1. Goto(p, Idles(p))
  BY DEF Return, Goto
<1> QED
  BY <1>1, Idleness, GotoTyped

LEMMA LoopTyped ==
    ASSUME Typed, NEW l \in Loops,
           Boot(l) \/ RotateIfNeeded(l) \/ RetireOvertaken(l) \/ CheckFails(l) \/ Restart(l)
    PROVE  proc' \in [Procs -> Handler] /\ Named'
<1>1. l \in Procs /\ l \notin Admins
  BY Numbers
<1>2. /\ [Idle EXCEPT !.pc = "boot"] \in Handler
      /\ [Idle EXCEPT !.pc = "make", !.boot = TRUE] \in Handler
      /\ [Idle EXCEPT !.pc = "make"] \in Handler
  BY Idleness DEF Handler
<1>3. CASE Boot(l) \/ CheckFails(l) \/ Restart(l)
  BY <1>1, <1>2, <1>3, GotoTyped, ReturnTyped DEF Boot, CheckFails, Restart
<1>4. CASE RotateIfNeeded(l)
  <2>1. CASE Goto(l, [Idle EXCEPT !.pc = "make"])
    BY <1>1, <1>2, <2>1, GotoTyped
  <2>2. ASSUME NEW a \in Signers, NEW due \in BOOLEAN,
               Goto(l, [Idle EXCEPT !.pc = "retire", !.by = {a}, !.list = Overtaken(a),
                                    !.gen = due, !.lead = IF due THEN Lead(a) ELSE 0])
        PROVE  proc' \in [Procs -> Handler] /\ Named'
    <3>1. a \in Kids /\ Overtaken(a) \subseteq Kids /\ (IF due THEN Lead(a) ELSE 0) \in Nat
      BY Leads DEF Signers, Overtaken
    <3>2. [Idle EXCEPT !.pc = "retire", !.by = {a}, !.list = Overtaken(a),
                       !.gen = due, !.lead = IF due THEN Lead(a) ELSE 0] \in Handler
      BY <3>1, Idleness DEF Handler
    <3> QED
      BY <1>1, <2>2, <3>2, GotoTyped
  <2>3. \A a \in Kids : SuccessorDue(a) \in BOOLEAN
    BY DEF SuccessorDue
  <2>4. \A a \in Signers : a \in Kids
    BY DEF Signers
  <2> QED
    BY <1>4, <2>1, <2>2, <2>3, <2>4 DEF RotateIfNeeded
<1>5. CASE RetireOvertaken(l)
  <2>1. proc[l] \in Handler
    BY <1>1 DEF Typed
  <2>2. /\ [proc[l] EXCEPT !.pc = "make"] \in Handler
        /\ \A k : [proc[l] EXCEPT !.list = @ \ {k}] \in Handler
    BY <2>1 DEF Handler
  <2> QED
    BY <1>1, <1>5, <2>2, GotoTyped, ReturnTyped DEF RetireOvertaken
<1> QED
  BY <1>3, <1>4, <1>5

LEMMA HandlersTyped ==
    ASSUME Typed, [Next]_vars
    PROVE  proc' \in [Procs -> Handler] /\ Named'
<1>1. CASE UNCHANGED proc
  BY <1>1 DEF Typed, Named, At
<1>2. ASSUME NEW p \in Procs, MakeKey(p)
      PROVE  proc' \in [Procs -> Handler] /\ Named'
  <2>1. [proc[p] EXCEPT !.pc = "insert", !.age = 0] \in Handler
    <3>1. proc[p] \in Handler /\ 0 \in 0..Delay
      BY Numbers DEF Typed
    <3> QED
      BY <3>1 DEF Handler
  <2>2. [proc[p] EXCEPT !.pc = "insert", !.age = 0].pc = "insert"
    BY DEF Typed, Handler
  <2> QED
    BY <1>2, <2>1, <2>2, GotoTyped DEF MakeKey
<1>3. ASSUME NEW p \in Procs, InsertKey(p)
      PROVE  proc' \in [Procs -> Handler] /\ Named'
  BY <1>3, ReturnTyped DEF InsertKey
<1>4. ASSUME NEW a \in Admins, GenerateKey(a)
      PROVE  proc' \in [Procs -> Handler] /\ Named'
  <2>1. PICK lead \in {0} \cup {Lead(s) : s \in Signers} :
            Goto(a, [Idle EXCEPT !.pc = "make", !.lead = lead])
    BY <1>4 DEF GenerateKey
  <2>2. lead \in Nat
    BY <2>1, Leads DEF Signers
  <2>3. [Idle EXCEPT !.pc = "make", !.lead = lead] \in Handler
    BY <2>2, Idleness DEF Handler
  <2>4. [Idle EXCEPT !.pc = "make", !.lead = lead].pc = "make"
    BY DEF Idle
  <2> QED
    BY <2>1, <2>3, <2>4, Numbers, GotoTyped
<1>5. ASSUME NEW a \in Admins, NEW k \in Kids, RetireKey(a, k)
      PROVE  proc' \in [Procs -> Handler] /\ Named'
  <2> DEFINE r == [Idle EXCEPT !.pc = "retire", !.k = k, !.by = {j \in Kids \ {k} : Usable(j)}]
  <2>1. r \in Handler
    BY Idleness DEF Handler
  <2>2. r.k = k
    BY DEF Idle
  <2>3. Goto(a, r)
    BY <1>5 DEF RetireKey
  <2> HIDE DEF r
  <2> QED
    BY <2>1, <2>2, <2>3, Numbers, GotoTyped
<1>6. ASSUME NEW a \in Admins, RetireWrite(a)
      PROVE  proc' \in [Procs -> Handler] /\ Named'
  BY <1>6, Numbers, ReturnTyped DEF RetireWrite
<1>7. ASSUME NEW a \in Admins, NEW k \in Kids, DeleteKey(a, k)
      PROVE  UNCHANGED proc
  BY <1>7 DEF DeleteKey
<1>8. ASSUME Issue
      PROVE  UNCHANGED proc
  BY <1>8 DEF Issue
<1>9. CASE Tick
  <2>1. ASSUME NEW p \in Procs
        PROVE  proc'[p] \in Handler /\ proc'[p].pc = proc[p].pc /\ proc'[p].k = proc[p].k
    <3>1. proc[p] \in Handler /\ proc[p].age \in 0..Delay /\ proc[p].sleep \in 0..Interval
      BY DEF Typed, Handler
    <3>2. CASE Awake(p)
      <4>1. proc'[p] = [proc[p] EXCEPT !.age = @ + 1] /\ proc[p].age < Delay
        BY <1>9, <3>2 DEF Tick
      <4>2. proc[p].age + 1 \in 0..Delay
        BY <3>1, <4>1, Numbers
      <4> QED
        BY <3>1, <4>1, <4>2 DEF Handler
    <3>3. CASE ~Awake(p)
      <4>1. proc'[p] = [proc[p] EXCEPT !.sleep = Down(@, 0)]
        BY <1>9, <3>3 DEF Tick
      <4>2. Down(proc[p].sleep, 0) \in 0..Interval
        BY <3>1, Numbers DEF Down
      <4> QED
        BY <3>1, <4>1, <4>2 DEF Handler
    <3> QED
      BY <3>2, <3>3
  <2>2. proc' = [p \in Procs |-> proc'[p]]
    BY <1>9 DEF Tick
  <2> QED
    BY <2>1, <2>2, Numbers DEF Typed, Named, At
<1>10. CASE UNCHANGED vars
  BY <1>1, <1>10 DEF vars
<1> QED
  BY <1>1, <1>2, <1>3, <1>4, <1>5, <1>6, <1>7, <1>8, <1>9, <1>10, LoopTyped DEF Next

LEMMA CountersTyped ==
    ASSUME Typed, [Next]_vars
    PROVE  /\ settings' \in Settings /\ dry' \in Nat
           /\ acts' \in 0..MaxEvents /\ faults' \in 0..MaxFaults
           /\ {exposed, meddled}' \subseteq BOOLEAN
<1>1. /\ settings \in Settings /\ dry \in Nat
      /\ acts \in 0..MaxEvents /\ faults \in 0..MaxFaults
      /\ exposed \in BOOLEAN /\ meddled \in BOOLEAN
  BY DEF Typed, TypeOK
<1>2. settings' = settings
  BY DEF Next, vars, Boot, RotateIfNeeded, RetireOvertaken, CheckFails, Restart, MakeKey,
         InsertKey, GenerateKey, RetireWrite, RetireKey, DeleteKey, Issue, Tick
<1>3. dry' \in Nat
  <2>1. dry' \in {0, dry, dry + 1}
    BY DEF Next, vars, Boot, RotateIfNeeded, RetireOvertaken, CheckFails, Restart, MakeKey,
           InsertKey, GenerateKey, RetireWrite, RetireKey, DeleteKey, Issue, Tick
  <2> QED
    BY <1>1, <2>1
<1>4. acts' = acts \/ (acts + faults < MaxEvents /\ acts' = acts + 1)
  BY DEF Next, vars, Boot, RotateIfNeeded, RetireOvertaken, CheckFails, Restart, MakeKey,
         InsertKey, GenerateKey, RetireWrite, RetireKey, DeleteKey, Issue, Tick, Act
<1>5. faults' = faults \/ (faults < MaxFaults /\ faults' = faults + 1)
  BY DEF Next, vars, Boot, RotateIfNeeded, RetireOvertaken, CheckFails, Restart, MakeKey, Fault,
         InsertKey, GenerateKey, RetireWrite, RetireKey, DeleteKey, Issue, Tick
<1>6. acts' \in 0..MaxEvents /\ faults' \in 0..MaxFaults
  BY <1>1, <1>4, <1>5, Numbers
<1>7. exposed' \in BOOLEAN /\ meddled' \in BOOLEAN
  BY <1>1 DEF Next, vars, Boot, RotateIfNeeded, RetireOvertaken, CheckFails, Restart, MakeKey,
         InsertKey, GenerateKey, RetireWrite, RetireKey, DeleteKey, Issue, Tick
<1> QED
  BY <1>2, <1>1, <1>3, <1>6, <1>7

LEMMA StepTyped ==
    ASSUME Typed, [Next]_vars
    PROVE  Typed'
<1>1. token'.k \in Kids \cup {None} /\ token'.left \in 0..TokenTtl
  BY TokenTyped DEF TokenRow
<1> QED
  BY <1>1, KeysTyped, TokenTyped, HandlersTyped, CountersTyped DEF Typed, TypeOK

LEMMA AlwaysTyped == Spec => []Typed
BY InitTyped, StepTyped, PTL DEF Spec

\* The types hold in every reachable state; in particular a key counts its
\* validity from the moment it signs, however long it was published before.
THEOREM Typing == Spec => []TypeOK
<1>1. Typed => TypeOK
  BY DEF Typed
<1> QED
  BY <1>1, AlwaysTyped, PTL

-----------------------------------------------------------------------------
(* A relying party knows the key *)

\* Until it signs, a key has been shown as long as its lead is over.
Announced ==
    \A k \in Kids : k \in Published /\ ~key[k].early => key[k].wait + key[k].shown >= CacheTtl

\* The key of a token has begun to sign.
SignedInTime == token.k \in Kids /\ key[token.k].st # "none" => key[token.k].wait = 0

ShownInv == Announced /\ SignedInTime

\* Retiring and deleting publish nothing, a new key starts with its lead, and a
\* tick takes from the lead what it adds to the time shown.
LEMMA AnnouncedKept ==
    ASSUME Typed, Announced, [Next]_vars
    PROVE  Announced'
<1> SUFFICES ASSUME NEW k \in Kids, (k \in Published)', ~key'[k].early
             PROVE  key'[k].wait + key'[k].shown >= CacheTtl
  BY DEF Announced
<1>1. key \in [Kids -> KeyRow] /\ key' \in [Kids -> KeyRow]
  BY KeysTyped DEF Typed, TypeOK
<1>2. key'[k].st # "none" /\ key'[k].left > 0
  BY DEF Published
<1>3. CASE key'[k] = key[k]
  BY <1>2, <1>3 DEF Announced, Published
<1>4. ASSUME NEW j \in Kids, Retires(j) \/ Deletes(j)
      PROVE  key'[k].wait + key'[k].shown >= CacheTtl
  <2>1. CASE j # k
    BY <1>1, <1>3, <1>4, <2>1 DEF Retires, Deletes
  <2>2. CASE j = k
    <3>1. Retires(j)
      BY <1>1, <1>2, <1>4, <2>2 DEF Deletes, NoKey
    <3>2. /\ key[k].st # "none" /\ key'[k].left = key[k].left /\ key'[k].wait = key[k].wait
          /\ key'[k].early = key[k].early /\ key'[k].shown = key[k].shown
      BY <1>1, <2>2, <3>1 DEF Retires, KeyRow
    <3> QED
      BY <1>2, <3>2 DEF Announced, Published
  <2> QED
    BY <2>1, <2>2
<1>5. ASSUME NEW p \in Procs, Adds(p)
      PROVE  key'[k].wait + key'[k].shown >= CacheTtl
  <2>1. NewKid \in Kids
    BY <1>5, NewKidIsFree DEF Adds
  <2>2. CASE k = NewKid
    <3>1. key'[k] = NewRow(p)
      BY <1>1, <1>5, <2>1, <2>2 DEF Adds
    <3>2. NewRow(p).wait >= CacheTtl /\ NewRow(p).wait \in Nat /\ NewRow(p).shown = 0
      BY <3>1, NewRowTyped DEF KeyRow
    <3> QED
      BY <3>1, <3>2, Numbers
  <2>3. CASE k # NewKid
    BY <1>1, <1>3, <1>5, <2>1, <2>3 DEF Adds
  <2> QED
    BY <2>2, <2>3
<1>6. CASE Tick
  <2>1. key'[k] # NoKey
    BY <1>2 DEF NoKey
  <2>2. /\ key'[k].st = key[k].st /\ key'[k].early = key[k].early
        /\ key'[k].wait = Down(key[k].wait, 0) /\ key'[k].left = Down(key[k].left, 0)
        /\ k \in Published => key'[k].shown >= CacheTtl \/ key'[k].shown = key[k].shown + 1
    BY <1>6, <2>1, TickKeys
  <2>3. /\ key[k].wait \in Nat /\ key[k].left \in Nat /\ key[k].shown \in 0..CacheTtl
        /\ key'[k].wait \in Nat /\ key'[k].shown \in 0..CacheTtl
    BY <1>1 DEF KeyRow
  <2>4. key[k].left > 0
    BY <1>2, <2>2, <2>3 DEF Down
  <2>5. k \in Published
    BY <1>2, <2>2, <2>4 DEF Published
  <2>6. key[k].wait + key[k].shown >= CacheTtl
    BY <2>2, <2>5 DEF Announced
  <2> QED
    BY <2>2, <2>3, <2>5, <2>6, Numbers DEF Down
<1> QED
  BY <1>3, <1>4, <1>5, <1>6, KeySteps

\* The kid of a token is not given to another key while the token lives.
LEMMA SignedInTimeKept ==
    ASSUME Typed, SignedInTime, [Next]_vars
    PROVE  SignedInTime'
<1> SUFFICES ASSUME token'.k \in Kids, key'[token'.k].st # "none"
             PROVE  key'[token'.k].wait = 0
  BY DEF SignedInTime
<1>1. key \in [Kids -> KeyRow]
  BY DEF Typed, TypeOK
<1>2. CASE UNCHANGED <<key, token>>
  BY <1>2 DEF SignedInTime
<1>3. ASSUME NEW j \in Kids, Retires(j) \/ Deletes(j)
      PROVE  key'[token'.k].wait = 0
  BY <1>1, <1>3 DEF Retires, Deletes, SignedInTime, NoKey, KeyRow
<1>4. ASSUME NEW p \in Procs, Adds(p)
      PROVE  key'[token'.k].wait = 0
  <2>1. NewKid # token.k /\ token' = token
    BY <1>4, NewKidIsFree DEF Adds
  <2> QED
    BY <1>1, <1>4, <2>1 DEF Adds, SignedInTime
<1>5. CASE UNCHANGED key /\ Issue
  <2>1. CASE Issue
    <3>1. PICK k \in Signers : token' = [k |-> k, left |-> TokenTtl]
      BY <2>1 DEF Issue
    <3>2. token'.k = k /\ key[k].wait = 0
      BY <3>1 DEF NoToken, Signers, Usable
    <3> QED
      BY <1>5, <3>2
  <2> QED
    BY <1>5, <2>1
<1>6. CASE Tick
  <2>1. token' # NoToken
    BY Numbers DEF NoToken
  <2>2. token'.k = token.k
    BY <1>6, <2>1 DEF Tick, Typed, TokenRow
  <2>3. /\ key'[token.k].st = key[token.k].st /\ key'[token.k].wait = Down(key[token.k].wait, 0)
    BY <1>6, <2>2, TickKeys
  <2> QED
    BY <2>2, <2>3 DEF SignedInTime, Down
<1> QED
  BY <1>2, <1>3, <1>4, <1>5, <1>6, KeySteps

\* Publishing a successor before it signs: a relying party with a JWKS younger
\* than CacheTtl knows the key of every token that has not expired.
THEOREM RelyingPartiesKnowTheKey == Spec => []RelyingPartyVerifies
<1>1. Init => ShownInv
  BY DEF Init, ShownInv, Announced, SignedInTime, Published, NoKey
<1>2. Typed /\ ShownInv /\ [Next]_vars => ShownInv'
  BY AnnouncedKept, SignedInTimeKept DEF ShownInv
<1>3. Typed /\ ShownInv => RelyingPartyVerifies
  <2> SUFFICES ASSUME Typed, ShownInv, token.k # None, token.k \in Published, ~key[token.k].early
               PROVE  key[token.k].shown = CacheTtl
    BY DEF RelyingPartyVerifies
  <2>1. token.k \in Kids /\ key[token.k] \in KeyRow /\ key[token.k].st # "none"
    BY DEF Published, Typed, TypeOK
  <2>2. key[token.k].wait = 0 /\ key[token.k].wait + key[token.k].shown >= CacheTtl
    BY <2>1 DEF ShownInv, Announced, SignedInTime
  <2> QED
    BY <2>1, <2>2, Numbers DEF KeyRow
<1> QED
  BY <1>1, <1>2, <1>3, AlwaysTyped, PTL DEF Spec

-----------------------------------------------------------------------------
(* Signing comes back *)

\* An interval and two key generations: the longest way to a new signer, that
\* of a process about to make a successor which is not to sign at once.
Round == Interval + 2 * Delay

\* The ticks a process needs until it has made a key that signs at once.
Rest(r) ==
    CASE r.pc = "boot"   -> Delay
      [] r.pc = "idle"   -> r.sleep + Delay
      [] r.pc = "retire" -> Round
      [] r.pc = "make"   -> (IF r.lead = 0 THEN Delay ELSE Round) - r.age
      [] r.pc = "insert" -> IF r.lead = 0 THEN 0 ELSE Interval + Delay

Allowed(n) == (1 + n) * Round + 1

Patient(l) == dry + Rest(proc[l]) =< Allowed(faults)

ReturnInv == IF HasSigner THEN dry = 0 ELSE \A l \in Loops : Patient(l)

LEMMA Rests ==
    ASSUME NEW r \in Handler
    PROVE  /\ Rest(r) \in 0..Round
           /\ r.pc = "boot" => Rest(r) = Delay
           /\ r.pc = "idle" => Rest(r) = r.sleep + Delay
           /\ r.pc = "retire" => Rest(r) = Round
           /\ r.pc = "make" => Rest(r) = (IF r.lead = 0 THEN Delay ELSE Round) - r.age
           /\ r.pc = "insert" => Rest(r) = IF r.lead = 0 THEN 0 ELSE Interval + Delay
           /\ Round \in Nat /\ Delay \in Nat /\ Interval \in Nat /\ Delay =< Round
<1>1. /\ Delay \in Nat /\ Interval \in Nat
      /\ r.age \in 0..Delay /\ r.sleep \in 0..Interval /\ r.lead \in Nat
  BY Numbers DEF Handler
<1>2. Round \in Nat /\ Delay =< Round
  BY <1>1 DEF Round
<1>3. /\ r.pc = "boot" => Rest(r) = Delay
      /\ r.pc = "idle" => Rest(r) = r.sleep + Delay
      /\ r.pc = "retire" => Rest(r) = Round
      /\ r.pc = "make" => Rest(r) = (IF r.lead = 0 THEN Delay ELSE Round) - r.age
      /\ r.pc = "insert" => Rest(r) = IF r.lead = 0 THEN 0 ELSE Interval + Delay
  BY DEF Rest
<1>4. r.pc \in {"idle", "boot", "make", "insert", "retire"}
  BY DEF Handler
<1>5. Rest(r) \in 0..Round
  BY <1>1, <1>3, <1>4 DEF Round
<1> QED
  BY <1>1, <1>2, <1>3, <1>5

\* A fault allows for one round more.
LEMMA Allowances ==
    ASSUME NEW n \in Nat
    PROVE  /\ Round \in Nat /\ Allowed(n) \in Nat
           /\ Allowed(n) >= Round + 1
           /\ Allowed(n + 1) = Allowed(n) + Round
<1>1. Round \in Nat
  BY Numbers DEF Round
<1>2. ASSUME NEW r \in Nat
      PROVE  (1 + n) * r = r + n * r /\ (1 + (n + 1)) * r = 2 * r + n * r /\ n * r \in Nat
  OBVIOUS
<1> QED
  BY <1>1, <1>2 DEF Allowed

LEMMA InitReturn == Init => ReturnInv
<1> SUFFICES ASSUME Init, NEW l \in Loops
             PROVE  dry = 0 /\ Patient(l)
  BY DEF ReturnInv, Init
<1>1. dry = 0 /\ faults = 0
  BY DEF Init
<1>2. Rest(proc[l]) \in 0..Round
  BY InitTyped, Rests, Numbers DEF Typed
<1> QED
  BY <1>1, <1>2, Allowances DEF Patient

\* Between two ticks only an insertion can bring a signer.
LEMMA NoOtherSigner ==
    ASSUME Typed, [Next]_vars, ~Tick, ~HasSigner, HasSigner'
    PROVE  \E p \in Procs : InsertKey(p)
<1>1. key \in [Kids -> KeyRow]
  BY DEF Typed, TypeOK
<1>2. ~UNCHANGED key
  BY DEF HasSigner, Usable
<1>3. ASSUME NEW k \in Kids, Retires(k) \/ Deletes(k)
      PROVE  FALSE
  <2>1. \A j \in Kids : Usable(j)' => Usable(j)
    BY <1>1, <1>3 DEF Retires, Deletes, Usable, KeyRow, NoKey
  <2> QED
    BY <2>1 DEF HasSigner
<1> QED
  BY <1>2, <1>3, KeySteps

\* A step of the process itself, while nobody can sign before or after it:
\* it is no further from a new signer, or a fault allows for another round.
LEMMA OwnStep ==
    ASSUME Typed, Typed', ~HasSigner, ~HasSigner', NEW l \in Loops, Patient(l),
           \/ Boot(l) \/ RotateIfNeeded(l) \/ RetireOvertaken(l) \/ CheckFails(l) \/ Restart(l)
           \/ MakeKey(l) \/ InsertKey(l)
    PROVE  Patient(l)'
<1>1. proc[l] \in Handler /\ proc'[l] \in Handler /\ proc \in [Procs -> Handler]
  BY Numbers DEF Typed
<1>2. /\ dry \in Nat /\ faults \in Nat /\ Delay \in Nat /\ Interval \in Nat
      /\ proc[l].age \in 0..Delay /\ proc[l].lead \in Nat
  BY <1>1, Numbers DEF Typed, TypeOK, Handler
<1>3. ASSUME Rest(proc'[l]) =< Rest(proc[l]), dry' = dry, faults' = faults
      PROVE  Patient(l)'
  <2>1. Allowed(faults)' = Allowed(faults) /\ Allowed(faults) \in Nat
    BY <1>2, <1>3, Allowances DEF Allowed
  <2>2. Rest(proc[l])' = Rest(proc'[l])
    BY DEF Rest
  <2>3. Rest(proc[l]) \in 0..Round /\ Rest(proc'[l]) \in 0..Round /\ Round \in Nat
    BY <1>1, Rests
  <2> QED
    BY <1>2, <1>3, <2>1, <2>2, <2>3 DEF Patient
<1>4. Rest(proc[l]) \in 0..Round /\ Rest(proc'[l]) \in 0..Round
  BY <1>1, Rests
<1>5. l \in Procs
  BY Numbers
<1>6. CASE Boot(l) \/ RotateIfNeeded(l)
  <2>1. /\ At(l, "boot") \/ (At(l, "idle") /\ proc[l].sleep = 0)
        /\ At(l, "make")' /\ proc'[l].lead = 0 /\ proc'[l].age = 0
    BY <1>1, <1>5, <1>6 DEF Boot, RotateIfNeeded, Signers, HasSigner, Goto, At, Idle
  <2>2. Rest(proc[l]) = Delay /\ Rest(proc'[l]) = Delay
    BY <2>1, <1>1, <1>2, Rests DEF At
  <2>3. dry' = dry /\ faults' = faults
    BY <1>6 DEF Boot, RotateIfNeeded
  <2> QED
    BY <1>2, <1>3, <2>2, <2>3
<1>7. CASE RetireOvertaken(l)
  <2>1. Rest(proc[l]) = Round
    BY <1>1, <1>7, Rests DEF RetireOvertaken, At
  <2> QED
    BY <1>3, <1>4, <1>7, <2>1 DEF RetireOvertaken
<1>8. CASE CheckFails(l) \/ Restart(l)
  <2>1. dry' = dry /\ faults' = faults + 1
    BY <1>8 DEF CheckFails, Restart, Fault
  <2>2. dry =< Allowed(faults)
    BY <1>2, <1>4, Allowances DEF Patient
  <2>3. Allowed(faults)' = Allowed(faults) + Round /\ Allowed(faults) \in Nat /\ Round \in Nat
    BY <1>2, <2>1, Allowances DEF Allowed
  <2> QED
    BY <1>2, <1>4, <2>1, <2>2, <2>3 DEF Patient
<1>9. CASE MakeKey(l)
  <2>1. At(l, "make") /\ At(l, "insert")' /\ proc'[l].lead = proc[l].lead
    BY <1>1, <1>5, <1>9 DEF MakeKey, Goto, At, Handler
  <2>2. /\ Rest(proc[l]) = (IF proc[l].lead = 0 THEN Delay ELSE Round) - proc[l].age
        /\ Rest(proc'[l]) = IF proc[l].lead = 0 THEN 0 ELSE Interval + Delay
    BY <1>1, <2>1, Rests DEF At
  <2>3. Rest(proc'[l]) =< Rest(proc[l])
    BY <1>2, <2>2 DEF Round
  <2> QED
    BY <1>3, <1>9, <2>3 DEF MakeKey
<1>10. CASE InsertKey(l)
  <2>1. Adds(l)
    BY <1>10 DEF InsertKey, Adds
  <2>2. proc[l].lead # 0
    <3>1. NewKid \in Kids /\ key' = [key EXCEPT ![NewKid] = NewRow(l)]
      BY <2>1, NewKidIsFree DEF Adds
    <3>2. key'[NewKid] = NewRow(l)
      BY <3>1 DEF Typed, TypeOK
    <3>3. ~(NewRow(l).wait = 0 /\ NewRow(l).left > 0 /\ NewRow(l).st = "ACTIVE")
      BY <3>1, <3>2 DEF HasSigner, Usable
    <3> QED
      BY <1>5, <3>3, NewRowTyped, Numbers
  <2>3. At(l, "insert") /\ At(l, "idle")' /\ proc'[l].sleep = Interval
    BY <1>1, <1>5, <1>10, Idleness DEF InsertKey, Return, At
  <2>4. Rest(proc[l]) = Interval + Delay /\ Rest(proc'[l]) = Interval + Delay
    BY <2>2, <2>3, <1>1, <1>2, Rests DEF At
  <2> QED
    BY <1>2, <1>3, <1>10, <2>4 DEF InsertKey
<1> QED
  BY <1>6, <1>7, <1>8, <1>9, <1>10

\* A step of somebody else takes nothing from a process.
LEMMA OthersStep ==
    ASSUME Typed, Typed', NEW l \in Loops, Patient(l), proc'[l] = proc[l],
           dry' = dry, faults' = faults \/ faults' = faults + 1
    PROVE  Patient(l)'
<1>1. Rest(proc[l])' = Rest(proc[l]) /\ Rest(proc[l]) \in 0..Round
  BY Numbers, Rests DEF Rest, Typed
<1>2. dry \in Nat /\ faults \in Nat
  BY Numbers DEF Typed, TypeOK
<1>3. Allowed(faults') >= Allowed(faults) /\ Allowed(faults)' = Allowed(faults')
  BY <1>2, Allowances DEF Allowed
<1>4. Allowed(faults) \in Nat /\ Allowed(faults') \in Nat /\ Round \in Nat
  BY <1>2, Allowances
<1> QED
  BY <1>1, <1>2, <1>3, <1>4 DEF Patient

\* A tick brings every process one tick nearer.
LEMMA TickNearer ==
    ASSUME Typed, Typed', Tick, NEW l \in Loops
    PROVE  Rest(proc'[l]) = Rest(proc[l]) - 1
<1>1. /\ proc[l] \in Handler /\ proc'[l] \in Handler /\ Delay \in Nat /\ Interval \in Nat
      /\ Round \in Nat /\ proc[l].age \in 0..Delay /\ proc[l].sleep \in 0..Interval /\ proc[l].lead \in Nat
      /\ l \in Procs
  BY Numbers DEF Typed, Handler, Round
<1>2. CASE Awake(l)
  <2>1. At(l, "make") /\ proc'[l] = [proc[l] EXCEPT !.age = @ + 1]
    BY <1>1, <1>2 DEF Tick
  <2>2. At(l, "make")' /\ proc'[l].age = proc[l].age + 1 /\ proc'[l].lead = proc[l].lead
    BY <1>1, <2>1 DEF At, Handler
  <2>3. /\ Rest(proc[l]) = (IF proc[l].lead = 0 THEN Delay ELSE Round) - proc[l].age
        /\ Rest(proc'[l]) = (IF proc'[l].lead = 0 THEN Delay ELSE Round) - proc'[l].age
    BY <1>1, <2>1, <2>2, Rests DEF At
  <2> QED
    BY <1>1, <2>2, <2>3
<1>3. CASE ~Awake(l)
  <2>1. At(l, "idle") /\ proc[l].sleep # 0 /\ proc'[l] = [proc[l] EXCEPT !.sleep = Down(@, 0)]
    BY <1>1, <1>3 DEF Tick, Awake
  <2>2. At(l, "idle")' /\ proc'[l].sleep = proc[l].sleep - 1
    BY <1>1, <2>1 DEF At, Handler, Down
  <2>3. /\ Rest(proc[l]) = proc[l].sleep + Delay
        /\ Rest(proc'[l]) = proc'[l].sleep + Delay
    BY <1>1, <2>1, <2>2, Rests DEF At
  <2> QED
    BY <1>1, <2>2, <2>3
<1> QED
  BY <1>2, <1>3

\* Where a signer was there until now, nothing has been used up yet.
LEMMA FreshlyPatient ==
    ASSUME Typed', dry' \in {0, 1}, NEW l \in Loops
    PROVE  Patient(l)'
<1>1. proc'[l] \in Handler /\ faults' \in Nat
  BY Numbers DEF Typed, TypeOK
<1>2. Rest(proc[l])' = Rest(proc'[l]) /\ Allowed(faults)' = Allowed(faults')
  BY DEF Rest, Allowed
<1>3. Rest(proc'[l]) \in 0..Round /\ Round \in Nat
  BY <1>1, Rests
<1>4. Allowed(faults') \in Nat /\ Allowed(faults') >= Round + 1
  BY <1>1, Allowances
<1> QED
  BY <1>2, <1>3, <1>4 DEF Patient

LoopStep(l)  == \/ Boot(l) \/ RotateIfNeeded(l) \/ RetireOvertaken(l)
                \/ CheckFails(l) \/ Restart(l) \/ MakeKey(l) \/ InsertKey(l)
AdminStep(a) == \/ GenerateKey(a) \/ RetireWrite(a) \/ (\E k \in Kids : RetireKey(a, k))
                \/ MakeKey(a) \/ InsertKey(a)

\* Between two ticks: who steps, and what a step does to the counters.
LEMMA Steps ==
    ASSUME Typed, [Next]_vars, ~Tick
    PROVE  /\ dry' = dry \/ (HasSigner' /\ dry' = 0)
           /\ faults' = faults \/ faults' = faults + 1
           /\ \A l \in Loops : proc'[l] = proc[l] \/ LoopStep(l)
           /\ \A a \in Admins : proc'[a] = proc[a] \/ AdminStep(a)
<1>1. dry' = dry \/ (HasSigner' /\ dry' = 0)
  <2>1. ASSUME NEW p \in Procs, InsertKey(p)
        PROVE  dry' = dry \/ (HasSigner' /\ dry' = 0)
    BY <2>1 DEF InsertKey
  <2>2. ASSUME ~\E p \in Procs : InsertKey(p)
        PROVE  dry' = dry
    BY <2>2 DEF Next, vars, Boot, RotateIfNeeded, RetireOvertaken, CheckFails, Restart, MakeKey,
                GenerateKey, RetireWrite, RetireKey, DeleteKey, Issue
  <2> QED
    BY <2>1, <2>2
<1>2. faults' = faults \/ faults' = faults + 1
  BY DEF Next, vars, Boot, RotateIfNeeded, RetireOvertaken, CheckFails, Restart, MakeKey, Fault,
         InsertKey, GenerateKey, RetireWrite, RetireKey, DeleteKey, Issue
<1>3. ASSUME NEW q \in Procs
      PROVE  proc'[q] = proc[q] \/ (q \in Loops /\ LoopStep(q)) \/ (q \in Admins /\ AdminStep(q))
  <2>1. proc \in [Procs -> Handler]
    BY DEF Typed
  <2>2. ASSUME NEW p \in Procs, NEW r, p # q, Goto(p, r)
        PROVE  proc'[q] = proc[q]
    BY <2>1, <2>2 DEF Goto
  <2>3. ASSUME NEW p \in Procs, p # q, Return(p)
        PROVE  proc'[q] = proc[q]
    BY <2>1, <2>3 DEF Return
  <2>4. ASSUME NEW m \in Loops,
               Boot(m) \/ RotateIfNeeded(m) \/ RetireOvertaken(m) \/ CheckFails(m) \/ Restart(m)
        PROVE  proc'[q] = proc[q] \/ (q \in Loops /\ LoopStep(q))
    <3>1. ASSUME m # q PROVE proc'[q] = proc[q]
      BY <2>2, <2>3, <2>4, <3>1, Numbers
         DEF Boot, RotateIfNeeded, RetireOvertaken, CheckFails, Restart
    <3> QED
      BY <2>4, <3>1 DEF LoopStep
  <2>5. ASSUME NEW p \in Procs, MakeKey(p) \/ InsertKey(p)
        PROVE  proc'[q] = proc[q] \/ (q \in Loops /\ LoopStep(q)) \/ (q \in Admins /\ AdminStep(q))
    <3>1. ASSUME p # q PROVE proc'[q] = proc[q]
      BY <2>2, <2>3, <2>5, <3>1 DEF MakeKey, InsertKey
    <3> QED
      BY <2>5, <3>1 DEF LoopStep, AdminStep, Procs
  <2>6. ASSUME NEW a \in Admins, GenerateKey(a) \/ RetireWrite(a) \/ \E k \in Kids : RetireKey(a, k)
        PROVE  proc'[q] = proc[q] \/ (q \in Admins /\ AdminStep(q))
    <3>1. ASSUME a # q PROVE proc'[q] = proc[q]
      BY <2>2, <2>3, <2>6, <3>1, Numbers DEF GenerateKey, RetireWrite, RetireKey
    <3> QED
      BY <2>6, <3>1 DEF AdminStep
  <2>7. ASSUME NEW a \in Admins, NEW k \in Kids, DeleteKey(a, k)
        PROVE  proc'[q] = proc[q]
    BY <2>7 DEF DeleteKey
  <2>8. ASSUME Issue
        PROVE  proc'[q] = proc[q]
    BY <2>8 DEF Issue
  <2>9. CASE UNCHANGED vars
    BY <2>9 DEF vars
  <2> QED
    BY <2>4, <2>5, <2>6, <2>7, <2>8, <2>9 DEF Next
<1> QED
  BY <1>1, <1>2, <1>3, Numbers

LEMMA ReturnKept ==
    ASSUME Typed, Typed', ReturnInv, [Next]_vars
    PROVE  ReturnInv'
<1>1. dry \in Nat /\ key \in [Kids -> KeyRow]
  BY DEF Typed, TypeOK
<1>2. CASE Tick
  <2>1. CASE HasSigner'
    BY <1>2, <2>1 DEF Tick, ReturnInv
  <2>2. CASE ~HasSigner' /\ HasSigner
    <3>1. dry = 0 /\ (dry' = dry \/ dry' = dry + 1)
      BY <1>2, <2>2 DEF Tick, ReturnInv
    <3>2. dry' \in {0, 1}
      BY <3>1
    <3> QED
      BY <2>2, <3>2, FreshlyPatient DEF ReturnInv
  <2>3. CASE ~HasSigner' /\ ~HasSigner
    <3> SUFFICES ASSUME NEW l \in Loops
                 PROVE  Patient(l)'
      BY <2>3 DEF ReturnInv
    <3>1. dry' =< dry + 1 /\ dry' \in Nat /\ faults' = faults
      <4>1. faults' = faults /\ (dry' = dry \/ dry' = dry + 1)
        BY <1>2, <2>3 DEF Tick
      <4> QED
        BY <1>1, <4>1
    <3>2. Rest(proc[l])' = Rest(proc[l]) - 1 /\ Rest(proc[l]) \in 0..Round /\ Round \in Nat
      <4>1. Rest(proc[l])' = Rest(proc'[l])
        BY DEF Rest
      <4>2. proc[l] \in Handler
        BY Numbers DEF Typed
      <4> QED
        BY <1>2, <4>1, <4>2, TickNearer, Rests
    <3>3. Allowed(faults)' = Allowed(faults) /\ Allowed(faults) \in Nat
      BY <3>1, Allowances DEF Allowed, Typed, TypeOK
    <3>4. dry + Rest(proc[l]) =< Allowed(faults)
      BY <2>3 DEF ReturnInv, Patient
    <3> QED
      BY <1>1, <3>1, <3>2, <3>3, <3>4 DEF Patient
  <2> QED
    BY <2>1, <2>2, <2>3
<1>3. CASE ~Tick /\ HasSigner
  <2>1. dry' = 0
    BY <1>3, Steps DEF ReturnInv
  <2> QED
    BY <2>1, FreshlyPatient DEF ReturnInv
<1>4. CASE ~Tick /\ ~HasSigner
  <2>1. CASE HasSigner'
    <3>1. dry' = 0 \/ ~\E p \in Procs : InsertKey(p)
      BY <2>1 DEF InsertKey
    <3>2. \E p \in Procs : InsertKey(p)
      BY <1>4, <2>1, NoOtherSigner
    <3> QED
      BY <2>1, <3>1, <3>2 DEF ReturnInv
  <2>2. CASE ~HasSigner'
    <3> SUFFICES ASSUME NEW l \in Loops
                 PROVE  Patient(l)'
      BY <2>2 DEF ReturnInv
    <3>1. Patient(l)
      BY <1>4 DEF ReturnInv
    <3>2. dry' = dry
      BY <1>4, <2>2, Steps
    <3> QED
      BY <1>4, <2>2, <3>1, <3>2, Steps, OwnStep, OthersStep DEF LoopStep
  <2> QED
    BY <2>1, <2>2
<1> QED
  BY <1>2, <1>3, <1>4

\* The rotation check makes a key when none can sign: signing comes back after
\* one interval and two key generations, or one more of these for every fault.
THEOREM SigningComesBack == Spec => []SignerReturns
<1>1. Typed /\ Typed' /\ ReturnInv /\ [Next]_vars => ReturnInv'
  BY ReturnKept
<1>2. Typed /\ ReturnInv => SignerReturns
  <2> SUFFICES ASSUME Typed, ReturnInv
               PROVE  dry =< Allowed(faults)
    BY DEF SignerReturns, Allowed, Round
  <2>1. dry \in Nat /\ faults \in Nat /\ Allowed(faults) \in Nat
    BY Allowances, Numbers DEF Typed, TypeOK
  <2>2. CASE HasSigner
    BY <2>1, <2>2 DEF ReturnInv
  <2>3. CASE ~HasSigner
    <3>1. PICK l \in Loops : Patient(l)
      BY <2>3, KeysAssumption DEF ReturnInv
    <3>2. Rest(proc[l]) \in 0..Round /\ Round \in Nat
      BY Rests, Numbers DEF Typed
    <3> QED
      BY <2>1, <3>1, <3>2 DEF Patient
  <2> QED
    BY <2>2, <2>3
<1> QED
  BY <1>1, <1>2, InitReturn, AlwaysTyped, PTL DEF Spec

-----------------------------------------------------------------------------
(* What a handler holds *)

\* Only a process at its bootstrap has boot set, and its key signs at once.
Booting == \A p \in Procs : proc[p].boot => proc[p].pc \in {"make", "insert"} /\ proc[p].lead = 0

\* No lead is longer than publish_lead_hours.
Capped == \A p \in Procs : proc[p].lead =< PublishLead

\* An administrator retires a key on the word of others.
Relying ==
    \A a \in Admins : At(a, "retire") => proc[a].by # {} /\ proc[a].k \notin proc[a].by /\ meddled

\* What the rotation check is about to retire has begun to sign, and the signer
\* it goes by has more time left.
Overtakes ==
    \A l \in Loops : At(l, "retire") => \A k \in proc[l].list : key[k].st = "ACTIVE" =>
        key[k].wait = 0 /\ \A a \in proc[l].by : k # a /\ (Usable(a) => key[k].left =< key[a].left)

HandlerInv == Booting /\ Capped /\ Relying /\ Overtakes

LEMMA NewKidUnheld ==
    ASSUME FreeKids # {}, NEW p \in Procs
    PROVE  NewKid \notin proc[p].list /\ NewKid \notin proc[p].by
<1>1. NewKid \in FreeKids
  BY DEF NewKid
<1>2. proc[p].list \subseteq Referenced /\ proc[p].by \subseteq Referenced
  BY DEF Referenced
<1> QED
  BY <1>1, <1>2 DEF FreeKids, Forgotten

LEMMA InitHandlers == Init => HandlerInv
<1> SUFFICES ASSUME Init
             PROVE  HandlerInv
  OBVIOUS
<1>1. \A p \in Procs : proc[p].pc \in {"idle", "boot"} /\ proc[p].lead = 0 /\ ~proc[p].boot
  BY DEF Init, Idle
<1>2. PublishLead \in Nat
  BY Leads, InitTyped
<1> QED
  BY <1>1, <1>2, Numbers DEF HandlerInv, Booting, Capped, Relying, Overtakes, At

\* Ticks pass over handlers that wait to retire or to insert.
LEMMA TickHandlers ==
    ASSUME Typed, Tick, NEW p \in Procs
    PROVE  /\ proc[p].pc \in {"idle", "make"}
           /\ proc'[p].pc = proc[p].pc /\ proc'[p].lead = proc[p].lead
           /\ proc'[p].boot = proc[p].boot
           /\ p \in Loops /\ At(p, "idle") =>
                 proc[p].sleep > 0 /\ proc'[p].sleep = proc[p].sleep - 1
           /\ At(p, "make") => proc'[p].age = proc[p].age + 1
<1>1. proc[p] \in Handler /\ proc[p].sleep \in 0..Interval
  BY DEF Typed, Handler
<1>2. CASE Awake(p)
  <2>1. At(p, "make") /\ proc'[p] = [proc[p] EXCEPT !.age = @ + 1]
    BY <1>2 DEF Tick
  <2> QED
    BY <1>1, <2>1 DEF At, Handler
<1>3. CASE ~Awake(p)
  <2>1. At(p, "idle") /\ proc'[p] = [proc[p] EXCEPT !.sleep = Down(@, 0)]
    BY <1>3 DEF Tick, Awake
  <2>2. p \in Loops => proc[p].sleep # 0
    BY <1>3 DEF Awake
  <2>3. proc[p].sleep # 0 => proc[p].sleep > 0 /\ Down(proc[p].sleep, 0) = proc[p].sleep - 1
    BY <1>1, Numbers DEF Down
  <2> QED
    BY <1>1, <2>1, <2>2, <2>3 DEF At, Handler
<1> QED
  BY <1>2, <1>3

\* What a step leaves a handler with.
LEMMA HandlerSteps ==
    ASSUME Typed, Booting, [Next]_vars, ~Tick, NEW p \in Procs, proc'[p] # proc[p]
    PROVE  \/ proc'[p].pc \in {"idle", "boot"} /\ proc'[p].lead = 0 /\ ~proc'[p].boot
           \/ proc'[p].pc = "make" /\ proc'[p].lead = 0 /\ ~HasSigner
           \/ /\ proc[p].pc \in {"retire", "make"} /\ proc'[p].pc \in {"retire", "make", "insert"}
              /\ proc'[p].lead = proc[p].lead /\ proc'[p].boot = proc[p].boot
              /\ proc'[p].boot => proc[p].pc = "make" /\ proc'[p].pc = "insert"
              /\ proc'[p].by = proc[p].by /\ proc'[p].list \subseteq proc[p].list
              /\ p \in Loops \/ proc'[p].pc = "insert"
           \/ \E a \in Signers : /\ p \in Loops /\ RotateIfNeeded(p)
                                 /\ proc'[p].pc = "retire" /\ ~proc'[p].boot
                                 /\ proc'[p].by = {a} /\ proc'[p].list = Overtaken(a)
                                 /\ proc'[p].age = 0
                                 /\ proc'[p].gen = SuccessorDue(a)
                                 /\ proc'[p].lead = IF SuccessorDue(a) THEN Lead(a) ELSE 0
           \/ /\ p \in Admins /\ proc'[p].pc = "make" /\ ~proc'[p].boot /\ proc'[p].age = 0
              /\ proc'[p].lead \in {0} \cup {Lead(a) : a \in Signers} /\ UNCHANGED key
           \/ \E k \in Kids : /\ p \in Admins /\ RetireKey(p, k) /\ proc'[p].k = k
                              /\ proc'[p].by = {j \in Kids \ {k} : Usable(j)} /\ proc'[p].lead = 0
                              /\ ~proc'[p].boot
<1>1. proc \in [Procs -> Handler] /\ proc[p] \in Handler
  BY DEF Typed
<1>2. CASE p \in Loops
  <2>1. LoopStep(p)
    BY <1>2, Steps
  <2>2. CASE Return(p) \/ Goto(p, [Idle EXCEPT !.pc = "boot"])
    BY <1>1, <2>2 DEF Return, Idles, Idle, Goto
  <2>3. CASE Boot(p)
    BY <1>1, <2>2, <2>3 DEF Boot, Goto, Idle
  <2>4. CASE RotateIfNeeded(p)
    <3>1. CASE ~HasSigner /\ Goto(p, [Idle EXCEPT !.pc = "make"])
      BY <1>1, <3>1 DEF Goto, Idle
    <3>2. CASE ~(~HasSigner /\ Goto(p, [Idle EXCEPT !.pc = "make"]))
      <4> DEFINE R(a) == [Idle EXCEPT !.pc = "retire", !.by = {a}, !.list = Overtaken(a),
                                      !.gen = SuccessorDue(a),
                                      !.lead = IF SuccessorDue(a) THEN Lead(a) ELSE 0]
      <4>1. PICK a \in Signers : Goto(p, R(a))
        BY <2>4, <3>2 DEF RotateIfNeeded
      <4>2. proc'[p] = R(a)
        BY <1>1, <4>1 DEF Goto
      <4>3. /\ R(a).pc = "retire" /\ ~R(a).boot /\ R(a).by = {a} /\ R(a).list = Overtaken(a)
            /\ R(a).age = 0 /\ R(a).gen = SuccessorDue(a)
            /\ R(a).lead = IF SuccessorDue(a) THEN Lead(a) ELSE 0
        BY DEF Idle
      <4> HIDE DEF R
      <4> QED
        BY <1>2, <2>4, <4>2, <4>3
    <3> QED
      BY <3>1, <3>2
  <2>5. CASE RetireOvertaken(p)
    <3>1. proc[p].pc = "retire" /\ ~proc[p].boot
      BY <2>5 DEF RetireOvertaken, At, Booting
    <3>2. CASE Goto(p, [proc[p] EXCEPT !.pc = "make"])
      <4>1. /\ proc'[p].pc = "make" /\ proc'[p].lead = proc[p].lead /\ proc'[p].by = proc[p].by
            /\ proc'[p].boot = proc[p].boot /\ proc'[p].list = proc[p].list
        BY <1>1, <3>2 DEF Goto, Handler
      <4> QED
        BY <1>2, <3>1, <4>1
    <3>3. ASSUME NEW k, Goto(p, [proc[p] EXCEPT !.list = @ \ {k}])
          PROVE  /\ proc'[p].pc = proc[p].pc /\ proc'[p].lead = proc[p].lead
                 /\ proc'[p].boot = proc[p].boot /\ proc'[p].by = proc[p].by
                 /\ proc'[p].list \subseteq proc[p].list
      BY <1>1, <3>3 DEF Goto, Handler
    <3>4. \/ Return(p) \/ Goto(p, [proc[p] EXCEPT !.pc = "make"])
          \/ \E k : Goto(p, [proc[p] EXCEPT !.list = @ \ {k}])
      BY <2>5 DEF RetireOvertaken
    <3> QED
      BY <1>2, <2>2, <3>1, <3>2, <3>3, <3>4
  <2>6. CASE CheckFails(p) \/ Restart(p)
    BY <2>2, <2>6 DEF CheckFails, Restart
  <2>7. CASE MakeKey(p)
    BY <1>1, <1>2, <2>7 DEF MakeKey, Goto, At, Handler
  <2>8. CASE InsertKey(p)
    BY <2>2, <2>8 DEF InsertKey
  <2> QED
    BY <2>1, <2>3, <2>4, <2>5, <2>6, <2>7, <2>8 DEF LoopStep
<1>3. CASE p \in Admins
  <2>1. AdminStep(p)
    BY <1>3, Steps
  <2>2. CASE Return(p)
    BY <1>1, <2>2 DEF Return, Idles, Idle
  <2>3. CASE GenerateKey(p)
    BY <1>1, <1>3, <2>3 DEF GenerateKey, Goto, Idle
  <2>4. CASE RetireWrite(p) \/ InsertKey(p)
    BY <2>2, <2>4 DEF RetireWrite, InsertKey
  <2>5. ASSUME NEW k \in Kids, RetireKey(p, k)
        PROVE  /\ proc'[p].k = k /\ proc'[p].by = {j \in Kids \ {k} : Usable(j)}
               /\ proc'[p].lead = 0 /\ ~proc'[p].boot
    BY <1>1, <2>5 DEF RetireKey, Goto, Idle
  <2>6. CASE MakeKey(p)
    BY <1>1, <1>3, <2>6 DEF MakeKey, Goto, At, Handler
  <2> QED
    BY <1>3, <2>1, <2>3, <2>4, <2>5, <2>6 DEF AdminStep
<1> QED
  BY <1>2, <1>3 DEF Procs

LEMMA Lasting ==
    ASSUME Typed, [Next]_vars
    PROVE  settings' = settings /\ (meddled => meddled') /\ (exposed => exposed')
<1>1. settings' = settings
  BY DEF Next, vars, Boot, RotateIfNeeded, RetireOvertaken, CheckFails, Restart, MakeKey,
         InsertKey, GenerateKey, RetireWrite, RetireKey, DeleteKey, Issue, Tick
<1>2. meddled => meddled'
  BY DEF Next, vars, Boot, RotateIfNeeded, RetireOvertaken, CheckFails, Restart, MakeKey,
         InsertKey, GenerateKey, RetireWrite, RetireKey, DeleteKey, Issue, Tick
<1>3. exposed => exposed'
  BY DEF Next, vars, Boot, RotateIfNeeded, RetireOvertaken, CheckFails, Restart, MakeKey,
         InsertKey, GenerateKey, RetireWrite, RetireKey, DeleteKey, Issue, Tick
<1> QED
  BY <1>1, <1>2, <1>3

LEMMA SimpleHandlersKept ==
    ASSUME Typed, HandlerInv, [Next]_vars, NEW p \in Procs
    PROVE  /\ proc'[p].boot => proc'[p].pc \in {"make", "insert"} /\ proc'[p].lead = 0
           /\ proc'[p].lead =< PublishLead
<1>1. PublishLead \in Nat /\ \A a \in Signers : Lead(a) =< PublishLead
  BY Leads DEF Signers
<1>2. /\ proc[p].lead =< PublishLead
      /\ proc[p].boot => proc[p].pc \in {"make", "insert"} /\ proc[p].lead = 0
  BY DEF HandlerInv, Capped, Booting
<1>3. CASE Tick
  BY <1>2, <1>3, TickHandlers
<1>4. CASE proc'[p] = proc[p]
  BY <1>2, <1>4
<1>5. CASE ~Tick /\ proc'[p] # proc[p]
  <2>1. Booting
    BY DEF HandlerInv
  <2> QED
    BY <1>1, <1>2, <1>5, <2>1, HandlerSteps
<1> QED
  BY <1>3, <1>4, <1>5

LEMMA RelyingKept ==
    ASSUME Typed, HandlerInv, [Next]_vars
    PROVE  Relying'
<1> SUFFICES ASSUME NEW a \in Admins, proc'[a].pc = "retire"
             PROVE  proc'[a].by # {} /\ proc'[a].k \notin proc'[a].by /\ meddled'
  BY DEF Relying, At
<1>1. a \in Procs /\ a \notin Loops
  BY Numbers
<1>2. CASE Tick
  BY <1>1, <1>2, TickHandlers
<1>3. CASE proc'[a] = proc[a]
  BY <1>3, Lasting DEF HandlerInv, Relying, At
<1>4. CASE ~Tick /\ proc'[a] # proc[a]
  <2>1. PICK k \in Kids : /\ RetireKey(a, k) /\ proc'[a].k = k
                          /\ proc'[a].by = {j \in Kids \ {k} : Usable(j)}
    BY <1>1, <1>4, HandlerSteps DEF HandlerInv
  <2> QED
    BY <2>1 DEF RetireKey
<1> QED
  BY <1>2, <1>3, <1>4

\* The keys a check goes by and is to retire change in no other way than by
\* being retired or deleted.
LEMMA HeldKeys ==
    ASSUME Typed, [Next]_vars, ~Tick, NEW p \in Procs, NEW k \in proc[p].list \cup proc[p].by
    PROVE  key'[k] = key[k] \/ key'[k].st # "ACTIVE"
<1>1. key \in [Kids -> KeyRow] /\ k \in Kids
  BY DEF Typed, TypeOK, Handler
<1>2. ASSUME NEW j \in Kids, Retires(j) \/ Deletes(j)
      PROVE  key'[k] = key[k] \/ key'[k].st # "ACTIVE"
  BY <1>1, <1>2 DEF Retires, Deletes, NoKey, KeyRow
<1>3. ASSUME NEW q \in Procs, Adds(q)
      PROVE  key'[k] = key[k]
  <2>1. NewKid # k /\ NewKid \in Kids
    BY <1>3, NewKidUnheld, NewKidIsFree DEF Adds
  <2> QED
    BY <1>1, <1>3, <2>1 DEF Adds
<1> QED
  BY <1>2, <1>3, KeySteps

LEMMA OvertakesKept ==
    ASSUME Typed, HandlerInv, [Next]_vars
    PROVE  Overtakes'
<1> SUFFICES ASSUME NEW l \in Loops, proc'[l].pc = "retire",
                    NEW k \in proc'[l].list, key'[k].st = "ACTIVE"
             PROVE  /\ key'[k].wait = 0
                    /\ \A a \in proc'[l].by :
                          k # a /\ (Usable(a)' => key'[k].left =< key'[a].left)
  BY DEF Overtakes, At
<1>1. l \in Procs /\ key \in [Kids -> KeyRow]
  BY Numbers DEF Typed, TypeOK
<1>2. ~Tick
  BY <1>1, TickHandlers
<1>3. CASE proc[l].pc = "retire" /\ proc'[l].list \subseteq proc[l].list /\ proc'[l].by = proc[l].by
  <2>1. k \in proc[l].list /\ key'[k] = key[k]
    BY <1>1, <1>2, <1>3, HeldKeys
  <2>2. /\ key[k].wait = 0
        /\ \A a \in proc[l].by : k # a /\ (Usable(a) => key[k].left =< key[a].left)
    BY <1>3, <2>1 DEF HandlerInv, Overtakes, At
  <2>3. ASSUME NEW a \in proc[l].by, Usable(a)'
        PROVE  key'[a] = key[a] /\ Usable(a)
    <3>1. key'[a] = key[a]
      BY <1>1, <1>2, <2>3, HeldKeys DEF Usable
    <3> QED
      BY <2>3, <3>1 DEF Usable
  <2> QED
    BY <1>3, <2>1, <2>2, <2>3
<1>4. CASE ~(proc[l].pc = "retire" /\ proc'[l].list \subseteq proc[l].list /\ proc'[l].by = proc[l].by)
  <2>1. l \notin Admins
    BY Numbers
  <2>2. proc'[l] # proc[l]
    BY <1>4
  <2>3. \/ \E a \in Signers : /\ RotateIfNeeded(l)
                              /\ proc'[l].by = {a} /\ proc'[l].list = Overtaken(a)
        \/ /\ proc[l].pc \in {"retire", "make"}
           /\ proc'[l].by = proc[l].by /\ proc'[l].list \subseteq proc[l].list
    BY <1>1, <1>2, <2>1, <2>2, HandlerSteps DEF HandlerInv
  <2>4. proc[l].pc # "make"
    <3>1. ASSUME proc[l].pc = "make" PROVE MakeKey(l) \/ Restart(l)
      <4>1. LoopStep(l)
        BY <1>2, <2>2, Steps
      <4> QED
        BY <3>1, <4>1 DEF LoopStep, Boot, RotateIfNeeded, RetireOvertaken, CheckFails, InsertKey, At
    <3>2. ~MakeKey(l) /\ ~Restart(l)
      BY <1>1 DEF MakeKey, Restart, Goto, Typed, Handler, Idle
    <3> QED
      BY <3>1, <3>2
  <2>5. PICK a \in Signers : /\ RotateIfNeeded(l)
                             /\ proc'[l].by = {a} /\ proc'[l].list = Overtaken(a)
    BY <1>4, <2>3, <2>4
  <2>6. key' = key /\ k \in Overtaken(a) /\ a \in Kids
    BY <2>5 DEF RotateIfNeeded, Signers
  <2>7. k \in Kids /\ key[k].wait = 0 /\ k # a /\ key[k].st = "ACTIVE"
    BY <2>6 DEF Overtaken
  <2>8. key[k].left =< key[a].left
    <3>1. key[k].left \in Nat /\ key[a].left \in Nat
      BY <1>1, <2>6, <2>7 DEF KeyRow
    <3>2. key[k].left > 0 => Usable(k)
      BY <2>7 DEF Usable
    <3>3. Usable(k) => key[k].left =< key[a].left
      BY <2>7 DEF Signers
    <3> QED
      BY <3>1, <3>2, <3>3
  <2> QED
    BY <2>5, <2>6, <2>7, <2>8
<1> QED
  BY <1>3, <1>4

LEMMA HandlersKept ==
    ASSUME Typed, HandlerInv, [Next]_vars
    PROVE  HandlerInv'
<1>1. PublishLead' = PublishLead
  BY Lasting DEF PublishLead
<1>2. Booting' /\ Capped'
  BY <1>1, SimpleHandlersKept DEF Booting, Capped
<1> QED
  BY <1>2, RelyingKept, OvertakesKept DEF HandlerInv

-----------------------------------------------------------------------------
(* How long the signers last *)

\* Some key can sign for n ticks.
Reach(n) == \E k \in Kids : Usable(k) /\ key[k].left >= n

LEMMA SteadyReaches ==
    ASSUME Typed', Steady'
    PROVE  Reach(Interval + Delay + 1)' /\ Reach(PublishLead)' /\ HasSigner'
<1>1. PICK k \in Kids : Lasts(k)'
  BY DEF Steady
<1>2. key'[k].left \in Nat /\ Usable(k)' /\ key'[k].left > Interval + Delay
      /\ key'[k].left >= PublishLead'
  BY <1>1 DEF Lasts, Typed, TypeOK, KeyRow
<1>3. key'[k].left >= Interval + Delay + 1
  BY <1>2, Numbers
<1>4. /\ \E j \in Kids : Usable(j)' /\ key'[j].left >= Interval + Delay + 1
      /\ \E j \in Kids : Usable(j)' /\ key'[j].left >= PublishLead'
  BY <1>2, <1>3
<1> QED
  BY <1>2, <1>4 DEF Reach, HasSigner

\* As long as nothing exposes it, a key is retired only for one that signs as
\* long, or by an administrator when another lasts.
LEMMA Retirements ==
    ASSUME Typed, HandlerInv, [Next]_vars, ~Tick, ~exposed', NEW k \in Kids,
           key[k].st = "ACTIVE", key'[k] # key[k]
    PROVE  \/ Steady' /\ meddled
           \/ /\ key[k].wait = 0
              /\ \E a \in Kids : Usable(a) /\ Usable(a)' /\ key'[a].left = key[a].left
                                 /\ key[k].left =< key[a].left
<1>1. key \in [Kids -> KeyRow]
  BY DEF Typed, TypeOK
<1>2. ASSUME NEW l \in Loops, RetireOvertaken(l)
      PROVE  /\ key[k].wait = 0
             /\ \E a \in Kids : Usable(a) /\ Usable(a)' /\ key'[a].left = key[a].left
                                /\ key[k].left =< key[a].left
  <2>1. l \in Procs /\ At(l, "retire")
    BY <1>2, Numbers DEF RetireOvertaken
  <2>2. PICK j \in proc[l].list : /\ key' = [key EXCEPT ![j].st = "RETIRED"]
                                  /\ exposed' = (exposed \/ \A a \in proc[l].by : ~Usable(a))
    BY <1>2 DEF RetireOvertaken
  <2>3. j = k
    BY <1>1, <2>2
  <2>4. PICK a \in proc[l].by : Usable(a)
    BY <2>2
  <2>5. a \in Kids
    BY <2>1, <2>4 DEF Typed, Handler
  <2>6. key[k].wait = 0 /\ k # a /\ key[k].left =< key[a].left
    BY <2>1, <2>2, <2>3, <2>4 DEF HandlerInv, Overtakes
  <2>7. key'[a] = key[a]
    BY <1>1, <2>2, <2>3, <2>5, <2>6
  <2> QED
    BY <2>4, <2>5, <2>6, <2>7 DEF Usable
<1>3. ASSUME NEW a \in Admins, RetireWrite(a)
      PROVE  Steady' /\ meddled
  <2>1. meddled /\ proc[a].by # {} /\ proc[a].k \notin proc[a].by /\ proc[a].by \subseteq Kids
    BY <1>3, Numbers DEF RetireWrite, HandlerInv, Relying, Typed, Handler
  <2>2. /\ key' = [key EXCEPT ![proc[a].k].st = "RETIRED"]
        /\ exposed' = (exposed \/ (proc[a].by # {} /\ \A j \in proc[a].by : ~Lasts(j)))
    BY <1>3 DEF RetireWrite
  <2>3. PICK j \in proc[a].by : Lasts(j)
    BY <2>1, <2>2
  <2>4. key'[j] = key[j] /\ settings' = settings
    BY <1>1, <1>3, <2>1, <2>2, <2>3 DEF RetireWrite
  <2>5. Lasts(j)'
    BY <2>3, <2>4 DEF Lasts, Usable, PublishLead
  <2> QED
    BY <2>1, <2>3, <2>5 DEF Steady
<1>4. ASSUME NEW a \in Admins, NEW j \in Kids, DeleteKey(a, j)
      PROVE  FALSE
  BY <1>1, <1>4 DEF DeleteKey
<1>5. ASSUME NEW p \in Procs, InsertKey(p)
      PROVE  FALSE
  <2>1. NewKid \in Kids /\ key[NewKid].st # "ACTIVE" /\ key' = [key EXCEPT ![NewKid] = NewRow(p)]
    BY <1>5, NewKidIsFree DEF InsertKey
  <2> QED
    BY <1>1, <2>1
<1>6. ~UNCHANGED key
  OBVIOUS
<1> QED
  BY <1>2, <1>3, <1>4, <1>5, <1>6
     DEF Next, vars, Boot, RotateIfNeeded, CheckFails, Restart, MakeKey, GenerateKey, RetireKey,
         Issue

LEMMA ReachKept ==
    ASSUME Typed, HandlerInv, [Next]_vars, ~Tick, ~exposed', NEW n \in Int, Reach(n)
    PROVE  Reach(n)' \/ (Steady' /\ meddled)
<1>1. PICK k \in Kids : Usable(k) /\ key[k].left >= n
  BY DEF Reach
<1>2. CASE key'[k] = key[k]
  BY <1>1, <1>2 DEF Reach, Usable
<1>3. CASE key'[k] # key[k]
  <2>1. CASE Steady' /\ meddled
    BY <2>1
  <2>2. CASE ~(Steady' /\ meddled)
    <3>1. PICK a \in Kids : Usable(a)' /\ key'[a].left = key[a].left /\ key[k].left =< key[a].left
      BY <1>1, <1>3, <2>2, Retirements DEF Usable
    <3>2. key[k].left \in Nat /\ key[a].left \in Nat
      BY DEF Typed, TypeOK, KeyRow
    <3>3. key'[a].left >= n
      BY <1>1, <3>1, <3>2
    <3> QED
      BY <3>1, <3>3 DEF Reach
  <2> QED
    BY <2>1, <2>2
<1> QED
  BY <1>2, <1>3

\* A key is about to sign.
Coming == \E k \in Kids : Pending(k)

LEMMA ComingKept ==
    ASSUME Typed, HandlerInv, [Next]_vars, ~Tick, ~exposed', Coming
    PROVE  Coming' \/ (Steady' /\ meddled)
<1>1. PICK k \in Kids : Pending(k)
  BY DEF Coming
<1>2. CASE key'[k] = key[k]
  BY <1>1, <1>2 DEF Coming, Pending
<1>3. CASE key'[k] # key[k]
  BY <1>1, <1>3, Retirements DEF Pending
<1> QED
  BY <1>2, <1>3

\* A key that begins to sign has its whole validity before it.
LEMMA NewSigner ==
    ASSUME Typed, Typed', [Next]_vars, ~HasSigner, HasSigner'
    PROVE  Reach(Validity)'
<1>1. PICK k \in Kids : Usable(k)'
  BY DEF HasSigner
<1>2. key \in [Kids -> KeyRow] /\ key'[k] \in KeyRow /\ ~Usable(k) /\ Validity \in Nat \ {0}
  BY Numbers DEF Typed, TypeOK, HasSigner
<1>3. key'[k].left = Validity
  <2>1. key'[k] # key[k]
    BY <1>1, <1>2 DEF Usable
  <2>2. ASSUME NEW j \in Kids, Retires(j) \/ Deletes(j)
        PROVE  FALSE
    BY <1>1, <1>2, <2>1, <2>2 DEF Retires, Deletes, Usable, NoKey, KeyRow
  <2>3. ASSUME NEW p \in Procs, Adds(p)
        PROVE  key'[k].left = Validity
    <3>1. NewKid \in Kids /\ key' = [key EXCEPT ![NewKid] = NewRow(p)]
      BY <2>3, NewKidIsFree DEF Adds
    <3>2. key'[k] = NewRow(p)
      BY <1>2, <2>1, <3>1
    <3>3. NewRow(p).wait = 0 /\ NewRow(p).left = NewRow(p).wait + Validity
      BY <1>1, <3>2, NewRowTyped DEF Usable
    <3> QED
      BY <1>2, <3>2, <3>3
  <2>4. CASE Tick
    <3>1. key'[k] # NoKey
      BY <1>1 DEF Usable, NoKey
    <3>2. /\ key'[k].st = key[k].st
          /\ key'[k].wait = Down(key[k].wait, 0) /\ key'[k].left = Down(key[k].left, 0)
      BY <2>4, <3>1, TickKeys
    <3>3. key[k].wait \in Nat /\ key[k].left \in Nat
      BY <1>2 DEF KeyRow
    <3>4. key[k].wait = 1 /\ Pending(k)
      BY <1>1, <1>2, <3>2, <3>3 DEF Usable, Pending, Down
    <3>5. key[k].left = 1 + Validity
      BY <3>4 DEF Typed, TypeOK
    <3> QED
      BY <1>2, <3>2, <3>5 DEF Down
  <2> QED
    BY <2>1, <2>2, <2>3, <2>4, KeySteps
<1>4. key'[k].left >= Validity
  BY <1>2, <1>3
<1> QED
  BY <1>1, <1>4 DEF Reach

\* A tick takes one from what the signers reach, as long as they reach it.
LEMMA ReachTick ==
    ASSUME Typed, Tick, NEW n \in Int, Reach(n), n > 1
    PROVE  Reach(n - 1)'
<1>1. PICK k \in Kids : Usable(k) /\ key[k].left >= n
  BY DEF Reach
<1>2. key[k] \in KeyRow /\ key[k].st = "ACTIVE" /\ key[k].wait = 0
  BY <1>1 DEF Typed, TypeOK, Usable
<1>3. /\ key'[k].st = key[k].st
      /\ key'[k].wait = Down(key[k].wait, 0) /\ key'[k].left = Down(key[k].left, 0)
  BY <1>2, TickKeys
<1>4. key[k].left \in Nat
  BY <1>2 DEF KeyRow
<1>5. key'[k].wait = 0 /\ key'[k].left >= n - 1 /\ key'[k].left > 0
  BY <1>1, <1>2, <1>3, <1>4 DEF Down
<1> QED
  BY <1>2, <1>3, <1>5 DEF Reach, Usable

-----------------------------------------------------------------------------
(* A signer stays *)

\* n ticks from now come before the signers have been gone for longer than it
\* takes to make a key.
Within(n) == IF HasSigner THEN Reach(n - Delay) ELSE n =< Delay + 1 - dry

LEMMA WithinLess ==
    ASSUME Typed, NEW m \in Int, NEW n \in Int, m =< n, Within(n)
    PROVE  Within(m)
<1>1. CASE HasSigner
  <2>1. PICK k \in Kids : Usable(k) /\ key[k].left >= n - Delay
    BY <1>1 DEF Within, Reach
  <2>2. key[k].left >= m - Delay
    BY <2>1, Numbers DEF Typed, TypeOK, KeyRow
  <2> QED
    BY <1>1, <2>1, <2>2 DEF Within, Reach
<1>2. CASE ~HasSigner
  BY <1>2, Numbers DEF Within, Typed, TypeOK
<1> QED
  BY <1>1, <1>2

LEMMA WithinKept ==
    ASSUME Typed, Typed', HandlerInv, [Next]_vars, ~Tick, ~exposed',
           NEW n \in Int, n =< PublishLead + Delay, Within(n)
    PROVE  Within(n)'
<1>1. PublishLead' = PublishLead /\ PublishLead \in Nat /\ Delay \in Nat /\ dry \in Nat
  BY Lasting, Leads, Numbers DEF PublishLead, Typed, TypeOK
<1>2. CASE HasSigner
  <2>1. Reach(n - Delay)' \/ Steady'
    BY <1>1, <1>2, ReachKept DEF Within
  <2>2. CASE Reach(n - Delay)'
    BY <2>2 DEF Within, Reach, HasSigner
  <2>3. CASE Steady'
    <3>1. PICK k \in Kids : Usable(k)' /\ key'[k].left >= PublishLead
      BY <1>1, <2>3, SteadyReaches DEF Reach
    <3>2. key'[k].left >= n - Delay
      BY <1>1, <3>1 DEF Typed, TypeOK, KeyRow
    <3> QED
      BY <3>1, <3>2 DEF Within, Reach, HasSigner
  <2> QED
    BY <2>1, <2>2, <2>3
<1>3. CASE ~HasSigner /\ ~HasSigner'
  <2>1. dry' = dry
    BY <1>3, Steps
  <2> QED
    BY <1>3, <2>1 DEF Within
<1>4. CASE ~HasSigner /\ HasSigner'
  <2>1. n - Delay =< 1
    BY <1>1, <1>4 DEF Within
  <2>2. PICK k \in Kids : Usable(k)'
    BY <1>4 DEF HasSigner
  <2>3. key'[k].left > 0 /\ key'[k].left \in Nat
    BY <2>2 DEF Usable, Typed, TypeOK, KeyRow
  <2>4. key'[k].left >= n - Delay
    BY <1>1, <2>1, <2>3
  <2> QED
    BY <1>4, <2>2, <2>4 DEF Within, Reach
<1> QED
  BY <1>2, <1>3, <1>4

LEMMA WithinTick ==
    ASSUME Typed, Typed', ReturnInv, Tick, NEW n \in Int, Within(n)
    PROVE  Within(n - 1)'
<1>1. Delay \in Nat /\ dry \in Nat
  BY Numbers DEF Typed, TypeOK
<1>2. ASSUME HasSigner', n =< Delay + 1
      PROVE  Within(n - 1)'
  <2>1. PICK k \in Kids : Usable(k)'
    BY <1>2 DEF HasSigner
  <2>2. key'[k].left \in Nat
    BY DEF Typed, TypeOK, KeyRow
  <2>3. key'[k].left >= n - 1 - Delay
    BY <1>1, <1>2, <2>2
  <2> QED
    BY <1>2, <2>1, <2>3 DEF Within, Reach
<1>3. ~HasSigner' => dry' = dry \/ dry' = dry + 1
  BY DEF Tick
<1>4. CASE HasSigner
  <2>1. Reach(n - Delay) /\ dry = 0
    BY <1>4 DEF Within, ReturnInv
  <2>2. CASE n - Delay > 1
    <3>1. Reach(n - Delay - 1)'
      BY <1>1, <2>1, <2>2, ReachTick
    <3>2. PICK k \in Kids : Usable(k)' /\ key'[k].left >= n - Delay - 1
      BY <3>1 DEF Reach
    <3>3. key'[k].left >= n - 1 - Delay
      BY <1>1, <3>2 DEF Typed, TypeOK, KeyRow
    <3> QED
      BY <3>2, <3>3 DEF Within, Reach, HasSigner
  <2>3. CASE ~(n - Delay > 1)
    <3>1. CASE HasSigner'
      BY <1>1, <1>2, <2>3, <3>1
    <3>2. CASE ~HasSigner'
      <4>1. n - 1 =< Delay + 1 - dry'
        BY <1>1, <1>3, <2>1, <2>3, <3>2
      <4> QED
        BY <3>2, <4>1 DEF Within
    <3> QED
      BY <3>1, <3>2
  <2> QED
    BY <2>2, <2>3
<1>5. CASE ~HasSigner
  <2>1. n =< Delay + 1 - dry
    BY <1>5 DEF Within
  <2>2. CASE HasSigner'
    BY <1>1, <1>2, <2>1, <2>2
  <2>3. CASE ~HasSigner'
    <3>1. n - 1 =< Delay + 1 - dry'
      BY <1>1, <1>3, <2>1, <2>3
    <3> QED
      BY <2>3, <3>1 DEF Within
  <2> QED
    BY <2>2, <2>3
<1> QED
  BY <1>4, <1>5

\* Every key about to sign does so in time.
Waits == \A k \in Kids : Pending(k) => key[k].wait =< PublishLead /\ Within(key[k].wait)

\* Ticks until the key a handler is making can sign.
Underway(p) == proc[p].lead + (IF At(p, "insert") THEN 0 ELSE Delay - proc[p].age)

\* So does every key being made.
Makes == \A p \in Procs : proc[p].pc \in {"retire", "make", "insert"} /\ proc[p].lead > 0
                          => Within(Underway(p))

\* And every process comes to its next check, or makes a key, before that.
Cared(l) ==
    IF At(l, "boot") \/ proc[l].boot
    THEN HasSigner => Reach(Interval + (IF At(l, "make") THEN Delay - proc[l].age ELSE 0) + 1)
    ELSE \/ Coming
         \/ At(l, "idle") /\ Reach(proc[l].sleep + 1)
         \/ At(l, "retire") /\ (Reach(Interval + 1) \/ (proc[l].gen /\ Within(Underway(l))))
         \/ proc[l].pc \in {"make", "insert"} /\ Within(Underway(l))

StayInv == LeadDays >= Interval /\ ~exposed => Waits /\ Makes /\ \A l \in Loops : Cared(l)

LEMMA Distances ==
    ASSUME Typed, HandlerInv, NEW p \in Procs
    PROVE  /\ Underway(p) \in Nat /\ Underway(p) =< PublishLead + Delay
           /\ proc[p].lead \in Nat /\ proc[p].age \in 0..Delay /\ Delay \in Nat
           /\ proc[p].lead =< PublishLead /\ PublishLead \in Nat
           /\ proc[p].sleep \in 0..Interval /\ Interval \in Nat
<1>1. /\ proc[p].lead \in Nat /\ proc[p].age \in 0..Delay /\ Delay \in Nat
      /\ proc[p].sleep \in 0..Interval /\ Interval \in Nat
  BY Numbers DEF Typed, Handler
<1>2. proc[p].lead =< PublishLead /\ PublishLead \in Nat
  BY Leads DEF HandlerInv, Capped
<1> QED
  BY <1>1, <1>2 DEF Underway

LEMMA WaitsKept ==
    ASSUME Typed, Typed', HandlerInv, ReturnInv, Waits, Makes, [Next]_vars, ~exposed'
    PROVE  Waits'
<1> SUFFICES ASSUME NEW k \in Kids, Pending(k)'
             PROVE  key'[k].wait =< PublishLead' /\ Within(key[k].wait)'
  BY DEF Waits
<1>1. /\ key \in [Kids -> KeyRow] /\ key'[k] \in KeyRow
      /\ PublishLead' = PublishLead /\ PublishLead \in Nat /\ Delay \in Nat
  BY Lasting, Leads, Numbers DEF PublishLead, Typed, TypeOK
<1>2. PICK n \in Nat : n = key'[k].wait
  BY <1>1 DEF KeyRow
<1>3. SUFFICES n =< PublishLead /\ Within(n)'
  BY <1>1, <1>2 DEF Within, Reach
<1>4. CASE Tick
  <2>1. key'[k] # NoKey
    BY DEF Pending, NoKey
  <2>2. key'[k].st = key[k].st /\ key'[k].wait = Down(key[k].wait, 0)
    BY <1>4, <2>1, TickKeys
  <2>3. key[k].wait \in Nat
    BY <1>1 DEF KeyRow
  <2>4. Pending(k) /\ key[k].wait = n + 1
    BY <1>2, <2>2, <2>3 DEF Pending, Down
  <2>5. n + 1 =< PublishLead /\ Within(n + 1)
    BY <2>4 DEF Waits
  <2>6. Within((n + 1) - 1)'
    BY <1>4, <2>5, WithinTick
  <2>7. (n + 1) - 1 = n
    BY <1>2
  <2> QED
    BY <1>1, <2>5, <2>6, <2>7
<1>5. CASE ~Tick /\ key'[k] = key[k]
  <2>1. Pending(k) /\ n =< PublishLead /\ Within(n)
    BY <1>2, <1>5 DEF Pending, Waits
  <2>2. n =< PublishLead + Delay
    BY <1>1, <2>1
  <2> QED
    BY <1>5, <2>1, <2>2, WithinKept
<1>6. CASE ~Tick /\ key'[k] # key[k]
  <2>1. ASSUME NEW j \in Kids, Retires(j) \/ Deletes(j)
        PROVE  FALSE
    BY <1>1, <1>6, <2>1 DEF Retires, Deletes, Pending, NoKey, KeyRow
  <2>2. PICK p \in Procs : Adds(p)
    BY <1>6, <2>1, KeySteps
  <2>3. NewKid \in Kids /\ key' = [key EXCEPT ![NewKid] = NewRow(p)] /\ At(p, "insert")
    BY <2>2, NewKidIsFree DEF Adds
  <2>4. key'[k] = NewRow(p)
    BY <1>1, <1>6, <2>3
  <2>5. n = proc[p].lead
    BY <1>2, <2>4, NewRowTyped
  <2>6. n > 0
    BY <1>2 DEF Pending
  <2>7. Within(Underway(p)) /\ Underway(p) = n
    <3>1. Underway(p) = n
      BY <1>2, <2>3, <2>5 DEF Underway
    <3> QED
      BY <2>3, <2>5, <2>6, <3>1 DEF Makes, At
  <2>8. n =< PublishLead /\ n =< PublishLead + Delay
    BY <2>5, Distances
  <2> QED
    BY <1>6, <2>7, <2>8, WithinKept
<1> QED
  BY <1>4, <1>5, <1>6

\* A lead is no longer than what the signer it is counted from has left.
LEMMA LeadWithin ==
    ASSUME Typed, NEW a \in Signers, NEW n \in Nat, n = Lead(a)
    PROVE  Within(n + Delay) /\ HasSigner
<1>1. a \in Kids /\ Usable(a) /\ key[a].left \in Nat
  BY DEF Signers, Typed, TypeOK, KeyRow
<1>2. n =< key[a].left
  BY <1>1, Leads DEF Lead
<1>3. key[a].left >= (n + Delay) - Delay
  BY <1>1, <1>2, Numbers
<1> QED
  BY <1>1, <1>3 DEF Within, Reach, HasSigner

LEMMA MakesKept ==
    ASSUME Typed, Typed', HandlerInv, ReturnInv, Makes, [Next]_vars, ~exposed'
    PROVE  Makes'
<1> SUFFICES ASSUME NEW p \in Procs, proc'[p].pc \in {"retire", "make", "insert"}, proc'[p].lead > 0
             PROVE  Within(Underway(p))'
  BY DEF Makes
<1>1. /\ proc[p] \in Handler /\ proc'[p] \in Handler /\ Delay \in Nat
      /\ proc'[p].age \in 0..Delay /\ proc'[p].lead \in Nat
  BY Numbers DEF Typed, Handler
<1>2. PICK m \in Nat : m = Underway(p)
  BY Distances
<1>3. PICK n \in Nat : n = Underway(p)'
  BY <1>1 DEF Underway
<1>4. SUFFICES Within(n)'
  BY <1>3 DEF Within, Reach
<1>5. m =< PublishLead + Delay
  BY <1>2, Distances
<1>6. CASE Tick
  <2>1. /\ proc[p].pc = "make" /\ proc'[p].pc = "make"
        /\ proc'[p].lead = proc[p].lead /\ proc'[p].age = proc[p].age + 1
    BY <1>6, TickHandlers DEF At
  <2>2. Within(m)
    BY <1>2, <2>1 DEF Makes
  <2>3. n = m - 1
    BY <1>1, <1>2, <1>3, <2>1, Distances DEF Underway, At
  <2>4. Within(m - 1)'
    BY <1>6, <2>2, WithinTick
  <2> QED
    BY <2>3, <2>4
<1>7. CASE ~Tick /\ proc'[p] = proc[p]
  <2>1. n = m
    BY <1>2, <1>3, <1>7 DEF Underway, At
  <2>2. Within(m)
    BY <1>2, <1>7 DEF Makes
  <2> QED
    BY <1>5, <1>7, <2>1, <2>2, WithinKept
<1>8. CASE ~Tick /\ proc'[p] # proc[p]
  <2>1. Booting
    BY DEF HandlerInv
  <2>2. CASE /\ proc[p].pc \in {"retire", "make"} /\ proc'[p].lead = proc[p].lead
    <3>1. Within(m)
      BY <1>2, <2>2 DEF Makes
    <3>2. n =< m
      <4>1. proc'[p].pc = "insert" \/ proc'[p].age = proc[p].age
        <5>1. CASE p \in Loops
          <6>1. LoopStep(p)
            BY <1>8, <5>1, Steps
          <6>2. RetireOvertaken(p) \/ MakeKey(p) \/ proc'[p].pc \in {"idle", "boot"}
            BY <1>1, <2>2, <6>1 DEF LoopStep, Boot, RotateIfNeeded, CheckFails, Restart, InsertKey,
                                    At, Return, Idles, Idle, Goto, Typed
          <6>3. CASE RetireOvertaken(p)
            BY <1>1, <6>3 DEF RetireOvertaken, Goto, Return, Idles, Idle, Typed, Handler
          <6>4. CASE MakeKey(p)
            BY <1>1, <6>4 DEF MakeKey, Goto, Typed, Handler
          <6> QED
            BY <6>2, <6>3, <6>4
        <5>2. CASE p \in Admins
          <6>1. AdminStep(p)
            BY <1>8, <5>2, Steps
          <6>2. RetireWrite(p) \/ MakeKey(p)
            BY <2>2, <6>1 DEF AdminStep, GenerateKey, RetireKey, InsertKey, Act, At
          <6>3. ~Return(p)
            BY <1>1 DEF Return, Idles, Idle, Typed
          <6>4. MakeKey(p)
            BY <6>2, <6>3 DEF RetireWrite
          <6> QED
            BY <1>1, <6>4 DEF MakeKey, Goto, Typed, Handler
        <5> QED
          BY <5>1, <5>2 DEF Procs
      <4> QED
        BY <1>1, <1>2, <1>3, <2>2, <4>1, Distances DEF Underway, At
    <3>3. Within(n)
      BY <1>2, <1>3, <3>1, <3>2, WithinLess
    <3>4. n =< PublishLead + Delay
      BY <1>2, <1>3, <1>5, <3>2, Distances
    <3> QED
      BY <1>8, <3>3, <3>4, WithinKept
  <2>3. CASE \E a \in Signers : /\ proc'[p].pc \in {"retire", "make"} /\ proc'[p].age = 0
                                /\ proc'[p].lead = Lead(a)
    <3>1. PICK a \in Signers : /\ proc'[p].pc \in {"retire", "make"} /\ proc'[p].age = 0
                               /\ proc'[p].lead = Lead(a)
      BY <2>3
    <3>2. PICK i \in Nat : i = Lead(a)
      BY <1>1, <3>1
    <3>3. n = i + Delay /\ i =< PublishLead
      BY <1>1, <1>3, <3>1, <3>2, Leads DEF Underway, At, Signers
    <3>4. Within(n)
      BY <3>2, <3>3, LeadWithin
    <3>5. n =< PublishLead + Delay
      BY <1>1, <3>2, <3>3, Leads
    <3> QED
      BY <1>8, <3>4, <3>5, WithinKept
  <2>4. \/ /\ proc[p].pc \in {"retire", "make"} /\ proc'[p].lead = proc[p].lead
        \/ \E a \in Signers : /\ proc'[p].pc \in {"retire", "make"} /\ proc'[p].age = 0
                              /\ proc'[p].lead = Lead(a)
    BY <1>8, <2>1, HandlerSteps
  <2> QED
    BY <2>2, <2>3, <2>4
<1> QED
  BY <1>6, <1>7, <1>8

\* While a key lasts, no process is late.
LEMMA CaredWhenSteady ==
    ASSUME Typed', HandlerInv', Steady', NEW l \in Loops
    PROVE  Cared(l)'
<1>1. /\ proc'[l] \in Handler /\ Delay \in Nat /\ Interval \in Nat
      /\ proc'[l].age \in 0..Delay /\ proc'[l].lead \in Nat /\ proc'[l].sleep \in 0..Interval
      /\ proc'[l].pc \in {"idle", "boot", "make", "insert", "retire"}
      /\ proc'[l].lead =< PublishLead' /\ l \in Procs
  BY Numbers DEF Typed, Handler, HandlerInv, Capped
<1>2. HasSigner' /\ \E k \in Kids : Usable(k)' /\ key'[k].left >= Interval + Delay + 1
  BY SteadyReaches DEF Reach
<1>3. ASSUME NEW n \in Int, n =< Interval + Delay + 1
      PROVE  Reach(n)'
  <2>1. PICK k \in Kids : Usable(k)' /\ key'[k].left >= Interval + Delay + 1
    BY <1>2
  <2>2. key'[k].left >= n
    BY <1>1, <1>3, <2>1 DEF Typed, TypeOK, KeyRow
  <2> QED
    BY <2>1, <2>2 DEF Reach
<1>4. Within(Underway(l))'
  <2>1. PICK k \in Kids : Usable(k)' /\ key'[k].left >= PublishLead'
    BY SteadyReaches DEF Reach
  <2>2. PublishLead' \in Nat
    BY Leads, KeysAssumption DEF PublishLead, Typed, TypeOK
  <2>3. key'[k].left >= Underway(l)' - Delay
    <3>1. key'[k].left \in Nat
      BY DEF Typed, TypeOK, KeyRow
    <3>2. Underway(l)' - Delay =< proc'[l].lead /\ Underway(l)' \in Nat
      BY <1>1 DEF Underway
    <3> QED
      BY <1>1, <2>1, <2>2, <3>1, <3>2
  <2> QED
    BY <1>2, <2>1, <2>3 DEF Within, Reach
<1>5. PICK s \in Nat : s = proc'[l].sleep + 1 /\ s =< Interval + Delay + 1
  BY <1>1
<1>6. PICK b \in Nat : /\ b = Interval + (IF At(l, "make")' THEN Delay - proc'[l].age ELSE 0) + 1
                       /\ b =< Interval + Delay + 1
  BY <1>1
<1>7. Reach(s)' /\ Reach(b)' /\ Reach(Interval + 1)'
  BY <1>1, <1>3, <1>5, <1>6
<1>8. /\ At(l, "idle")' => Reach(proc[l].sleep + 1)'
      /\ Reach(Interval + (IF At(l, "make") THEN Delay - proc[l].age ELSE 0) + 1)'
  BY <1>5, <1>6, <1>7 DEF Reach
<1>9. CASE At(l, "boot")' \/ proc'[l].boot
  BY <1>8, <1>9 DEF Cared
<1>10. CASE ~(At(l, "boot")' \/ proc'[l].boot)
  BY <1>1, <1>4, <1>7, <1>8, <1>10 DEF Cared, At
<1> QED
  BY <1>9, <1>10

LEMMA ReachLess ==
    ASSUME Typed', NEW m \in Int, NEW n \in Int, m =< n, Reach(n)'
    PROVE  Reach(m)'
<1>1. PICK k \in Kids : Usable(k)' /\ key'[k].left >= n
  BY DEF Reach
<1>2. key'[k].left >= m
  BY <1>1 DEF Typed, TypeOK, KeyRow
<1> QED
  BY <1>1, <1>2 DEF Reach

\* What Cared asks of a process, from distances that are fixed.
LEMMA CaredWhen ==
    ASSUME Typed', Booting', NEW l \in Loops, NEW n \in Int,
           \/ /\ At(l, "boot")' \/ proc'[l].boot
              /\ n = Interval + (IF At(l, "make")' THEN Delay - proc'[l].age ELSE 0) + 1
              /\ HasSigner' => Reach(n)'
           \/ /\ ~At(l, "boot")' /\ ~proc'[l].boot
              /\ \/ Coming'
                 \/ At(l, "idle")' /\ n = proc'[l].sleep + 1 /\ Reach(n)'
                 \/ At(l, "retire")' /\ n = Interval + 1 /\ Reach(n)'
                 \/ At(l, "retire")' /\ proc'[l].gen /\ n = Underway(l)' /\ Within(n)'
                 \/ proc'[l].pc \in {"make", "insert"} /\ n = Underway(l)' /\ Within(n)'
    PROVE  Cared(l)'
<1>1. ASSUME Within(n)', n = Underway(l)' PROVE Within(Underway(l))'
  BY <1>1 DEF Within, Reach
<1>2. ASSUME Reach(n)', n = proc'[l].sleep + 1 PROVE Reach(proc[l].sleep + 1)'
  BY <1>2 DEF Reach
<1>3. ASSUME Reach(n)', n = Interval + 1 PROVE Reach(Interval + 1)'
  BY <1>3
<1>4. ASSUME Reach(n)', n = Interval + (IF At(l, "make")' THEN Delay - proc'[l].age ELSE 0) + 1
      PROVE  Reach(Interval + (IF At(l, "make") THEN Delay - proc[l].age ELSE 0) + 1)'
  BY <1>4 DEF Reach
<1>5. CASE At(l, "boot")' \/ proc'[l].boot
  BY <1>4, <1>5 DEF Cared
<1>6. CASE ~(At(l, "boot")' \/ proc'[l].boot)
  BY <1>1, <1>2, <1>3, <1>6 DEF Cared
<1> QED
  BY <1>5, <1>6

\* A process that is where it was is cared for as it was.
LEMMA CaredStill ==
    ASSUME Typed, Typed', HandlerInv, HandlerInv', [Next]_vars, ~Tick, ~exposed',
           NEW l \in Loops, Cared(l),
           /\ proc'[l].pc = proc[l].pc /\ proc'[l].age = proc[l].age
           /\ proc'[l].lead = proc[l].lead /\ proc'[l].gen = proc[l].gen
           /\ proc'[l].boot = proc[l].boot /\ proc'[l].sleep = proc[l].sleep
    PROVE  Cared(l)'
<1>1. CASE Steady'
  BY <1>1, CaredWhenSteady
<1>2. CASE ~Steady'
  <2>1. /\ l \in Procs /\ Booting' /\ Delay \in Nat /\ Interval \in Nat /\ Validity \in Nat
        /\ proc[l].age \in 0..Delay /\ proc[l].sleep \in 0..Interval
        /\ Validity > Interval + Delay
    BY Numbers, Distances DEF HandlerInv
  <2>2. \A pc : At(l, pc)' <=> At(l, pc)
    BY DEF At
  <2>3. ASSUME NEW n \in Int, Reach(n) PROVE Reach(n)'
    BY <1>2, <2>3, ReachKept
  <2>4. CASE At(l, "boot") \/ proc[l].boot
    <3>1. PICK n \in Int : n = Interval + (IF At(l, "make") THEN Delay - proc[l].age ELSE 0) + 1
      BY <2>1
    <3>2. HasSigner => Reach(n)
      BY <2>4, <3>1 DEF Cared, Reach
    <3>3. n =< Validity
      BY <2>1, <3>1
    <3>4. HasSigner' => Reach(n)'
      BY <2>1, <2>3, <3>2, <3>3, NewSigner, ReachLess
    <3> QED
      BY <2>1, <2>2, <2>4, <3>1, <3>4, CaredWhen
  <2>5. CASE ~(At(l, "boot") \/ proc[l].boot)
    <3>1. ~At(l, "boot")' /\ ~proc'[l].boot
      BY <2>2, <2>5
    <3>2. PICK u \in Int : u = Underway(l) /\ u = Underway(l)' /\ u =< PublishLead + Delay
      BY <2>1, Distances DEF Underway, At
    <3>3. Within(Underway(l)) => Within(u)'
      BY <3>2, WithinKept
    <3>4. PICK s \in Int : s = proc[l].sleep + 1
      BY <2>1
    <3>5. Coming => Coming'
      BY <1>2, ComingKept
    <3>6. CASE Coming
      BY <2>1, <3>1, <3>5, <3>6, CaredWhen
    <3>7. CASE At(l, "idle") /\ Reach(proc[l].sleep + 1)
      <4>1. Reach(s)'
        BY <2>3, <3>4, <3>7
      <4> QED
        BY <2>1, <2>2, <3>1, <3>4, <3>7, <4>1, CaredWhen
    <3>8. CASE At(l, "retire") /\ Reach(Interval + 1)
      <4>1. Reach(Interval + 1)' /\ Interval + 1 \in Int
        BY <2>1, <2>3, <3>8
      <4> QED
        BY <2>1, <2>2, <3>1, <3>8, <4>1, CaredWhen
    <3>9. CASE /\ (At(l, "retire") /\ proc[l].gen) \/ proc[l].pc \in {"make", "insert"}
               /\ Within(Underway(l))
      BY <2>1, <2>2, <3>1, <3>2, <3>3, <3>9, CaredWhen
    <3> QED
      BY <2>5, <3>6, <3>7, <3>8, <3>9 DEF Cared
  <2> QED
    BY <2>4, <2>5
<1> QED
  BY <1>1, <1>2

\* The steps of the process itself.
LEMMA CaredOwnStep ==
    ASSUME Typed, Typed', HandlerInv, HandlerInv', [Next]_vars, ~Tick, ~exposed',
           LeadDays >= Interval, Makes,
           NEW l \in Loops, Cared(l), LoopStep(l)
    PROVE  Cared(l)'
<1>1. /\ l \in Procs /\ proc \in [Procs -> Handler] /\ proc[l] \in Handler
      /\ Booting /\ Booting' /\ Delay \in Nat /\ Interval \in Nat /\ Validity \in Nat
      /\ proc[l].age \in 0..Delay /\ proc[l].sleep \in 0..Interval /\ proc[l].lead \in Nat
      /\ Validity > Interval + Delay /\ key \in [Kids -> KeyRow]
  BY Numbers, Distances DEF HandlerInv, Typed, TypeOK
<1>2. ASSUME UNCHANGED key, NEW n \in Int
      PROVE  (Reach(n)' <=> Reach(n)) /\ (HasSigner' <=> HasSigner) /\ (Coming' <=> Coming)
  BY <1>2 DEF Reach, HasSigner, Coming, Usable, Pending
<1>3. ASSUME UNCHANGED <<key, dry>>, NEW n \in Int
      PROVE  Within(n)' <=> Within(n)
  BY <1>3 DEF Within, Reach, HasSigner, Usable
<1>4. ASSUME Return(l)
      PROVE  /\ proc'[l].pc = "idle" /\ At(l, "idle")' /\ proc'[l].sleep = Interval
             /\ ~proc'[l].boot /\ ~At(l, "boot")' /\ Interval + 1 \in Int
  BY <1>1, <1>4, Idleness DEF Return, Idles, Idle, At
<1>5. ASSUME Return(l), Reach(Interval + 1)' \/ Coming'
      PROVE  Cared(l)'
  BY <1>1, <1>4, <1>5, CaredWhen
<1>6. CASE Boot(l)
  <2>1. At(l, "boot") /\ ~At(l, "make") /\ UNCHANGED key
    BY <1>6 DEF Boot, At
  <2>2. CASE HasSigner
    <3>1. Return(l)
      BY <1>6, <2>2 DEF Boot
    <3>2. Reach(Interval + 0 + 1)
      BY <2>1, <2>2 DEF Cared
    <3>3. Reach(Interval + 1) /\ Interval + 1 \in Int
      BY <1>1, <3>2
    <3> QED
      BY <1>2, <1>5, <2>1, <3>1, <3>3
  <2>3. CASE ~HasSigner
    <3>1. proc'[l].boot
      BY <1>1, <1>6, <2>3 DEF Boot, Goto, Idle
    <3>2. ~HasSigner'
      BY <2>1, <2>3, <1>2
    <3> QED
      BY <3>1, <3>2 DEF Cared
  <2> QED
    BY <2>2, <2>3
<1>7. CASE RotateIfNeeded(l)
  <2>1. At(l, "idle") /\ proc[l].sleep = 0 /\ UNCHANGED <<key, dry, settings>>
    BY <1>7 DEF RotateIfNeeded
  <2>2. ~At(l, "boot") /\ ~At(l, "retire") /\ proc[l].pc \notin {"make", "insert"} /\ ~proc[l].boot
    BY <1>1, <2>1 DEF At, Booting
  <2>3. Coming \/ Reach(0 + 1)
    BY <2>1, <2>2 DEF Cared
  <2>4. Reach(0 + 1) => HasSigner
    BY DEF Reach, HasSigner
  <2>5. CASE Coming
    <3>1. Coming'
      BY <1>2, <2>1, <2>5
    <3>2. ~At(l, "boot")' /\ ~proc'[l].boot
      <4>1. CASE Goto(l, [Idle EXCEPT !.pc = "make"])
        BY <1>1, <4>1 DEF Goto, Idle, At
      <4>2. ASSUME NEW a, NEW due, NEW list, NEW lead,
                   Goto(l, [Idle EXCEPT !.pc = "retire", !.by = {a}, !.list = list,
                                        !.gen = due, !.lead = lead])
            PROVE  ~At(l, "boot")' /\ ~proc'[l].boot
        BY <1>1, <4>2 DEF Goto, Idle, At
      <4> QED
        BY <1>7, <4>1, <4>2 DEF RotateIfNeeded
    <3> QED
      BY <1>1, <3>1, <3>2, CaredWhen
  <2>6. CASE ~Coming
    <3>1. PICK a \in Signers :
             Goto(l, [Idle EXCEPT !.pc = "retire", !.by = {a}, !.list = Overtaken(a),
                                  !.gen = SuccessorDue(a),
                                  !.lead = IF SuccessorDue(a) THEN Lead(a) ELSE 0])
      BY <1>7, <2>3, <2>4, <2>6 DEF RotateIfNeeded
    <3>2. /\ proc'[l].pc = "retire" /\ ~proc'[l].boot /\ proc'[l].age = 0
          /\ proc'[l].gen = SuccessorDue(a)
          /\ proc'[l].lead = IF SuccessorDue(a) THEN Lead(a) ELSE 0
      BY <1>1, <3>1 DEF Goto, Idle
    <3>3. At(l, "retire")' /\ ~At(l, "boot")' /\ ~At(l, "insert")'
      BY <3>2 DEF At
    <3>4. a \in Kids /\ Usable(a) /\ key[a].left \in Nat /\ Lead(a) \in Nat /\ LeadDays \in Nat
      BY <1>1, Leads DEF Signers, KeyRow
    <3>5. CASE SuccessorDue(a)
      <4>1. PICK i \in Nat : i = Lead(a)
        BY <3>4
      <4>2. Within(i + Delay)
        BY <4>1, LeadWithin
      <4>3. i + Delay \in Int /\ i + Delay = Underway(l)'
        BY <1>1, <3>2, <3>3, <3>5, <4>1 DEF Underway
      <4>4. Within(i + Delay)'
        BY <1>3, <2>1, <4>2, <4>3
      <4> QED
        BY <1>1, <3>2, <3>3, <3>5, <4>3, <4>4, CaredWhen
    <3>6. CASE ~SuccessorDue(a)
      <4>1. ~(key[a].left =< LeadDays)
        BY <2>6, <3>6 DEF SuccessorDue, Coming
      <4>2. key[a].left >= Interval + 1
        BY <1>1, <3>4, <4>1
      <4>3. Reach(Interval + 1)
        BY <3>4, <4>2 DEF Reach
      <4>4. Reach(Interval + 1)' /\ Interval + 1 \in Int
        BY <1>1, <1>2, <2>1, <4>3
      <4> QED
        BY <1>1, <3>2, <3>3, <4>4, CaredWhen
    <3> QED
      BY <3>5, <3>6
  <2> QED
    BY <2>5, <2>6
<1>8. CASE RetireOvertaken(l)
  <2>1. /\ At(l, "retire") /\ ~At(l, "boot") /\ ~At(l, "idle")
        /\ proc[l].pc \notin {"make", "insert"} /\ ~proc[l].boot /\ UNCHANGED <<dry, settings>>
    BY <1>1, <1>8 DEF RetireOvertaken, At, Booting
  <2>2. Coming \/ Reach(Interval + 1) \/ (proc[l].gen /\ Within(Underway(l)))
    BY <2>1 DEF Cared
  <2>3. CASE proc[l].list = {} /\ proc[l].gen
    <3>1. Goto(l, [proc[l] EXCEPT !.pc = "make"]) /\ UNCHANGED key
      BY <1>8, <2>3 DEF RetireOvertaken
    <3>2. /\ proc'[l].pc = "make" /\ proc'[l].lead = proc[l].lead /\ proc'[l].age = proc[l].age
          /\ ~proc'[l].boot
      BY <1>1, <2>1, <3>1 DEF Goto, Handler
    <3>3. PICK u \in Nat : u = Underway(l) /\ u = Underway(l)'
      BY <1>1, <2>1, <3>2, Distances DEF Underway, At
    <3>4. CASE Coming
      BY <1>1, <1>2, <3>1, <3>2, <3>4, CaredWhen DEF At
    <3>5. CASE ~Coming
      <4>1. Within(u)
        <5>1. CASE proc[l].lead > 0
          BY <1>1, <2>1, <3>3, <5>1 DEF Makes, At
        <5>2. CASE Within(Underway(l))
          BY <3>3, <5>2
        <5>3. CASE ~(proc[l].lead > 0) /\ Reach(Interval + 1)
          <6>1. u =< Delay
            BY <1>1, <2>1, <3>3, <5>3 DEF Underway
          <6>2. PICK k \in Kids : Usable(k)
            BY <5>3 DEF Reach
          <6>3. key[k].left \in Nat
            BY <1>1 DEF KeyRow
          <6>4. key[k].left >= u - Delay
            BY <1>1, <6>1, <6>3
          <6> QED
            BY <6>2, <6>4 DEF Within, HasSigner, Reach
        <5> QED
          BY <2>2, <3>5, <5>1, <5>2, <5>3
      <4>2. Within(u)'
        BY <1>3, <2>1, <3>1, <4>1
      <4>3. ~At(l, "boot")' /\ ~proc'[l].boot /\ proc'[l].pc \in {"make", "insert"}
        BY <3>2 DEF At
      <4> QED
        BY <1>1, <3>3, <4>2, <4>3, CaredWhen
    <3> QED
      BY <3>4, <3>5
  <2>4. CASE proc[l].list = {} /\ ~proc[l].gen
    <3>1. Return(l) /\ UNCHANGED key
      BY <1>8, <2>4 DEF RetireOvertaken
    <3>2. (Coming => Coming') /\ (Reach(Interval + 1) => Reach(Interval + 1)')
      BY <1>2, <1>4, <3>1
    <3> QED
      BY <1>5, <2>2, <2>4, <3>1, <3>2
  <2>5. CASE proc[l].list # {}
    <3>1. PICK k \in proc[l].list :
             \/ UNCHANGED key /\ exposed' = (exposed \/ ~Steady)
             \/ Goto(l, [proc[l] EXCEPT !.list = @ \ {k}])
      BY <1>8, <2>5 DEF RetireOvertaken
    <3>2. CASE UNCHANGED key /\ exposed' = (exposed \/ ~Steady)
      <4>1. Steady'
        BY <2>1, <3>2 DEF Steady, Lasts, Usable, PublishLead
      <4> QED
        BY <4>1, CaredWhenSteady
    <3>3. CASE Goto(l, [proc[l] EXCEPT !.list = @ \ {k}])
      <4>1. /\ proc'[l].pc = proc[l].pc /\ proc'[l].age = proc[l].age
            /\ proc'[l].lead = proc[l].lead /\ proc'[l].gen = proc[l].gen
            /\ proc'[l].boot = proc[l].boot /\ proc'[l].sleep = proc[l].sleep
        BY <1>1, <3>3 DEF Goto, Handler
      <4> QED
        BY <4>1, CaredStill
    <3> QED
      BY <3>1, <3>2, <3>3
  <2> QED
    BY <2>3, <2>4, <2>5
<1>9. CASE CheckFails(l)
  <2>1. Steady'
    BY <1>9 DEF CheckFails, Steady, Lasts, Usable, PublishLead
  <2> QED
    BY <2>1, CaredWhenSteady
<1>10. CASE Restart(l)
  <2>1. CASE HasSigner
    <3>1. Steady'
      BY <1>10, <2>1 DEF Restart, Steady, Lasts, Usable, PublishLead
    <3> QED
      BY <3>1, CaredWhenSteady
  <2>2. CASE ~HasSigner
    <3>1. At(l, "boot")' /\ UNCHANGED key
      BY <1>1, <1>10 DEF Restart, Goto, Idle, At
    <3>2. ~HasSigner'
      BY <1>2, <2>2, <3>1
    <3> QED
      BY <3>1, <3>2 DEF Cared
  <2> QED
    BY <2>1, <2>2
<1>11. CASE MakeKey(l)
  <2>1. /\ proc[l].pc = "make" /\ proc'[l].pc = "insert" /\ UNCHANGED <<key, dry>>
        /\ proc'[l].lead = proc[l].lead /\ proc'[l].boot = proc[l].boot
    BY <1>1, <1>11 DEF MakeKey, Goto, At, Handler
  <2>2. /\ At(l, "make") /\ ~At(l, "boot") /\ ~At(l, "idle") /\ ~At(l, "retire")
        /\ At(l, "insert")' /\ ~At(l, "boot")' /\ ~At(l, "make")' /\ ~At(l, "insert")
    BY <2>1 DEF At
  <2>3. CASE proc[l].boot
    <3>1. PICK n \in Int : n = Interval + (Delay - proc[l].age) + 1
      BY <1>1
    <3>2. HasSigner => Reach(n)
      BY <2>2, <2>3, <3>1 DEF Cared
    <3>3. Interval + 1 =< n /\ Interval + 1 \in Int
      BY <1>1, <3>1
    <3>4. HasSigner' => Reach(Interval + 1)'
      BY <1>2, <2>1, <3>1, <3>2, <3>3, ReachLess
    <3>5. Interval + 1 = Interval + 0 + 1
      BY <1>1
    <3> QED
      BY <1>1, <2>1, <2>2, <2>3, <3>3, <3>4, <3>5, CaredWhen
  <2>4. CASE ~proc[l].boot
    <3>1. Coming \/ Within(Underway(l))
      BY <2>2, <2>4 DEF Cared
    <3>2. CASE Coming
      <4>1. Coming'
        BY <1>2, <2>1, <3>2
      <4> QED
        BY <1>1, <2>1, <2>2, <2>4, <4>1, CaredWhen
    <3>3. CASE Within(Underway(l))
      <4>1. PICK u \in Int : u = Underway(l)
        BY <1>1, Distances
      <4>2. PICK n \in Int : n = Underway(l)' /\ n =< u
        BY <1>1, <2>1, <2>2, <4>1 DEF Underway
      <4>3. Within(n)
        BY <3>3, <4>1, <4>2, WithinLess
      <4>4. Within(n)'
        BY <1>3, <2>1, <4>3
      <4> QED
        BY <1>1, <2>1, <2>2, <2>4, <4>2, <4>4, CaredWhen
    <3> QED
      BY <3>1, <3>2, <3>3
  <2> QED
    BY <2>3, <2>4
<1>12. CASE InsertKey(l)
  <2>1. At(l, "insert") /\ Return(l) /\ ~At(l, "make") /\ ~At(l, "boot")
    BY <1>12 DEF InsertKey, At
  <2>2. CASE proc[l].boot /\ HasSigner
    <3>1. UNCHANGED key
      BY <1>12, <2>2 DEF InsertKey
    <3>2. Reach(Interval + 0 + 1)
      BY <2>1, <2>2 DEF Cared
    <3>3. Reach(Interval + 1) /\ Interval + 1 \in Int
      BY <1>1, <3>2
    <3> QED
      BY <1>2, <1>5, <2>1, <3>1, <3>3
  <2>3. CASE ~(proc[l].boot /\ HasSigner)
    <3>1. NewKid \in Kids /\ key' = [key EXCEPT ![NewKid] = NewRow(l)]
      BY <1>12, <2>3, NewKidIsFree DEF InsertKey
    <3>2. /\ key'[NewKid].st = "ACTIVE" /\ key'[NewKid].wait = proc[l].lead
          /\ key'[NewKid].left = proc[l].lead + Validity
      BY <1>1, <3>1, NewRowTyped
    <3>3. CASE proc[l].lead = 0
      <4>1. key'[NewKid].left > 0 /\ key'[NewKid].left >= Interval + 1
        BY <1>1, <3>2, <3>3
      <4>2. Reach(Interval + 1)'
        BY <3>1, <3>2, <3>3, <4>1 DEF Reach, Usable
      <4> QED
        BY <1>5, <2>1, <4>2
    <3>4. CASE proc[l].lead # 0
      <4>1. Coming'
        BY <1>1, <3>1, <3>2, <3>4 DEF Coming, Pending
      <4> QED
        BY <1>5, <2>1, <4>1
    <3> QED
      BY <3>3, <3>4
  <2> QED
    BY <2>2, <2>3
<1> QED
  BY <1>6, <1>7, <1>8, <1>9, <1>10, <1>11, <1>12 DEF LoopStep

\* A key about to sign waits on, or signs.
LEMMA ComingTick ==
    ASSUME Typed, Tick, Coming
    PROVE  Coming' \/ (Reach(Validity)' /\ HasSigner')
<1>1. PICK k \in Kids : Pending(k)
  BY DEF Coming
<1>2. /\ key[k].wait \in Nat /\ key[k].left \in Nat /\ Validity \in Nat \ {0}
      /\ key[k].left = key[k].wait + Validity /\ key[k].wait > 0 /\ key[k].st = "ACTIVE"
  BY <1>1, Numbers DEF Typed, TypeOK, KeyRow, Pending
<1>3. /\ key'[k].st = "ACTIVE"
      /\ key'[k].wait = key[k].wait - 1 /\ key'[k].left = key[k].left - 1
  BY <1>2, TickKeys DEF Down
<1>4. CASE key[k].wait = 1
  <2>1. key'[k].wait = 0 /\ key'[k].left > 0 /\ key'[k].left >= Validity
    BY <1>2, <1>3, <1>4
  <2> QED
    BY <1>3, <2>1 DEF Reach, HasSigner, Usable
<1>5. CASE key[k].wait # 1
  <2>1. key'[k].wait > 0
    BY <1>2, <1>3, <1>5
  <2> QED
    BY <1>3, <2>1 DEF Coming, Pending
<1> QED
  BY <1>4, <1>5

LEMMA CaredTick ==
    ASSUME Typed, Typed', HandlerInv, HandlerInv', ReturnInv, Tick, Makes',
           NEW l \in Loops, Cared(l)
    PROVE  Cared(l)'
<1>1. /\ l \in Procs /\ Booting /\ Booting' /\ Delay \in Nat /\ Validity \in Nat
      /\ Interval \in Nat \ {0} /\ Validity > Interval + Delay /\ key \in [Kids -> KeyRow]
      /\ proc[l].age \in 0..Delay /\ proc'[l].age \in 0..Delay
      /\ proc[l].sleep \in 0..Interval /\ proc[l].lead \in Nat
  BY Numbers, Distances DEF HandlerInv, Typed, TypeOK, Handler
<1>2. /\ proc[l].pc \in {"idle", "make"}
      /\ proc'[l].pc = proc[l].pc /\ proc'[l].lead = proc[l].lead /\ proc'[l].boot = proc[l].boot
      /\ At(l, "idle") => proc[l].sleep > 0 /\ proc'[l].sleep = proc[l].sleep - 1
      /\ At(l, "make") => proc'[l].age = proc[l].age + 1
  BY <1>1, TickHandlers
<1>3. /\ \A pc : At(l, pc)' <=> At(l, pc)
      /\ ~At(l, "boot") /\ ~At(l, "retire") /\ ~At(l, "insert") /\ (At(l, "idle") \/ At(l, "make"))
  BY <1>2 DEF At
<1>4. CASE proc[l].boot
  <2>1. At(l, "make")
    BY <1>1, <1>3, <1>4 DEF Booting, At
  <2>2. PICK n \in Int : n = Interval + (Delay - proc[l].age) + 1
    BY <1>1
  <2>3. HasSigner => Reach(n)
    BY <1>4, <2>1, <2>2 DEF Cared
  <2>4. n > 1 /\ n - 1 \in Int /\ n - 1 = Interval + (Delay - proc'[l].age) + 1 /\ n - 1 =< Validity
    BY <1>1, <1>2, <2>1, <2>2
  <2>5. HasSigner' => Reach(n - 1)'
    <3>1. [Next]_vars
      BY DEF Next
    <3>2. HasSigner => Reach(n - 1)'
      BY <2>3, <2>4, ReachTick
    <3>3. ~HasSigner /\ HasSigner' => Reach(n - 1)'
      BY <1>1, <2>4, <3>1, NewSigner, ReachLess
    <3> QED
      BY <3>2, <3>3
  <2> QED
    BY <1>1, <1>2, <1>3, <1>4, <2>1, <2>4, <2>5, CaredWhen
<1>5. CASE ~proc[l].boot /\ At(l, "make")
  <2>1. PICK u \in Int : u = Underway(l)'
    BY <1>1, <1>2 DEF Underway
  <2>2. CASE proc[l].lead > 0
    <3>1. Within(u)'
      BY <1>1, <1>2, <1>5, <2>1, <2>2 DEF Makes, At, Within, Reach
    <3> QED
      BY <1>1, <1>2, <1>3, <1>5, <2>1, <3>1, CaredWhen DEF At
  <2>3. CASE ~(proc[l].lead > 0)
    <3>1. u =< Delay
      BY <1>1, <1>2, <2>1, <2>3 DEF Underway
    <3>2. CASE HasSigner'
      <4>1. PICK k \in Kids : Usable(k)'
        BY <3>2 DEF HasSigner
      <4>2. key'[k].left \in Nat
        BY DEF Typed, TypeOK, KeyRow
      <4>3. key'[k].left >= u - Delay
        BY <1>1, <3>1, <4>2
      <4>4. Within(u)'
        BY <3>2, <4>1, <4>3 DEF Within, Reach
      <4> QED
        BY <1>1, <1>2, <1>3, <1>5, <2>1, <4>4, CaredWhen DEF At
    <3>3. CASE ~HasSigner'
      <4>1. CASE Within(Underway(l))
        <5>1. PICK m \in Int : m = Underway(l) /\ u = m - 1
          BY <1>1, <1>2, <1>3, <1>5, <2>1, Distances DEF Underway
        <5>2. Within(m - 1)'
          BY <4>1, <5>1, WithinTick
        <5> QED
          BY <1>1, <1>2, <1>3, <1>5, <2>1, <5>1, <5>2, CaredWhen DEF At
      <4>2. CASE Coming
        <5>1. Coming'
          BY <3>3, <4>2, ComingTick
        <5> QED
          BY <1>1, <1>2, <1>3, <1>5, <5>1, CaredWhen
      <4> QED
        BY <1>3, <1>5, <4>1, <4>2 DEF Cared, At
    <3> QED
      BY <3>2, <3>3
  <2> QED
    BY <2>2, <2>3
<1>6. CASE ~proc[l].boot /\ At(l, "idle")
  <2>1. PICK n \in Int : n = proc[l].sleep + 1
    BY <1>1
  <2>2. n > 1 /\ n - 1 \in Int /\ n - 1 = proc'[l].sleep + 1 /\ n - 1 =< Validity
    BY <1>1, <1>2, <1>6, <2>1
  <2>3. Coming \/ Reach(n)
    BY <1>3, <1>6, <2>1 DEF Cared, At
  <2>4. Coming' \/ Reach(n - 1)'
    BY <1>1, <2>2, <2>3, ReachTick, ComingTick, ReachLess
  <2> QED
    BY <1>1, <1>2, <1>3, <1>6, <2>2, <2>4, CaredWhen
<1> QED
  BY <1>3, <1>4, <1>5, <1>6

LEMMA InitStay == Init => StayInv
<1> SUFFICES ASSUME Init
             PROVE  Waits /\ Makes /\ \A l \in Loops : Cared(l)
  BY DEF StayInv
<1>1. \A k \in Kids : ~Pending(k) /\ ~Usable(k)
  BY DEF Init, Pending, Usable, NoKey
<1>2. \A p \in Procs : proc[p].pc \notin {"retire", "make", "insert"}
  BY DEF Init, Idle
<1>3. \A l \in Loops : At(l, "boot")
  BY Numbers DEF Init, Idle, At
<1> QED
  BY <1>1, <1>2, <1>3 DEF Waits, Makes, Cared, HasSigner

LEMMA StayKept ==
    ASSUME Typed, Typed', HandlerInv, HandlerInv', ReturnInv, StayInv, [Next]_vars
    PROVE  StayInv'
<1> SUFFICES ASSUME LeadDays' >= Interval, ~exposed'
             PROVE  Waits' /\ Makes' /\ \A l \in Loops : Cared(l)'
  BY DEF StayInv
<1>1. LeadDays >= Interval /\ ~exposed
  BY Lasting DEF LeadDays
<1>2. Waits /\ Makes /\ \A l \in Loops : Cared(l)
  BY <1>1 DEF StayInv
<1>3. Waits'
  BY <1>2, WaitsKept
<1>4. Makes'
  BY <1>2, MakesKept
<1>5. ASSUME NEW l \in Loops
      PROVE  Cared(l)'
  <2>1. CASE Tick
    BY <1>2, <1>4, <2>1, CaredTick
  <2>2. CASE ~Tick /\ proc'[l] = proc[l]
    BY <1>2, <2>2, CaredStill
  <2>3. CASE ~Tick /\ proc'[l] # proc[l]
    <3>1. LoopStep(l)
      BY <2>3, Steps
    <3> QED
      BY <1>1, <1>2, <2>3, <3>1, CaredOwnStep
  <2> QED
    BY <2>1, <2>2, <2>3
<1> QED
  BY <1>3, <1>4, <1>5

LEMMA SigningInvariant == Spec => [](Typed /\ HandlerInv /\ ReturnInv /\ StayInv)
<1>1. Init => Typed /\ HandlerInv /\ ReturnInv /\ StayInv
  BY InitTyped, InitHandlers, InitReturn, InitStay
<1>2. ASSUME Typed, HandlerInv, ReturnInv, StayInv, [Next]_vars
      PROVE  (Typed /\ HandlerInv /\ ReturnInv /\ StayInv)'
  <2>1. Typed' /\ HandlerInv'
    BY <1>2, StepTyped, HandlersKept
  <2> QED
    BY <1>2, <2>1, ReturnKept, StayKept
<1> QED
  BY <1>1, <1>2, PTL DEF Spec

\* With a check at least every LeadDays, and as long as nothing exposed it, a
\* process that is past its bootstrap is never without a signer for longer than
\* making one takes.
THEOREM SignersStay == Spec => []SignerStays
<1>1. Typed /\ HandlerInv /\ StayInv => SignerStays
  <2> SUFFICES ASSUME Typed, HandlerInv, StayInv, LeadDays >= Interval, ~HasSigner, ~exposed,
                      \A l \in Loops : ~At(l, "boot") /\ ~proc[l].boot
               PROVE  dry =< Delay + 1
    BY DEF SignerStays
  <2>1. dry \in Nat /\ Delay \in Nat /\ key \in [Kids -> KeyRow]
    BY Numbers DEF Typed, TypeOK
  <2>2. ASSUME NEW n \in Nat, Within(n)
        PROVE  dry =< Delay + 1
    BY <2>1, <2>2 DEF Within
  <2>3. Waits
    BY DEF StayInv
  <2>4. PICK l \in Loops : Cared(l)
    BY KeysAssumption DEF StayInv
  <2>5. \A n : ~Reach(n)
    BY DEF Reach, HasSigner
  <2>6. Coming \/ Within(Underway(l))
    BY <2>4, <2>5 DEF Cared
  <2>7. CASE Coming
    <3>1. PICK k \in Kids : Pending(k)
      BY <2>7 DEF Coming
    <3>2. key[k].wait \in Nat /\ Within(key[k].wait)
      BY <2>1, <2>3, <3>1 DEF Waits, KeyRow
    <3> QED
      BY <2>2, <3>2
  <2>8. CASE Within(Underway(l))
    <3>1. Underway(l) \in Nat
      BY Distances, Numbers
    <3> QED
      BY <2>2, <2>8, <3>1
  <2> QED
    BY <2>6, <2>7, <2>8
<1> QED
  BY <1>1, SigningInvariant, PTL

-----------------------------------------------------------------------------
(* No token outlives the publication of its key *)

Room ==
    /\ LeadDays >= PublishLead + Interval + Delay + TokenTtl
    /\ Validity >= PublishLead + Interval + 2 * Delay + TokenTtl

\* The next signer comes before the signers are too old for a token.
Succession == \E k \in Kids : Pending(k) /\ Reach(key[k].wait + TokenTtl)

\* From one check to the signer that the next one makes, and a token.
Full == Interval + Delay + PublishLead + TokenTtl

\* How long the signers have to last for a process that is at r.
Need(r) ==
    CASE r.pc = "boot"   -> Full
      [] r.pc = "idle"   -> (Full - Interval) + r.sleep
      [] r.pc = "retire" -> IF r.gen THEN r.lead + (Delay - r.age) + TokenTtl ELSE Full
      [] r.pc = "make"   -> (IF r.boot THEN Full ELSE r.lead + TokenTtl) + (Delay - r.age)
      [] r.pc = "insert" -> IF r.boot THEN Full ELSE r.lead + TokenTtl

AtStart(l) == proc[l].pc = "boot" \/ proc[l].boot

Served(l) == \/ Reach(Need(proc[l]))
             \/ IF AtStart(l) THEN ~HasSigner ELSE Succession

\* The token followed is signed with a key that is published for longer.
Outlived == token.k # None /\ token.left > 0 => key[token.k].left >= token.left

TokenInv == Room /\ ~meddled /\ ~exposed => Outlived /\ \A l \in Loops : Served(l)

LEMMA Needs ==
    ASSUME PublishLead \in Nat, NEW r \in Handler, r.lead =< PublishLead
    PROVE  /\ r.pc = "boot" => Need(r) = Full
           /\ r.pc = "idle" => Need(r) = (Full - Interval) + r.sleep
           /\ r.pc = "retire" =>
                 Need(r) = IF r.gen THEN r.lead + (Delay - r.age) + TokenTtl ELSE Full
           /\ r.pc = "make" =>
                 Need(r) = (IF r.boot THEN Full ELSE r.lead + TokenTtl) + (Delay - r.age)
           /\ r.pc = "insert" => Need(r) = IF r.boot THEN Full ELSE r.lead + TokenTtl
           /\ Need(r) \in Nat /\ TokenTtl =< Need(r) /\ Need(r) =< Full + Delay
           /\ ~r.boot => Need(r) =< Full
           /\ Full \in Nat /\ Full = Interval + Delay + PublishLead + TokenTtl
<1>1. /\ Delay \in Nat /\ Interval \in Nat \ {0} /\ TokenTtl \in Nat \ {0}
      /\ r.age \in 0..Delay /\ r.sleep \in 0..Interval /\ r.lead \in Nat
  BY Numbers DEF Handler
<1>2. Full \in Nat /\ Full = Interval + Delay + PublishLead + TokenTtl
  BY <1>1 DEF Full
<1>3. /\ r.pc = "boot" => Need(r) = Full
      /\ r.pc = "idle" => Need(r) = (Full - Interval) + r.sleep
      /\ r.pc = "retire" => Need(r) = IF r.gen THEN r.lead + (Delay - r.age) + TokenTtl ELSE Full
      /\ r.pc = "make" => Need(r) = (IF r.boot THEN Full ELSE r.lead + TokenTtl) + (Delay - r.age)
      /\ r.pc = "insert" => Need(r) = IF r.boot THEN Full ELSE r.lead + TokenTtl
  BY DEF Need
<1>4. r.pc \in {"idle", "boot", "make", "insert", "retire"}
  BY DEF Handler
<1>5. /\ Need(r) \in Nat /\ TokenTtl =< Need(r) /\ Need(r) =< Full + Delay
      /\ ~r.boot => Need(r) =< Full
  BY <1>1, <1>2, <1>3, <1>4
<1> QED
  BY <1>2, <1>3, <1>5

\* The needs of a process before and after a step.
LEMMA NeedsNow ==
    ASSUME Typed, Typed', HandlerInv, HandlerInv', [Next]_vars, NEW l \in Loops
    PROVE  /\ PublishLead \in Nat /\ l \in Procs /\ proc \in [Procs -> Handler]
           /\ proc[l] \in Handler /\ proc[l].lead =< PublishLead
           /\ proc'[l] \in Handler /\ proc'[l].lead =< PublishLead
           /\ Need(proc[l])' = Need(proc'[l]) /\ Need(proc[l]) \in Nat /\ Need(proc'[l]) \in Nat
<1>1. settings' = settings /\ PublishLead' = PublishLead /\ PublishLead \in Nat
  BY Lasting, Leads DEF PublishLead
<1>2. /\ l \in Procs /\ proc \in [Procs -> Handler]
      /\ proc[l] \in Handler /\ proc[l].lead =< PublishLead
      /\ proc'[l] \in Handler /\ proc'[l].lead =< PublishLead
  BY <1>1, Numbers DEF Typed, HandlerInv, Capped
<1>3. Need(proc[l])' = Need(proc'[l])
  BY <1>1 DEF Need, Full
<1> QED
  BY <1>1, <1>2, <1>3, Needs

LEMMA ServedWhen ==
    ASSUME Typed, Typed', HandlerInv, HandlerInv', [Next]_vars, NEW l \in Loops,
           \/ \E n \in Int : Need(proc'[l]) =< n /\ Reach(n)'
           \/ IF AtStart(l)' THEN ~HasSigner' ELSE Succession'
    PROVE  Served(l)'
<1>1. CASE \E n \in Int : Need(proc'[l]) =< n /\ Reach(n)'
  <2>1. PICK n \in Int : Need(proc'[l]) =< n /\ Reach(n)'
    BY <1>1
  <2>2. PICK m \in Int : m = Need(proc'[l]) /\ m = Need(proc[l])'
    BY NeedsNow
  <2>3. Reach(m)'
    BY <2>1, <2>2, ReachLess
  <2>4. Reach(Need(proc[l]))'
    BY <2>2, <2>3 DEF Reach
  <2> QED
    BY <2>4 DEF Served
<1>2. CASE IF AtStart(l)' THEN ~HasSigner' ELSE Succession'
  BY <1>2 DEF Served
<1> QED
  BY <1>1, <1>2

\* Without administrators at work, what the signers reach stays.
LEMMA ReachStays ==
    ASSUME Typed, HandlerInv, [Next]_vars, ~Tick, ~exposed', ~meddled', NEW n \in Int, Reach(n)
    PROVE  Reach(n)'
BY ReachKept, Lasting

LEMMA SuccessionStays ==
    ASSUME Typed, HandlerInv, [Next]_vars, ~Tick, ~exposed', ~meddled', Succession
    PROVE  Succession'
<1>1. PICK k \in Kids : Pending(k) /\ Reach(key[k].wait + TokenTtl)
  BY DEF Succession
<1>2. key[k].wait \in Nat /\ TokenTtl \in Nat /\ ~meddled
  BY Numbers, Lasting DEF Typed, TypeOK, KeyRow
<1>3. key'[k] = key[k]
  BY <1>1, <1>2, Retirements DEF Pending
<1>4. PICK n \in Int : n = key[k].wait + TokenTtl
  BY <1>2
<1>5. Reach(n)'
  BY <1>1, <1>4, ReachStays
<1>6. Reach(key[k].wait + TokenTtl)' /\ Pending(k)'
  BY <1>1, <1>3, <1>4, <1>5 DEF Reach, Pending
<1> QED
  BY <1>6 DEF Succession

LEMMA ServedStill ==
    ASSUME Typed, Typed', HandlerInv, HandlerInv', [Next]_vars, ~Tick, ~exposed', ~meddled', Room,
           NEW l \in Loops, Served(l),
           /\ proc'[l].pc = proc[l].pc /\ proc'[l].age = proc[l].age
           /\ proc'[l].lead = proc[l].lead /\ proc'[l].gen = proc[l].gen
           /\ proc'[l].boot = proc[l].boot /\ proc'[l].sleep = proc[l].sleep
    PROVE  Served(l)'
<1>1. PICK n \in Int : n = Need(proc[l]) /\ n = Need(proc'[l]) /\ n =< Validity
  <2>1. Need(proc'[l]) = Need(proc[l])
    BY DEF Need
  <2>2. Need(proc[l]) \in Nat /\ Need(proc[l]) =< Validity
    BY NeedsNow, Needs, Numbers, Leads DEF Room
  <2> QED
    BY <2>1, <2>2
<1>2. AtStart(l)' <=> AtStart(l)
  BY DEF AtStart
<1>3. CASE Reach(Need(proc[l]))
  BY <1>1, <1>3, ReachStays, ServedWhen
<1>4. CASE AtStart(l) /\ ~HasSigner
  <2>1. HasSigner' => Reach(Validity)'
    BY <1>4, NewSigner
  <2> QED
    BY <1>1, <1>2, <1>4, <2>1, ServedWhen, Numbers
<1>5. CASE ~AtStart(l) /\ Succession
  BY <1>2, <1>5, SuccessionStays, ServedWhen
<1> QED
  BY <1>3, <1>4, <1>5 DEF Served

LEMMA ServedOwnStep ==
    ASSUME Typed, Typed', HandlerInv, HandlerInv', [Next]_vars, ~Tick, ~exposed', ~meddled', Room,
           Waits, NEW l \in Loops, Served(l), LoopStep(l)
    PROVE  Served(l)'
<1>1. /\ PublishLead \in Nat /\ l \in Procs /\ proc \in [Procs -> Handler]
      /\ proc[l] \in Handler /\ proc[l].lead =< PublishLead
      /\ proc'[l] \in Handler /\ proc'[l].lead =< PublishLead
      /\ Booting /\ Booting' /\ Delay \in Nat /\ Interval \in Nat /\ Validity \in Nat
      /\ TokenTtl \in Nat \ {0} /\ proc[l].age \in 0..Delay
      /\ proc[l].sleep \in 0..Interval /\ proc[l].lead \in Nat /\ key \in [Kids -> KeyRow]
  BY NeedsNow, Numbers, Distances DEF HandlerInv, Typed, TypeOK
<1>2. /\ Full \in Nat /\ Full = Interval + Delay + PublishLead + TokenTtl /\ Full + Delay =< Validity
      /\ Need(proc[l]) \in Nat /\ Need(proc'[l]) \in Nat
  BY <1>1, Needs DEF Room
<1>3. ASSUME NEW n \in Int, Reach(n), Need(proc'[l]) =< n
      PROVE  Served(l)'
  BY <1>3, ReachStays, ServedWhen
<1>4. ASSUME Return(l)
      PROVE  proc'[l].pc = "idle" /\ ~proc'[l].boot /\ ~AtStart(l)' /\ Need(proc'[l]) = Full
  <2>1. proc'[l].pc = "idle" /\ ~proc'[l].boot /\ proc'[l].sleep = Interval
    BY <1>1, <1>4, Idleness DEF Return, Idles, Idle
  <2>2. Need(proc'[l]) = (Full - Interval) + Interval
    BY <1>1, <2>1, Needs
  <2> QED
    BY <1>1, <1>2, <2>1, <2>2 DEF AtStart
<1>5. CASE Boot(l)
  <2>1. proc[l].pc = "boot" /\ AtStart(l) /\ UNCHANGED key
    BY <1>5 DEF Boot, At, AtStart
  <2>2. CASE HasSigner
    <3>1. Return(l) /\ Reach(Full)
      BY <1>1, <1>5, <2>1, <2>2, Needs DEF Boot, Served
    <3> QED
      BY <1>2, <1>3, <1>4, <3>1
  <2>3. CASE ~HasSigner
    <3>1. AtStart(l)'
      BY <1>1, <1>5, <2>3 DEF Boot, Goto, Idle, AtStart
    <3>2. ~HasSigner'
      BY <2>1, <2>3 DEF HasSigner, Usable
    <3> QED
      BY <3>1, <3>2, ServedWhen
  <2> QED
    BY <2>2, <2>3
<1>6. CASE RotateIfNeeded(l)
  <2>1. /\ proc[l].pc = "idle" /\ proc[l].sleep = 0 /\ ~proc[l].boot /\ ~AtStart(l)
        /\ UNCHANGED <<key, dry, settings>>
    BY <1>1, <1>6 DEF RotateIfNeeded, At, Booting, AtStart
  <2>2. Need(proc[l]) = (Full - Interval) + 0
    BY <1>1, <2>1, Needs
  <2>3. PICK n \in Int : n = Full - Interval /\ n = Delay + PublishLead + TokenTtl
    BY <1>1, <1>2
  <2>4. Succession \/ Reach(n)
    <3>1. Need(proc[l]) = n
      BY <1>1, <1>2, <2>2, <2>3
    <3> QED
      BY <2>1, <3>1 DEF Served
  <2>5. HasSigner
    BY <2>4 DEF Succession, Reach, HasSigner
  <2>6. PICK a \in Signers :
           Goto(l, [Idle EXCEPT !.pc = "retire", !.by = {a}, !.list = Overtaken(a),
                                !.gen = SuccessorDue(a),
                                !.lead = IF SuccessorDue(a) THEN Lead(a) ELSE 0])
    BY <1>6, <2>5 DEF RotateIfNeeded
  <2>7. /\ proc'[l].pc = "retire" /\ ~proc'[l].boot /\ proc'[l].age = 0
        /\ proc'[l].gen = SuccessorDue(a)
        /\ proc'[l].lead = IF SuccessorDue(a) THEN Lead(a) ELSE 0
    BY <1>1, <2>6 DEF Goto, Idle
  <2>8. ~AtStart(l)'
    BY <2>7 DEF AtStart
  <2>9. CASE Succession
    BY <2>8, <2>9, SuccessionStays, ServedWhen
  <2>10. CASE ~Succession
    <3>1. Reach(n)
      BY <2>4, <2>10
    <3>2. \A k \in Kids : ~Pending(k)
      <4> SUFFICES ASSUME NEW k \in Kids, Pending(k)
                   PROVE  FALSE
        OBVIOUS
      <4>1. key[k].wait =< PublishLead /\ key[k].wait \in Nat
        BY <1>1 DEF Waits, KeyRow
      <4>2. PICK j \in Kids : Usable(j) /\ key[j].left >= n
        BY <3>1 DEF Reach
      <4>3. key[j].left >= key[k].wait + TokenTtl
        BY <1>1, <2>3, <4>1, <4>2 DEF KeyRow
      <4> QED
        BY <2>10, <4>2, <4>3 DEF Succession, Reach
    <3>3. a \in Kids /\ Usable(a) /\ key[a].left \in Nat /\ Lead(a) \in Nat /\ Lead(a) =< PublishLead
          /\ LeadDays \in Nat
      BY <1>1, Leads DEF Signers, KeyRow
    <3>4. CASE SuccessorDue(a)
      <4>1. Need(proc'[l]) = Lead(a) + (Delay - 0) + TokenTtl
        BY <1>1, <2>7, <3>4, Needs
      <4>2. Need(proc'[l]) =< n
        BY <1>1, <2>3, <3>3, <4>1
      <4> QED
        BY <1>3, <3>1, <4>2
    <3>5. CASE ~SuccessorDue(a)
      <4>1. ~(key[a].left =< LeadDays)
        BY <3>2, <3>5 DEF SuccessorDue
      <4>2. Need(proc'[l]) = Full
        BY <1>1, <2>7, <3>5, Needs
      <4>3. key[a].left >= Full
        BY <1>1, <1>2, <3>3, <4>1 DEF Room
      <4>4. Reach(Full)
        BY <3>3, <4>3 DEF Reach
      <4> QED
        BY <1>2, <1>3, <4>2, <4>4
    <3> QED
      BY <3>4, <3>5
  <2> QED
    BY <2>9, <2>10
<1>7. CASE RetireOvertaken(l)
  <2>1. proc[l].pc = "retire" /\ ~proc[l].boot /\ ~AtStart(l)
    BY <1>1, <1>7 DEF RetireOvertaken, At, Booting, AtStart
  <2>2. Succession \/ Reach(Need(proc[l]))
    BY <2>1 DEF Served
  <2>3. CASE proc[l].list = {} /\ proc[l].gen
    <3>1. Goto(l, [proc[l] EXCEPT !.pc = "make"])
      BY <1>7, <2>3 DEF RetireOvertaken
    <3>2. /\ proc'[l].pc = "make" /\ proc'[l].lead = proc[l].lead /\ proc'[l].age = proc[l].age
          /\ ~proc'[l].boot /\ ~AtStart(l)'
      BY <1>1, <2>1, <3>1 DEF Goto, Handler, AtStart
    <3>3. Need(proc[l]) = proc[l].lead + (Delay - proc[l].age) + TokenTtl
      BY <1>1, <2>1, <2>3, Needs
    <3>4. Need(proc'[l]) = (proc[l].lead + TokenTtl) + (Delay - proc[l].age)
      BY <1>1, <3>2, Needs
    <3>5. Need(proc'[l]) =< Need(proc[l])
      BY <1>1, <3>3, <3>4
    <3> QED
      BY <1>2, <1>3, <2>2, <3>2, <3>5, SuccessionStays, ServedWhen
  <2>4. CASE proc[l].list = {} /\ ~proc[l].gen
    <3>1. Return(l)
      BY <1>7, <2>4 DEF RetireOvertaken
    <3>2. Need(proc[l]) = Full
      BY <1>1, <2>1, <2>4, Needs
    <3> QED
      BY <1>2, <1>3, <1>4, <2>2, <3>1, <3>2, SuccessionStays, ServedWhen
  <2>5. CASE proc[l].list # {}
    <3>1. PICK k \in proc[l].list : Goto(l, [proc[l] EXCEPT !.list = @ \ {k}])
      BY <1>7, <2>5 DEF RetireOvertaken
    <3>2. /\ proc'[l].pc = proc[l].pc /\ proc'[l].age = proc[l].age
          /\ proc'[l].lead = proc[l].lead /\ proc'[l].gen = proc[l].gen
          /\ proc'[l].boot = proc[l].boot /\ proc'[l].sleep = proc[l].sleep
      BY <1>1, <3>1 DEF Goto, Handler
    <3> QED
      BY <3>2, ServedStill
  <2> QED
    BY <2>3, <2>4, <2>5
<1>8. ~CheckFails(l) /\ ~Restart(l)
  BY DEF CheckFails, Restart
<1>9. CASE MakeKey(l)
  <2>1. /\ proc[l].pc = "make" /\ proc'[l].pc = "insert" /\ UNCHANGED key
        /\ proc'[l].lead = proc[l].lead /\ proc'[l].boot = proc[l].boot
    BY <1>1, <1>9 DEF MakeKey, Goto, At, Handler
  <2>2. /\ Need(proc[l]) = (IF proc[l].boot THEN Full ELSE proc[l].lead + TokenTtl)
                           + (Delay - proc[l].age)
        /\ Need(proc'[l]) = IF proc[l].boot THEN Full ELSE proc[l].lead + TokenTtl
    BY <1>1, <2>1, Needs
  <2>3. Need(proc'[l]) =< Need(proc[l])
    BY <1>1, <1>2, <2>2
  <2>4. (AtStart(l)' <=> AtStart(l)) /\ (HasSigner' <=> HasSigner)
    BY <2>1 DEF AtStart, HasSigner, Usable
  <2> QED
    BY <1>2, <1>3, <2>3, <2>4, SuccessionStays, ServedWhen DEF Served
<1>10. CASE InsertKey(l)
  <2>1. proc[l].pc = "insert" /\ Return(l)
    BY <1>10 DEF InsertKey, At
  <2>2. Need(proc[l]) = IF proc[l].boot THEN Full ELSE proc[l].lead + TokenTtl
    BY <1>1, <2>1, Needs
  <2>3. CASE proc[l].boot /\ HasSigner
    <3>1. Reach(Full)
      BY <2>2, <2>3 DEF Served, AtStart
    <3> QED
      BY <1>2, <1>3, <1>4, <2>1, <3>1
  <2>4. CASE ~(proc[l].boot /\ HasSigner)
    <3>1. NewKid \in Kids /\ key' = [key EXCEPT ![NewKid] = NewRow(l)]
      BY <1>10, <2>4, NewKidIsFree DEF InsertKey
    <3>2. /\ key'[NewKid].st = "ACTIVE" /\ key'[NewKid].wait = proc[l].lead
          /\ key'[NewKid].left = proc[l].lead + Validity
      BY <1>1, <3>1, NewRowTyped
    <3>3. CASE proc[l].lead = 0
      <4>1. key'[NewKid].left > 0 /\ key'[NewKid].left >= Full
        BY <1>1, <1>2, <3>2, <3>3
      <4>2. PICK n \in Int : n = Full /\ key'[NewKid].left >= n
        BY <1>2, <4>1
      <4>3. Reach(n)'
        BY <3>1, <3>2, <3>3, <4>1, <4>2 DEF Reach, Usable
      <4> QED
        BY <1>2, <1>4, <2>1, <4>2, <4>3, ServedWhen
    <3>4. CASE proc[l].lead # 0
      <4>1. ~proc[l].boot /\ ~AtStart(l)
        BY <1>1, <2>1, <3>4 DEF Booting, AtStart
      <4>2. CASE Succession
        BY <1>4, <2>1, <4>2, SuccessionStays, ServedWhen
      <4>3. CASE ~Succession
        <5>1. PICK n \in Int : n = proc[l].lead + TokenTtl
          BY <1>1
        <5>2. Reach(n)
          BY <2>2, <4>1, <4>3, <5>1 DEF Served
        <5>3. Reach(n)'
          BY <5>2, ReachStays
        <5>4. \E k \in Kids : Pending(k)' /\ Reach(key[k].wait + TokenTtl)'
          <6>1. PICK k \in Kids : k = NewKid
            BY <3>1
          <6>2. key'[k].st = "ACTIVE" /\ key'[k].wait = proc[l].lead
            BY <3>2, <6>1
          <6> QED
            BY <1>1, <3>4, <5>1, <5>3, <6>2 DEF Pending, Reach
        <5>5. Succession'
          BY <5>4 DEF Succession
        <5> QED
          BY <1>4, <2>1, <5>5, ServedWhen
      <4> QED
        BY <4>2, <4>3
    <3> QED
      BY <3>3, <3>4
  <2> QED
    BY <2>3, <2>4
<1> QED
  BY <1>5, <1>6, <1>7, <1>8, <1>9, <1>10 DEF LoopStep

LEMMA SuccessionTick ==
    ASSUME Typed, Typed', Tick, Succession
    PROVE  Succession' \/ Reach(Validity)'
<1>1. PICK k \in Kids : Pending(k) /\ Reach(key[k].wait + TokenTtl)
  BY DEF Succession
<1>2. /\ key[k].wait \in Nat /\ key[k].left \in Nat /\ Validity \in Nat \ {0}
      /\ TokenTtl \in Nat \ {0}
      /\ key[k].left = key[k].wait + Validity /\ key[k].wait > 0 /\ key[k].st = "ACTIVE"
  BY <1>1, Numbers DEF Typed, TypeOK, KeyRow, Pending
<1>3. /\ key'[k].st = "ACTIVE"
      /\ key'[k].wait = key[k].wait - 1 /\ key'[k].left = key[k].left - 1
  BY <1>2, TickKeys DEF Down
<1>4. CASE key[k].wait = 1
  <2>1. key'[k].wait = 0 /\ key'[k].left > 0 /\ key'[k].left >= Validity
    BY <1>2, <1>3, <1>4
  <2> QED
    BY <1>3, <2>1 DEF Reach, Usable
<1>5. CASE key[k].wait # 1
  <2>1. PICK n \in Int : n = key[k].wait + TokenTtl
    BY <1>2
  <2>2. n > 1 /\ n - 1 = key'[k].wait + TokenTtl /\ key'[k].wait > 0
    BY <1>2, <1>3, <1>5, <2>1
  <2>3. Reach(n - 1)'
    BY <1>1, <2>1, <2>2, ReachTick
  <2>4. Pending(k)' /\ Reach(key[k].wait + TokenTtl)'
    BY <1>3, <2>2, <2>3 DEF Pending, Reach
  <2> QED
    BY <2>4 DEF Succession
<1> QED
  BY <1>4, <1>5

LEMMA ServedTick ==
    ASSUME Typed, Typed', HandlerInv, HandlerInv', Tick, Room, NEW l \in Loops, Served(l)
    PROVE  Served(l)'
<1>1. [Next]_vars
  BY DEF Next
<1>2. /\ PublishLead \in Nat /\ l \in Procs
      /\ proc[l] \in Handler /\ proc[l].lead =< PublishLead
      /\ proc'[l] \in Handler /\ proc'[l].lead =< PublishLead
      /\ Delay \in Nat /\ Interval \in Nat /\ Validity \in Nat /\ TokenTtl \in Nat \ {0}
      /\ proc[l].age \in 0..Delay /\ proc'[l].age \in 0..Delay
      /\ proc[l].sleep \in 0..Interval /\ proc[l].lead \in Nat
  BY <1>1, NeedsNow, Numbers, Distances DEF Typed, Handler
<1>3. /\ proc[l].pc \in {"idle", "make"}
      /\ proc'[l].pc = proc[l].pc /\ proc'[l].lead = proc[l].lead /\ proc'[l].boot = proc[l].boot
      /\ proc[l].pc = "idle" => proc[l].sleep > 0 /\ proc'[l].sleep = proc[l].sleep - 1
      /\ proc[l].pc = "make" => proc'[l].age = proc[l].age + 1
  BY <1>2, TickHandlers DEF At
<1>4. AtStart(l)' <=> AtStart(l)
  BY <1>3 DEF AtStart
<1>5. /\ Full \in Nat /\ Full = Interval + Delay + PublishLead + TokenTtl
      /\ Need(proc[l]) \in Nat /\ Need(proc'[l]) \in Nat /\ Need(proc'[l]) =< Full + Delay
      /\ TokenTtl =< Need(proc'[l])
  BY <1>2, Needs
<1>6. Full + Delay =< Validity
  BY <1>2, <1>5 DEF Room
<1>7. Need(proc'[l]) = Need(proc[l]) - 1
  <2>1. CASE proc[l].pc = "idle"
    <3>1. /\ Need(proc[l]) = (Full - Interval) + proc[l].sleep
          /\ Need(proc'[l]) = (Full - Interval) + proc'[l].sleep
      BY <1>2, <1>3, <2>1, Needs
    <3> QED
      BY <1>2, <1>3, <1>5, <2>1, <3>1
  <2>2. CASE proc[l].pc = "make"
    <3>1. /\ Need(proc[l]) = (IF proc[l].boot THEN Full ELSE proc[l].lead + TokenTtl)
                             + (Delay - proc[l].age)
          /\ Need(proc'[l]) = (IF proc[l].boot THEN Full ELSE proc[l].lead + TokenTtl)
                              + (Delay - proc'[l].age)
      BY <1>2, <1>3, <2>2, Needs
    <3> QED
      BY <1>2, <1>3, <1>5, <2>2, <3>1
  <2> QED
    BY <1>3, <2>1, <2>2
<1>8. ASSUME Reach(Validity)' PROVE Served(l)'
  <2>1. Need(proc'[l]) =< Validity
    BY <1>2, <1>5, <1>6
  <2> QED
    BY <1>1, <1>2, <1>8, <2>1, ServedWhen
<1>9. CASE Reach(Need(proc[l]))
  <2>1. PICK n \in Int : n = Need(proc[l]) /\ n > 1 /\ n - 1 \in Int
    BY <1>2, <1>5, <1>7
  <2>2. Reach(n - 1)'
    BY <1>9, <2>1, ReachTick
  <2>3. Need(proc'[l]) =< n - 1
    BY <1>5, <1>7, <2>1
  <2> QED
    BY <1>1, <2>1, <2>2, <2>3, ServedWhen
<1>10. CASE AtStart(l) /\ ~HasSigner
  BY <1>1, <1>4, <1>8, <1>10, NewSigner, ServedWhen
<1>11. CASE ~AtStart(l) /\ Succession
  BY <1>1, <1>4, <1>8, <1>11, SuccessionTick, ServedWhen
<1> QED
  BY <1>9, <1>10, <1>11 DEF Served

\* A token is signed when a signer reaches its expiry, and its key ages with it.
LEMMA OutlivedKept ==
    ASSUME Typed, HandlerInv, [Next]_vars, ~meddled', Outlived, \A l \in Loops : Served(l)
    PROVE  Outlived'
<1> SUFFICES ASSUME token'.k # None, token'.left > 0
             PROVE  key'[token'.k].left >= token'.left
  BY DEF Outlived
<1>1. /\ key \in [Kids -> KeyRow] /\ token \in TokenRow /\ TokenTtl \in Nat \ {0}
      /\ token.left \in Int /\ \A k \in Kids : key[k].left \in Nat
  BY Numbers DEF Typed, TypeOK, TokenRow, KeyRow
<1>2. CASE UNCHANGED <<key, token>>
  BY <1>2 DEF Outlived
<1>3. ASSUME NEW j \in Kids, Retires(j) \/ Deletes(j)
      PROVE  key'[token'.k].left >= token'.left
  <2>1. Retires(j)
    BY <1>3 DEF Deletes
  <2>2. token' = token /\ token.k \in Kids
    BY <1>1, <2>1 DEF Retires, TokenRow
  <2>3. key'[token.k].left = key[token.k].left
    BY <1>1, <2>1, <2>2 DEF Retires, KeyRow
  <2> QED
    BY <2>2, <2>3 DEF Outlived
<1>4. ASSUME NEW p \in Procs, Adds(p)
      PROVE  key'[token'.k].left >= token'.left
  <2>1. NewKid # token.k /\ token' = token /\ token.k \in Kids
    BY <1>1, <1>4, NewKidIsFree DEF Adds, TokenRow
  <2>2. key'[token.k] = key[token.k]
    BY <1>1, <1>4, <2>1 DEF Adds
  <2> QED
    BY <2>1, <2>2 DEF Outlived
<1>5. CASE UNCHANGED key /\ Issue
  <2>1. CASE Issue
    <3>1. PICK k \in Signers : token' = [k |-> k, left |-> TokenTtl]
      BY <2>1 DEF Issue
    <3>2. token'.k = k /\ token'.left = TokenTtl /\ k \in Kids /\ Usable(k)
      BY <3>1 DEF NoToken, Signers
    <3>3. PICK l \in Loops : Served(l)
      BY KeysAssumption
    <3>4. \E j \in Kids : Usable(j) /\ key[j].left >= TokenTtl
      <4>1. l \in Procs /\ proc[l] \in Handler /\ proc[l].lead =< PublishLead /\ PublishLead \in Nat
        BY Numbers, Leads DEF Typed, HandlerInv, Capped
      <4>2. Need(proc[l]) \in Nat /\ TokenTtl =< Need(proc[l])
        BY <4>1, Needs
      <4>3. CASE Reach(Need(proc[l]))
        BY <1>1, <4>2, <4>3 DEF Reach
      <4>4. CASE Succession
        <5>1. PICK i \in Kids : Reach(key[i].wait + TokenTtl)
          BY <4>4 DEF Succession
        <5>2. key[i].wait \in Nat
          BY <1>1 DEF KeyRow
        <5> QED
          BY <1>1, <5>1, <5>2 DEF Reach
      <4>5. HasSigner
        BY <3>2 DEF HasSigner
      <4> QED
        BY <3>3, <4>3, <4>4, <4>5 DEF Served
    <3>5. key[k].left >= TokenTtl
      BY <1>1, <3>2, <3>4, <3>1 DEF Signers
    <3> QED
      BY <1>5, <3>2, <3>5
  <2> QED
    BY <1>5, <2>1
<1>6. CASE Tick
  <2>1. token' # NoToken
    BY DEF NoToken
  <2>2. token' = [token EXCEPT !.left = @ - 1]
    BY <1>6, <2>1 DEF Tick
  <2>3. token'.k = token.k /\ token'.left = token.left - 1 /\ token.k \in Kids
    BY <1>1, <2>2 DEF TokenRow
  <2>4. key[token.k].left >= token.left /\ token.left > 1
    BY <1>1, <2>3 DEF Outlived
  <2>5. key'[token.k].left = Down(key[token.k].left, 0)
    BY <1>6, <2>3, TickKeys
  <2>6. key'[token.k].left = key[token.k].left - 1
    BY <1>1, <2>3, <2>4, <2>5 DEF Down
  <2> QED
    BY <1>1, <2>3, <2>4, <2>6
<1> QED
  BY <1>2, <1>3, <1>4, <1>5, <1>6, KeySteps

LEMMA TokenKept ==
    ASSUME Typed, Typed', HandlerInv, HandlerInv', StayInv, TokenInv, [Next]_vars
    PROVE  TokenInv'
<1> SUFFICES ASSUME Room', ~meddled', ~exposed'
             PROVE  Outlived' /\ \A l \in Loops : Served(l)'
  BY DEF TokenInv
<1>1. Room /\ ~meddled /\ ~exposed
  BY Lasting DEF Room, LeadDays, PublishLead
<1>2. Outlived /\ \A l \in Loops : Served(l)
  BY <1>1 DEF TokenInv
<1>3. LeadDays >= Interval
  BY <1>1, Leads, Numbers DEF Room
<1>4. Waits
  BY <1>1, <1>3 DEF StayInv
<1>5. Outlived'
  BY <1>2, OutlivedKept
<1>6. ASSUME NEW l \in Loops
      PROVE  Served(l)'
  <2>1. CASE Tick
    BY <1>1, <1>2, <2>1, ServedTick
  <2>2. CASE ~Tick /\ proc'[l] = proc[l]
    BY <1>1, <1>2, <2>2, ServedStill
  <2>3. CASE ~Tick /\ proc'[l] # proc[l]
    <3>1. LoopStep(l)
      BY <2>3, Steps
    <3> QED
      BY <1>1, <1>2, <1>4, <2>3, <3>1, ServedOwnStep
  <2> QED
    BY <2>1, <2>2, <2>3
<1> QED
  BY <1>5, <1>6

\* When the leads leave room for them and nothing cuts the rotation short, the
\* key of a token that has not expired is still in the JWKS.
THEOREM KeysOutliveTokens == Spec => []TokenOutlivedByKey
<1>1. Init => TokenInv
  <2> SUFFICES ASSUME Init
               PROVE  Outlived /\ \A l \in Loops : Served(l)
    BY DEF TokenInv
  <2>1. \A k \in Kids : ~Usable(k)
    BY DEF Init, Usable, NoKey
  <2>2. \A l \in Loops : AtStart(l)
    BY Numbers DEF Init, Idle, AtStart
  <2>3. Outlived
    BY DEF Init, Outlived, NoToken
  <2> QED
    BY <2>1, <2>2, <2>3 DEF Served, HasSigner
<1>2. ASSUME Typed, Typed', HandlerInv, HandlerInv', StayInv, TokenInv, [Next]_vars
      PROVE  TokenInv'
  BY <1>2, TokenKept
<1>3. TokenInv => TokenOutlivedByKey
  BY DEF TokenInv, Room, Outlived, TokenOutlivedByKey
<1> QED
  BY <1>1, <1>2, <1>3, SigningInvariant, PTL DEF Spec

-----------------------------------------------------------------------------
(* The replay guard *)

\* Recording is the only step that accepts.  A fresh key means that every
\* statement with that key and an unswept expiry has not been accepted.
LEMMA RecordKeeps ==
    ASSUME GuardInv, NEW r \in Requests, Record(r)
    PROVE  GuardInv'
<1> DEFINE s == req[r]
           fresh == rows[KeyOf[s]] = Nothing
<1>1. s \in Statements /\ KeyOf[s] \in Keys /\ Until[s] \in Nat
  BY StatementsAssumption DEF GuardInv, GuardTypes, Record
<1>2. GuardTypes'
  BY <1>1 DEF GuardInv, GuardTypes, Record
<1>3. CASE ~fresh
  BY <1>2, <1>3 DEF GuardInv, RowHeld, AcceptedOnceWhileKept, Record
<1>4. CASE fresh
  <2>1. early[s] > 0 => purged >= Until[s]
    <3>1. purged \in Nat /\ early[s] \in Nat
      BY <1>1 DEF GuardInv, GuardTypes
    <3>2. Nothing \notin Nat
      BY StatementsAssumption
    <3> QED
      BY <1>1, <1>4, <3>1, <3>2 DEF GuardInv, RowHeld
  <2>2. early[s] > 0 => clock >= Until[s]
    BY <2>1, <1>1 DEF GuardInv, RowHeld, GuardTypes
  <2>3. AcceptedOnceWhileKept'
    BY <2>2, <1>1, <1>4 DEF GuardInv, GuardTypes, AcceptedOnceWhileKept, Record
  <2>4. RowHeld'
    <3>1. UNCHANGED <<clock, purge, purged>>
      BY DEF Record
    <3>2. rows' = [rows EXCEPT ![KeyOf[s]] = Until[s]]
      BY <1>4 DEF Record
    <3> SUFFICES ASSUME NEW t \in Statements, early'[t] > 0, purged < Until[t]
                 PROVE  rows'[KeyOf[t]] = Until[t]
      BY <3>1 DEF GuardInv, RowHeld
    <3>3. CASE t = s
      BY <3>2, <3>3, <1>1 DEF GuardInv, GuardTypes
    <3>4. CASE t # s
      <4>1. early[t] > 0
        BY <3>4, <1>1 DEF GuardInv, GuardTypes, Record
      <4>2. rows[KeyOf[t]] = Until[t]
        BY <4>1 DEF GuardInv, RowHeld
      <4>3. KeyOf[t] # KeyOf[s]
        BY <4>2, <1>4, StatementsAssumption
      <4> QED
        BY <4>2, <4>3, <3>2, <1>1, StatementsAssumption DEF GuardInv, GuardTypes
    <3> QED
      BY <3>3, <3>4
  <2> QED
    BY <1>2, <2>3, <2>4 DEF GuardInv
<1> QED
  BY <1>3, <1>4

\* A purge with a time before Until leaves the row of an accepted statement.
LEMMA DeleteKeeps ==
    ASSUME GuardInv, DeleteExpired
    PROVE  GuardInv'
<1>1. GuardTypes'
  BY DEF GuardInv, GuardTypes, DeleteExpired
<1>2. UNCHANGED <<clock, early>> /\ purge \in Nat /\ purge' = Nothing
  BY DEF GuardInv, GuardTypes, DeleteExpired
<1>3. purged' >= purged /\ purged' >= purge /\ purged' <= clock
  BY <1>2 DEF GuardInv, GuardTypes, RowHeld, DeleteExpired
<1>4. ASSUME NEW s \in Statements, early[s] > 0, purged' < Until[s]
      PROVE  rows'[KeyOf[s]] = Until[s]
  <2>1. KeyOf[s] \in Keys /\ Until[s] \in Nat
    BY StatementsAssumption
  <2>2. purged < Until[s] /\ ~(Until[s] <= purge)
    BY <1>1, <1>2, <1>3, <1>4, <2>1 DEF GuardInv, GuardTypes
  <2>3. rows[KeyOf[s]] = Until[s]
    BY <1>4, <2>2 DEF GuardInv, RowHeld
  <2> QED
    BY <2>1, <2>2, <2>3 DEF DeleteExpired
<1> QED
  BY <1>1, <1>2, <1>3, <1>4 DEF GuardInv, RowHeld, AcceptedOnceWhileKept

\* The inductive invariant holds in every reachable state.
THEOREM GuardInvariant == GuardSpec => []GuardInv
<1>1. GuardInit => GuardInv
  BY StatementsAssumption
     DEF GuardInit, GuardInv, GuardTypes, RowHeld, AcceptedOnceWhileKept
<1>2. GuardInv /\ [GuardNext]_guardVars => GuardInv'
  <2> SUFFICES ASSUME GuardInv, [GuardNext]_guardVars
               PROVE  GuardInv'
    OBVIOUS
  <2> USE DEF GuardInv, GuardTypes, RowHeld, AcceptedOnceWhileKept
  <2>1. ASSUME NEW r \in Requests, NEW s \in Statements, Verify(r, s) PROVE GuardInv'
    BY <2>1 DEF Verify
  <2>2. ASSUME NEW r \in Requests, Record(r) PROVE GuardInv'
    BY <2>2, RecordKeeps
  <2>3. ASSUME NEW r \in Requests, Abandon(r) PROVE GuardInv'
    BY <2>3 DEF Abandon
  <2>4. CASE StartPurge
    BY <2>4 DEF StartPurge
  <2>5. CASE DeleteExpired
    BY <2>5, DeleteKeeps
  <2>6. CASE GuardTick
    BY <2>6 DEF GuardTick
  <2>7. CASE UNCHANGED guardVars
    BY <2>7 DEF guardVars
  <2> QED
    BY <2>1, <2>2, <2>3, <2>4, <2>5, <2>6, <2>7 DEF GuardNext
<1> QED
  BY <1>1, <1>2, PTL DEF GuardSpec

\* No client assertion and no DPoP proof is accepted twice before the time
\* its row is kept until, however requests and purges interleave.
THEOREM AcceptedOnce == GuardSpec => []AcceptedOnceWhileKept
<1>1. GuardInv => AcceptedOnceWhileKept
  BY DEF GuardInv
<1> QED
  BY <1>1, GuardInvariant, PTL
=============================================================================
