----------------------- MODULE PermissionCacheProofs -----------------------
(***************************************************************************)
(* For any users and any number of concurrent requests: only someone who   *)
(* has held idp.system.admin changes who holds it, and a cache entry is    *)
(* wrong only for the reasons StaleOnlyByRace names.                       *)
(***************************************************************************)
EXTENDS PermissionCache, TLAPS

\* A request that goes on or ends keeps its type.
LEMMA GotoType ==
    ASSUME TypeOK, NEW r \in Requests, NEW step \in Steps, Goto(r, step)
    PROVE  req' \in [Requests -> RequestRecord]
<1>1. Idle \in RequestRecord
  BY DEF Idle, RequestRecord, Steps, Ops
<1>2. [req[r] EXCEPT !.pc = step] \in RequestRecord
  BY DEF TypeOK, RequestRecord
<1> QED
  BY <1>1, <1>2 DEF TypeOK, Goto

\* What Goto does to each request.
LEMMA GotoValue ==
    ASSUME TypeOK, NEW r \in Requests, NEW step \in Steps, Goto(r, step)
    PROVE  /\ \A q \in Requests : q # r => req'[q] = req[q]
           /\ req'[r].pc = step
           /\ step # "idle" => /\ req'[r].actor = req[r].actor
                               /\ req'[r].target = req[r].target
                               /\ req'[r].op = req[r].op
                               /\ req'[r].val = req[r].val
                               /\ req'[r].raced = req[r].raced
<1>1. req[r] \in RequestRecord
  BY DEF TypeOK
<1>2. CASE step = "idle"
  BY <1>2 DEF TypeOK, Goto, Idle
<1>3. CASE step # "idle"
  <2>1. req'[r] = [req[r] EXCEPT !.pc = step]
    BY <1>3 DEF TypeOK, Goto
  <2>2. \A q \in Requests : q # r => req'[q] = req[q]
    BY DEF TypeOK, Goto
  <2> QED
    BY <1>1, <2>1, <2>2 DEF RequestRecord
<1> QED
  BY <1>2, <1>3

\* A request begins, or has read the row: nothing but the request changes,
\* and an answer read just now is the row.
LEMMA QuietStart ==
    ASSUME CacheInv, NEW r \in Requests, NEW op \in Ops, NEW a \in Users, NEW t \in Users,
           Start(r, op, a, t)
    PROVE  CacheInv'
<1> DEFINE row == [Idle EXCEPT !.op = op, !.actor = a, !.target = t,
                       !.pc = IF op = "revoke_all" THEN "change" ELSE "lookup"]
<1>1. row \in RequestRecord
  BY DEF Idle, RequestRecord, Steps, Ops
<1>2. req' = [req EXCEPT ![r] = row] /\ UNCHANGED <<held, cache, everHeld, doubt>>
  BY DEF Start
<1>3. TypeOK'
  BY <1>1, <1>2 DEF CacheInv, TypeOK
<1>4. /\ row.actor = a /\ row.target = t /\ row.op = op
      /\ row.pc = "lookup" \/ (row.pc = "change" /\ op = "revoke_all")
  BY DEF Idle
<1>5. req'[r] = row /\ \A q \in Requests : q # r => req'[q] = req[q]
  BY <1>2 DEF CacheInv, TypeOK
<1>6. req[r].pc = "idle"
  BY DEF Start
<1> HIDE DEF row
<1>7. LookupsAreHonest'
  BY <1>2, <1>4, <1>5 DEF CacheInv, LookupsAreHonest
<1>8. OnlyHoldersChange'
  BY <1>2, <1>4, <1>5 DEF CacheInv, OnlyHoldersChange
<1>9. \A u \in Users : Dropping(u) => Dropping(u)'
  BY <1>5, <1>6 DEF Dropping
<1>10. StaleOnlyByRace'
  BY <1>2, <1>9 DEF CacheInv, StaleOnlyByRace, Agrees
<1> QED
  BY <1>3, <1>7, <1>8, <1>10 DEF CacheInv

LEMMA LookupKeeps ==
    ASSUME CacheInv, NEW r \in Requests, Lookup(r)
    PROVE  CacheInv'
<1>1. PICK step \in {"change", "idle", "read_row"} :
         /\ Goto(r, step)
         /\ step = "change" => cache[req[r].actor] = "yes"
  <2>1. req[r].actor \in Users
    BY DEF Lookup, CacheInv, LookupsAreHonest
  <2>2. cache[req[r].actor] \in {"none", "yes", "no"}
    BY <2>1 DEF CacheInv, TypeOK
  <2> QED
    BY <2>2 DEF Lookup
<1>2. step \in Steps
  BY DEF Steps
<1>3. req[r].pc = "lookup" /\ UNCHANGED <<held, cache, everHeld, doubt>>
  BY DEF Lookup
<1>4. TypeOK'
  BY <1>1, <1>2, <1>3, GotoType DEF CacheInv, TypeOK
<1>5. /\ \A q \in Requests : q # r => req'[q] = req[q]
      /\ req'[r].pc = step
      /\ step # "idle" => req'[r].actor = req[r].actor /\ req'[r].target = req[r].target
  BY <1>1, <1>2, GotoValue DEF CacheInv
<1>6. LookupsAreHonest'
  BY <1>3, <1>5 DEF CacheInv, LookupsAreHonest
<1>7. OnlyHoldersChange'
  BY <1>1, <1>3, <1>5 DEF CacheInv, OnlyHoldersChange, LookupsAreHonest
<1>8. \A u \in Users : Dropping(u) => Dropping(u)'
  BY <1>3, <1>5 DEF Dropping
<1>9. StaleOnlyByRace'
  BY <1>3, <1>8 DEF CacheInv, StaleOnlyByRace, Agrees
<1> QED
  BY <1>4, <1>6, <1>7, <1>9 DEF CacheInv

LEMMA ReadRowKeeps ==
    ASSUME CacheInv, NEW r \in Requests, ReadRow(r)
    PROVE  CacheInv'
<1> DEFINE row == [req[r] EXCEPT !.pc = "fill", !.val = held[req[r].actor], !.raced = FALSE]
<1>1. req[r] \in RequestRecord /\ req[r].actor \in Users /\ req[r].target \in Users
  BY DEF CacheInv, TypeOK, LookupsAreHonest, ReadRow
<1>2. held[req[r].actor] \in BOOLEAN
  BY <1>1 DEF CacheInv, TypeOK
<1>3. row \in RequestRecord
  BY <1>1, <1>2 DEF RequestRecord, Steps
<1>4. req' = [req EXCEPT ![r] = row] /\ UNCHANGED <<held, cache, everHeld, doubt>>
  BY DEF ReadRow
<1>5. TypeOK'
  BY <1>3, <1>4 DEF CacheInv, TypeOK
<1>6. req'[r] = row /\ \A q \in Requests : q # r => req'[q] = req[q]
  BY <1>4 DEF CacheInv, TypeOK
<1>7. /\ req'[r].pc = "fill" /\ req'[r].actor = req[r].actor /\ req'[r].target = req[r].target
      /\ req'[r].val = held[req[r].actor]
  BY <1>6, <1>1 DEF RequestRecord
<1> HIDE DEF row
<1>8. LookupsAreHonest'
  BY <1>1, <1>4, <1>6, <1>7 DEF CacheInv, LookupsAreHonest
<1>9. OnlyHoldersChange'
  BY <1>4, <1>6, <1>7 DEF CacheInv, OnlyHoldersChange
<1>10. \A u \in Users : Dropping(u) => Dropping(u)'
  BY <1>6 DEF Dropping, ReadRow
<1>11. StaleOnlyByRace'
  BY <1>4, <1>10 DEF CacheInv, StaleOnlyByRace, Agrees
<1> QED
  BY <1>5, <1>8, <1>9, <1>11 DEF CacheInv

\* The fill is where a stale entry can come from: only an answer that a
\* change has overtaken differs from the row.
LEMMA FillKeeps ==
    ASSUME CacheInv, NEW r \in Requests, Fill(r)
    PROVE  CacheInv'
<1>1. PICK a \in Users, v \in BOOLEAN, raced \in BOOLEAN :
         req[r].actor = a /\ req[r].val = v /\ req[r].raced = raced
  BY DEF CacheInv, TypeOK, RequestRecord, LookupsAreHonest, Fill
<1>2. req[r].pc = "fill" /\ UNCHANGED <<held, everHeld>>
  BY DEF Fill
<1>3. cache' = [cache EXCEPT ![a] = IF v THEN "yes" ELSE "no"]
  BY <1>1 DEF Fill
<1>4. doubt' = IF raced THEN doubt \cup {a} ELSE doubt \ {a}
  BY <1>1 DEF Fill
<1>5. PICK step \in {"change", "idle"} : Goto(r, step) /\ (step = "change" => v)
  BY <1>1 DEF Fill
<1>6. step \in Steps
  BY DEF Steps
<1>7. (v => a \in everHeld) /\ (raced \/ v = held[a])
  BY <1>1, <1>2 DEF CacheInv, LookupsAreHonest
<1>8. TypeOK'
  <2>1. req' \in [Requests -> RequestRecord]
    BY <1>5, <1>6, GotoType DEF CacheInv
  <2> QED
    BY <2>1, <1>2, <1>3, <1>4 DEF CacheInv, TypeOK
<1>9. /\ \A q \in Requests : q # r => req'[q] = req[q]
      /\ req'[r].pc = step
      /\ step # "idle" => req'[r].actor = a /\ req'[r].target = req[r].target
  BY <1>1, <1>5, <1>6, GotoValue DEF CacheInv
<1>10. LookupsAreHonest'
  BY <1>2, <1>3, <1>7, <1>9 DEF CacheInv, TypeOK, LookupsAreHonest
<1>11. OnlyHoldersChange'
  BY <1>2, <1>5, <1>7, <1>9 DEF CacheInv, OnlyHoldersChange
<1>12. \A u \in Users : Dropping(u) => Dropping(u)'
  BY <1>2, <1>9 DEF Dropping
<1>13. StaleOnlyByRace'
  <2> SUFFICES ASSUME NEW u \in Users, cache'[u] # "none", ~Agrees(u)'
               PROVE  Dropping(u)' \/ u \in doubt'
    BY DEF StaleOnlyByRace
  <2>1. CASE u = a
    <3>1. cache'[a] = IF v THEN "yes" ELSE "no"
      BY <1>3 DEF CacheInv, TypeOK
    <3>2. held[a] \in BOOLEAN
      BY DEF CacheInv, TypeOK
    <3>3. v # held[a]
      BY <2>1, <3>1, <3>2, <1>2 DEF Agrees
    <3> QED
      BY <2>1, <3>3, <1>4, <1>7
  <2>2. CASE u # a
    BY <2>2, <1>2, <1>3, <1>4, <1>12 DEF CacheInv, TypeOK, StaleOnlyByRace, Agrees
  <2> QED
    BY <2>1, <2>2
<1> QED
  BY <1>8, <1>10, <1>11, <1>13 DEF CacheInv

\* A change overtakes the answers on their way to the cache and owes a drop.
LEMMA ChangeKeeps ==
    ASSUME CacheInv, NEW r \in Requests, Change(r)
    PROVE  CacheInv'
<1>1. PICK t \in Users, on \in BOOLEAN : req[r].target = t /\ on = (req[r].op = "grant")
  BY DEF CacheInv, LookupsAreHonest, Change
<1>2. req[r].pc = "change" /\ UNCHANGED <<cache, doubt>> /\ held' = [held EXCEPT ![t] = on]
  BY <1>1 DEF Change
<1>3. everHeld' = IF on THEN everHeld \cup {t} ELSE everHeld
  BY <1>1 DEF Change
<1>4. req' = [q \in Requests |->
                IF q = r THEN [req[q] EXCEPT !.pc = "drop"]
                ELSE IF req[q].pc = "fill" /\ req[q].actor = t
                     THEN [req[q] EXCEPT !.raced = TRUE]
                     ELSE req[q]]
  BY <1>1 DEF Change
<1>5. \A q \in Requests :
         /\ req'[q] \in RequestRecord
         /\ req'[q].actor = req[q].actor /\ req'[q].target = req[q].target
         /\ req'[q].op = req[q].op /\ req'[q].val = req[q].val
         /\ q # r => req'[q].pc = req[q].pc
         /\ q # r /\ req[q].pc = "fill" =>
               req'[q].raced = (req[q].raced \/ req[q].actor = t)
  <2> SUFFICES ASSUME NEW q \in Requests
               PROVE  /\ req'[q] \in RequestRecord
                      /\ req'[q].actor = req[q].actor /\ req'[q].target = req[q].target
                      /\ req'[q].op = req[q].op /\ req'[q].val = req[q].val
                      /\ q # r => req'[q].pc = req[q].pc
                      /\ q # r /\ req[q].pc = "fill" =>
                            req'[q].raced = (req[q].raced \/ req[q].actor = t)
    OBVIOUS
  <2>1. req[q] \in RequestRecord
    BY DEF CacheInv, TypeOK
  <2>2. CASE q = r
    <3>1. req'[q] = [req[q] EXCEPT !.pc = "drop"]
      BY <1>4, <2>2
    <3> QED
      BY <2>1, <2>2, <3>1 DEF RequestRecord, Steps
  <2>3. CASE q # r /\ req[q].pc = "fill" /\ req[q].actor = t
    <3>1. req'[q] = [req[q] EXCEPT !.raced = TRUE]
      BY <1>4, <2>3
    <3> QED
      BY <2>1, <2>3, <3>1 DEF RequestRecord
  <2>4. CASE q # r /\ ~(req[q].pc = "fill" /\ req[q].actor = t)
    <3>1. req'[q] = req[q]
      BY <1>4, <2>4
    <3>2. req[q].raced \in BOOLEAN
      BY <2>1 DEF RequestRecord
    <3> QED
      BY <2>1, <2>4, <3>1, <3>2
  <2> QED
    BY <2>2, <2>3, <2>4
<1>6. req'[r].pc = "drop"
  <2>1. req'[r] = [req[r] EXCEPT !.pc = "drop"]
    BY <1>4
  <2> QED
    BY <2>1 DEF CacheInv, TypeOK, RequestRecord
<1>7. TypeOK'
  <2>1. req' \in [Requests -> RequestRecord]
    BY <1>4, <1>5
  <2> QED
    BY <2>1, <1>2, <1>3 DEF CacheInv, TypeOK
<1>8. \A u \in Users : held'[u] = IF u = t THEN on ELSE held[u]
  BY <1>2 DEF CacheInv, TypeOK
<1>9. LookupsAreHonest'
  <2>1. \A u \in Users : (cache'[u] = "yes" => u \in everHeld') /\ (held'[u] => u \in everHeld')
    BY <1>2, <1>3, <1>8 DEF CacheInv, LookupsAreHonest
  <2>2. \A q \in Requests : req'[q].pc # "idle"
           => req'[q].target \in Users /\ req'[q].actor \in Users
    BY <1>2, <1>5 DEF CacheInv, LookupsAreHonest
  <2>3. ASSUME NEW q \in Requests, req'[q].pc = "fill"
        PROVE  /\ req'[q].val => req'[q].actor \in everHeld'
               /\ req'[q].raced \/ req'[q].val = held'[req'[q].actor]
    <3>1. q # r
      BY <2>3, <1>6
    <3>2. /\ req[q].pc = "fill" /\ req[q].actor \in Users
          /\ req[q].val => req[q].actor \in everHeld
          /\ req[q].raced \/ req[q].val = held[req[q].actor]
      BY <2>3, <3>1, <1>5 DEF CacheInv, LookupsAreHonest
    <3> QED
      BY <3>1, <3>2, <1>3, <1>5, <1>8
  <2> QED
    BY <2>1, <2>2, <2>3 DEF LookupsAreHonest
<1>10. OnlyHoldersChange'
  BY <1>2, <1>3, <1>5 DEF CacheInv, OnlyHoldersChange
<1>11. StaleOnlyByRace'
  <2>1. \A u \in Users : Dropping(u) \/ u = t => Dropping(u)'
    BY <1>1, <1>2, <1>5, <1>6 DEF Dropping
  <2> QED
    BY <2>1, <1>2, <1>8 DEF CacheInv, StaleOnlyByRace, Agrees
<1> QED
  BY <1>7, <1>9, <1>10, <1>11 DEF CacheInv

\* A drop settles the entry, and a lost drop leaves it in doubt.
LEMMA DropKeeps ==
    ASSUME CacheInv, NEW r \in Requests, Drop(r) \/ Abandon(r)
    PROVE  CacheInv'
<1>1. req[r].pc # "idle" /\ Goto(r, "idle") /\ UNCHANGED <<held, everHeld>>
  BY DEF Drop, Abandon
<1>2. PICK t \in Users : req[r].target = t
  BY <1>1 DEF CacheInv, LookupsAreHonest
<1>3. "idle" \in Steps
  BY DEF Steps
<1>4. req' \in [Requests -> RequestRecord]
  BY <1>1, <1>3, GotoType DEF CacheInv
<1>5. (\A q \in Requests : q # r => req'[q] = req[q]) /\ req'[r].pc = "idle"
  BY <1>1, <1>3, GotoValue DEF CacheInv
<1>6. \/ cache' = [cache EXCEPT ![t] = "none"] /\ doubt' = doubt \ {t}
      \/ /\ UNCHANGED cache
         /\ doubt \subseteq doubt' /\ doubt' \subseteq doubt \cup {t}
         /\ req[r].pc = "drop" /\ cache[t] # "none" => t \in doubt'
  BY <1>2 DEF Drop, Abandon
<1>7. TypeOK'
  BY <1>1, <1>4, <1>6 DEF CacheInv, TypeOK
<1>8. LookupsAreHonest'
  BY <1>1, <1>5, <1>6 DEF CacheInv, TypeOK, LookupsAreHonest
<1>9. OnlyHoldersChange'
  BY <1>1, <1>5 DEF CacheInv, OnlyHoldersChange
<1>10. \A u \in Users : Dropping(u) /\ ~(u = t /\ req[r].pc = "drop") => Dropping(u)'
  BY <1>2, <1>5 DEF Dropping
<1>11. StaleOnlyByRace'
  BY <1>1, <1>6, <1>10 DEF CacheInv, TypeOK, StaleOnlyByRace, Agrees
<1> QED
  BY <1>7, <1>8, <1>9, <1>11 DEF CacheInv

LEMMA ExpireKeeps ==
    ASSUME CacheInv, NEW u \in Users, Expire(u)
    PROVE  CacheInv'
<1>1. TypeOK'
  BY DEF CacheInv, TypeOK, Expire
<1>2. LookupsAreHonest' /\ OnlyHoldersChange'
  BY DEF CacheInv, TypeOK, LookupsAreHonest, OnlyHoldersChange, Expire
<1>3. StaleOnlyByRace'
  BY DEF CacheInv, TypeOK, StaleOnlyByRace, Agrees, Dropping, Expire
<1> QED
  BY <1>1, <1>2, <1>3 DEF CacheInv

\* The inductive invariant holds in every reachable state.
THEOREM CacheInvariant == Spec => []CacheInv
<1>1. Init => CacheInv
  <2> SUFFICES ASSUME Init PROVE CacheInv
    OBVIOUS
  <2>1. TypeOK
    <3>1. Idle \in RequestRecord
      BY DEF Idle, RequestRecord, Steps, Ops
    <3> QED
      BY <3>1, AdminsAssumption DEF Init, TypeOK
  <2>2. \A r \in Requests : req[r].pc = "idle"
    BY DEF Init, Idle
  <2>3. LookupsAreHonest /\ OnlyHoldersChange
    BY <2>2 DEF Init, LookupsAreHonest, OnlyHoldersChange
  <2>4. StaleOnlyByRace
    BY DEF Init, StaleOnlyByRace
  <2> QED
    BY <2>1, <2>3, <2>4 DEF CacheInv
<1>2. CacheInv /\ [Next]_vars => CacheInv'
  <2> SUFFICES ASSUME CacheInv, [Next]_vars
               PROVE  CacheInv'
    OBVIOUS
  <2>1. ASSUME NEW r \in Requests, NEW op \in Ops, NEW a \in Users, NEW t \in Users,
               Start(r, op, a, t)
        PROVE  CacheInv'
    BY <2>1, QuietStart
  <2>2. ASSUME NEW r \in Requests, Lookup(r) PROVE CacheInv'
    BY <2>2, LookupKeeps
  <2>3. ASSUME NEW r \in Requests, ReadRow(r) PROVE CacheInv'
    BY <2>3, ReadRowKeeps
  <2>4. ASSUME NEW r \in Requests, Fill(r) PROVE CacheInv'
    BY <2>4, FillKeeps
  <2>5. ASSUME NEW r \in Requests, Change(r) PROVE CacheInv'
    BY <2>5, ChangeKeeps
  <2>6. ASSUME NEW r \in Requests, Drop(r) \/ Abandon(r) PROVE CacheInv'
    BY <2>6, DropKeeps
  <2>7. ASSUME NEW u \in Users, Expire(u) PROVE CacheInv'
    BY <2>7, ExpireKeeps
  <2>8. CASE UNCHANGED vars
    BY <2>8 DEF vars, CacheInv, TypeOK, LookupsAreHonest, OnlyHoldersChange,
                StaleOnlyByRace, Agrees, Dropping
  <2> QED
    BY <2>1, <2>2, <2>3, <2>4, <2>5, <2>6, <2>7, <2>8 DEF Next, Serve
<1> QED
  BY <1>1, <1>2, PTL DEF Spec

\* No request whose actor never held idp.system.admin reaches the statement
\* that grants or revokes it.
THEOREM HoldersOnly == Spec => []OnlyHoldersChange
<1>1. CacheInv => OnlyHoldersChange
  BY DEF CacheInv
<1> QED
  BY <1>1, CacheInvariant, PTL

\* A cached answer differs from the row only across an unfinished change, an
\* overtaken lookup or a lost drop.
THEOREM StalenessExplained == Spec => []StaleOnlyByRace
<1>1. CacheInv => StaleOnlyByRace
  BY DEF CacheInv
<1> QED
  BY <1>1, CacheInvariant, PTL
=============================================================================
