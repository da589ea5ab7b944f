-------------------------- MODULE MembershipProofs --------------------------
(***************************************************************************)
(* For any guests and any number of concurrent requests: nobody becomes a  *)
(* member without having accepted, rights belong only to people who have   *)
(* been members, and a suspension reaches every refresh token but those    *)
(* that overtake it.                                                       *)
(***************************************************************************)
EXTENDS Membership, TLAPS

Others == <<row, rights, tokens, strays, console, everIn>>

\* A request is under way to revoke the refresh tokens of u.
SweepPending(u) == \E q \in Requests : req[q].pc = "revoke_tokens" /\ req[q].user = u

\* A request that ends, or goes on to a step, and leaves the other requests.
LEMMA GotoFacts ==
    ASSUME TypeOK, NEW r \in Requests, NEW step \in Steps, Goto(r, step)
    PROVE  /\ req' \in [Requests -> RequestRecord]
           /\ \A q \in Requests : q # r => req'[q] = req[q]
           /\ req'[r].pc = step
           /\ step # "idle" => req'[r].user = req[r].user /\ req'[r].raced = req[r].raced
<1>1. req[r] \in RequestRecord
  BY DEF TypeOK
<1>2. Idle \in RequestRecord /\ Idle.pc = "idle"
  BY DEF Idle, RequestRecord, Steps
<1>3. CASE step = "idle"
  BY <1>2, <1>3 DEF TypeOK, Goto
<1>4. CASE step # "idle"
  <2>1. req' = [req EXCEPT ![r] = [req[r] EXCEPT !.pc = step]]
    BY <1>4 DEF Goto
  <2>2. [req[r] EXCEPT !.pc = step] \in RequestRecord
    BY <1>1 DEF RequestRecord
  <2>3. req' \in [Requests -> RequestRecord]
    BY <2>1, <2>2 DEF TypeOK
  <2>4. req'[r] = [req[r] EXCEPT !.pc = step] /\ \A q \in Requests : q # r => req'[q] = req[q]
    BY <2>1 DEF TypeOK
  <2> QED
    BY <1>1, <2>3, <2>4 DEF RequestRecord
<1> QED
  BY <1>3, <1>4

\* What an overtaking request leaves of the others.
LEMMA OvertakeFacts ==
    ASSUME TypeOK, NEW r \in Requests, NEW record \in RequestRecord, NEW u \in Users,
           NEW steps, Overtake(r, record, u, steps)
    PROVE  /\ req' \in [Requests -> RequestRecord]
           /\ req'[r] = record
           /\ \A q \in Requests : q # r =>
                 /\ req'[q].pc = req[q].pc /\ req'[q].user = req[q].user
                 /\ ~req'[q].raced => ~req[q].raced
                 /\ ~req'[q].raced => ~(req[q].pc \in steps /\ req[q].user = u)
<1>1. req'[r] = record
  BY DEF Overtake
<1>2. ASSUME NEW q \in Requests, q # r
      PROVE  /\ req'[q] \in RequestRecord
             /\ req'[q].pc = req[q].pc /\ req'[q].user = req[q].user
             /\ ~req'[q].raced => ~req[q].raced
             /\ ~req'[q].raced => ~(req[q].pc \in steps /\ req[q].user = u)
  <2>1. req[q] \in RequestRecord
    BY DEF TypeOK
  <2>2. CASE req[q].pc \in steps /\ req[q].user = u
    <3>1. req'[q] = [req[q] EXCEPT !.raced = TRUE]
      BY <1>2, <2>2 DEF Overtake
    <3> QED
      BY <2>1, <3>1 DEF RequestRecord
  <2>3. CASE ~(req[q].pc \in steps /\ req[q].user = u)
    <3>1. req'[q] = req[q]
      BY <1>2, <2>3 DEF Overtake
    <3> QED
      BY <2>1, <2>3, <3>1
  <2> QED
    BY <2>2, <2>3
<1>3. \A q \in Requests : req'[q] \in RequestRecord
  BY <1>1, <1>2
<1>4. req' = [q \in Requests |-> req'[q]]
  BY DEF Overtake
<1> QED
  BY <1>1, <1>2, <1>3, <1>4

\* A request that begins for a user who may be the subject of its step.
LEMMA BeginKeeps ==
    ASSUME MemberInv, NEW r \in Requests, NEW new \in RequestRecord,
           req[r].pc = "idle", req' = [req EXCEPT ![r] = new], UNCHANGED Others,
           new.pc \notin {"idle", "revoke_tokens", "renew"}, new.user \in Users,
           new.pc \in {"suspend", "resume", "grant", "revoke", "codes", "sign", "issue"}
               => new.user \in everIn,
           new.pc = "issue" => row[new.user] # "suspended"
    PROVE  MemberInv'
<1>1. TypeOK'
  BY DEF MemberInv, TypeOK, Others
<1>2. req'[r] = new /\ \A q \in Requests : q # r => req'[q] = req[q]
  BY DEF MemberInv, TypeOK
<1>3. NobodyInUnasked' /\ RightsOnlyForMembers'
  BY DEF MemberInv, NobodyInUnasked, RightsOnlyForMembers, Others
<1>4. PendingForMembers'
  BY <1>2 DEF MemberInv, PendingForMembers, Others
<1>5. SuspensionReachesTokens'
  BY <1>2 DEF MemberInv, SuspensionReachesTokens, Others
<1>6. OvertakenIsKnown'
  <2> SUFFICES ASSUME NEW q \in Requests, ~req'[q].raced,
                      NEW w, w = req'[q].user
               PROVE  /\ req'[q].pc = "issue" => row'[w] # "suspended"
                      /\ req'[q].pc = "renew" /\ row'[w] = "suspended" => SweepPending(w)'
    BY DEF OvertakenIsKnown, SweepPending
  <2>1. CASE q = r
    BY <1>2, <2>1 DEF Others
  <2>2. CASE q # r
    <3>1. req'[q] = req[q] /\ row' = row
      BY <1>2, <2>2 DEF Others
    <3>2. \A v : SweepPending(v) => SweepPending(v)'
      BY <1>2 DEF SweepPending
    <3> QED
      BY <3>1, <3>2 DEF MemberInv, OvertakenIsKnown, SweepPending
  <2> QED
    BY <2>1, <2>2
<1> QED
  BY <1>1, <1>3, <1>4, <1>5, <1>6 DEF MemberInv

\* The same for a request that begins with Begin.
LEMMA BeginStep ==
    ASSUME MemberInv, NEW r \in Requests, NEW u \in Users,
           NEW step \in Steps \ {"idle", "revoke_tokens", "renew"}, Begin(r, step, u),
           step \in {"suspend", "resume", "grant", "revoke", "codes", "sign", "issue"}
               => u \in everIn,
           step = "issue" => row[u] # "suspended"
    PROVE  MemberInv'
<1> DEFINE new == [Idle EXCEPT !.pc = step, !.user = u]
<1>1. new \in RequestRecord /\ new.pc = step /\ new.user = u
  BY DEF Idle, RequestRecord
<1>2. req' = [req EXCEPT ![r] = new] /\ req[r].pc = "idle" /\ UNCHANGED Others
  BY DEF Begin, Others
<1> HIDE DEF new
<1> QED
  BY <1>1, <1>2, BeginKeeps

\* Every request begins as BeginKeeps asks.
LEMMA RequestKeeps ==
    ASSUME MemberInv, NEW r \in Requests, NEW u \in Users, Request(r, u)
    PROVE  MemberInv'
<1>1. row[u] \in {"active", "suspended"} => u \in everIn
  BY DEF MemberInv, NobodyInUnasked
<1>2. CASE FindNoRow(r, u)
  <2>1. Begin(r, "create", u) /\ "create" \in Steps \ {"idle", "revoke_tokens", "renew"}
    BY <1>2 DEF FindNoRow, Steps
  <2> QED
    BY <2>1, BeginStep
<1>3. CASE FindInvitation(r, u)
  <2>1. Begin(r, "activate", u) /\ "activate" \in Steps \ {"idle", "revoke_tokens", "renew"}
    BY <1>3 DEF FindInvitation, Steps
  <2> QED
    BY <2>1, BeginStep
<1>4. CASE FindToSuspend(r, u)
  <2>1. Begin(r, "suspend", u) /\ "suspend" \in Steps \ {"idle", "revoke_tokens", "renew"}
        /\ u \in everIn
    BY <1>1, <1>4 DEF FindToSuspend, Steps
  <2> QED
    BY <2>1, BeginStep
<1>5. CASE FindToResume(r, u)
  <2>1. Begin(r, "resume", u) /\ "resume" \in Steps \ {"idle", "revoke_tokens", "renew"}
        /\ u \in everIn
    BY <1>1, <1>5 DEF FindToResume, Steps
  <2> QED
    BY <2>1, BeginStep
<1>6. CASE FindToRemove(r, u)
  <2>1. Begin(r, "revoke_rights", u)
        /\ "revoke_rights" \in Steps \ {"idle", "revoke_tokens", "renew"}
    BY <1>6 DEF FindToRemove, Steps
  <2> QED
    BY <2>1, BeginStep
<1>7. ASSUME NEW step \in {"grant", "revoke"}, CheckTarget(r, u, step) PROVE MemberInv'
  <2>1. Begin(r, step, u) /\ step \in Steps \ {"idle", "revoke_tokens", "renew"} /\ u \in everIn
        /\ step # "issue"
    BY <1>1, <1>7 DEF CheckTarget, Active, Steps
  <2> QED
    BY <2>1, BeginStep
<1>8. CASE CheckMember(r, u)
  <2>1. Begin(r, "codes", u) /\ "codes" \in Steps \ {"idle", "revoke_tokens", "renew"}
        /\ u \in everIn
    BY <1>1, <1>8 DEF CheckMember, Active, Steps
  <2> QED
    BY <2>1, BeginStep
<1>9. CASE CheckSignIn(r, u)
  <2>1. Begin(r, "issue", u) /\ "issue" \in Steps \ {"idle", "revoke_tokens", "renew"}
        /\ u \in everIn /\ row[u] # "suspended"
    BY <1>1, <1>9 DEF CheckSignIn, Active, Steps
  <2> QED
    BY <2>1, BeginStep
<1>10. CASE FindToken(r, u)
  <2>1. Begin(r, "rotate", u) /\ "rotate" \in Steps \ {"idle", "revoke_tokens", "renew"}
    BY <1>10 DEF FindToken, Steps
  <2> QED
    BY <2>1, BeginStep
<1>11. CASE FindStray(r, u)
  <2> DEFINE new == [Idle EXCEPT !.pc = "rotate", !.user = u, !.raced = TRUE]
  <2>1. new \in RequestRecord /\ new.pc = "rotate" /\ new.user = u
    BY DEF Idle, RequestRecord, Steps
  <2>2. req' = [req EXCEPT ![r] = new] /\ req[r].pc = "idle" /\ UNCHANGED Others
    BY <1>11 DEF FindStray, Others
  <2> HIDE DEF new
  <2> QED
    BY <2>1, <2>2, BeginKeeps
<1> QED
  BY <1>2, <1>3, <1>4, <1>5, <1>6, <1>7, <1>8, <1>9, <1>10, <1>11 DEF Request

\* A statement that leaves no suspended row where it writes, and ends.
LEMMA RowKeeps ==
    ASSUME MemberInv, NEW r \in Requests, Goto(r, "idle"),
           NEW u \in Users, NEW status \in Status, status # "suspended",
           row' = [row EXCEPT ![u] = status],
           everIn' \in SUBSET Users, everIn \subseteq everIn',
           status = "active" => u \in everIn',
           req[r].pc # "revoke_tokens",
           UNCHANGED <<rights, tokens, strays, console>>
    PROVE  MemberInv'
<1>1. "idle" \in Steps
  BY DEF Steps
<1>2. /\ req' \in [Requests -> RequestRecord]
      /\ \A q \in Requests : q # r => req'[q] = req[q]
      /\ req'[r].pc = "idle"
  BY <1>1, GotoFacts DEF MemberInv
<1>3. TypeOK'
  BY <1>2 DEF MemberInv, TypeOK
<1>4. \A v \in Users : row'[v] = IF v = u THEN status ELSE row[v]
  BY DEF MemberInv, TypeOK
<1>5. NobodyInUnasked' /\ RightsOnlyForMembers'
  BY <1>4 DEF MemberInv, NobodyInUnasked, RightsOnlyForMembers
<1>6. PendingForMembers'
  BY <1>2 DEF MemberInv, PendingForMembers
<1>7. SuspensionReachesTokens'
  BY <1>2, <1>4 DEF MemberInv, SuspensionReachesTokens
<1>8. OvertakenIsKnown'
  BY <1>2, <1>4 DEF MemberInv, OvertakenIsKnown, PendingForMembers
<1> QED
  BY <1>3, <1>5, <1>6, <1>7, <1>8 DEF MemberInv

\* UpdateStatus to ACTIVE for a user who has been a member.
LEMMA StatusKeeps ==
    ASSUME MemberInv, NEW r \in Requests, Goto(r, "idle"), NEW u \in Users,
           UpdateStatus(u, "active"), everIn' \in SUBSET Users, everIn \subseteq everIn',
           u \in everIn', req[r].pc # "revoke_tokens",
           UNCHANGED <<rights, tokens, strays, console>>
    PROVE  MemberInv'
<1>1. row \in [Users -> Status]
  BY DEF MemberInv, TypeOK
<1>2. CASE row[u] = "none"
  <2>1. row' = [row EXCEPT ![u] = "none"] /\ "none" \in Status
    BY <1>1, <1>2 DEF UpdateStatus, Status
  <2> QED
    BY <2>1, RowKeeps
<1>3. CASE row[u] # "none"
  <2>1. row' = [row EXCEPT ![u] = "active"] /\ "active" \in Status
    BY <1>3 DEF UpdateStatus, Status
  <2> QED
    BY <2>1, RowKeeps
<1> QED
  BY <1>2, <1>3

\* A statement that leaves every row, and the request goes on or ends.  A
\* token it adds for a suspended guest is one that a pending sweep will find.
LEMMA FieldsKeep ==
    ASSUME MemberInv, NEW r \in Requests, NEW step \in {"idle", "delete", "sign", "renew"},
           Goto(r, step), req[r].pc \notin {"idle", "revoke_tokens"},
           step = "sign" => req[r].user \in everIn,
           step = "renew" /\ ~req[r].raced /\ row[req[r].user] = "suspended" =>
               SweepPending(req[r].user),
           UNCHANGED <<row, everIn>>,
           rights' \in SUBSET Users, console' \in SUBSET Users, tokens' \in SUBSET Users,
           strays' \in SUBSET Users,
           rights' \cup console' \subseteq everIn,
           \A u \in Users : row[u] = "suspended" /\ u \in tokens' => SweepPending(u)
    PROVE  MemberInv'
<1>1. step \in Steps
  BY DEF Steps
<1>2. /\ req' \in [Requests -> RequestRecord]
      /\ \A q \in Requests : q # r => req'[q] = req[q]
      /\ req'[r].pc = step
      /\ step # "idle" => req'[r].user = req[r].user /\ req'[r].raced = req[r].raced
  BY <1>1, GotoFacts DEF MemberInv
<1>3. \A v : SweepPending(v) => SweepPending(v)'
  BY <1>2 DEF SweepPending
<1>4. TypeOK'
  BY <1>2 DEF MemberInv, TypeOK
<1>5. NobodyInUnasked' /\ RightsOnlyForMembers'
  BY DEF MemberInv, NobodyInUnasked, RightsOnlyForMembers
<1>6. PendingForMembers'
  BY <1>2 DEF MemberInv, PendingForMembers
<1>7. SuspensionReachesTokens'
  <2> SUFFICES ASSUME NEW u \in Users, row'[u] = "suspended", u \in tokens'
               PROVE  SweepPending(u)'
    BY DEF SuspensionReachesTokens, SweepPending
  <2> QED
    BY <1>3
<1>8. OvertakenIsKnown'
  <2> SUFFICES ASSUME NEW q \in Requests, ~req'[q].raced,
                      NEW w, w = req'[q].user
               PROVE  /\ req'[q].pc = "issue" => row'[w] # "suspended"
                      /\ req'[q].pc = "renew" /\ row'[w] = "suspended" => SweepPending(w)'
    BY DEF OvertakenIsKnown, SweepPending
  <2>1. CASE q = r
    BY <1>2, <1>3, <2>1
  <2>2. CASE q # r
    <3>1. req'[q] = req[q]
      BY <1>2, <2>2
    <3>2. /\ req[q].pc = "issue" => row[req[q].user] # "suspended"
          /\ req[q].pc = "renew" /\ row[req[q].user] = "suspended" => SweepPending(w)
      BY <3>1 DEF MemberInv, OvertakenIsKnown, SweepPending
    <3> QED
      BY <1>3, <3>1, <3>2
  <2> QED
    BY <2>1, <2>2
<1> QED
  BY <1>4, <1>5, <1>6, <1>7, <1>8 DEF MemberInv

\* Suspending overtakes the sign-ins that have checked, and owes a revocation.
LEMMA SuspendKeeps ==
    ASSUME MemberInv, NEW r \in Requests, Suspend(r)
    PROVE  MemberInv'
<1> DEFINE record == [req[r] EXCEPT !.pc = "revoke_tokens"]
<1>1. PICK u \in Users : req[r].user = u /\ u \in everIn
  BY DEF MemberInv, PendingForMembers, Suspend
<1>2. UNCHANGED <<rights, tokens, strays, console, everIn>>
  BY DEF Suspend
<1>3. row \in [Users -> Status] /\ TypeOK
  BY DEF MemberInv, TypeOK
<1>4. /\ row' \in [Users -> Status] /\ row'[u] \in {"none", "suspended"}
      /\ \A v \in Users : v # u => row'[v] = row[v]
  BY <1>1, <1>3 DEF Suspend, UpdateStatus, Status
<1>5. record \in RequestRecord /\ record.pc = "revoke_tokens" /\ record.user = u
  BY <1>1, <1>3 DEF TypeOK, RequestRecord, Steps
<1>6. Overtake(r, record, u, {"issue"})
  BY <1>1 DEF Suspend
<1> HIDE DEF record
<1>7. /\ req' \in [Requests -> RequestRecord]
      /\ req'[r] = record
      /\ \A q \in Requests : q # r =>
            /\ req'[q].pc = req[q].pc /\ req'[q].user = req[q].user
            /\ ~req'[q].raced => ~req[q].raced
            /\ ~req'[q].raced => ~(req[q].pc \in {"issue"} /\ req[q].user = u)
  BY <1>3, <1>5, <1>6, OvertakeFacts
<1>8. TypeOK'
  BY <1>2, <1>4, <1>7 DEF MemberInv, TypeOK
<1>9. SweepPending(u)' /\ \A v : SweepPending(v) => SweepPending(v)'
  <2>1. req[r].pc = "suspend"
    BY DEF Suspend
  <2> QED
    BY <1>5, <1>7, <2>1 DEF SweepPending
<1>10. NobodyInUnasked' /\ RightsOnlyForMembers'
  BY <1>1, <1>2, <1>4 DEF MemberInv, NobodyInUnasked, RightsOnlyForMembers
<1>11. PendingForMembers'
  BY <1>1, <1>2, <1>5, <1>7 DEF MemberInv, PendingForMembers
<1>12. SuspensionReachesTokens'
  <2> SUFFICES ASSUME NEW v \in Users, row'[v] = "suspended", v \in tokens'
               PROVE  SweepPending(v)'
    BY DEF SuspensionReachesTokens, SweepPending
  <2>1. CASE v = u
    BY <1>9, <2>1
  <2>2. CASE v # u
    <3>1. SweepPending(v)
      BY <1>2, <1>4, <2>2 DEF MemberInv, SuspensionReachesTokens, SweepPending
    <3> QED
      BY <1>9, <3>1
  <2> QED
    BY <2>1, <2>2
<1>13. OvertakenIsKnown'
  <2> SUFFICES ASSUME NEW q \in Requests, ~req'[q].raced, req'[q].pc \in {"issue", "renew"},
                      NEW w, w = req'[q].user
               PROVE  /\ req'[q].pc = "issue" => row'[w] # "suspended"
                      /\ req'[q].pc = "renew" /\ row'[w] = "suspended" => SweepPending(w)'
    BY DEF OvertakenIsKnown, SweepPending
  <2>1. q # r
    BY <1>5, <1>7
  <2>2. /\ req'[q].pc = req[q].pc /\ req'[q].user = req[q].user /\ ~req[q].raced
        /\ req[q].pc = "issue" => req[q].user # u
    BY <1>7, <2>1
  <2>3. req[q].user \in Users
    BY <2>2 DEF MemberInv, PendingForMembers
  <2>4. /\ req[q].pc = "issue" => row[req[q].user] # "suspended"
        /\ req[q].pc = "renew" /\ row[req[q].user] = "suspended" => SweepPending(w)
    BY <2>2 DEF MemberInv, OvertakenIsKnown, SweepPending
  <2>5. CASE req[q].user = u
    BY <1>9, <2>2, <2>5
  <2>6. CASE req[q].user # u
    BY <1>4, <1>9, <2>2, <2>3, <2>4, <2>6
  <2> QED
    BY <2>5, <2>6
<1> QED
  BY <1>8, <1>10, <1>11, <1>12, <1>13 DEF MemberInv

\* The end of a sweep, run or failed: no token of u is left but strays, and
\* the refreshes between UPDATE and INSERT have been overtaken.
LEMMA SweepKeeps ==
    ASSUME MemberInv, NEW r \in Requests, req[r].pc = "revoke_tokens",
           NEW steps, "renew" \in steps,
           Overtake(r, Idle, req[r].user, steps),
           tokens' = tokens \ {req[r].user}, strays' \in SUBSET Users,
           UNCHANGED <<row, rights, console, everIn>>
    PROVE  MemberInv'
<1>1. PICK u \in Users : req[r].user = u
  BY DEF MemberInv, PendingForMembers
<1>2. Idle \in RequestRecord /\ Idle.pc = "idle" /\ TypeOK
  BY DEF Idle, RequestRecord, Steps, MemberInv
<1>3. /\ req' \in [Requests -> RequestRecord]
      /\ req'[r] = Idle
      /\ \A q \in Requests : q # r =>
            /\ req'[q].pc = req[q].pc /\ req'[q].user = req[q].user
            /\ ~req'[q].raced => ~req[q].raced
            /\ ~req'[q].raced => ~(req[q].pc \in steps /\ req[q].user = u)
  BY <1>1, <1>2, OvertakeFacts
<1>4. TypeOK'
  BY <1>1, <1>3 DEF MemberInv, TypeOK
<1>5. \A v \in Users : v # u /\ SweepPending(v) => SweepPending(v)'
  BY <1>1, <1>3 DEF SweepPending
<1>6. NobodyInUnasked' /\ RightsOnlyForMembers'
  BY DEF MemberInv, NobodyInUnasked, RightsOnlyForMembers
<1>7. PendingForMembers'
  BY <1>2, <1>3 DEF MemberInv, PendingForMembers
<1>8. SuspensionReachesTokens'
  <2> SUFFICES ASSUME NEW v \in Users, row'[v] = "suspended", v \in tokens'
               PROVE  SweepPending(v)'
    BY DEF SuspensionReachesTokens, SweepPending
  <2>1. v # u /\ v \in tokens /\ row[v] = "suspended"
    BY <1>1
  <2>2. SweepPending(v)
    BY <2>1 DEF MemberInv, SuspensionReachesTokens, SweepPending
  <2> QED
    BY <1>5, <2>1, <2>2
<1>9. OvertakenIsKnown'
  <2> SUFFICES ASSUME NEW q \in Requests, ~req'[q].raced, req'[q].pc \in {"issue", "renew"},
                      NEW w, w = req'[q].user
               PROVE  /\ req'[q].pc = "issue" => row'[w] # "suspended"
                      /\ req'[q].pc = "renew" /\ row'[w] = "suspended" => SweepPending(w)'
    BY DEF OvertakenIsKnown, SweepPending
  <2>1. q # r
    BY <1>2, <1>3
  <2>2. /\ req'[q].pc = req[q].pc /\ req'[q].user = req[q].user /\ ~req[q].raced
        /\ req[q].pc = "renew" => req[q].user # u
    BY <1>3, <2>1
  <2>3. req[q].user \in Users
    BY <2>2 DEF MemberInv, PendingForMembers
  <2>4. /\ req[q].pc = "issue" => row[req[q].user] # "suspended"
        /\ req[q].pc = "renew" /\ row[req[q].user] = "suspended" => SweepPending(w)
    BY <2>2 DEF MemberInv, OvertakenIsKnown, SweepPending
  <2> QED
    BY <1>5, <2>2, <2>3, <2>4
<1> QED
  BY <1>4, <1>6, <1>7, <1>8, <1>9 DEF MemberInv

\* The statements, one by one.
LEMMA StepKeeps ==
    ASSUME MemberInv, NEW r \in Requests, Step(r)
    PROVE  MemberInv'
<1>1. req[r].pc # "idle" => req[r].user \in Users
  BY DEF MemberInv, PendingForMembers
<1>2. TypeOK
  BY DEF MemberInv
<1>3. \A u \in Users : row[u] = "suspended" /\ u \in tokens => SweepPending(u)
  BY DEF MemberInv, SuspensionReachesTokens, SweepPending
<1>4. rights \cup console \subseteq everIn
  BY DEF MemberInv, RightsOnlyForMembers
<1>5. CASE CreateInvitation(r)
  <2>1. PICK u \in Users : req[r].user = u
    BY <1>1, <1>5 DEF CreateInvitation
  <2>2. Goto(r, "idle") /\ UNCHANGED <<rights, tokens, strays, console, everIn>>
        /\ req[r].pc \notin {"idle", "revoke_tokens"}
    BY <1>5 DEF CreateInvitation
  <2>3. everIn' \in SUBSET Users /\ everIn \subseteq everIn'
    BY <1>2, <2>2 DEF TypeOK
  <2>4. CASE row[u] = "none"
    <3>1. row' = [row EXCEPT ![u] = "invited"] /\ "invited" \in Status
      BY <1>5, <2>1, <2>4 DEF CreateInvitation, Status
    <3> QED
      BY <3>1, <2>2, <2>3, RowKeeps
  <2>5. CASE row[u] # "none"
    <3>1. row' = row
      BY <1>5, <2>1, <2>5 DEF CreateInvitation
    <3>2. rights' \in SUBSET Users /\ console' \in SUBSET Users /\ tokens' \in SUBSET Users
          /\ strays' \in SUBSET Users
      BY <1>2, <2>2 DEF TypeOK
    <3> QED
      BY <1>3, <1>4, <2>2, <3>1, <3>2, FieldsKeep
  <2> QED
    BY <2>4, <2>5
<1>6. CASE Activate(r)
  <2>1. PICK u \in Users : req[r].user = u
    BY <1>1, <1>6 DEF Activate
  <2>2. UpdateStatus(u, "active") /\ everIn' = everIn \cup {u} /\ Goto(r, "idle")
        /\ UNCHANGED <<rights, tokens, strays, console>> /\ req[r].pc # "revoke_tokens"
    BY <1>6, <2>1 DEF Activate
  <2>3. everIn' \in SUBSET Users /\ everIn \subseteq everIn' /\ u \in everIn'
    BY <1>2, <2>2 DEF TypeOK
  <2> QED
    BY <2>2, <2>3, StatusKeeps
<1>7. CASE Suspend(r)
  BY <1>7, SuspendKeeps
<1>8. CASE Resume(r)
  <2>1. PICK u \in Users : req[r].user = u /\ u \in everIn
    BY <1>1, <1>8 DEF Resume, MemberInv, PendingForMembers
  <2>2. UpdateStatus(u, "active") /\ Goto(r, "idle")
        /\ UNCHANGED <<rights, tokens, strays, console, everIn>> /\ req[r].pc # "revoke_tokens"
    BY <1>8, <2>1 DEF Resume
  <2>3. everIn' \in SUBSET Users /\ everIn \subseteq everIn' /\ u \in everIn'
    BY <1>2, <2>1, <2>2 DEF TypeOK
  <2> QED
    BY <2>2, <2>3, StatusKeeps
<1>9. CASE DeleteRow(r)
  <2>1. PICK u \in Users : req[r].user = u
    BY <1>1, <1>9 DEF DeleteRow
  <2>2. row' = [row EXCEPT ![u] = "none"] /\ Goto(r, "idle")
        /\ UNCHANGED <<rights, tokens, strays, console, everIn>> /\ req[r].pc # "revoke_tokens"
    BY <1>9, <2>1 DEF DeleteRow
  <2>3. everIn' \in SUBSET Users /\ everIn \subseteq everIn' /\ "none" \in Status
    BY <1>2, <2>2 DEF TypeOK, Status
  <2> QED
    BY <2>2, <2>3, RowKeeps
<1>10. CASE RevokeTokens(r)
  <2>1. strays' \in SUBSET Users
    BY <1>2, <1>10 DEF RevokeTokens, TypeOK
  <2>2. /\ req[r].pc = "revoke_tokens" /\ Overtake(r, Idle, req[r].user, {"renew"})
        /\ tokens' = tokens \ {req[r].user} /\ UNCHANGED <<row, rights, console, everIn>>
    BY <1>10 DEF RevokeTokens
  <2>3. "renew" \in {"renew"}
    OBVIOUS
  <2> QED
    BY <2>1, <2>2, <2>3, SweepKeeps
<1>11. CASE RevokeRights(r)
  <2>1. /\ Goto(r, "delete") /\ req[r].pc \notin {"idle", "revoke_tokens"}
        /\ UNCHANGED <<row, tokens, strays, console, everIn>>
        /\ rights' = rights \ {req[r].user}
    BY <1>11 DEF RevokeRights
  <2>2. rights' \in SUBSET Users /\ console' \in SUBSET Users /\ tokens' \in SUBSET Users
        /\ strays' \in SUBSET Users /\ rights' \cup console' \subseteq everIn
    BY <1>2, <1>4, <2>1 DEF TypeOK
  <2> QED
    BY <1>3, <2>1, <2>2, FieldsKeep
<1>12. CASE GrantRight(r) \/ RevokeRight(r)
  <2>1. /\ Goto(r, "idle") /\ req[r].pc \notin {"idle", "revoke_tokens"}
        /\ UNCHANGED <<row, tokens, strays, console, everIn>>
        /\ rights' \subseteq rights \cup {req[r].user}
        /\ req[r].user \in everIn
    BY <1>12 DEF GrantRight, RevokeRight, MemberInv, PendingForMembers
  <2>2. rights' \in SUBSET Users /\ console' \in SUBSET Users /\ tokens' \in SUBSET Users
        /\ strays' \in SUBSET Users /\ rights' \cup console' \subseteq everIn
    BY <1>1, <1>2, <1>4, <2>1 DEF TypeOK
  <2> QED
    BY <1>3, <2>1, <2>2, FieldsKeep
<1>13. CASE ReadCodes(r)
  <2>1. PICK step \in {"idle", "sign"} : Goto(r, step)
    BY <1>13 DEF ReadCodes
  <2>2. /\ req[r].pc \notin {"idle", "revoke_tokens"} /\ req[r].user \in everIn
        /\ UNCHANGED <<row, rights, tokens, strays, console, everIn>>
    BY <1>13 DEF ReadCodes, MemberInv, PendingForMembers
  <2>3. rights' \in SUBSET Users /\ console' \in SUBSET Users /\ tokens' \in SUBSET Users
        /\ strays' \in SUBSET Users /\ rights' \cup console' \subseteq everIn
    BY <1>2, <1>4, <2>2 DEF TypeOK
  <2>4. step \in {"idle", "delete", "sign", "renew"} /\ step # "renew"
    BY <2>1
  <2> QED
    BY <1>3, <2>1, <2>2, <2>3, <2>4, FieldsKeep
<1>14. CASE Sign(r)
  <2>1. /\ Goto(r, "idle") /\ req[r].pc \notin {"idle", "revoke_tokens"}
        /\ UNCHANGED <<row, rights, tokens, strays, everIn>>
        /\ console' = console \cup {req[r].user}
        /\ req[r].user \in everIn
    BY <1>14 DEF Sign, MemberInv, PendingForMembers
  <2>2. rights' \in SUBSET Users /\ console' \in SUBSET Users /\ tokens' \in SUBSET Users
        /\ strays' \in SUBSET Users /\ rights' \cup console' \subseteq everIn
    BY <1>1, <1>2, <1>4, <2>1 DEF TypeOK
  <2> QED
    BY <1>3, <2>1, <2>2, FieldsKeep
<1>15. CASE IssueToken(r) \/ Renew(r)
  <2>1. req[r].pc \in {"issue", "renew"} /\ Insert(r)
    BY <1>15 DEF IssueToken, Renew
  <2>2. PICK u \in Users : req[r].user = u
    BY <1>1, <2>1
  <2>3. /\ Goto(r, "idle") /\ UNCHANGED <<row, rights, console, everIn>>
        /\ tokens' \subseteq tokens \cup {u} /\ strays' \subseteq strays \cup {u}
        /\ u \in tokens' => u \in tokens \/ ~req[r].raced
    BY <2>1, <2>2 DEF Insert
  <2>4. rights' \in SUBSET Users /\ console' \in SUBSET Users /\ tokens' \in SUBSET Users
        /\ strays' \in SUBSET Users /\ rights' \cup console' \subseteq everIn
    BY <1>2, <1>4, <2>3 DEF TypeOK
  <2>5. ~req[r].raced /\ row[u] = "suspended" => SweepPending(u)
    BY <2>1, <2>2 DEF MemberInv, OvertakenIsKnown, SweepPending
  <2>6. \A v \in Users : row[v] = "suspended" /\ v \in tokens' => SweepPending(v)
    BY <1>3, <2>3, <2>5
  <2> QED
    BY <2>1, <2>3, <2>4, <2>6, FieldsKeep
<1>16. CASE Rotate(r)
  <2>1. PICK u \in Users : req[r].user = u
    BY <1>1, <1>16 DEF Rotate
  <2>2. PICK step \in {"idle", "renew"} :
           /\ Goto(r, step)
           /\ step = "renew" /\ ~req[r].raced => u \in tokens
    BY <1>16, <2>1 DEF Rotate
  <2>3. /\ req[r].pc \notin {"idle", "revoke_tokens"} /\ UNCHANGED <<row, rights, console, everIn>>
        /\ tokens' \subseteq tokens /\ strays' \subseteq strays
    BY <1>16, <2>1 DEF Rotate, Drop
  <2>4. rights' \in SUBSET Users /\ console' \in SUBSET Users /\ tokens' \in SUBSET Users
        /\ strays' \in SUBSET Users /\ rights' \cup console' \subseteq everIn
    BY <1>2, <1>4, <2>3 DEF TypeOK
  <2>5. step \in {"idle", "delete", "sign", "renew"} /\ step # "sign"
    BY <2>2
  <2>6. step = "renew" /\ ~req[r].raced /\ row[req[r].user] = "suspended" =>
           SweepPending(req[r].user)
    BY <1>3, <2>1, <2>2
  <2>7. \A v \in Users : row[v] = "suspended" /\ v \in tokens' => SweepPending(v)
    BY <1>3, <2>3
  <2> QED
    BY <2>2, <2>3, <2>4, <2>5, <2>6, <2>7, FieldsKeep
<1> QED
  BY <1>5, <1>6, <1>7, <1>8, <1>9, <1>10, <1>11, <1>12, <1>13, <1>14, <1>15, <1>16 DEF Step

\* What happens outside the requests.
LEMMA EnvironmentKeeps ==
    ASSUME MemberInv, NEW u \in Users, ExpireConsole(u) \/ LoseToken(u) \/ Lapse(u)
    PROVE  MemberInv'
<1>1. UNCHANGED <<req, everIn>> /\ rights' \cup console' \subseteq rights \cup console
      /\ tokens' \subseteq tokens
  BY DEF ExpireConsole, LoseToken, Lapse
<1>2. row' \in [Users -> Status] /\ \A v \in Users : row'[v] = row[v] \/ row'[v] = "lapsed"
  BY DEF MemberInv, TypeOK, ExpireConsole, LoseToken, Lapse, Status
<1>3. TypeOK'
  BY <1>2 DEF MemberInv, TypeOK, ExpireConsole, LoseToken, Lapse
<1>4. NobodyInUnasked' /\ RightsOnlyForMembers' /\ PendingForMembers'
  BY <1>1, <1>2 DEF MemberInv, NobodyInUnasked, RightsOnlyForMembers, PendingForMembers
<1>5. SuspensionReachesTokens'
  BY <1>1, <1>2 DEF MemberInv, SuspensionReachesTokens
<1>6. OvertakenIsKnown'
  <2> SUFFICES ASSUME NEW q \in Requests, ~req[q].raced, req[q].pc \in {"issue", "renew"}
               PROVE  /\ req[q].pc = "issue" => row'[req[q].user] # "suspended"
                      /\ req[q].pc = "renew" /\ row'[req[q].user] = "suspended" =>
                            SweepPending(req[q].user)
    BY <1>1 DEF OvertakenIsKnown, SweepPending
  <2>1. req[q].user \in Users
    BY DEF MemberInv, PendingForMembers
  <2>2. row'[req[q].user] = "suspended" => row[req[q].user] = "suspended"
    BY <1>2, <2>1
  <2> QED
    BY <2>2 DEF MemberInv, OvertakenIsKnown, SweepPending
<1> QED
  BY <1>3, <1>4, <1>5, <1>6 DEF MemberInv

\* A request that stops, a sweep among them.
LEMMA AbandonKeeps ==
    ASSUME MemberInv, NEW r \in Requests, Abandon(r) \/ AbandonSweep(r)
    PROVE  MemberInv'
<1>1. CASE Abandon(r)
  <2>1. /\ Goto(r, "idle") /\ req[r].pc \notin {"idle", "revoke_tokens"}
        /\ UNCHANGED <<row, rights, tokens, strays, console, everIn>>
    BY <1>1 DEF Abandon
  <2>2. rights' \in SUBSET Users /\ console' \in SUBSET Users /\ tokens' \in SUBSET Users
        /\ strays' \in SUBSET Users /\ rights' \cup console' \subseteq everIn
    BY <2>1 DEF MemberInv, TypeOK, RightsOnlyForMembers
  <2>3. \A u \in Users : row[u] = "suspended" /\ u \in tokens' => SweepPending(u)
    BY <2>1 DEF MemberInv, SuspensionReachesTokens, SweepPending
  <2> QED
    BY <2>1, <2>2, <2>3, FieldsKeep
<1>2. CASE AbandonSweep(r)
  <2>1. strays' \in SUBSET Users
    BY <1>2 DEF AbandonSweep, MemberInv, TypeOK
  <2>2. /\ req[r].pc = "revoke_tokens" /\ Overtake(r, Idle, req[r].user, {"rotate", "renew"})
        /\ tokens' = tokens \ {req[r].user} /\ UNCHANGED <<row, rights, console, everIn>>
    BY <1>2 DEF AbandonSweep
  <2>3. "renew" \in {"rotate", "renew"}
    OBVIOUS
  <2> QED
    BY <2>1, <2>2, <2>3, SweepKeeps
<1> QED
  BY <1>1, <1>2

\* The inductive invariant holds in every reachable state.
THEOREM MemberInvariant == Spec => []MemberInv
<1>1. Init => MemberInv
  <2> SUFFICES ASSUME Init PROVE MemberInv
    OBVIOUS
  <2>1. Idle \in RequestRecord /\ Idle.pc = "idle"
    BY DEF Idle, RequestRecord, Steps
  <2>2. TypeOK
    BY <2>1, GuestsAssumption DEF Init, TypeOK, Status
  <2>3. \A u \in Users : row[u] = IF u \in Founders THEN "active" ELSE "none"
    BY DEF Init
  <2>4. \A r \in Requests : req[r].pc = "idle"
    BY <2>1 DEF Init
  <2>5. NobodyInUnasked /\ RightsOnlyForMembers
    BY <2>3, GuestsAssumption DEF Init, NobodyInUnasked, RightsOnlyForMembers
  <2>6. PendingForMembers /\ SuspensionReachesTokens /\ OvertakenIsKnown
    BY <2>3, <2>4 DEF PendingForMembers, SuspensionReachesTokens, OvertakenIsKnown
  <2> QED
    BY <2>2, <2>5, <2>6 DEF MemberInv
<1>2. MemberInv /\ [Next]_vars => MemberInv'
  <2> SUFFICES ASSUME MemberInv, [Next]_vars
               PROVE  MemberInv'
    OBVIOUS
  <2>1. ASSUME NEW r \in Requests, Step(r) PROVE MemberInv'
    BY <2>1, StepKeeps
  <2>2. ASSUME NEW r \in Requests, NEW u \in Users, Request(r, u) PROVE MemberInv'
    BY <2>2, RequestKeeps
  <2>3. ASSUME NEW u \in Users, ExpireConsole(u) \/ LoseToken(u) \/ Lapse(u) PROVE MemberInv'
    BY <2>3, EnvironmentKeeps
  <2>4. ASSUME NEW r \in Requests, Abandon(r) \/ AbandonSweep(r) PROVE MemberInv'
    BY <2>4, AbandonKeeps
  <2>5. CASE UNCHANGED vars
    BY <2>5 DEF vars, MemberInv, TypeOK, NobodyInUnasked, RightsOnlyForMembers,
                PendingForMembers, SuspensionReachesTokens, OvertakenIsKnown
  <2> QED
    BY <2>1, <2>2, <2>3, <2>4, <2>5 DEF Next, Serve
<1> QED
  BY <1>1, <1>2, PTL DEF Spec

\* No user is let into the tenant without having accepted an invitation.
THEOREM OnlyTheInvited == Spec => []NobodyInUnasked
<1>1. MemberInv => NobodyInUnasked
  BY DEF MemberInv
<1> QED
  BY <1>1, MemberInvariant, PTL

\* Rights, and the console tokens that carry them, are held only by users
\* who have been members.
THEOREM RightsBelongToMembers == Spec => []RightsOnlyForMembers
<1>1. MemberInv => RightsOnlyForMembers
  BY DEF MemberInv
<1> QED
  BY <1>1, MemberInvariant, PTL

\* With sign-ins and refreshes of any number under way, a suspended guest has
\* no live refresh token that the suspension will not revoke, but the strays.
THEOREM SuspensionIsThorough == Spec => []SuspensionReachesTokens
<1>1. MemberInv => SuspensionReachesTokens
  BY DEF MemberInv
<1> QED
  BY <1>1, MemberInvariant, PTL
=============================================================================
