---------------------------- MODULE SignInProofs ----------------------------
(***************************************************************************)
(* For any users, flows, sessions and any number of concurrent handlers:   *)
(* a code is for the user, methods and session of one sign-in, meets the   *)
(* policy of its flow and what prompt asked for, and every scope beyond    *)
(* openid was approved.                                                    *)
(***************************************************************************)
EXTENDS SignIn, TLAPS

\* What the invariant says of a request depends on these fields only.
Same(p, q) ==
    /\ p.pc = q.pc
    /\ p.flow = q.flow
    /\ p.user = q.user
    /\ p.methods = q.methods
    /\ p.sid = q.sid

\* Sessions come into being and end, and otherwise stay as established;
\* approvals accumulate.
SessionsGrow ==
    /\ policy' = policy
    /\ approved \subseteq approved'
    /\ \A s \in Sids : sso[s].st # "new" =>
          /\ sso'[s].st # "new"
          /\ sso'[s].user = sso[s].user
          /\ sso'[s].methods = sso[s].methods
          /\ sso'[s].flow = sso[s].flow

LEMMA SoundKeeps ==
    ASSUME SessionsGrow, NEW f, NEW a, Sound(f, a)
    PROVE  Sound(f, a)'
BY DEF SessionsGrow, Sound, Backed, Meets, Unmet

LEMMA RequestInvKeeps ==
    ASSUME SessionsGrow, NEW p, NEW q, Same(p, q), RequestInv(q)
    PROVE  RequestInv(p)'
<1>1. Sound(q.flow, q) => Sound(q.flow, q)'
  BY SoundKeeps
<1>2. Sound(q.flow, q)' => Sound(p.flow, p)'
  BY DEF Same, Sound, Backed
<1>3. HasApproved(q.user, Asks[q.flow]) => HasApproved(p.user, Asks[p.flow])'
  BY DEF HasApproved, SessionsGrow, Same
<1>4. policy' = policy
  BY DEF SessionsGrow
<1> QED
  BY <1>1, <1>2, <1>3, <1>4 DEF RequestInv, Same, Meets, Unmet

\* A step of one request keeps the invariant when what it writes is sound.
LEMMA Keeps ==
    ASSUME SignInInv, TypeOK', SessionsGrow, SessionsInv', NEW r \in Requests,
           \A q \in Requests : q # r => Same(req'[q], req[q]),
           RequestInv(req[r])',
           \A f \in Flows : row'[f].auth =>
               \/ /\ row[f].auth
                  /\ row'[f].user = row[f].user
                  /\ row'[f].sid = row[f].sid
                  /\ row'[f].methods = row[f].methods
               \/ Sound(f, row[f])',
           \A f \in Flows : row'[f].shown => row[f].shown \/ f \notin Silent,
           \A u \in Users : consents'[u] \subseteq consents[u] \/ HasApproved(u, consents[u])',
           \A c \in codes' : c \in codes \/ (Sound(c.flow, c)' /\ HasApproved(c.user, Asks[c.flow])')
    PROVE  SignInInv'
<1>1. ASSUME NEW q \in Requests PROVE RequestInv(req[q])'
  <2>1. CASE q = r
    BY <2>1
  <2>2. CASE q # r
    <3>1. PICK old : old = req[q]
      OBVIOUS
    <3>2. PICK new : new = req'[q]
      OBVIOUS
    <3>3. Same(new, old) /\ RequestInv(old)
      BY <2>2, <3>1, <3>2 DEF SignInInv
    <3>4. RequestInv(new)'
      BY <3>3, RequestInvKeeps
    <3> QED
      BY <3>2, <3>4
  <2> QED
    BY <2>1, <2>2
<1>2. ASSUME NEW f \in Flows, row'[f].auth PROVE Sound(f, row[f])'
  <2>1. CASE Sound(f, row[f])'
    BY <2>1
  <2>2. CASE /\ row[f].auth
             /\ row'[f].user = row[f].user
             /\ row'[f].sid = row[f].sid
             /\ row'[f].methods = row[f].methods
    <3>1. PICK a : a = row[f]
      OBVIOUS
    <3>2. Sound(f, a)
      BY <2>2, <3>1 DEF SignInInv, RowsInv
    <3>3. Sound(f, a)'
      BY <3>2, SoundKeeps
    <3> QED
      BY <2>2, <3>1, <3>3 DEF Sound, Backed
  <2> QED
    BY <1>2, <2>1, <2>2
<1>3. RowsInv'
  BY <1>2 DEF SignInInv, RowsInv
<1>4. \A u, scopes : HasApproved(u, scopes) => HasApproved(u, scopes)'
  BY DEF HasApproved, SessionsGrow
<1>5. ConsentsInv'
  <2> SUFFICES ASSUME NEW u \in Users, consents'[u] \subseteq consents[u]
               PROVE  HasApproved(u, consents[u])'
    BY DEF ConsentsInv
  <2>1. HasApproved(u, consents[u])
    BY DEF SignInInv, ConsentsInv
  <2> QED
    BY <2>1 DEF HasApproved, SessionsGrow
<1>6. ASSUME NEW c \in codes' PROVE Sound(c.flow, c)' /\ HasApproved(c.user, Asks[c.flow])'
  <2>1. CASE c \in codes
    <3>1. Sound(c.flow, c) /\ HasApproved(c.user, Asks[c.flow])
      BY <2>1 DEF SignInInv, CodesInv
    <3>2. Sound(c.flow, c)'
      BY <3>1, SoundKeeps
    <3> QED
      BY <1>4, <3>1, <3>2
  <2> QED
    BY <2>1
<1>7. CodesInv'
  BY <1>6 DEF CodesInv
<1> QED
  BY <1>1, <1>3, <1>5, <1>7 DEF SignInInv

-----------------------------------------------------------------------------
\* A request that has ended is bound by nothing.
LEMMA IdleFacts == Idle \in RequestRecord /\ RequestInv(Idle)
BY DEF Idle, RequestRecord, RequestInv, Steps

Data == <<policy, row, sso, consents, codes, approved>>

\* A step that only moves a request on.
LEMMA ReqOnly ==
    ASSUME SignInInv, NEW r \in Requests, NEW new \in RequestRecord, RequestInv(new),
           req' = [req EXCEPT ![r] = new], UNCHANGED Data, mustChange' \in SUBSET Users
    PROVE  SignInInv'
<1>1. TypeOK'
  BY DEF SignInInv, TypeOK, Data
<1>2. SessionsGrow
  BY DEF SessionsGrow, Data
<1>3. SessionsInv'
  BY DEF SignInInv, SessionsInv, Data
<1>4. req'[r] = new /\ \A q \in Requests : q # r => req'[q] = req[q]
  BY DEF SignInInv, TypeOK
<1>5. \A q \in Requests : q # r => Same(req'[q], req[q])
  BY <1>4 DEF Same
<1>6. RequestInv(new)'
  BY <1>2, RequestInvKeeps DEF Same
<1>7. RequestInv(req[r])'
  BY <1>4, <1>6
<1>8. row' = row /\ consents' = consents /\ codes' = codes
  BY DEF Data
<1>9. \A f \in Flows : row'[f].auth =>
         \/ /\ row[f].auth
            /\ row'[f].user = row[f].user
            /\ row'[f].sid = row[f].sid
            /\ row'[f].methods = row[f].methods
         \/ Sound(f, row[f])'
  BY <1>8
<1>10. \A f \in Flows : row'[f].shown => row[f].shown \/ f \notin Silent
  BY <1>8
<1>11. \A u \in Users : consents'[u] \subseteq consents[u] \/ HasApproved(u, consents[u])'
  BY <1>8
<1>12. \A c \in codes' : c \in codes \/ (Sound(c.flow, c)' /\ HasApproved(c.user, Asks[c.flow])')
  BY <1>8
<1> QED
  BY <1>1, <1>2, <1>3, <1>5, <1>7, <1>9, <1>10, <1>11, <1>12, Keeps

\* A request that ends or goes on to a step, by Goto or by GotoAlone.
LEMMA GotoFacts ==
    ASSUME TypeOK, NEW r \in Requests, NEW step \in Steps, Goto(r, step) \/ GotoAlone(r, step)
    PROVE  /\ req' \in [Requests -> RequestRecord]
           /\ \A q \in Requests : q # r => Same(req'[q], req[q])
           /\ req'[r] = IF step = "idle" THEN Idle ELSE [req[r] EXCEPT !.pc = step]
<1>1. \A q \in Requests : req[q] \in RequestRecord
  BY DEF TypeOK
<1>2. [req[r] EXCEPT !.pc = step] \in RequestRecord
  BY <1>1 DEF RequestRecord
<1>3. \A q \in Requests : [req[q] EXCEPT !.fresh = FALSE] \in RequestRecord
                          /\ Same([req[q] EXCEPT !.fresh = FALSE], req[q])
  BY <1>1 DEF RequestRecord, Same
<1>4. \A q \in Requests : Same(req[q], req[q])
  BY DEF Same
<1>5. CASE Goto(r, step)
  <2>1. req' = [req EXCEPT ![r] = IF step = "idle" THEN Idle ELSE [req[r] EXCEPT !.pc = step]]
    BY <1>5 DEF Goto
  <2> QED
    BY <1>2, <1>4, <2>1, IdleFacts DEF TypeOK
<1>6. CASE GotoAlone(r, step)
  <2>1. \A q \in Requests : q # r => req'[q] \in {req[q], [req[q] EXCEPT !.fresh = FALSE]}
    BY <1>6 DEF GotoAlone
  <2>2. req'[r] = IF step = "idle" THEN Idle ELSE [req[r] EXCEPT !.pc = step]
    BY <1>6 DEF GotoAlone
  <2>3. \A q \in Requests : req'[q] \in RequestRecord
    BY <1>1, <1>2, <1>3, <2>1, <2>2, IdleFacts
  <2>4. req' \in [Requests -> RequestRecord]
    BY <1>6, <2>3 DEF GotoAlone
  <2> QED
    BY <1>3, <1>4, <2>1, <2>2, <2>4
<1> QED
  BY <1>5, <1>6

\* A step that moves a request on with what it carries.
LEMMA MoveOn ==
    ASSUME SignInInv, NEW r \in Requests, NEW step \in Steps, Goto(r, step),
           step # "idle" => RequestInv([req[r] EXCEPT !.pc = step]),
           UNCHANGED Data, mustChange' \in SUBSET Users
    PROVE  SignInInv'
<1> DEFINE new == IF step = "idle" THEN Idle ELSE [req[r] EXCEPT !.pc = step]
<1>1. req[r] \in RequestRecord
  BY DEF SignInInv, TypeOK
<1>2. [req[r] EXCEPT !.pc = step] \in RequestRecord
  BY <1>1 DEF RequestRecord
<1>3. new \in RequestRecord /\ RequestInv(new)
  BY <1>2, IdleFacts
<1>4. req' = [req EXCEPT ![r] = new]
  BY DEF Goto
<1> HIDE DEF new
<1> QED
  BY <1>3, <1>4, ReqOnly

\* A step that also changes rows.
LEMMA RowStep ==
    ASSUME SignInInv, NEW r \in Requests, NEW step \in Steps,
           Goto(r, step) \/ GotoAlone(r, step),
           step # "idle" => RequestInv([req[r] EXCEPT !.pc = step]),
           UNCHANGED <<policy, sso, consents, mustChange, codes, approved>>,
           row' \in [Flows -> AuthSessionRow],
           \A f \in Flows : row'[f].auth =>
               \/ /\ row[f].auth
                  /\ row'[f].user = row[f].user
                  /\ row'[f].sid = row[f].sid
                  /\ row'[f].methods = row[f].methods
               \/ Sound(f, row[f])',
           \A f \in Flows : row'[f].shown => row[f].shown \/ f \notin Silent
    PROVE  SignInInv'
<1> DEFINE new == IF step = "idle" THEN Idle ELSE [req[r] EXCEPT !.pc = step]
<1>1. /\ req' \in [Requests -> RequestRecord]
      /\ \A q \in Requests : q # r => Same(req'[q], req[q])
      /\ req'[r] = new
  BY GotoFacts DEF SignInInv
<1>2. RequestInv(new)
  BY IdleFacts
<1>3. TypeOK'
  BY <1>1 DEF SignInInv, TypeOK
<1>4. SessionsGrow
  BY DEF SessionsGrow
<1>5. SessionsInv'
  BY DEF SignInInv, SessionsInv
<1>6. PICK n : n = new
  OBVIOUS
<1> HIDE DEF new
<1>7. Same(n, n) /\ RequestInv(n)
  BY <1>2, <1>6 DEF Same
<1>8. RequestInv(n)'
  BY <1>4, <1>7, RequestInvKeeps
<1>9. RequestInv(req[r])'
  BY <1>1, <1>6, <1>8
<1>10. \A u \in Users : consents'[u] \subseteq consents[u] \/ HasApproved(u, consents[u])'
  OBVIOUS
<1>11. \A c \in codes' : c \in codes \/ (Sound(c.flow, c)' /\ HasApproved(c.user, Asks[c.flow])')
  OBVIOUS
<1> QED
  BY <1>1, <1>3, <1>4, <1>5, <1>9, <1>10, <1>11, Keeps

\* A write by id of a row that is sound.
LEMMA WriteStep ==
    ASSUME SignInInv, NEW r \in Requests, NEW step \in Steps, req[r].pc # "idle",
           NEW new \in AuthSessionRow, Write(r, new),
           new.auth => Sound(req[r].flow, new),
           new.shown => row[req[r].flow].shown \/ req[r].flow \notin Silent,
           Goto(r, step) \/ GotoAlone(r, step),
           step # "idle" => RequestInv([req[r] EXCEPT !.pc = step]),
           UNCHANGED <<policy, sso, consents, mustChange, codes, approved>>
    PROVE  SignInInv'
<1>1. req[r].flow \in Flows
  BY DEF SignInInv, RequestInv
<1>2. row' \in [Flows -> AuthSessionRow]
  BY <1>1 DEF SignInInv, TypeOK, Write
<1>3. \A f \in Flows : row'[f] = row[f] \/ (f = req[r].flow /\ row'[f] = new)
  BY <1>1 DEF SignInInv, TypeOK, Write
<1>4. ASSUME NEW f \in Flows, row'[f].auth
      PROVE  \/ /\ row[f].auth
                /\ row'[f].user = row[f].user
                /\ row'[f].sid = row[f].sid
                /\ row'[f].methods = row[f].methods
             \/ Sound(f, row[f])'
  <2>1. CASE row'[f] = row[f]
    BY <1>4, <2>1
  <2>2. CASE f = req[r].flow /\ row'[f] = new
    <3>1. Sound(f, new)
      BY <1>4, <2>2
    <3> QED
      BY <2>2, <3>1 DEF Sound, Backed, Meets, Unmet
  <2> QED
    BY <1>3, <2>1, <2>2
<1>5. \A f \in Flows : row'[f].shown => row[f].shown \/ f \notin Silent
  BY <1>3
<1> QED
  BY <1>2, <1>4, <1>5, RowStep

\* The answer shows the id of a flow that may interact.
LEMMA ShowStep ==
    ASSUME SignInInv, NEW r \in Requests, req[r].pc # "idle", Show(r),
           req[r].flow \notin Silent, Goto(r, "idle"),
           UNCHANGED <<policy, sso, consents, mustChange, codes, approved>>
    PROVE  SignInInv'
<1>1. req[r].flow \in Flows
  BY DEF SignInInv, RequestInv
<1> DEFINE new == [row[req[r].flow] EXCEPT !.shown = TRUE]
<1>2. row[req[r].flow] \in AuthSessionRow
  BY <1>1 DEF SignInInv, TypeOK
<1>3. new \in AuthSessionRow
  BY <1>2 DEF AuthSessionRow
<1>4. /\ new.auth = row[req[r].flow].auth
      /\ new.user = row[req[r].flow].user
      /\ new.sid = row[req[r].flow].sid
      /\ new.methods = row[req[r].flow].methods
  BY <1>2 DEF AuthSessionRow
<1>5. Write(r, new)
  BY DEF Show, Write
<1> HIDE DEF new
<1>6. new.auth => Sound(req[r].flow, new)
  BY <1>1, <1>4 DEF SignInInv, RowsInv, Sound, Backed
<1>7. "idle" \in Steps
  BY DEF Steps
<1> QED
  BY <1>3, <1>5, <1>6, <1>7, WriteStep

\* A request that begins on a flow it has found.
LEMMA BeginKeeps ==
    ASSUME SignInInv, NEW r \in Requests, NEW f \in Flows, NEW u \in Users \cup {None},
           NEW ms \in SUBSET Methods,
           NEW step \in {"save_password", "change", "establish", "exchange", "restore", "delete"},
           Begin(r, step, f, u, ms),
           step \in {"save_password", "change", "establish"} => u \in Users /\ f \notin Silent,
           step = "change" => ms = {"password"},
           step = "establish" => Meets(policy[f], ms),
           UNCHANGED Data, UNCHANGED mustChange
    PROVE  SignInInv'
<1> DEFINE new == [Idle EXCEPT !.pc = step, !.flow = f, !.fresh = TRUE, !.user = u, !.methods = ms]
<1>1. /\ new \in RequestRecord
      /\ new.pc = step /\ new.flow = f /\ new.user = u /\ new.methods = ms
  BY DEF Idle, RequestRecord, Steps
<1>2. req' = [req EXCEPT ![r] = new]
  BY DEF Begin
<1> HIDE DEF new
<1>3. RequestInv(new)
  BY <1>1 DEF RequestInv
<1>4. mustChange' \in SUBSET Users
  BY DEF SignInInv, TypeOK
<1> QED
  BY <1>1, <1>2, <1>3, <1>4, ReqOnly

-----------------------------------------------------------------------------
\* Every handler begins as BeginKeeps asks; approval takes over what the row
\* holds.
LEMMA ArriveKeeps ==
    ASSUME SignInInv, NEW r \in Requests, NEW f \in Flows, Arrive(r, f)
    PROVE  SignInInv'
<1>1. Findable(f) => f \notin Silent
  BY DEF SignInInv, RowsInv, Findable
<1>2. row[f] \in AuthSessionRow
  BY DEF SignInInv, TypeOK
<1>3. PasswordVerifiedUser(f) \in Users \cup {None}
  BY <1>2, SignInAssumption DEF PasswordVerifiedUser, AuthSessionRow
<1>4. {} \in SUBSET Methods /\ {"password"} \in SUBSET Methods
  BY DEF Methods
<1>5. ASSUME NEW u \in Users, Login(r, f, u) PROVE SignInInv'
  <2>1. UNCHANGED Data /\ UNCHANGED mustChange /\ f \notin Silent /\ policy[f] # "deny"
    BY <1>1, <1>5 DEF Login, Data
  <2>2. CASE Begin(r, "save_password", f, u, {})
    BY <1>4, <2>1, <2>2, BeginKeeps
  <2>3. CASE /\ policy[f] # "mfa"
             /\ ~Unmet(policy[f], {"password"})
             /\ Begin(r, "establish", f, u, {"password"})
    <3>1. Meets(policy[f], {"password"})
      BY <2>1, <2>3 DEF Meets
    <3>2. Begin(r, "establish", f, u, {"password"})
      BY <2>3
    <3> QED
      BY <1>4, <2>1, <3>1, <3>2, BeginKeeps
  <2> QED
    BY <1>5, <2>2, <2>3 DEF Login
<1>6. ASSUME NEW u \in Users, Passkey(r, f, u) PROVE SignInInv'
  <2>1. UNCHANGED Data /\ UNCHANGED mustChange /\ f \notin Silent
    BY <1>1, <1>6 DEF Passkey, Data
  <2>2. Meets(policy[f], {"webauthn"})
    BY <1>6 DEF Passkey, Meets, SecondFactors
  <2>3. {"webauthn"} \in SUBSET Methods /\ Begin(r, "establish", f, u, {"webauthn"})
    BY <1>6 DEF Passkey, Methods
  <2> QED
    BY <2>1, <2>2, <2>3, BeginKeeps
<1>7. ASSUME NEW u \in Users, External(r, f, u) PROVE SignInInv'
  <2>1. UNCHANGED Data /\ UNCHANGED mustChange /\ f \notin Silent
    BY <1>1, <1>7 DEF External, Data
  <2>2. Meets(policy[f], {"external_idp"})
    BY <1>7 DEF External, Meets
  <2>3. {"external_idp"} \in SUBSET Methods /\ Begin(r, "establish", f, u, {"external_idp"})
    BY <1>7 DEF External, Methods
  <2> QED
    BY <2>1, <2>2, <2>3, BeginKeeps
<1>7a. ASSUME NEW u \in Users, AppApproval(r, f, u) PROVE SignInInv'
  <2>1. UNCHANGED Data /\ UNCHANGED mustChange /\ f \notin Silent
    BY <1>1, <1>7a DEF AppApproval, Data
  <2>2. Meets(policy[f], {"app_approval"})
    BY <1>7a DEF AppApproval, Meets, SecondFactors
  <2>3. {"app_approval"} \in SUBSET Methods /\ Begin(r, "establish", f, u, {"app_approval"})
    BY <1>7a DEF AppApproval, Methods
  <2> QED
    BY <2>1, <2>2, <2>3, BeginKeeps
<1>8. ASSUME NEW m \in {"totp", "email_otp"}, Mfa(r, f, m) PROVE SignInInv'
  <2>1. UNCHANGED Data /\ UNCHANGED mustChange /\ f \notin Silent
    BY <1>1, <1>8 DEF Mfa, Data
  <2>2. PICK u \in Users : Begin(r, "establish", f, u, {"password", m})
    BY <1>3, <1>8 DEF Mfa
  <2>3. Meets(policy[f], {"password", m})
    BY <1>8 DEF Mfa, Meets, SecondFactors
  <2>4. {"password", m} \in SUBSET Methods
    BY DEF Methods
  <2> QED
    BY <2>1, <2>2, <2>3, <2>4, BeginKeeps
<1>9. CASE BeginChange(r, f)
  <2>1. UNCHANGED Data /\ UNCHANGED mustChange /\ f \notin Silent
    BY <1>1, <1>9 DEF BeginChange, Data
  <2>2. PICK u \in Users : Begin(r, "change", f, u, {"password"})
    BY <1>9 DEF BeginChange, SignInInv, TypeOK
  <2> QED
    BY <1>4, <2>1, <2>2, BeginKeeps
<1>10. CASE Resume(r, f)
  <2>1. UNCHANGED Data /\ UNCHANGED mustChange /\ Begin(r, "exchange", f, None, {})
    BY <1>10 DEF Resume, Data
  <2> QED
    BY <1>4, <2>1, BeginKeeps
<1>11. CASE Continue(r, f)
  <2>1. UNCHANGED Data /\ UNCHANGED mustChange /\ Begin(r, "restore", f, None, {})
    BY <1>11 DEF Continue, Data
  <2> QED
    BY <1>4, <2>1, BeginKeeps
<1>12. CASE Approve(r, f)
  <2> DEFINE new == [Idle EXCEPT !.pc = "grant", !.flow = f, !.fresh = TRUE,
                        !.user = row[f].user, !.methods = row[f].methods, !.sid = row[f].sid]
  <2>1. /\ new \in RequestRecord
        /\ new.pc = "grant" /\ new.flow = f /\ new.user = row[f].user
        /\ new.methods = row[f].methods /\ new.sid = row[f].sid
    BY <1>2 DEF Idle, RequestRecord, Steps, AuthSessionRow
  <2>2. req' = [req EXCEPT ![r] = new]
    BY <1>12 DEF Approve
  <2> HIDE DEF new
  <2>3. row[f].auth /\ f \notin Silent
    BY <1>1, <1>12 DEF Approve, Progress
  <2>4. Sound(f, row[f])
    BY <2>3 DEF SignInInv, RowsInv
  <2>5. Sound(f, new)
    BY <2>1, <2>4 DEF Sound, Backed
  <2>6. RequestInv(new)
    BY <2>1, <2>3, <2>5 DEF RequestInv
  <2>7. UNCHANGED Data /\ mustChange' \in SUBSET Users
    BY <1>12 DEF Approve, Data, SignInInv, TypeOK
  <2> QED
    BY <2>1, <2>2, <2>6, <2>7, ReqOnly
<1>13. CASE Deny(r, f)
  <2>1. UNCHANGED Data /\ UNCHANGED mustChange /\ Begin(r, "delete", f, None, {})
    BY <1>13 DEF Deny, Data
  <2> QED
    BY <1>4, <2>1, BeginKeeps
<1> QED
  BY <1>5, <1>6, <1>7, <1>7a, <1>8, <1>9, <1>10, <1>11, <1>12, <1>13 DEF Arrive

\* A request whose step needs nothing new.
LEMMA SameStepInv ==
    ASSUME SignInInv, NEW r \in Requests,
           NEW step \in {"idle", "save", "consent", "restore", "delete", "issue"},
           step # "idle" => req[r].pc # "idle",
           step \in {"save", "consent"} => Sound(req[r].flow, req[r]) /\ req[r].flow \notin Silent,
           step = "issue" => Sound(req[r].flow, req[r]) /\ HasApproved(req[r].user, Asks[req[r].flow])
    PROVE  /\ step \in Steps
           /\ step # "idle" => RequestInv([req[r] EXCEPT !.pc = step])
<1> DEFINE new == [req[r] EXCEPT !.pc = step]
<1>1. req[r] \in RequestRecord
  BY DEF SignInInv, TypeOK
<1>2. /\ new.pc = step /\ new.flow = req[r].flow /\ new.user = req[r].user
      /\ new.methods = req[r].methods /\ new.sid = req[r].sid
  BY <1>1 DEF RequestRecord
<1> HIDE DEF new
<1>3. Sound(req[r].flow, req[r]) => Sound(new.flow, new)
  BY <1>2 DEF Sound, Backed
<1>4. step # "idle" => new.flow \in Flows
  BY <1>2 DEF SignInInv, RequestInv
<1>5. step # "idle" => RequestInv(new)
  BY <1>2, <1>3, <1>4 DEF RequestInv
<1>6. step \in Steps
  BY DEF Steps
<1> QED
  BY <1>5, <1>6 DEF new

\* What consent_is_granted accepts was approved.
LEMMA GrantedWasApproved ==
    ASSUME SignInInv, NEW r \in Requests, Sound(req[r].flow, req[r]),
           Granted(req[r].user, req[r].flow)
    PROVE  HasApproved(req[r].user, Asks[req[r].flow])
<1>1. req[r].user \in Users
  BY DEF SignInInv, SessionsInv, Sound, Backed
<1>2. HasApproved(req[r].user, consents[req[r].user])
  BY <1>1 DEF SignInInv, ConsentsInv
<1> QED
  BY <1>2 DEF HasApproved, Granted

LEMMA StepKeeps ==
    ASSUME SignInInv, NEW r \in Requests, Step(r)
    PROVE  SignInInv'
<1> DEFINE f == req[r].flow
<1>0. "idle" \in Steps /\ mustChange \in SUBSET Users /\ req[r] \in RequestRecord
  BY DEF Steps, SignInInv, TypeOK
<1>a. RequestInv(req[r])
  BY DEF SignInInv
<1>b. req[r].pc # "idle" => f \in Flows
  BY <1>a DEF RequestInv
<1>c. req[r].pc # "idle" => row[f] \in AuthSessionRow
  BY <1>b DEF SignInInv, TypeOK
<1>1. CASE SavePassword(r)
  <2> DEFINE new == [row[f] EXCEPT !.user = req[r].user, !.pw = TRUE, !.shown = TRUE,
                                   !.auth = FALSE, !.sid = None, !.methods = {}]
  <2>1. req[r].pc # "idle" /\ req[r].user \in Users /\ f \notin Silent
    BY <1>1, <1>a DEF SavePassword, RequestInv
  <2>2. new \in AuthSessionRow /\ new.auth = FALSE
    BY <1>c, <2>1 DEF AuthSessionRow
  <2>3. Write(r, new) /\ (Goto(r, "idle") \/ GotoAlone(r, "idle"))
    BY <1>1 DEF SavePassword, GotoAfterWrite
  <2>4. UNCHANGED <<policy, sso, consents, mustChange, codes, approved>>
    BY <1>1 DEF SavePassword
  <2> HIDE DEF new
  <2> QED
    BY <1>0, <2>1, <2>2, <2>3, <2>4, WriteStep
<1>2. CASE ChangePassword(r)
  <2>1. UNCHANGED Data /\ mustChange' \in SUBSET Users /\ req[r].pc = "change"
    BY <1>0, <1>2 DEF ChangePassword, Data
  <2>2. CASE Goto(r, "idle")
    BY <1>0, <2>1, <2>2, MoveOn
  <2>3. CASE Goto(r, "establish") /\ policy[f] \notin {"deny", "mfa"} /\ ~Unmet(policy[f], {"password"})
    <3> DEFINE new == [req[r] EXCEPT !.pc = "establish"]
    <3>1. /\ new.pc = "establish" /\ new.flow = f /\ new.user = req[r].user
          /\ new.methods = req[r].methods
      BY <1>0 DEF RequestRecord
    <3> HIDE DEF new
    <3>2. f \in Flows /\ f \notin Silent /\ req[r].user \in Users /\ req[r].methods = {"password"}
      BY <1>a, <2>1 DEF RequestInv
    <3>3. Meets(policy[f], {"password"})
      BY <2>3 DEF Meets
    <3>4. RequestInv(new)
      BY <3>1, <3>2, <3>3 DEF RequestInv
    <3>5. "establish" \in Steps /\ Goto(r, "establish")
      BY <2>3 DEF Steps
    <3> QED
      BY <2>1, <3>4, <3>5, MoveOn DEF new
  <2> QED
    BY <1>2, <2>2, <2>3 DEF ChangePassword
<1>3. CASE Establish(r)
  <2>1. PICK s \in Sids :
          /\ sso[s].st = "new"
          /\ sso' = [sso EXCEPT ![s] = [st |-> "live", user |-> req[r].user,
                                        methods |-> req[r].methods, flow |-> f]]
          /\ req' = [req EXCEPT ![r] =
                       [req[r] EXCEPT !.sid = s, !.pc = AfterEstablish(req[r].methods)]]
    BY <1>3 DEF Establish
  <2>2. UNCHANGED <<policy, row, consents, mustChange, codes, approved>> /\ req[r].pc = "establish"
    BY <1>3 DEF Establish
  <2>3. /\ f \in Flows /\ f \notin Silent /\ req[r].user \in Users
        /\ Meets(policy[f], req[r].methods)
    BY <1>a, <2>2 DEF RequestInv
  <2> DEFINE new == [st |-> "live", user |-> req[r].user, methods |-> req[r].methods, flow |-> f]
             next == AfterEstablish(req[r].methods)
             n == [req[r] EXCEPT !.sid = s, !.pc = next]
  <2>4. /\ new \in SsoRow /\ new.st = "live" /\ new.user = req[r].user
        /\ new.methods = req[r].methods /\ new.flow = f
    BY <1>0, <2>3 DEF SsoRow, RequestRecord
  <2>5. next \in {"refind", "link", "save"}
    BY DEF AfterEstablish
  <2>6. /\ n \in RequestRecord /\ n.pc = next /\ n.flow = f /\ n.user = req[r].user
        /\ n.methods = req[r].methods /\ n.sid = s
    <3>1. next \in Steps
      BY <2>5 DEF Steps
    <3> HIDE DEF next
    <3> QED
      BY <1>0, <3>1 DEF RequestRecord
  <2>7. sso' = [sso EXCEPT ![s] = new] /\ req' = [req EXCEPT ![r] = n]
    BY <2>1
  <2> HIDE DEF new, n, next
  <2>8. TypeOK'
    BY <2>2, <2>4, <2>6, <2>7 DEF SignInInv, TypeOK
  <2>9. sso'[s] = new /\ \A t \in Sids : t # s => sso'[t] = sso[t]
    BY <2>7 DEF SignInInv, TypeOK
  <2>10. SessionsGrow
    BY <2>1, <2>2, <2>9 DEF SessionsGrow
  <2>11. SessionsInv'
    BY <2>3, <2>4, <2>9 DEF SignInInv, SessionsInv
  <2>12. req'[r] = n /\ \A q \in Requests : q # r => Same(req'[q], req[q])
    BY <2>7 DEF SignInInv, TypeOK, Same
  <2>13. PICK k : k = n
    OBVIOUS
  <2>14. k.pc \in {"refind", "link", "save"} /\ k.flow \in Flows \ Silent
    BY <2>3, <2>6, <2>5, <2>13
  <2>15. Sound(k.flow, k)'
    BY <2>2, <2>3, <2>4, <2>6, <2>9, <2>13 DEF Sound, Backed, Meets, Unmet
  <2>16. RequestInv(k)'
    BY <2>14, <2>15 DEF RequestInv
  <2>17. RequestInv(req[r])'
    BY <2>12, <2>13, <2>16
  <2> QED
    BY <2>2, <2>8, <2>10, <2>11, <2>12, <2>17, Keeps
<1>4. CASE Refind(r)
  <2>1. UNCHANGED Data /\ mustChange' \in SUBSET Users /\ req[r].pc = "refind"
    BY <1>0, <1>4 DEF Refind, Data
  <2>2. Sound(f, req[r]) /\ f \notin Silent
    BY <1>a, <2>1 DEF RequestInv
  <2>3. PICK step \in {"idle", "save"} : Goto(r, step)
    BY <1>4 DEF Refind
  <2>4. step \in Steps /\ (step # "idle" => RequestInv([req[r] EXCEPT !.pc = step]))
    BY <2>1, <2>2, SameStepInv
  <2> QED
    BY <2>1, <2>3, <2>4, MoveOn
<1>4a. CASE Link(r)
  <2>1. req[r].pc = "link" /\ UNCHANGED <<policy, row, consents, mustChange, codes, approved>>
    BY <1>4a DEF Link
  <2>2. Sound(f, req[r]) /\ f \notin Silent
    BY <1>a, <2>1 DEF RequestInv
  <2>3. CASE UNCHANGED sso /\ Goto(r, "save")
    <3>1. UNCHANGED Data /\ mustChange' \in SUBSET Users
      BY <1>0, <2>1, <2>3 DEF Data
    <3>2. "save" \in Steps /\ RequestInv([req[r] EXCEPT !.pc = "save"])
      BY <2>1, <2>2, SameStepInv
    <3> QED
      BY <2>3, <3>1, <3>2, MoveOn
  <2>4. CASE sso' = [sso EXCEPT ![req[r].sid] = [@ EXCEPT !.st = "ended"]] /\ Goto(r, "idle")
    <3> DEFINE s == req[r].sid
               new == [sso[s] EXCEPT !.st = "ended"]
    <3>1. s \in Sids /\ sso[s].st # "new" /\ sso[s] \in SsoRow
      BY <2>2 DEF SignInInv, TypeOK, Sound, Backed
    <3>2. /\ new \in SsoRow /\ new.st # "new" /\ new.user = sso[s].user
          /\ new.methods = sso[s].methods /\ new.flow = sso[s].flow
      BY <3>1 DEF SsoRow
    <3>3. sso' = [sso EXCEPT ![s] = new]
      BY <2>4
    <3> HIDE DEF new, s
    <3>4. sso'[s] = new /\ \A t \in Sids : t # s => sso'[t] = sso[t]
      BY <3>1, <3>3 DEF SignInInv, TypeOK
    <3>5. /\ req' \in [Requests -> RequestRecord]
          /\ \A q \in Requests : q # r => Same(req'[q], req[q])
          /\ req'[r] = Idle
      BY <1>0, <2>4, GotoFacts DEF SignInInv
    <3>6. TypeOK'
      BY <2>1, <3>2, <3>3, <3>5 DEF SignInInv, TypeOK
    <3>7. SessionsGrow
      BY <2>1, <3>2, <3>4 DEF SessionsGrow
    <3>8. SessionsInv'
      BY <3>1, <3>2, <3>4 DEF SignInInv, SessionsInv
    <3>9. RequestInv(Idle)'
      BY <3>7, IdleFacts, RequestInvKeeps DEF Same
    <3>10. RequestInv(req[r])'
      BY <3>5, <3>9
    <3> QED
      BY <2>1, <3>5, <3>6, <3>7, <3>8, <3>10, Keeps
  <2> QED
    BY <1>4a, <2>3, <2>4 DEF Link
<1>5. CASE SaveAuthentication(r)
  <2> DEFINE new == [row[f] EXCEPT !.user = req[r].user, !.auth = TRUE, !.sid = req[r].sid,
                                   !.methods = req[r].methods, !.shown = req[r].restoring]
  <2>1. req[r].pc = "save" /\ Sound(f, req[r]) /\ f \notin Silent
    BY <1>5, <1>a DEF SaveAuthentication, RequestInv
  <2>2. /\ new \in AuthSessionRow /\ new.user = req[r].user /\ new.sid = req[r].sid
        /\ new.methods = req[r].methods
    BY <1>0, <1>c, <2>1 DEF AuthSessionRow, RequestRecord
  <2>3. Write(r, new)
    BY <1>5 DEF SaveAuthentication
  <2> HIDE DEF new
  <2>4. Sound(f, new)
    BY <2>1, <2>2 DEF Sound, Backed
  <2>5. PICK step \in {"idle", "consent"} : Goto(r, step) \/ GotoAlone(r, step)
    BY <1>5 DEF SaveAuthentication, GotoAfterWrite
  <2>6. step \in Steps /\ (step # "idle" => RequestInv([req[r] EXCEPT !.pc = step]))
    BY <2>1, SameStepInv
  <2>7. UNCHANGED <<policy, sso, consents, mustChange, codes, approved>>
    BY <1>5 DEF SaveAuthentication
  <2> QED
    BY <2>1, <2>2, <2>3, <2>4, <2>5, <2>6, <2>7, WriteStep
<1>6. CASE CheckConsent(r)
  <2>1. req[r].pc = "consent" /\ Sound(f, req[r]) /\ f \notin Silent
    BY <1>6, <1>a DEF CheckConsent, RequestInv
  <2>2. CASE Granted(req[r].user, f) /\ Goto(r, "issue") /\ UNCHANGED row
    <3>1. HasApproved(req[r].user, Asks[f])
      BY <2>1, <2>2, GrantedWasApproved
    <3>2. "issue" \in Steps /\ RequestInv([req[r] EXCEPT !.pc = "issue"])
      BY <2>1, <3>1, SameStepInv
    <3>3. UNCHANGED Data /\ mustChange' \in SUBSET Users
      BY <1>0, <1>6, <2>2 DEF CheckConsent, Data
    <3> QED
      BY <2>2, <3>2, <3>3, MoveOn
  <2>3. CASE ~Granted(req[r].user, f) /\ Goto(r, "idle") /\ Show(r)
    <3>1. UNCHANGED <<policy, sso, consents, mustChange, codes, approved>>
      BY <1>6 DEF CheckConsent
    <3> QED
      BY <2>1, <2>3, <3>1, ShowStep
  <2> QED
    BY <1>6, <2>2, <2>3 DEF CheckConsent
<1>7. CASE Exchange(r)
  <2> DEFINE new == [row[f] EXCEPT !.handle = FALSE]
  <2>1. req[r].pc = "exchange"
    BY <1>7 DEF Exchange
  <2>2. /\ new \in AuthSessionRow /\ new.user = row[f].user /\ new.sid = row[f].sid
        /\ new.methods = row[f].methods /\ new.auth = row[f].auth /\ new.shown = row[f].shown
    BY <1>c, <2>1 DEF AuthSessionRow
  <2>3. Write(r, new)
    BY <1>7 DEF Exchange
  <2> HIDE DEF new
  <2>4. new.auth => Sound(f, new)
    BY <1>b, <2>1, <2>2 DEF Sound, Backed, SignInInv, RowsInv
  <2>5. PICK step \in {"idle", "restore"} : Goto(r, step) \/ GotoAlone(r, step)
    BY <1>7 DEF Exchange
  <2>6. step \in Steps /\ (step # "idle" => RequestInv([req[r] EXCEPT !.pc = step]))
    BY <2>1, SameStepInv
  <2>7. UNCHANGED <<policy, sso, consents, mustChange, codes, approved>>
    BY <1>7 DEF Exchange
  <2> QED
    BY <2>1, <2>2, <2>3, <2>4, <2>5, <2>6, <2>7, WriteStep
<1>8. ASSUME NEW s \in Sids, Restore(r, s) PROVE SignInInv'
  <2> DEFINE new == [req[r] EXCEPT !.pc = "restored", !.restoring = TRUE,
                        !.user = sso[s].user, !.methods = sso[s].methods, !.sid = s]
  <2>1. /\ req[r].pc = "restore" /\ f \notin Forced /\ sso[s].st = "live"
        /\ Meets(policy[f], sso[s].methods) /\ req' = [req EXCEPT ![r] = new]
        /\ UNCHANGED Data /\ mustChange' \in SUBSET Users
    BY <1>0, <1>8 DEF Restore, Data
  <2>2. sso[s] \in SsoRow
    BY DEF SignInInv, TypeOK
  <2>3. /\ new \in RequestRecord /\ new.pc = "restored" /\ new.flow = f
        /\ new.user = sso[s].user /\ new.methods = sso[s].methods /\ new.sid = s
    BY <1>0, <2>2 DEF RequestRecord, SsoRow, Steps
  <2> HIDE DEF new
  <2>4. Sound(f, new)
    BY <2>1, <2>3 DEF Sound, Backed
  <2>5. RequestInv(new)
    BY <1>b, <2>1, <2>3, <2>4 DEF RequestInv
  <2> QED
    BY <2>1, <2>3, <2>5, ReqOnly
<1>9. ASSUME NEW s \in Sids, RestoreDenied(r, s) PROVE SignInInv'
  <2>1. UNCHANGED Data /\ mustChange' \in SUBSET Users /\ req[r].pc = "restore" /\ Goto(r, "delete")
    BY <1>0, <1>9 DEF RestoreDenied, Data
  <2>2. "delete" \in Steps /\ RequestInv([req[r] EXCEPT !.pc = "delete"])
    BY <2>1, SameStepInv
  <2> QED
    BY <2>1, <2>2, MoveOn
<1>10. CASE RestoreFails(r)
  <2>1. req[r].pc = "restore"
    BY <1>10 DEF RestoreFails
  <2>2. CASE f \in Silent /\ Goto(r, "delete") /\ UNCHANGED row
    <3>1. UNCHANGED Data /\ mustChange' \in SUBSET Users
      BY <1>0, <1>10, <2>2 DEF RestoreFails, Data
    <3>2. "delete" \in Steps /\ RequestInv([req[r] EXCEPT !.pc = "delete"])
      BY <2>1, SameStepInv
    <3> QED
      BY <2>2, <3>1, <3>2, MoveOn
  <2>3. CASE f \notin Silent /\ Goto(r, "idle") /\ Show(r)
    <3>1. UNCHANGED <<policy, sso, consents, mustChange, codes, approved>>
      BY <1>10 DEF RestoreFails
    <3> QED
      BY <2>1, <2>3, <3>1, ShowStep
  <2> QED
    BY <1>10, <2>2, <2>3 DEF RestoreFails
<1>11. CASE CheckRestoredConsent(r)
  <2>1. /\ UNCHANGED Data /\ mustChange' \in SUBSET Users
        /\ req[r].pc = "restored" /\ Sound(f, req[r])
    BY <1>0, <1>11, <1>a DEF CheckRestoredConsent, Data, RequestInv
  <2>2. PICK step \in {"issue", "delete", "save"} :
          /\ Goto(r, step)
          /\ step = "issue" => Granted(req[r].user, f)
          /\ step = "save" => f \notin Silent
    BY <1>11 DEF CheckRestoredConsent
  <2>3. step = "issue" => HasApproved(req[r].user, Asks[f])
    BY <2>1, <2>2, GrantedWasApproved
  <2>4. step \in Steps /\ RequestInv([req[r] EXCEPT !.pc = step])
    BY <2>1, <2>2, <2>3, SameStepInv
  <2> QED
    BY <2>1, <2>2, <2>4, MoveOn
<1>12. CASE GrantConsent(r)
  <2>1. /\ req[r].pc = "grant" /\ Sound(f, req[r]) /\ Goto(r, "issue")
        /\ consents' = [consents EXCEPT ![req[r].user] = Asks[f]]
        /\ approved' = approved \cup {<<f, req[r].user>>}
        /\ UNCHANGED <<policy, row, sso, mustChange, codes>>
    BY <1>12, <1>a DEF GrantConsent, RequestInv
  <2>2. req[r].user \in Users /\ f \in Flows
    BY <1>b, <2>1 DEF SignInInv, SessionsInv, Sound, Backed
  <2>3. "issue" \in Steps
    BY DEF Steps
  <2>4. /\ req' \in [Requests -> RequestRecord]
        /\ \A q \in Requests : q # r => Same(req'[q], req[q])
        /\ req'[r] = [req[r] EXCEPT !.pc = "issue"]
    BY <2>1, <2>3, GotoFacts DEF SignInInv
  <2>5. TypeOK'
    <3>1. Asks[f] \in SUBSET Scopes
      BY <2>2, SignInAssumption
    <3>2. consents' \in [Users -> SUBSET Scopes]
      BY <2>1, <3>1 DEF SignInInv, TypeOK
    <3>3. approved' \in SUBSET (Flows \X Users)
      BY <2>1, <2>2 DEF SignInInv, TypeOK
    <3> QED
      BY <2>1, <2>4, <3>2, <3>3 DEF SignInInv, TypeOK
  <2>6. SessionsGrow
    BY <2>1 DEF SessionsGrow
  <2>7. SessionsInv'
    BY <2>1 DEF SignInInv, SessionsInv
  <2>8. PICK q : q = req[r]
    OBVIOUS
  <2>9. PICK k : k = [req[r] EXCEPT !.pc = "issue"]
    OBVIOUS
  <2>10. /\ k.pc = "issue" /\ k.flow = q.flow /\ k.user = q.user /\ k.methods = q.methods
         /\ k.sid = q.sid
    BY <1>0, <2>8, <2>9 DEF RequestRecord
  <2>11. Sound(q.flow, q)'
    BY <2>1, <2>6, <2>8, SoundKeeps
  <2>12. Sound(k.flow, k)'
    BY <2>10, <2>11 DEF Sound, Backed
  <2>13. HasApproved(k.user, Asks[k.flow])' /\ HasApproved(q.user, Asks[q.flow])'
    BY <2>1, <2>2, <2>8, <2>10 DEF HasApproved
  <2>14. k.flow \in Flows
    BY <2>2, <2>8, <2>10
  <2>15. RequestInv(k)'
    BY <2>10, <2>12, <2>13, <2>14 DEF RequestInv
  <2>16. RequestInv(req[r])'
    BY <2>4, <2>9, <2>15
  <2>17. \A u \in Users : consents'[u] \subseteq consents[u] \/ HasApproved(u, consents[u])'
    <3> SUFFICES ASSUME NEW u \in Users, u = req[r].user PROVE HasApproved(u, consents[u])'
      BY <2>1 DEF SignInInv, TypeOK
    <3>1. consents'[u] = Asks[f] /\ <<f, u>> \in approved'
      BY <2>1 DEF SignInInv, TypeOK
    <3> QED
      BY <2>2, <3>1 DEF HasApproved
  <2>18. row' = row /\ codes' = codes
    BY <2>1
  <2> QED
    BY <2>4, <2>5, <2>6, <2>7, <2>16, <2>17, <2>18, Keeps
<1>13. CASE Issue(r)
  <2>1. /\ req[r].pc = "issue" /\ Sound(f, req[r])
        /\ HasApproved(req[r].user, Asks[f])
        /\ UNCHANGED <<policy, row, sso, consents, mustChange, approved>>
    BY <1>13, <1>a DEF Issue, RequestInv
  <2>2. CASE UNCHANGED codes /\ \E step \in {"delete", "idle"} : Goto(r, step)
    <3>1. PICK step \in {"delete", "idle"} : Goto(r, step)
      BY <2>2
    <3>2. step \in Steps /\ (step # "idle" => RequestInv([req[r] EXCEPT !.pc = step]))
      BY <2>1, SameStepInv
    <3>3. UNCHANGED Data /\ mustChange' \in SUBSET Users
      BY <1>0, <2>1, <2>2 DEF Data
    <3> QED
      BY <3>1, <3>2, <3>3, MoveOn
  <2> DEFINE code == [flow |-> f, user |-> req[r].user, methods |-> req[r].methods, sid |-> req[r].sid]
  <2>3. CASE codes' = codes \cup {code} /\ Goto(r, "delete")
    <3>1. f \in Flows /\ req[r].user \in Users /\ req[r].sid \in Sids
      BY <1>b, <2>1 DEF SignInInv, SessionsInv, Sound, Backed
    <3>2. /\ code \in Code /\ code.flow = f /\ code.user = req[r].user
          /\ code.methods = req[r].methods /\ code.sid = req[r].sid
      BY <1>0, <3>1 DEF Code, RequestRecord
    <3>3. codes' = codes \cup {code}
      BY <2>3
    <3> HIDE DEF code
    <3>4. "delete" \in Steps /\ RequestInv([req[r] EXCEPT !.pc = "delete"])
      BY <2>1, SameStepInv
    <3>5. /\ req' \in [Requests -> RequestRecord]
          /\ \A q \in Requests : q # r => Same(req'[q], req[q])
          /\ req'[r] = [req[r] EXCEPT !.pc = "delete"]
      BY <2>3, <3>4, GotoFacts DEF SignInInv
    <3>6. TypeOK'
      BY <2>1, <3>2, <3>3, <3>5 DEF SignInInv, TypeOK
    <3>7. SessionsGrow
      BY <2>1 DEF SessionsGrow
    <3>8. SessionsInv'
      BY <2>1 DEF SignInInv, SessionsInv
    <3>9. PICK k : k = [req[r] EXCEPT !.pc = "delete"]
      OBVIOUS
    <3>10. RequestInv(k)'
      BY <3>4, <3>7, <3>9, RequestInvKeeps DEF Same
    <3>11. RequestInv(req[r])'
      BY <3>5, <3>9, <3>10
    <3>12. PICK c : c = code
      OBVIOUS
    <3>13. Sound(c.flow, c) /\ HasApproved(c.user, Asks[c.flow])
      BY <2>1, <3>2, <3>12 DEF Sound, Backed
    <3>14. Sound(c.flow, c)' /\ HasApproved(c.user, Asks[c.flow])'
      BY <2>1, <3>7, <3>13, SoundKeeps DEF HasApproved
    <3>15. \A d \in codes' : d \in codes \/ (Sound(d.flow, d)' /\ HasApproved(d.user, Asks[d.flow])')
      BY <3>3, <3>12, <3>14
    <3>16. row' = row /\ consents' = consents
      BY <2>1
    <3> QED
      BY <3>5, <3>6, <3>7, <3>8, <3>11, <3>15, <3>16, Keeps
  <2> QED
    BY <1>13, <2>2, <2>3 DEF Issue
<1>14. CASE Delete(r)
  <2> DEFINE new == [NewRow EXCEPT !.st = "gone"]
  <2>1. req[r].pc # "idle" /\ Write(r, new) /\ (Goto(r, "idle") \/ GotoAlone(r, "idle"))
    BY <1>14 DEF Delete, GotoAfterWrite
  <2>2. new \in AuthSessionRow /\ new.auth = FALSE /\ new.shown = FALSE
    BY DEF NewRow, AuthSessionRow
  <2> HIDE DEF new
  <2>3. UNCHANGED <<policy, sso, consents, mustChange, codes, approved>>
    BY <1>14 DEF Delete
  <2> QED
    BY <1>0, <2>1, <2>2, <2>3, WriteStep
<1> QED
  BY <1>1, <1>2, <1>3, <1>4, <1>4a, <1>5, <1>6, <1>7, <1>8, <1>9, <1>10, <1>11, <1>12, <1>13, <1>14
     DEF Step

\* What happens outside the handlers keeps the invariant.
LEMMA EnvironmentKeeps ==
    ASSUME SignInInv, Environment
    PROVE  SignInInv'
<1>b. ASSUME TypeOK', SessionsGrow, SessionsInv',
             \A q \in Requests : Same(req'[q], req[q]),
             \A f \in Flows : row'[f] = row[f] \/ (~row'[f].auth /\ ~row'[f].shown),
             \A u \in Users : consents'[u] \subseteq consents[u], codes' = codes
      PROVE  SignInInv'
  <2>1. ASSUME NEW q \in Requests PROVE RequestInv(req[q])'
    <3>1. PICK old : old = req[q]
      OBVIOUS
    <3>2. PICK new : new = req'[q]
      OBVIOUS
    <3>3. Same(new, old) /\ RequestInv(old)
      BY <1>b, <3>1, <3>2 DEF SignInInv
    <3>4. RequestInv(new)'
      BY <1>b, <3>3, RequestInvKeeps
    <3> QED
      BY <3>2, <3>4
  <2>2. ASSUME NEW f \in Flows, row'[f].auth PROVE Sound(f, row[f])'
    <3>1. PICK a : a = row[f]
      OBVIOUS
    <3>2. Sound(f, a) /\ row'[f] = a
      BY <1>b, <2>2, <3>1 DEF SignInInv, RowsInv
    <3>3. Sound(f, a)'
      BY <1>b, <3>2, SoundKeeps
    <3> QED
      BY <3>2, <3>3
  <2>3. RowsInv'
    BY <1>b, <2>2 DEF SignInInv, RowsInv
  <2>4. \A u, scopes : HasApproved(u, scopes) => HasApproved(u, scopes)'
    BY <1>b DEF HasApproved, SessionsGrow
  <2>5. ConsentsInv'
    <3> SUFFICES ASSUME NEW u \in Users PROVE HasApproved(u, consents[u])'
      BY DEF ConsentsInv
    <3>1. HasApproved(u, consents[u]) /\ consents'[u] \subseteq consents[u]
      BY <1>b DEF SignInInv, ConsentsInv
    <3> QED
      BY <1>b, <3>1 DEF HasApproved, SessionsGrow
  <2>6. ASSUME NEW c \in codes PROVE Sound(c.flow, c)' /\ HasApproved(c.user, Asks[c.flow])'
    <3>1. Sound(c.flow, c) /\ HasApproved(c.user, Asks[c.flow])
      BY <2>6 DEF SignInInv, CodesInv
    <3>2. Sound(c.flow, c)'
      BY <1>b, <3>1, SoundKeeps
    <3> QED
      BY <2>4, <3>1, <3>2
  <2>7. CodesInv'
    BY <1>b, <2>6 DEF CodesInv
  <2> QED
    BY <1>b, <2>1, <2>3, <2>5, <2>7 DEF SignInInv
<1>1. ASSUME NEW f \in Flows, Authorize(f) PROVE SignInInv'
  <2> DEFINE new == [NewRow EXCEPT !.st = "live", !.handle = TRUE]
  <2>1. new \in AuthSessionRow /\ new.auth = FALSE /\ new.shown = FALSE
    BY DEF NewRow, AuthSessionRow
  <2>2. row' = [row EXCEPT ![f] = new]
    BY <1>1 DEF Authorize
  <2>3. UNCHANGED <<policy, sso, consents, mustChange, codes, approved, req>>
    BY <1>1 DEF Authorize
  <2> HIDE DEF new
  <2>4. TypeOK'
    BY <2>1, <2>2, <2>3 DEF SignInInv, TypeOK
  <2>5. SessionsGrow
    BY <2>3 DEF SessionsGrow
  <2>6. SessionsInv'
    BY <2>3 DEF SignInInv, SessionsInv
  <2>7. \A q \in Requests : Same(req'[q], req[q])
    BY <2>3 DEF Same
  <2>8. \A g \in Flows : row'[g] = row[g] \/ (~row'[g].auth /\ ~row'[g].shown)
    BY <2>1, <2>2 DEF SignInInv, TypeOK
  <2> QED
    BY <1>b, <2>3, <2>4, <2>5, <2>6, <2>7, <2>8
<1>2. ASSUME NEW f \in Flows, ExpireRow(f) PROVE SignInInv'
  <2> DEFINE new == [NewRow EXCEPT !.st = "gone"]
  <2>1. new \in AuthSessionRow /\ new.auth = FALSE /\ new.shown = FALSE
    BY DEF NewRow, AuthSessionRow
  <2>2. row' = [row EXCEPT ![f] = new]
    BY <1>2 DEF ExpireRow
  <2>3. UNCHANGED <<policy, sso, consents, mustChange, codes, approved>>
    BY <1>2 DEF ExpireRow
  <2> HIDE DEF new
  <2>4. \A q \in Requests : req[q] \in RequestRecord
    BY DEF SignInInv, TypeOK
  <2>5. \A q \in Requests : /\ [req[q] EXCEPT !.fresh = FALSE] \in RequestRecord
                            /\ Same([req[q] EXCEPT !.fresh = FALSE], req[q])
                            /\ Same(req[q], req[q])
    BY <2>4 DEF RequestRecord, Same
  <2>6. \A q \in Requests : req'[q] \in {req[q], [req[q] EXCEPT !.fresh = FALSE]}
    BY <1>2 DEF ExpireRow
  <2>7. \A q \in Requests : Same(req'[q], req[q]) /\ req'[q] \in RequestRecord
    BY <2>4, <2>5, <2>6
  <2>8. req' \in [Requests -> RequestRecord]
    BY <1>2, <2>7 DEF ExpireRow
  <2>9. TypeOK'
    BY <2>1, <2>2, <2>3, <2>8 DEF SignInInv, TypeOK
  <2>10. SessionsGrow
    BY <2>3 DEF SessionsGrow
  <2>11. SessionsInv'
    BY <2>3 DEF SignInInv, SessionsInv
  <2>12. \A g \in Flows : row'[g] = row[g] \/ (~row'[g].auth /\ ~row'[g].shown)
    BY <2>1, <2>2 DEF SignInInv, TypeOK
  <2> QED
    BY <1>b, <2>3, <2>7, <2>9, <2>10, <2>11, <2>12
<1>3. ASSUME NEW s \in Sids, EndSession(s) PROVE SignInInv'
  <2> DEFINE new == [sso[s] EXCEPT !.st = "ended"]
  <2>1. sso[s] \in SsoRow /\ sso[s].st = "live"
    BY <1>3 DEF SignInInv, TypeOK, EndSession
  <2>2. /\ new \in SsoRow /\ new.st # "new" /\ new.user = sso[s].user
        /\ new.methods = sso[s].methods /\ new.flow = sso[s].flow
    BY <2>1 DEF SsoRow
  <2>3. sso' = [sso EXCEPT ![s] = new]
    BY <1>3 DEF EndSession
  <2>4. UNCHANGED <<policy, row, consents, mustChange, codes, approved, req>>
    BY <1>3 DEF EndSession
  <2> HIDE DEF new
  <2>5. TypeOK'
    BY <2>2, <2>3, <2>4 DEF SignInInv, TypeOK
  <2>6. sso'[s] = new /\ \A t \in Sids : t # s => sso'[t] = sso[t]
    BY <2>3 DEF SignInInv, TypeOK
  <2>7. SessionsGrow
    BY <2>2, <2>4, <2>6 DEF SessionsGrow
  <2>8. SessionsInv'
    BY <2>1, <2>2, <2>6 DEF SignInInv, SessionsInv
  <2>9. \A q \in Requests : Same(req'[q], req[q])
    BY <2>4 DEF Same
  <2> QED
    BY <1>b, <2>4, <2>5, <2>7, <2>8, <2>9
<1>4. ASSUME NEW u \in Users, WithdrawConsent(u) PROVE SignInInv'
  <2>1. consents' = [consents EXCEPT ![u] = {}] /\ UNCHANGED <<policy, row, sso, mustChange, codes, approved, req>>
    BY <1>4 DEF WithdrawConsent
  <2>2. TypeOK'
    BY <2>1 DEF SignInInv, TypeOK
  <2>3. SessionsGrow
    BY <2>1 DEF SessionsGrow
  <2>4. SessionsInv'
    BY <2>1 DEF SignInInv, SessionsInv
  <2>5. \A q \in Requests : Same(req'[q], req[q])
    BY <2>1 DEF Same
  <2>6. \A v \in Users : consents'[v] \subseteq consents[v]
    BY <2>1 DEF SignInInv, TypeOK
  <2> QED
    BY <1>b, <2>1, <2>2, <2>3, <2>4, <2>5, <2>6
<1> QED
  BY <1>1, <1>2, <1>3, <1>4 DEF Environment

\* The inductive invariant holds of every behaviour: whatever the rows, the
\* codes and the handlers between two statements hold is one sign-in's.
THEOREM SignInInvariant == Spec => []SignInInv
<1>1. Init => SignInInv
  <2> SUFFICES ASSUME Init PROVE SignInInv
    OBVIOUS
  <2>1. NewRow \in AuthSessionRow /\ ~NewRow.auth /\ ~NewRow.shown
    BY DEF NewRow, AuthSessionRow
  <2>2. NewSso \in SsoRow /\ NewSso.st = "new"
    BY DEF NewSso, SsoRow
  <2>3. TypeOK
    BY <2>1, <2>2, IdleFacts, SignInAssumption DEF Init, TypeOK
  <2>4. SessionsInv /\ RowsInv
    BY <2>1, <2>2 DEF Init, SessionsInv, RowsInv
  <2>5. \A r \in Requests : RequestInv(req[r])
    BY IdleFacts DEF Init
  <2>6. ConsentsInv /\ CodesInv
    BY DEF Init, ConsentsInv, CodesInv, HasApproved
  <2> QED
    BY <2>3, <2>4, <2>5, <2>6 DEF SignInInv
<1>2. SignInInv /\ [Next]_vars => SignInInv'
  <2> SUFFICES ASSUME SignInInv, [Next]_vars PROVE SignInInv'
    OBVIOUS
  <2>1. ASSUME NEW r \in Requests, Step(r) PROVE SignInInv'
    BY <2>1, StepKeeps
  <2>2. ASSUME NEW r \in Requests, NEW f \in Flows, Arrive(r, f) PROVE SignInInv'
    BY <2>2, ArriveKeeps
  <2>3. ASSUME NEW r \in Requests, Abandon(r) PROVE SignInInv'
    <3>1. Goto(r, "idle") /\ UNCHANGED Data /\ mustChange' \in SUBSET Users /\ "idle" \in Steps
      BY <2>3 DEF Abandon, Data, Steps, SignInInv, TypeOK
    <3> QED
      BY <3>1, MoveOn
  <2>4. CASE Environment
    BY <2>4, EnvironmentKeeps
  <2>5. CASE UNCHANGED vars
    BY <2>5 DEF vars, SignInInv, TypeOK, SessionsInv, RowsInv, RequestInv, ConsentsInv, CodesInv,
                Sound, Backed, Meets, Unmet, HasApproved
  <2> QED
    BY <2>1, <2>2, <2>3, <2>4, <2>5 DEF Next
<1> QED
  BY <1>1, <1>2, PTL DEF Spec

\* Codes, and rows that can be approved, carry the user, the methods and the
\* session of one and the same completed sign-in, established first.
THEOREM OneSignIn == Spec => []AuthMatchesSession
<1>1. SignInInv => AuthMatchesSession
  <2> SUFFICES ASSUME SignInInv PROVE AuthMatchesSession
    OBVIOUS
  <2>1. \A f \in Flows : Progress(f) = "authenticated" => row[f].auth
    BY DEF Progress
  <2> QED
    BY <2>1 DEF SignInInv, AuthMatchesSession, RowsInv, CodesInv, Sound
<1> QED
  BY <1>1, SignInInvariant, PTL

\* Every code meets what the policy decides for its own flow.
THEOREM PoliciesAreHonoured == Spec => []PolicyHonoured
<1>1. SignInInv => PolicyHonoured
  BY DEF SignInInv, PolicyHonoured, CodesInv, Sound
<1> QED
  BY <1>1, SignInInvariant, PTL

\* Every scope of a code, except openid, was on a consent screen its user
\* approved: through the login, the restored session and the approval, with the
\* record replaced by every approval and deleted by the user at any time.
THEOREM ConsentComesFirst == Spec => []ConsentBeforeCode
<1>1. SignInInv => ConsentBeforeCode
  BY DEF SignInInv, ConsentBeforeCode, CodesInv
<1> QED
  BY <1>1, SignInInvariant, PTL

\* prompt=none and prompt=login decide which sessions a code may rest on.
THEOREM PromptsAreHonoured == Spec => []PromptHonoured
<1>1. SignInInv => PromptHonoured
  BY DEF SignInInv, PromptHonoured, CodesInv, SessionsInv, Sound, Backed
<1> QED
  BY <1>1, SignInInvariant, PTL
=============================================================================
