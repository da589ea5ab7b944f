-------------------------- MODULE TokenGrantProofs --------------------------
(***************************************************************************)
(* TLAPS proofs about TokenGrant, for every set of codes, tokens, requests *)
(* and keys, every lifetime and every bound on the clock.                  *)
(***************************************************************************)
EXTENDS TokenGrant, TLAPS

-----------------------------------------------------------------------------
(* Typing. *)

LEMMA InitTypeOK == Init => TypeOK
<1> SUFFICES ASSUME Init PROVE TypeOK
  OBVIOUS
<1>1. codes \in [Codes -> CodeRecord]
  <2>1. BlankCode \in CodeRecord
    BY DEF BlankCode, CodeRecord
  <2> QED BY <2>1 DEF Init
<1>2. rt \in [Tokens -> TokenRecord]
  <2>1. BlankToken \in TokenRecord
    BY DEF BlankToken, TokenRecord, Rows
  <2>2. ASSUME NEW client \in Clients, NEW u \in Users
        PROVE  LegacyToken(client, u) \in TokenRecord
    BY <2>1, TimeAssumption DEF LegacyToken, TokenRecord, Rows
  <2> QED BY <2>1, <2>2 DEF Init
<1>3. req \in [Requests -> RequestRecord]
  <2>1. IdleRequest \in RequestRecord
    BY DEF IdleRequest, RequestRecord, Steps
  <2> QED BY <2>1 DEF Init
<1>4. clock \in Nat /\ userActive \in [Users -> BOOLEAN] /\ stopped \subseteq Families
  BY DEF Init
<1> QED BY <1>1, <1>2, <1>3, <1>4 DEF TypeOK

\* The statement that revokes rows keeps the table's type.
LEMMA RevokeRowsType ==
  ASSUME TypeOK, NEW S, RevokeRows(S)
  PROVE  rt' \in [Tokens -> TokenRecord]
  BY DEF TypeOK, RevokeRows, Live, TokenRecord, Rows

\* Moving a request on to another step keeps its type.
LEMMA GotoType ==
  ASSUME TypeOK, NEW r \in Requests, NEW step \in Steps, Goto(r, step)
  PROVE  req' \in [Requests -> RequestRecord]
  BY DEF TypeOK, Goto, IdleRequest, RequestRecord, Steps

LEMMA GotoStopType ==
  ASSUME TypeOK, NEW r \in Requests, NEW f \in Families, GotoStop(r, f)
  PROVE  req' \in [Requests -> RequestRecord]
<1>1. req[r] \in RequestRecord
  BY DEF TypeOK
<1>2. [req[r] EXCEPT !.pc = "revoke_family", !.family = f] \in RequestRecord
  BY <1>1 DEF RequestRecord, Steps
<1> QED BY <1>2 DEF TypeOK, GotoStop

LEMMA FamilyType ==
  ASSUME TypeOK, NEW t \in Tokens
  PROVE  Family(t) \in Families
  BY DEF TypeOK, Family, TokenRecord, Families

\* Typing is inductive only with RequestsAreGrounded: a step of a request
\* applies the tables to the code or the token it carries.
LEMMA ContinueType ==
  ASSUME TypeOK, RequestsAreGrounded, NEW r \in Requests, Continue(r)
  PROVE  TypeOK'
<1>1. CASE Consume(r)
  <2>1. codes' \in [Codes -> CodeRecord]
    BY <1>1 DEF Consume, TypeOK, CodeRecord
  <2>2. req' \in [Requests -> RequestRecord]
    BY <1>1, GotoType DEF Consume, Steps
  <2> QED BY <1>1, <2>1, <2>2 DEF Consume, TypeOK
<1>2. CASE FindUsed(r)
  <2>1. req[r].code \in Families
    BY <1>2 DEF FindUsed, RequestsAreGrounded, Grounded, Families
  <2>2. req' \in [Requests -> RequestRecord]
    BY <1>2, <2>1, GotoType, GotoStopType DEF FindUsed, Steps
  <2> QED BY <1>2, <2>2 DEF FindUsed, TypeOK, TablesUnchanged
<1>3. CASE Redeem(r)
  <2>1. req' \in [Requests -> RequestRecord]
    BY <1>3, GotoType DEF Redeem, Steps
  <2> QED BY <1>3, <2>1 DEF Redeem, TypeOK, TablesUnchanged
<1>4. CASE LoadCodeUser(r)
  <2>1. req' \in [Requests -> RequestRecord]
    BY <1>4, GotoType DEF LoadCodeUser, Steps
  <2> QED BY <1>4, <2>1 DEF LoadCodeUser, TypeOK, TablesUnchanged
<1>5. CASE CreateRoot(r)
  <2>1. req' \in [Requests -> RequestRecord]
    BY <1>5, GotoType DEF CreateRoot, Steps
  <2>2. codes[req[r].code] \in CodeRecord /\ req[r].code \in Codes
    BY <1>5 DEF CreateRoot, TypeOK, RequestsAreGrounded, Grounded, Redeeming
  <2>3. req[r] \in RequestRecord
    BY DEF TypeOK
  <2>4. rt' \in [Tokens -> TokenRecord]
    BY <1>5, <2>2, <2>3, TimeAssumption
       DEF CreateRoot, InsertToken, TypeOK, CodeRecord, RequestRecord, TokenRecord, Rows, Families
  <2> QED BY <1>5, <2>1, <2>4 DEF CreateRoot, TypeOK
<1>6. CASE Find(r)
  <2>1. req[r] \in RequestRecord /\ req[r].token \in Tokens
    BY <1>6 DEF TypeOK, Find, RequestsAreGrounded, Grounded
  <2>2. [req[r] EXCEPT !.pc = "check_reuse", !.sawLive = Live(req[r].token)] \in RequestRecord
    BY <2>1 DEF RequestRecord, Steps, Live
  <2>3. IdleRequest \in RequestRecord
    BY DEF IdleRequest, RequestRecord, Steps
  <2>4. req' \in [Requests -> RequestRecord]
    BY <1>6, <2>2, <2>3 DEF Find, TypeOK
  <2> QED BY <1>6, <2>4 DEF Find, TypeOK, TablesUnchanged
<1>7. CASE CheckReuse(r)
  <2>1. Family(req[r].token) \in Families
    BY <1>7, FamilyType DEF CheckReuse, RequestsAreGrounded, Grounded, Refreshing
  <2>2. req' \in [Requests -> RequestRecord]
    BY <1>7, <2>1, GotoType, GotoStopType DEF CheckReuse, Steps
  <2> QED BY <1>7, <2>2 DEF CheckReuse, TypeOK, TablesUnchanged
<1>8. CASE LoadUser(r)
  <2>1. req' \in [Requests -> RequestRecord]
    BY <1>8, GotoType DEF LoadUser, Steps
  <2> QED BY <1>8, <2>1 DEF LoadUser, TypeOK, TablesUnchanged
<1>9. ASSUME NEW b \in BOOLEAN, Gate(r, b) PROVE TypeOK'
  <2>1. Family(req[r].token) \in Families
    BY <1>9, FamilyType DEF Gate, RequestsAreGrounded, Grounded, Refreshing
  <2>2. req' \in [Requests -> RequestRecord]
    BY <1>9, <2>1, GotoType, GotoStopType DEF Gate, Steps
  <2> QED BY <1>9, <2>2 DEF Gate, TypeOK, TablesUnchanged
<1>10. CASE Rotate(r)
  <2>1. Family(req[r].token) \in Families
    BY <1>10, FamilyType DEF Rotate, RequestsAreGrounded, Grounded, Refreshing
  <2>2. req' \in [Requests -> RequestRecord]
    BY <1>10, <2>1, GotoType, GotoStopType DEF Rotate, Steps
  <2>3. rt' \in [Tokens -> TokenRecord]
    BY <1>10, RevokeRowsType DEF Rotate
  <2> QED BY <1>10, <2>2, <2>3 DEF Rotate, TypeOK
<1>11. CASE CreateChild(r)
  <2>1. req' \in [Requests -> RequestRecord]
    BY <1>11, GotoType DEF CreateChild, Steps
  <2>2. req[r] \in RequestRecord /\ req[r].token \in Tokens
    BY <1>11 DEF CreateChild, TypeOK, RequestsAreGrounded, Grounded, Refreshing
  <2>3. rt[req[r].token] \in TokenRecord /\ Family(req[r].token) \in Families
    BY <2>2, FamilyType DEF TypeOK
  <2>4. AuthTimeOrIssued(req[r].token) \in Nat
    BY <2>2, <2>3 DEF AuthTimeOrIssued, TokenRecord
  <2>5. rt' \in [Tokens -> TokenRecord]
    BY <1>11, <2>2, <2>3, <2>4
       DEF CreateChild, InsertToken, TypeOK, RequestRecord, TokenRecord, Rows
  <2> QED BY <1>11, <2>1, <2>5 DEF CreateChild, TypeOK
<1>12. CASE RevokeFamily(r)
  <2>1. req' \in [Requests -> RequestRecord]
    BY <1>12, GotoType DEF RevokeFamily, Steps
  <2>2. rt' \in [Tokens -> TokenRecord]
    BY <1>12, RevokeRowsType DEF RevokeFamily
  <2>3. stopped' \subseteq Families
    BY <1>12 DEF RevokeFamily, TypeOK, RequestsAreGrounded, Grounded
  <2> QED BY <1>12, <2>1, <2>2, <2>3 DEF RevokeFamily, TypeOK
<1>13. CASE FindToRevoke(r)
  <2>1. req' \in [Requests -> RequestRecord]
    BY <1>13, GotoType DEF FindToRevoke, Steps
  <2> QED BY <1>13, <2>1 DEF FindToRevoke, TypeOK, TablesUnchanged
<1>14. CASE Revoke(r)
  <2>1. req' \in [Requests -> RequestRecord]
    BY <1>14, GotoType DEF Revoke, Steps
  <2>2. rt' \in [Tokens -> TokenRecord]
    BY <1>14, RevokeRowsType DEF Revoke
  <2> QED BY <1>14, <2>1, <2>2 DEF Revoke, TypeOK
<1> QED BY <1>1, <1>2, <1>3, <1>4, <1>5, <1>6, <1>7, <1>8, <1>9, <1>10, <1>11, <1>12, <1>13, <1>14
        DEF Continue

LEMMA StartType ==
  ASSUME TypeOK, NEW r \in Requests, Start(r) \/ Abandon(r)
  PROVE  TypeOK'
<1>1. IdleRequest \in RequestRecord
  BY DEF IdleRequest, RequestRecord, Steps
<1>2. CASE Abandon(r)
  <2>1. req' \in [Requests -> RequestRecord]
    BY <1>2, GotoType DEF Abandon, Steps
  <2> QED BY <1>2, <2>1 DEF Abandon, TypeOK, TablesUnchanged
<1>3. ASSUME NEW c \in Codes, NEW client \in Clients, NEW key \in Keys \cup {None},
             NEW v \in BOOLEAN, StartCode(r, c, client, key, v)
      PROVE  TypeOK'
  <2>1. [IdleRequest EXCEPT !.pc = "consume", !.code = c, !.client = client, !.key = key,
                            !.now = clock, !.verifier = v] \in RequestRecord
    BY <1>1 DEF TypeOK, RequestRecord, Steps
  <2> QED BY <1>3, <2>1 DEF StartCode, TypeOK, TablesUnchanged
<1>4. ASSUME NEW t \in Tokens, NEW client \in Clients, NEW key \in Keys \cup {None},
             StartRefresh(r, t, client, key)
      PROVE  TypeOK'
  <2>1. [IdleRequest EXCEPT !.pc = "find", !.token = t, !.client = client, !.key = key,
                            !.now = clock] \in RequestRecord
    BY <1>1 DEF TypeOK, RequestRecord, Steps
  <2> QED BY <1>4, <2>1 DEF StartRefresh, TypeOK, TablesUnchanged
<1>5. ASSUME NEW t \in Tokens, NEW client \in Clients, StartRevocation(r, t, client)
      PROVE  TypeOK'
  <2>1. [IdleRequest EXCEPT !.pc = "find_to_revoke", !.token = t, !.client = client,
                            !.now = clock] \in RequestRecord
    BY <1>1 DEF TypeOK, RequestRecord, Steps
  <2> QED BY <1>5, <2>1 DEF StartRevocation, TypeOK, TablesUnchanged
<1> QED BY <1>2, <1>3, <1>4, <1>5 DEF Start

LEMMA SweepType ==
  ASSUME TypeOK, Sweep
  PROVE  TypeOK'
<1>1. ASSUME NEW S, RevokeRows(S), UNCHANGED codes, NoRequest PROVE TypeOK'
  BY <1>1, RevokeRowsType DEF TypeOK, NoRequest
<1>2. ASSUME NEW u \in Users, RevokeCodesOfUser(u) PROVE TypeOK'
  BY <1>2 DEF RevokeCodesOfUser, NoRequest, TypeOK, CodeRecord
<1>3. CASE PurgeCodes
  BY <1>3 DEF PurgeCodes, NoRequest, TypeOK, CodeRecord
<1>4. CASE PurgeTokens
  BY <1>4 DEF PurgeTokens, NoRequest, TypeOK, TokenRecord, Rows, Present
<1> QED BY <1>1, <1>2, <1>3, <1>4
        DEF Sweep, RevokeTokensOfUser, RevokeTokensOfMember, RevokeTokensOfSession,
            RevokeTokensOfClient

LEMMA OtherType ==
  ASSUME TypeOK,
         \/ \E c \in Codes, client \in Clients, u \in Users, sid \in Sids, o \in BOOLEAN :
                IssueCode(c, client, u, sid, o)
         \/ \E u \in Users, b \in BOOLEAN : SetUserActive(u, b)
         \/ Tick
  PROVE  TypeOK'
<1>1. ASSUME NEW c \in Codes, NEW client \in Clients, NEW u \in Users, NEW sid \in Sids,
             NEW o \in BOOLEAN, IssueCode(c, client, u, sid, o)
      PROVE  TypeOK'
  <2>1. [st |-> "active", client |-> client, user |-> u, sid |-> sid,
         offline |-> o, exp |-> clock + CodeTtl, authTime |-> clock] \in CodeRecord
    BY TimeAssumption DEF TypeOK, CodeRecord
  <2> QED BY <1>1, <2>1 DEF IssueCode, NoRequest, TypeOK
<1>2. ASSUME NEW u \in Users, NEW b \in BOOLEAN, SetUserActive(u, b) PROVE TypeOK'
  BY <1>2 DEF SetUserActive, TypeOK
<1>3. CASE Tick
  BY <1>3 DEF Tick, TypeOK
<1> QED BY <1>1, <1>2, <1>3

LEMMA NextType ==
  ASSUME TypeOK, RequestsAreGrounded, [Next]_vars
  PROVE  TypeOK'
<1>1. CASE UNCHANGED vars
  BY <1>1 DEF vars, TypeOK
<1> QED BY <1>1, ContinueType, StartType, SweepType, OtherType DEF Next

-----------------------------------------------------------------------------
(* Most steps only take rows away and let no request pick a baton up. *)

\* Rows keep their attributes; none comes to life or comes into being.
RowsShrink ==
    \A t \in Tokens :
        /\ rt'[t].grant = rt[t].grant /\ rt'[t].parent = rt[t].parent
        /\ rt'[t].client = rt[t].client /\ rt'[t].user = rt[t].user /\ rt'[t].sid = rt[t].sid
        /\ rt'[t].jkt = rt[t].jkt /\ rt'[t].exp = rt[t].exp
        /\ rt'[t].created = rt[t].created /\ rt'[t].authTime = rt[t].authTime
        /\ rt'[t].st = "live" => rt[t].st = "live"
        /\ rt'[t].st = "absent" <=> rt[t].st = "absent"

CodesAdvance ==
    \A c \in Codes : codes'[c].st \in {"absent", "active"} => codes[c].st \in {"absent", "active"}

BatonsKept ==
    \A r \in Requests :
        /\ Redeeming(r)' => Redeeming(r) /\ req'[r].code = req[r].code
        /\ req'[r].pc = "create_child" => req[r].pc = "create_child" /\ req'[r].token = req[r].token

Baton ==
    /\ OneLiveTokenPerFamily
    /\ HolderExcludesLive
    /\ OneHolder
    /\ AbsentIsBlank
    /\ RootsComeOnce
    /\ ChildrenComeOnce
    /\ NoFork
    /\ ChainInherits

LEMMA ShrinkKeepsFamilies ==
  ASSUME RowsShrink, NEW t \in Tokens
  PROVE  /\ Family(t)' = Family(t)
         /\ AuthTimeOrIssued(t)' = AuthTimeOrIssued(t)
         /\ Live(t)' => Live(t)
  BY DEF RowsShrink, Family, AuthTimeOrIssued, Live

LEMMA QuietStep ==
  ASSUME TypeOK, RequestsAreGrounded, Baton, RowsShrink, CodesAdvance, BatonsKept
  PROVE  Baton'
<1>0. ASSUME NEW r \in Requests, req'[r].pc = "create_child"
      PROVE  req[r].token \in Tokens /\ req'[r].token = req[r].token /\ req[r].pc = "create_child"
  BY <1>0 DEF BatonsKept, RequestsAreGrounded, Grounded, Refreshing
<1>1. ASSUME NEW r \in Requests, NEW f, Holds(r, f)' PROVE Holds(r, f)
  BY <1>0, <1>1, ShrinkKeepsFamilies DEF Holds, BatonsKept
<1>2. OneLiveTokenPerFamily'
  BY ShrinkKeepsFamilies DEF Baton, OneLiveTokenPerFamily
<1>3. HolderExcludesLive'
  BY <1>1, ShrinkKeepsFamilies DEF Baton, HolderExcludesLive
<1>4. OneHolder'
  BY <1>1 DEF Baton, OneHolder
<1>5. AbsentIsBlank'
  BY DEF Baton, AbsentIsBlank, RowsShrink
<1>6. RootsComeOnce'
  BY DEF Baton, RootsComeOnce, RowsShrink, CodesAdvance, BatonsKept
<1>7. ChildrenComeOnce'
  BY <1>0, ShrinkKeepsFamilies DEF Baton, ChildrenComeOnce, RowsShrink
<1>8. NoFork'
  BY DEF Baton, NoFork, RowsShrink
<1>9. ChainInherits'
  <2> SUFFICES ASSUME NEW t \in Tokens, rt[t].st # "absent", rt[t].parent # None
               PROVE  (LET p == rt[t].parent
                       IN /\ rt[p].st # "absent"
                          /\ rt[t].exp = rt[p].exp /\ rt[t].authTime = AuthTimeOrIssued(p)
                          /\ rt[t].user = rt[p].user /\ rt[t].sid = rt[p].sid
                          /\ rt[t].client = rt[p].client
                          /\ rt[p].jkt # None => rt[t].jkt = rt[p].jkt)'
    BY DEF ChainInherits, RowsShrink
  <2>1. rt[t].parent \in Tokens
    BY DEF TypeOK, TokenRecord
  <2> QED BY <2>1, ShrinkKeepsFamilies DEF Baton, ChainInherits, RowsShrink
<1> QED BY <1>2, <1>3, <1>4, <1>5, <1>6, <1>7, <1>8, <1>9 DEF Baton

\* The three ways rows shrink.
LEMMA RevokeRowsShrink ==
  ASSUME TypeOK, NEW S, RevokeRows(S)
  PROVE  RowsShrink
  BY DEF RevokeRows, RowsShrink, Live, TypeOK, TokenRecord

LEMMA SameRowsShrink ==
  ASSUME TypeOK, rt' = rt
  PROVE  RowsShrink
  BY DEF RowsShrink

LEMMA PurgeTokensShrink ==
  ASSUME TypeOK, PurgeTokens
  PROVE  RowsShrink
  BY DEF PurgeTokens, RowsShrink, Present, TypeOK, TokenRecord

\* A request that is done, or goes on to stop a family, has no baton.
LEMMA GotoBatons ==
  ASSUME TypeOK, NEW r \in Requests, NEW step \in Steps, Goto(r, step),
         step \in {"load_code_user", "create_root"} => Redeeming(r),
         step \notin {"redeem", "create_child"}
  PROVE  BatonsKept
  BY DEF Goto, BatonsKept, Redeeming, IdleRequest, TypeOK, RequestRecord, Steps

LEMMA GotoStopBatons ==
  ASSUME TypeOK, NEW r \in Requests, NEW f, GotoStop(r, f)
  PROVE  BatonsKept
  BY DEF GotoStop, BatonsKept, Redeeming, TypeOK, RequestRecord

\* The four steps at which a baton changes hands.

LEMMA ConsumeKeepsBaton ==
  ASSUME TypeOK, RequestsAreGrounded, Baton, NEW r \in Requests, Consume(r)
  PROVE  Baton'
<1> DEFINE c == req[r].code
<1>1. c \in Codes /\ rt' = rt /\ RowsShrink
  BY SameRowsShrink DEF Consume, RequestsAreGrounded, Grounded
<1>2. CASE codes[c].st = "active" /\ codes[c].exp > req[r].now
  <2>1. /\ codes' = [codes EXCEPT ![c].st = "used"]
        /\ req' = [req EXCEPT ![r] = [@ EXCEPT !.pc = "redeem"]]
    BY <1>2 DEF Consume, Goto
  <2>2. \A t \in Tokens : rt[t].grant # c /\ Family(t) # c
    BY <1>1, <1>2, IdsAssumption DEF Baton, RootsComeOnce, Family
  <2>3. \A q \in Requests : ~Holds(q, c)
    <3>1. ASSUME NEW q \in Requests, Redeeming(q), req[q].code = c PROVE FALSE
      BY <1>2, <3>1 DEF RequestsAreGrounded, Grounded
    <3>2. ASSUME NEW q \in Requests, req[q].pc = "create_child" PROVE Family(req[q].token) # c
      BY <2>2, <3>2 DEF RequestsAreGrounded, Grounded, Refreshing
    <3> QED BY <3>1, <3>2 DEF Holds
  <2>4. ASSUME NEW q \in Requests, NEW f, Holds(q, f)'
        PROVE  Holds(q, f) \/ (q = r /\ f = c)
    BY <1>1, <2>1, <2>4 DEF Holds, Redeeming, Family, TypeOK, RequestRecord
  <2>5. OneLiveTokenPerFamily' /\ AbsentIsBlank' /\ NoFork' /\ ChainInherits'
    BY <1>1 DEF Baton, OneLiveTokenPerFamily, AbsentIsBlank, NoFork, ChainInherits, Live,
                Family, AuthTimeOrIssued
  <2>6. HolderExcludesLive'
    BY <1>1, <2>2, <2>4 DEF Baton, HolderExcludesLive, Live, Family
  <2>7. OneHolder'
    BY <2>3, <2>4 DEF Baton, OneHolder
  <2>8. RootsComeOnce'
    BY <1>1, <2>1, <2>2 DEF Baton, RootsComeOnce, Redeeming, TypeOK, RequestRecord, CodeRecord
  <2>9. ChildrenComeOnce'
    BY <1>1, <2>1 DEF Baton, ChildrenComeOnce, Live, TypeOK, RequestRecord
  <2> QED BY <2>5, <2>6, <2>7, <2>8, <2>9 DEF Baton
<1>3. CASE ~(codes[c].st = "active" /\ codes[c].exp > req[r].now)
  <2>1. BatonsKept
    BY <1>3, GotoBatons DEF Consume, Steps
  <2>2. CodesAdvance
    BY <1>3 DEF Consume, CodesAdvance
  <2> QED BY <1>1, <2>1, <2>2, QuietStep
<1> QED BY <1>2, <1>3

LEMMA RotateKeepsBaton ==
  ASSUME TypeOK, RequestsAreGrounded, Baton, NEW r \in Requests, Rotate(r)
  PROVE  Baton'
<1>0. PICK t \in Tokens : t = req[r].token
  BY DEF Rotate, RequestsAreGrounded, Grounded, Refreshing
<1>1. t = req[r].token /\ codes' = codes /\ RowsShrink
  BY <1>0, RevokeRowsShrink DEF Rotate
<1>2. CodesAdvance
  BY <1>1 DEF CodesAdvance
<1>3. CASE Live(t)
  <2>1. req' = [req EXCEPT ![r] = [@ EXCEPT !.pc = "create_child"]]
    BY <1>1, <1>3 DEF Rotate, Goto
  <2>2. ~Live(t)'
    BY <1>1, <1>3 DEF Rotate, RevokeRows, Live, TypeOK, TokenRecord
  <2>3. ASSUME NEW q \in Requests, NEW f, Holds(q, f)'
        PROVE  Holds(q, f) \/ (q = r /\ f = Family(t))
    <3>1. req'[q].pc = "create_child" => req'[q].token \in Tokens /\ req'[q].token = req[q].token
      BY <1>1, <2>1 DEF TypeOK, RequestRecord, RequestsAreGrounded, Grounded, Refreshing
    <3>2. CASE Redeeming(q)' /\ req'[q].code = f
      BY <2>1, <3>2 DEF Holds, Redeeming, TypeOK, RequestRecord
    <3>3. CASE req'[q].pc = "create_child" /\ Family(req[q].token)' = f
      <4>1. PICK u \in Tokens : u = req'[q].token /\ u = req[q].token
        BY <3>1, <3>3
      <4>2. Family(u) = f
        BY <1>1, <3>3, <4>1, ShrinkKeepsFamilies DEF Family
      <4> QED BY <1>1, <2>1, <3>3, <4>1, <4>2 DEF Holds, TypeOK, RequestRecord
    <3> QED BY <2>3, <3>2, <3>3 DEF Holds
  <2>4. \A u \in Tokens : Live(u)' => Live(u) /\ Family(u)' = Family(u) /\ Family(u) # Family(t)
    BY <1>1, <1>3, <2>2, ShrinkKeepsFamilies DEF Baton, OneLiveTokenPerFamily
  <2>5. \A q \in Requests : ~Holds(q, Family(t))
    BY <1>1, <1>3 DEF Baton, HolderExcludesLive
  <2>6. OneLiveTokenPerFamily'
    BY <1>1, ShrinkKeepsFamilies DEF Baton, OneLiveTokenPerFamily
  <2>7. HolderExcludesLive'
    BY <2>3, <2>4 DEF Baton, HolderExcludesLive
  <2>8. OneHolder'
    BY <2>3, <2>5 DEF Baton, OneHolder
  <2>9. AbsentIsBlank' /\ NoFork'
    BY <1>1 DEF Baton, AbsentIsBlank, NoFork, RowsShrink
  <2>10. RootsComeOnce'
    BY <1>1, <2>1 DEF Baton, RootsComeOnce, RowsShrink, Redeeming, TypeOK, RequestRecord
  <2>11. ChildrenComeOnce'
    BY <1>1, <1>3, <2>1, <2>4 DEF Baton, ChildrenComeOnce, RowsShrink, TypeOK, RequestRecord,
           RequestsAreGrounded, Grounded, Refreshing
  <2>12. ChainInherits'
    <3> SUFFICES ASSUME NEW u \in Tokens, rt[u].st # "absent", rt[u].parent # None
                 PROVE  (LET p == rt[u].parent
                         IN /\ rt[p].st # "absent"
                            /\ rt[u].exp = rt[p].exp /\ rt[u].authTime = AuthTimeOrIssued(p)
                            /\ rt[u].user = rt[p].user /\ rt[u].sid = rt[p].sid
                            /\ rt[u].client = rt[p].client
                            /\ rt[p].jkt # None => rt[u].jkt = rt[p].jkt)'
      BY <1>1 DEF ChainInherits, RowsShrink
    <3>1. rt[u].parent \in Tokens
      BY DEF TypeOK, TokenRecord
    <3> QED BY <1>1, <3>1, ShrinkKeepsFamilies DEF Baton, ChainInherits, RowsShrink
  <2> QED BY <2>6, <2>7, <2>8, <2>9, <2>10, <2>11, <2>12 DEF Baton
<1>4. CASE ~Live(t)
  <2>1. BatonsKept
    BY <1>1, <1>4, GotoStopBatons DEF Rotate
  <2> QED BY <1>1, <1>2, <2>1, QuietStep
<1> QED BY <1>3, <1>4

\* Inserting one live row `n` into a family that nobody else holds.
LEMMA InsertKeepsBaton ==
  ASSUME TypeOK, RequestsAreGrounded, Baton, NEW r \in Requests, NEW n \in Tokens,
         NEW row \in TokenRecord, rt[n].st = "absent", rt' = [rt EXCEPT ![n] = row],
         codes' = codes, Goto(r, "idle"),
         row.st = "live", row.grant \in Families, Holds(r, row.grant),
         \A t \in Tokens : rt[t].st # "absent" /\ rt[t].grant = row.grant =>
                               rt[t].parent # row.parent,
         \A q \in Requests : Redeeming(q) /\ q # r => req[q].code # row.grant,
         \A q \in Requests : req[q].pc = "create_child" /\ q # r => req[q].token # row.parent,
         row.grant \in Codes => codes[row.grant].st \in {"used", "purged"},
         row.parent # None => row.parent \in Tokens /\ rt[row.parent].st \in {"revoked", "purged"},
         row.parent # None => /\ row.exp = rt[row.parent].exp
                              /\ row.authTime = AuthTimeOrIssued(row.parent)
                              /\ row.user = rt[row.parent].user /\ row.sid = rt[row.parent].sid
                              /\ row.client = rt[row.parent].client
                              /\ rt[row.parent].jkt # None => row.jkt = rt[row.parent].jkt
  PROVE  Baton'
<1>1. /\ rt'[n] = row
      /\ \A t \in Tokens : t # n => rt'[t] = rt[t]
  BY DEF TypeOK
<1>2. Family(n)' = row.grant /\ \A t \in Tokens : t # n => Family(t)' = Family(t)
  BY <1>1, IdsAssumption DEF Family, Families
<1>3. /\ req'[r] = IdleRequest
      /\ \A q \in Requests : q # r => req'[q] = req[q]
  BY DEF Goto, TypeOK
<1>4. ASSUME NEW q \in Requests, NEW f, Holds(q, f)'
      PROVE  q # r /\ Holds(q, f)
  <2>1. q # r
    BY <1>3, <1>4 DEF Holds, Redeeming, IdleRequest
  <2>2. CASE Redeeming(q)' /\ req'[q].code = f
    BY <1>3, <2>1, <2>2 DEF Holds, Redeeming
  <2>3. CASE req'[q].pc = "create_child" /\ Family(req[q].token)' = f
    <3>1. PICK u \in Tokens : u = req[q].token /\ u = req'[q].token /\ u # n
      BY <1>3, <2>1, <2>3 DEF RequestsAreGrounded, Grounded, Refreshing
    <3>2. Family(u) = f
      BY <1>2, <2>3, <3>1 DEF Family
    <3> QED BY <1>3, <2>1, <2>3, <3>1, <3>2 DEF Holds
  <2> QED BY <1>4, <2>1, <2>2, <2>3 DEF Holds
<1>5. \A t \in Tokens : Live(t)' <=> t = n \/ Live(t)
  BY <1>1 DEF Live
<1>6. \A t \in Tokens : Live(t) => Family(t) # row.grant
  BY DEF Baton, HolderExcludesLive
<1>7. OneLiveTokenPerFamily'
  BY <1>2, <1>5, <1>6 DEF Baton, OneLiveTokenPerFamily
<1>8. HolderExcludesLive'
  <2> SUFFICES ASSUME NEW q \in Requests, NEW t \in Tokens, Live(t)', Holds(q, Family(t))'
               PROVE  FALSE
    BY DEF HolderExcludesLive
  <2>0. PICK f : f = Family(t)'
    OBVIOUS
  <2>1. q # r /\ Holds(q, f)
    <3>1. Holds(q, f)'
      BY <2>0 DEF Holds
    <3> QED BY <1>4, <3>1
  <2>2. CASE t = n
    BY <1>2, <2>0, <2>1, <2>2 DEF Baton, OneHolder
  <2>3. CASE t # n
    BY <1>2, <1>5, <2>0, <2>1, <2>3 DEF Baton, HolderExcludesLive
  <2> QED BY <2>2, <2>3
<1>9. OneHolder'
  BY <1>4 DEF Baton, OneHolder
<1>10. AbsentIsBlank'
  BY <1>1 DEF Baton, AbsentIsBlank
<1>11. RootsComeOnce'
  <2>1. \A c \in Codes : codes[c].st \in {"absent", "active"} => \A t \in Tokens : rt'[t].grant # c
    BY <1>1 DEF Baton, RootsComeOnce
  <2>2. \A q \in Requests : Redeeming(q)' => Redeeming(q) /\ q # r /\ req'[q].code = req[q].code
    BY <1>3 DEF Redeeming, IdleRequest
  <2>3. \A q \in Requests : Redeeming(q)' => \A t \in Tokens : rt'[t].grant # req'[q].code
    BY <1>1, <2>2 DEF Baton, RootsComeOnce
  <2> QED BY <2>1, <2>3 DEF RootsComeOnce
<1>12. ChildrenComeOnce'
  <2>1. \A t, u \in Tokens : Live(t)' => rt'[u].parent # t
    <3> SUFFICES ASSUME NEW t \in Tokens, NEW u \in Tokens, Live(t)' PROVE rt'[u].parent # t
      OBVIOUS
    <3>1. CASE t = n
      BY <1>1, <3>1, IdsAssumption DEF Baton, AbsentIsBlank
    <3>2. CASE t # n
      <4>1. Live(t) /\ row.parent # t
        BY <1>5, <3>2, IdsAssumption DEF Live
      <4> QED BY <1>1, <4>1 DEF Baton, ChildrenComeOnce
    <3> QED BY <3>1, <3>2
  <2>2. \A q \in Requests : req'[q].pc = "create_child" =>
            req[q].pc = "create_child" /\ q # r /\ req'[q].token = req[q].token
    BY <1>3 DEF IdleRequest
  <2>3. \A q \in Requests : req'[q].pc = "create_child" =>
                                \A u \in Tokens : rt'[u].parent # req'[q].token
    BY <1>1, <2>2 DEF Baton, ChildrenComeOnce
  <2> QED BY <2>1, <2>3 DEF ChildrenComeOnce
<1>13. NoFork'
  BY <1>1 DEF Baton, NoFork
<1>14. ChainInherits'
  <2> SUFFICES ASSUME NEW u \in Tokens, rt'[u].st # "absent", rt'[u].parent # None
               PROVE  (LET p == rt[u].parent
                       IN /\ rt[p].st # "absent"
                          /\ rt[u].exp = rt[p].exp /\ rt[u].authTime = AuthTimeOrIssued(p)
                          /\ rt[u].user = rt[p].user /\ rt[u].sid = rt[p].sid
                          /\ rt[u].client = rt[p].client
                          /\ rt[p].jkt # None => rt[u].jkt = rt[p].jkt)'
    BY DEF ChainInherits
  <2>1. PICK p \in Tokens : p = rt'[u].parent /\ p # n /\ rt'[p] = rt[p]
    BY <1>1 DEF Baton, AbsentIsBlank, TypeOK, TokenRecord
  <2>2. rt'[p].authTime = rt[p].authTime /\ AuthTimeOrIssued(p)' = AuthTimeOrIssued(p)
    BY <2>1 DEF AuthTimeOrIssued
  <2>3. CASE u = n
    BY <1>1, <2>1, <2>2, <2>3 DEF AuthTimeOrIssued
  <2>4. CASE u # n
    BY <1>1, <2>1, <2>2, <2>4 DEF Baton, ChainInherits, AuthTimeOrIssued
  <2> QED BY <2>3, <2>4
<1> QED BY <1>7, <1>8, <1>9, <1>10, <1>11, <1>12, <1>13, <1>14 DEF Baton

LEMMA CreateRootKeepsBaton ==
  ASSUME TypeOK, RequestsAreGrounded, Baton, NEW r \in Requests, CreateRoot(r)
  PROVE  Baton'
<1>1. PICK c \in Codes : c = req[r].code /\ codes[c] \in CodeRecord /\ codes[c].st \in {"used", "purged"}
  BY DEF CreateRoot, RequestsAreGrounded, Grounded, Redeeming, TypeOK
<1>2. PICK row :
        row = [st |-> "live", parent |-> None, grant |-> c,
               client |-> req[r].client, user |-> codes[c].user, sid |-> codes[c].sid,
               jkt |-> req[r].key, exp |-> req[r].now + RefreshTtl,
               created |-> req[r].now, authTime |-> codes[c].authTime]
  OBVIOUS
<1>3. PICK n \in Tokens : rt[n].st = "absent" /\ rt' = [rt EXCEPT ![n] = row]
  BY <1>1, <1>2 DEF CreateRoot, InsertToken
<1>4. row \in TokenRecord
  BY <1>1, <1>2, TimeAssumption DEF TypeOK, CodeRecord, TokenRecord, RequestRecord, Rows, Families
<1>5. row.st = "live" /\ row.grant = c /\ row.parent = None
  BY <1>2
<1>6. Redeeming(r) /\ Holds(r, c)
  BY <1>1 DEF CreateRoot, Redeeming, Holds
<1>7. \A t \in Tokens : rt[t].grant # c
  BY <1>1, <1>6 DEF Baton, RootsComeOnce
<1>8. \A q \in Requests : Redeeming(q) /\ q # r => req[q].code # c
  BY <1>6 DEF Baton, OneHolder, Holds, Families
<1>9. \A q \in Requests : req[q].pc = "create_child" => req[q].token # None
  BY IdsAssumption DEF RequestsAreGrounded, Grounded, Refreshing
<1>10. codes' = codes /\ Goto(r, "idle") /\ c \in Families
  BY DEF CreateRoot, Families
<1>11. /\ row.grant \in Families /\ Holds(r, row.grant)
       /\ \A t \in Tokens : rt[t].st # "absent" /\ rt[t].grant = row.grant =>
                               rt[t].parent # row.parent
       /\ \A q \in Requests : Redeeming(q) /\ q # r => req[q].code # row.grant
       /\ \A q \in Requests : req[q].pc = "create_child" /\ q # r => req[q].token # row.parent
       /\ row.grant \in Codes => codes[row.grant].st \in {"used", "purged"}
  BY <1>1, <1>5, <1>6, <1>7, <1>8, <1>9, <1>10
<1> QED BY <1>3, <1>4, <1>5, <1>10, <1>11, InsertKeepsBaton

LEMMA CreateChildKeepsBaton ==
  ASSUME TypeOK, RequestsAreGrounded, Baton, NEW r \in Requests, CreateChild(r)
  PROVE  Baton'
<1>1. PICK p \in Tokens : /\ p = req[r].token /\ rt[p] \in TokenRecord
                          /\ rt[p].st \in {"revoked", "purged"}
                          /\ rt[p].client = req[r].client /\ KeyAdmitted(p, req[r].key)
  BY DEF CreateChild, RequestsAreGrounded, Grounded, Refreshing, TypeOK, Live, TokenRecord, Rows
<1>2. PICK row :
        row = [st |-> "live", parent |-> p, grant |-> Family(p),
               client |-> req[r].client, user |-> rt[p].user, sid |-> rt[p].sid,
               jkt |-> IF rt[p].jkt = None THEN req[r].key ELSE rt[p].jkt,
               exp |-> rt[p].exp, created |-> req[r].now,
               authTime |-> AuthTimeOrIssued(p)]
  OBVIOUS
<1>3. PICK n \in Tokens : rt[n].st = "absent" /\ rt' = [rt EXCEPT ![n] = row]
  BY <1>1, <1>2 DEF CreateChild, InsertToken
<1>4. Family(p) \in Families /\ AuthTimeOrIssued(p) \in Nat
  BY <1>1, FamilyType DEF AuthTimeOrIssued, TokenRecord
<1>5. row \in TokenRecord
  BY <1>1, <1>2, <1>4 DEF TypeOK, TokenRecord, RequestRecord, Rows
<1>6. row.st = "live" /\ row.grant = Family(p) /\ row.parent = p
  BY <1>2
<1>7. req[r].pc = "create_child" /\ Holds(r, Family(p))
  BY <1>1 DEF CreateChild, Holds
<1>8. \A t \in Tokens : rt[t].parent # p
  BY <1>1, <1>7 DEF Baton, ChildrenComeOnce
<1>9. \A q \in Requests : Redeeming(q) /\ q # r => req[q].code # Family(p)
  BY <1>4, <1>7 DEF Baton, OneHolder, Holds
<1>10. \A q \in Requests : req[q].pc = "create_child" /\ q # r => req[q].token # p
  BY <1>4, <1>7 DEF Baton, OneHolder, Holds
<1>11. Family(p) \in Codes => codes[Family(p)].st \in {"used", "purged"}
  <2> SUFFICES ASSUME Family(p) \in Codes PROVE codes[Family(p)].st \in {"used", "purged"}
    OBVIOUS
  <2>1. rt[p].grant = Family(p)
    BY IdsAssumption DEF Family
  <2>2. codes[Family(p)].st \notin {"absent", "active"}
    BY <2>1 DEF Baton, RootsComeOnce
  <2> QED BY <2>2 DEF TypeOK, CodeRecord
<1>12. codes' = codes /\ Goto(r, "idle")
  BY DEF CreateChild
<1>13. /\ row.exp = rt[p].exp /\ row.authTime = AuthTimeOrIssued(p)
       /\ row.user = rt[p].user /\ row.sid = rt[p].sid /\ row.client = rt[p].client
       /\ rt[p].jkt # None => row.jkt = rt[p].jkt
  BY <1>1, <1>2
<1>14. /\ row.grant \in Families /\ Holds(r, row.grant)
       /\ \A t \in Tokens : rt[t].st # "absent" /\ rt[t].grant = row.grant =>
                               rt[t].parent # row.parent
       /\ \A q \in Requests : Redeeming(q) /\ q # r => req[q].code # row.grant
       /\ \A q \in Requests : req[q].pc = "create_child" /\ q # r => req[q].token # row.parent
       /\ row.grant \in Codes => codes[row.grant].st \in {"used", "purged"}
       /\ row.parent \in Tokens /\ rt[row.parent].st \in {"revoked", "purged"}
       /\ row.exp = rt[row.parent].exp /\ row.authTime = AuthTimeOrIssued(row.parent)
       /\ row.user = rt[row.parent].user /\ row.sid = rt[row.parent].sid
       /\ row.client = rt[row.parent].client
       /\ rt[row.parent].jkt # None => row.jkt = rt[row.parent].jkt
  BY <1>1, <1>4, <1>6, <1>7, <1>8, <1>9, <1>10, <1>11, <1>13
<1> QED BY <1>3, <1>5, <1>6, <1>12, <1>14, InsertKeepsBaton

-----------------------------------------------------------------------------
(* What a request has read stays true until it acts on it. *)

TablesMonotone ==
    /\ \A c \in Codes : codes[c].st \in {"used", "purged"} => codes'[c].st \in {"used", "purged"}
    /\ \A t \in Tokens : rt[t].st # "absent" =>
           /\ rt'[t].st # "absent"
           /\ rt'[t].client = rt[t].client /\ rt'[t].jkt = rt[t].jkt
           /\ rt'[t].st = "live" => rt[t].st = "live"

LEMMA ShrinkIsMonotone ==
  ASSUME TypeOK, RowsShrink,
         \A c \in Codes : codes[c].st \in {"used", "purged"} => codes'[c].st \in {"used", "purged"}
  PROVE  TablesMonotone
  BY DEF RowsShrink, TablesMonotone

LEMMA InsertIsMonotone ==
  ASSUME TypeOK, NEW row, InsertToken(row), codes' = codes
  PROVE  TablesMonotone
  BY DEF InsertToken, TablesMonotone, TypeOK

LEMMA BystanderStaysGrounded ==
  ASSUME TypeOK, RequestsAreGrounded, TablesMonotone, NEW q \in Requests, req'[q] = req[q]
  PROVE  Grounded(q)'
<1>1. Grounded(q)
  BY DEF RequestsAreGrounded
<1> QED BY <1>1 DEF Grounded, Redeeming, Refreshing, KeyAdmitted, Live, TablesMonotone

\* A request that ends, or that goes on with a step of its grant.
LEMMA GotoGrounded ==
  ASSUME TypeOK, RequestsAreGrounded, TablesMonotone, NEW r \in Requests, NEW step \in Steps,
         Goto(r, step),
         step = "idle" \/ step = "find_used" \/ (Redeeming(r) /\ step \in {"load_code_user", "create_root"})
                \/ (Refreshing(r) /\ step \in {"load_user", "gate", "rotate"})
                \/ (req[r].pc = "find_to_revoke" /\ step = "revoke"),
         step = "find_used" => req[r].pc = "consume"
  PROVE  RequestsAreGrounded'
<1> SUFFICES ASSUME NEW q \in Requests PROVE Grounded(q)'
  BY DEF RequestsAreGrounded
<1>1. CASE q # r
  BY <1>1, BystanderStaysGrounded DEF Goto, TypeOK
<1>2. CASE q = r /\ step = "idle"
  <2>1. req'[r] = IdleRequest
    BY <1>2 DEF Goto, TypeOK
  <2> QED BY <1>2, <2>1 DEF Grounded, Redeeming, Refreshing, IdleRequest
<1>3. CASE q = r /\ step # "idle"
  <2>1. req'[r] = [req[r] EXCEPT !.pc = step] /\ req[r] \in RequestRecord
    BY <1>3 DEF Goto, TypeOK
  <2>2. /\ req'[r].pc = step /\ req'[r].code = req[r].code /\ req'[r].token = req[r].token
        /\ req'[r].client = req[r].client /\ req'[r].key = req[r].key
    BY <2>1 DEF RequestRecord
  <2>3. Grounded(r)
    BY DEF RequestsAreGrounded
  <2> QED BY <1>3, <2>2, <2>3 DEF Grounded, Redeeming, Refreshing, KeyAdmitted, Live, TablesMonotone
<1> QED BY <1>1, <1>2, <1>3

LEMMA GotoStopGrounded ==
  ASSUME TypeOK, RequestsAreGrounded, TablesMonotone, NEW r \in Requests, NEW f \in Families,
         GotoStop(r, f)
  PROVE  RequestsAreGrounded'
<1> SUFFICES ASSUME NEW q \in Requests PROVE Grounded(q)'
  BY DEF RequestsAreGrounded
<1>1. CASE q # r
  BY <1>1, BystanderStaysGrounded DEF GotoStop, TypeOK
<1>2. CASE q = r
  <2>1. req'[r].pc = "revoke_family" /\ req'[r].family = f
    BY DEF GotoStop, TypeOK, RequestRecord
  <2> QED BY <1>2, <2>1 DEF Grounded, Redeeming, Refreshing
<1> QED BY <1>1, <1>2

\* A step that only reads: the tables stay, the request goes on or ends.
LEMMA ReadStep ==
  ASSUME TypeOK, RequestsAreGrounded, Baton, TablesUnchanged
  PROVE  TablesMonotone /\ (BatonsKept => Baton')
<1>1. RowsShrink /\ CodesAdvance
  BY SameRowsShrink DEF TablesUnchanged, CodesAdvance
<1>2. TablesMonotone
  BY <1>1, ShrinkIsMonotone DEF TablesUnchanged
<1> QED BY <1>1, <1>2, QuietStep

LEMMA ContinueKeeps ==
  ASSUME TypeOK, RequestsAreGrounded, Baton, NEW r \in Requests, Continue(r)
  PROVE  RequestsAreGrounded' /\ Baton'
<1>0. Grounded(r)
  BY DEF RequestsAreGrounded
<1>1. CASE Consume(r)
  <2>1. TablesMonotone
    <3>1. RowsShrink
      BY <1>1, SameRowsShrink DEF Consume
    <3> QED BY <1>1, <3>1, ShrinkIsMonotone DEF Consume, TypeOK, CodeRecord
  <2>2. RequestsAreGrounded'
    <3>1. CASE codes[req[r].code].st = "active" /\ codes[req[r].code].exp > req[r].now
      <4>1. /\ codes' = [codes EXCEPT ![req[r].code].st = "used"] /\ req[r].code \in Codes
            /\ req' = [req EXCEPT ![r] = [@ EXCEPT !.pc = "redeem"]]
        BY <1>0, <1>1, <3>1 DEF Consume, Goto, Grounded
      <4>2. Grounded(r)'
        BY <4>1 DEF Grounded, Redeeming, Refreshing, TypeOK, RequestRecord, CodeRecord
      <4>3. \A q \in Requests : q # r => Grounded(q)'
        BY <2>1, <4>1, BystanderStaysGrounded DEF TypeOK
      <4> QED BY <4>2, <4>3 DEF RequestsAreGrounded
    <3>2. CASE ~(codes[req[r].code].st = "active" /\ codes[req[r].code].exp > req[r].now)
      <4>1. Goto(r, "find_used") /\ req[r].pc = "consume"
        BY <1>1, <3>2 DEF Consume
      <4> QED BY <2>1, <4>1, GotoGrounded DEF Steps
    <3> QED BY <3>1, <3>2
  <2> QED BY <1>1, <2>2, ConsumeKeepsBaton
<1>2. CASE FindUsed(r)
  <2>1. TablesMonotone /\ (BatonsKept => Baton')
    BY <1>2, ReadStep DEF FindUsed
  <2>2. req[r].code \in Families
    BY <1>0, <1>2 DEF FindUsed, Grounded, Families
  <2> QED BY <1>2, <2>1, <2>2, GotoGrounded, GotoBatons, GotoStopGrounded, GotoStopBatons
          DEF FindUsed, Steps
<1>3. CASE Redeem(r)
  <2>1. TablesMonotone /\ (BatonsKept => Baton') /\ Redeeming(r)
    BY <1>3, ReadStep DEF Redeem, Redeeming
  <2> QED BY <1>3, <2>1, GotoGrounded, GotoBatons DEF Redeem, Steps
<1>4. CASE LoadCodeUser(r)
  <2>1. TablesMonotone /\ (BatonsKept => Baton') /\ Redeeming(r)
    BY <1>4, ReadStep DEF LoadCodeUser, Redeeming
  <2> QED BY <1>4, <2>1, GotoGrounded, GotoBatons DEF LoadCodeUser, Steps
<1>5. CASE CreateRoot(r)
  <2>1. TablesMonotone
    BY <1>5, InsertIsMonotone DEF CreateRoot
  <2>2. RequestsAreGrounded'
    BY <1>5, <2>1, GotoGrounded DEF CreateRoot, Steps
  <2> QED BY <1>5, <2>2, CreateRootKeepsBaton
<1>6. CASE Find(r)
  <2>1. TablesMonotone /\ (BatonsKept => Baton')
    BY <1>6, ReadStep DEF Find
  <2>2. PICK t \in Tokens : t = req[r].token
    BY <1>0, <1>6 DEF Find, Grounded
  <2>3. \A q \in Requests : q # r => req'[q] = req[q]
    BY <1>6 DEF Find, TypeOK
  <2>4. Grounded(r)' /\ req'[r].pc \in {"check_reuse", "idle"}
    <3>1. CASE req'[r] = IdleRequest
      BY <3>1 DEF Grounded, Redeeming, Refreshing, IdleRequest
    <3>2. CASE req'[r] # IdleRequest
      <4>1. /\ req'[r] = [req[r] EXCEPT !.pc = "check_reuse", !.sawLive = Live(t)]
            /\ Present(t) /\ rt[t].client = req[r].client /\ KeyAdmitted(t, req[r].key)
        BY <1>6, <2>2, <3>2 DEF Find, TypeOK
      <4>2. /\ req'[r].pc = "check_reuse" /\ req'[r].token = t
            /\ req'[r].client = req[r].client /\ req'[r].key = req[r].key
        BY <2>2, <4>1 DEF TypeOK, RequestRecord
      <4>3. rt' = rt
        BY <1>6 DEF Find, TablesUnchanged
      <4> QED BY <4>1, <4>2, <4>3 DEF Grounded, Redeeming, Refreshing, Present, KeyAdmitted
    <3> QED BY <3>1, <3>2
  <2>5. BatonsKept
    BY <2>3, <2>4 DEF BatonsKept, Redeeming
  <2>6. RequestsAreGrounded'
    BY <2>1, <2>3, <2>4, BystanderStaysGrounded DEF RequestsAreGrounded
  <2> QED BY <2>1, <2>5, <2>6
<1>7. CASE CheckReuse(r)
  <2>1. TablesMonotone /\ (BatonsKept => Baton') /\ Refreshing(r)
    BY <1>7, ReadStep DEF CheckReuse, Refreshing
  <2>2. Family(req[r].token) \in Families
    BY <1>0, <2>1, FamilyType DEF Grounded
  <2> QED BY <1>7, <2>1, <2>2, GotoGrounded, GotoBatons, GotoStopGrounded, GotoStopBatons
          DEF CheckReuse, Steps
<1>8. CASE LoadUser(r)
  <2>1. TablesMonotone /\ (BatonsKept => Baton') /\ Refreshing(r)
    BY <1>8, ReadStep DEF LoadUser, Refreshing
  <2> QED BY <1>8, <2>1, GotoGrounded, GotoBatons DEF LoadUser, Steps
<1>9. ASSUME NEW b \in BOOLEAN, Gate(r, b) PROVE RequestsAreGrounded' /\ Baton'
  <2>1. TablesMonotone /\ (BatonsKept => Baton') /\ Refreshing(r)
    BY <1>9, ReadStep DEF Gate, Refreshing
  <2>2. Family(req[r].token) \in Families
    BY <1>0, <2>1, FamilyType DEF Grounded
  <2> QED BY <1>9, <2>1, <2>2, GotoGrounded, GotoBatons, GotoStopGrounded, GotoStopBatons
          DEF Gate, Steps
<1>10. CASE Rotate(r)
  <2>1. PICK t \in Tokens : t = req[r].token /\ Refreshing(r)
    BY <1>0, <1>10 DEF Rotate, Grounded, Refreshing
  <2>2. TablesMonotone
    BY <1>10, RevokeRowsShrink, ShrinkIsMonotone DEF Rotate
  <2>3. RequestsAreGrounded'
    <3>1. CASE Live(t)
      <4>1. req' = [req EXCEPT ![r] = [@ EXCEPT !.pc = "create_child"]]
        BY <1>10, <2>1, <3>1 DEF Rotate, Goto
      <4>2. /\ req'[r].pc = "create_child" /\ req'[r].token = t
            /\ req'[r].client = req[r].client /\ req'[r].key = req[r].key
        BY <2>1, <4>1 DEF TypeOK, RequestRecord
      <4>3. rt'[t].st = "revoked"
        BY <1>10, <2>1, <3>1 DEF Rotate, RevokeRows, TypeOK, TokenRecord
      <4>4. rt'[t].client = req'[r].client /\ KeyAdmitted(t, req[r].key)'
        BY <1>0, <2>1, <2>2, <4>2 DEF Grounded, TablesMonotone, KeyAdmitted
      <4>5. Grounded(r)'
        BY <4>2, <4>3, <4>4 DEF Grounded, Redeeming, Refreshing, Live, KeyAdmitted
      <4>6. \A q \in Requests : q # r => Grounded(q)'
        BY <2>2, <4>1, BystanderStaysGrounded DEF TypeOK
      <4> QED BY <4>5, <4>6 DEF RequestsAreGrounded
    <3>2. CASE ~Live(t)
      BY <1>10, <2>1, <2>2, <3>2, FamilyType, GotoStopGrounded DEF Rotate
    <3> QED BY <3>1, <3>2
  <2> QED BY <1>10, <2>3, RotateKeepsBaton
<1>11. CASE CreateChild(r)
  <2>1. TablesMonotone
    BY <1>11, InsertIsMonotone DEF CreateChild
  <2>2. RequestsAreGrounded'
    BY <1>11, <2>1, GotoGrounded DEF CreateChild, Steps
  <2> QED BY <1>11, <2>2, CreateChildKeepsBaton
<1>12. CASE RevokeFamily(r) \/ Revoke(r)
  <2>1. RowsShrink /\ codes' = codes /\ Goto(r, "idle")
    BY <1>12, RevokeRowsShrink DEF RevokeFamily, Revoke
  <2>2. TablesMonotone /\ CodesAdvance
    BY <2>1, ShrinkIsMonotone DEF CodesAdvance
  <2>3. BatonsKept
    BY <2>1, GotoBatons DEF Steps
  <2>4. RequestsAreGrounded'
    BY <2>1, <2>2, GotoGrounded DEF Steps
  <2> QED BY <2>1, <2>2, <2>3, <2>4, QuietStep
<1>13. CASE FindToRevoke(r)
  <2>1. TablesMonotone /\ (BatonsKept => Baton')
    BY <1>13, ReadStep DEF FindToRevoke
  <2> QED BY <1>13, <2>1, GotoGrounded, GotoBatons DEF FindToRevoke, Steps
<1> QED BY <1>1, <1>2, <1>3, <1>4, <1>5, <1>6, <1>7, <1>8, <1>9, <1>10, <1>11, <1>12, <1>13
        DEF Continue

LEMMA StartKeeps ==
  ASSUME TypeOK, RequestsAreGrounded, Baton, NEW r \in Requests, Start(r) \/ Abandon(r)
  PROVE  RequestsAreGrounded' /\ Baton'
<1>1. TablesUnchanged
  BY DEF Start, Abandon, StartCode, StartRefresh, StartRevocation
<1>2. TablesMonotone /\ (BatonsKept => Baton')
  BY <1>1, ReadStep
<1>3. CASE Abandon(r)
  BY <1>2, <1>3, GotoGrounded, GotoBatons DEF Abandon, Steps
<1>4. CASE Start(r)
  <2>1. \A q \in Requests : q # r => req'[q] = req[q]
    BY <1>4 DEF Start, StartCode, StartRefresh, StartRevocation, TypeOK
  <2>2. \/ req'[r].pc = "consume" /\ req'[r].code \in Codes
        \/ req'[r].pc \in {"find", "find_to_revoke"} /\ req'[r].token \in Tokens
    <3>1. ASSUME NEW c \in Codes, NEW client \in Clients, NEW key \in Keys \cup {None},
                 NEW v \in BOOLEAN, StartCode(r, c, client, key, v)
          PROVE  req'[r].pc = "consume" /\ req'[r].code \in Codes
      BY <3>1 DEF StartCode, TypeOK, IdleRequest
    <3>2. ASSUME NEW t \in Tokens, NEW client \in Clients, NEW key \in Keys \cup {None},
                 StartRefresh(r, t, client, key)
          PROVE  req'[r].pc = "find" /\ req'[r].token \in Tokens
      BY <3>2 DEF StartRefresh, TypeOK, IdleRequest
    <3>3. ASSUME NEW t \in Tokens, NEW client \in Clients, StartRevocation(r, t, client)
          PROVE  req'[r].pc = "find_to_revoke" /\ req'[r].token \in Tokens
      BY <3>3 DEF StartRevocation, TypeOK, IdleRequest
    <3> QED BY <1>4, <3>1, <3>2, <3>3 DEF Start
  <2>3. Grounded(r)'
    BY <2>2 DEF Grounded, Redeeming, Refreshing
  <2>4. BatonsKept
    BY <2>1, <2>2 DEF BatonsKept, Redeeming
  <2>5. RequestsAreGrounded'
    BY <1>2, <2>1, <2>3, BystanderStaysGrounded DEF RequestsAreGrounded
  <2> QED BY <1>2, <2>4, <2>5
<1> QED BY <1>3, <1>4

\* Every writer outside the requests leaves them alone and takes rows away.
LEMMA OthersKeep ==
  ASSUME TypeOK, RequestsAreGrounded, Baton,
         \/ Sweep
         \/ \E c \in Codes, client \in Clients, u \in Users, sid \in Sids, o \in BOOLEAN :
                IssueCode(c, client, u, sid, o)
         \/ \E u \in Users, b \in BOOLEAN : SetUserActive(u, b)
         \/ Tick
         \/ UNCHANGED vars
  PROVE  RequestsAreGrounded' /\ Baton'
<1>1. req' = req
  BY DEF Sweep, RevokeCodesOfUser, RevokeTokensOfUser, RevokeTokensOfMember,
         RevokeTokensOfSession, RevokeTokensOfClient, PurgeCodes, PurgeTokens, IssueCode,
         NoRequest, SetUserActive, Tick, vars
<1>2. RowsShrink
  <2>1. CASE \E S : RevokeRows(S)
    BY <2>1, RevokeRowsShrink
  <2>2. CASE PurgeTokens
    BY <2>2, PurgeTokensShrink
  <2>3. CASE rt' = rt
    BY <2>3, SameRowsShrink
  <2> QED BY <2>1, <2>2, <2>3
          DEF Sweep, RevokeCodesOfUser, RevokeTokensOfUser, RevokeTokensOfMember,
              RevokeTokensOfSession, RevokeTokensOfClient, PurgeCodes, IssueCode,
              SetUserActive, Tick, vars
<1>3. /\ CodesAdvance
      /\ \A c \in Codes : codes[c].st \in {"used", "purged"} => codes'[c].st \in {"used", "purged"}
  <2>1. ASSUME NEW u \in Users, RevokeCodesOfUser(u) PROVE <1>3!1 /\ <1>3!2
    BY <2>1 DEF RevokeCodesOfUser, CodesAdvance, TypeOK, CodeRecord
  <2>2. CASE PurgeCodes
    BY <2>2 DEF PurgeCodes, CodesAdvance, TypeOK, CodeRecord
  <2>3. ASSUME NEW c \in Codes, NEW client \in Clients, NEW u \in Users, NEW sid \in Sids,
               NEW o \in BOOLEAN, IssueCode(c, client, u, sid, o)
        PROVE  <1>3!1 /\ <1>3!2
    BY <2>3 DEF IssueCode, CodesAdvance, TypeOK, CodeRecord
  <2>4. CASE codes' = codes
    BY <2>4 DEF CodesAdvance
  <2> QED BY <2>1, <2>2, <2>3, <2>4
          DEF Sweep, RevokeTokensOfUser, RevokeTokensOfMember, RevokeTokensOfSession,
              RevokeTokensOfClient, PurgeTokens, SetUserActive, Tick, vars
<1>4. TablesMonotone
  BY <1>2, <1>3, ShrinkIsMonotone
<1>5. BatonsKept
  BY <1>1 DEF BatonsKept, Redeeming
<1>6. RequestsAreGrounded'
  BY <1>1, <1>4, BystanderStaysGrounded DEF RequestsAreGrounded
<1> QED BY <1>2, <1>3, <1>5, <1>6, QuietStep

-----------------------------------------------------------------------------
(* The theorems. *)

LEMMA InitFamilyInv == Init => FamilyInv
<1> SUFFICES ASSUME Init PROVE FamilyInv
  OBVIOUS
<1>1. TypeOK
  BY InitTypeOK
<1>2. /\ \A t \in Tokens : rt[t].grant = None /\ rt[t].parent = None
      /\ \A r \in Requests : req[r].pc = "idle"
  BY DEF Init, BlankToken, LegacyToken, IdleRequest
<1>3. \A t \in Tokens : Family(t) = t
  BY <1>2 DEF Family
<1>4. RequestsAreGrounded
  BY <1>2 DEF RequestsAreGrounded, Grounded, Redeeming, Refreshing
<1>5. OneLiveTokenPerFamily /\ NoFork /\ ChainInherits
  BY <1>2, <1>3 DEF OneLiveTokenPerFamily, NoFork, ChainInherits
<1>6. HolderExcludesLive /\ OneHolder
  BY <1>2 DEF HolderExcludesLive, OneHolder, Holds, Redeeming
<1>7. AbsentIsBlank /\ RootsComeOnce /\ ChildrenComeOnce
  BY <1>2, IdsAssumption DEF AbsentIsBlank, RootsComeOnce, ChildrenComeOnce, Redeeming
<1> QED BY <1>1, <1>4, <1>5, <1>6, <1>7 DEF FamilyInv

LEMMA NextFamilyInv == FamilyInv /\ [Next]_vars => FamilyInv'
<1> SUFFICES ASSUME FamilyInv, [Next]_vars PROVE FamilyInv'
  OBVIOUS
<1>1. TypeOK /\ RequestsAreGrounded /\ Baton
  BY DEF FamilyInv, Baton
<1>2. TypeOK'
  BY <1>1, NextType
<1>3. RequestsAreGrounded' /\ Baton'
  BY <1>1, ContinueKeeps, StartKeeps, OthersKeep DEF Next
<1> QED BY <1>2, <1>3 DEF FamilyInv, Baton

\* FamilyInv, the inductive invariant, holds in every reachable state.
THEOREM FamilyInvariant == Spec => []FamilyInv
  BY InitFamilyInv, NextFamilyInv, PTL DEF Spec

\* Every row and request keeps its type.
THEOREM Typing == Spec => []TypeOK
<1>1. FamilyInv => TypeOK
  BY DEF FamilyInv
<1> QED BY <1>1, FamilyInvariant, PTL

\* A family never has two usable refresh tokens, whatever requests race, fail
\* or are replayed (token.rs, rotation and reuse detection).
THEOREM SingleLiveToken == Spec => []OneLiveTokenPerFamily
<1>1. FamilyInv => OneLiveTokenPerFamily
  BY DEF FamilyInv
<1> QED BY <1>1, FamilyInvariant, PTL

\* A code is exchanged once and a refresh token rotated once.
THEOREM ChainsDoNotFork == Spec => []NoFork
<1>1. FamilyInv => NoFork
  BY DEF FamilyInv
<1> QED BY <1>1, FamilyInvariant, PTL

\* A refresh keeps the expiry, the session, the login time, the client and the
\* key of the token it replaces.
THEOREM RefreshInherits == Spec => []ChainInherits
<1>1. FamilyInv => ChainInherits
  BY DEF FamilyInv
<1> QED BY <1>1, FamilyInvariant, PTL

-----------------------------------------------------------------------------
(* A presenter without the key of a bound token.                           *)

\* The steps of a request that presents no refresh token.
CodeSteps == {"idle", "consume", "find_used", "redeem", "load_code_user", "create_root"}

\* Grounded speaks of a request while it refreshes; these are the steps around
\* it: a request of the code grant carries no token, and one that stops a family
\* on account of a token was admitted to it.
Entitled(r) ==
    /\ req[r].pc \in CodeSteps => req[r].token = None
    /\ req[r].pc = "revoke_family" /\ req[r].token # None =>
           /\ req[r].token \in Tokens /\ rt[req[r].token].st # "absent"
           /\ KeyAdmitted(req[r].token, req[r].key)

EntitledInv == \A r \in Requests : Entitled(r)

LEMMA BystanderStaysEntitled ==
  ASSUME EntitledInv, TablesMonotone, NEW q \in Requests, req'[q] = req[q]
  PROVE  Entitled(q)'
  BY DEF EntitledInv, Entitled, TablesMonotone, KeyAdmitted

LEMMA IdleIsEntitled ==
  ASSUME NEW r, req'[r] = IdleRequest
  PROVE  Entitled(r)'
  BY DEF Entitled, IdleRequest

LEMMA GotoEntitled ==
  ASSUME TypeOK, EntitledInv, TablesMonotone, NEW r \in Requests, NEW step, Goto(r, step),
         step # "revoke_family",
         step \in CodeSteps \ {"idle"} => req[r].pc \in CodeSteps
  PROVE  EntitledInv'
<1> SUFFICES ASSUME NEW q \in Requests PROVE Entitled(q)'
  BY DEF EntitledInv
<1>1. CASE q # r
  BY <1>1, BystanderStaysEntitled DEF Goto, TypeOK
<1>2. CASE q = r /\ step = "idle"
  BY <1>2, IdleIsEntitled DEF Goto, TypeOK
<1>3. CASE q = r /\ step # "idle"
  <2>1. req'[r].pc = step /\ req'[r].token = req[r].token
    BY <1>3 DEF Goto, TypeOK, RequestRecord
  <2> QED BY <1>3, <2>1 DEF EntitledInv, Entitled
<1> QED BY <1>1, <1>2, <1>3

LEMMA GotoStopEntitled ==
  ASSUME TypeOK, EntitledInv, TablesMonotone, NEW r \in Requests, NEW f, GotoStop(r, f),
         \/ req[r].token = None
         \/ req[r].token \in Tokens /\ rt[req[r].token].st # "absent"
               /\ KeyAdmitted(req[r].token, req[r].key)
  PROVE  EntitledInv'
<1> SUFFICES ASSUME NEW q \in Requests PROVE Entitled(q)'
  BY DEF EntitledInv
<1>1. CASE q # r
  BY <1>1, BystanderStaysEntitled DEF GotoStop, TypeOK
<1>2. CASE q = r
  <2>1. /\ req'[r].pc = "revoke_family" /\ req'[r].token = req[r].token
        /\ req'[r].key = req[r].key
    BY DEF GotoStop, TypeOK, RequestRecord
  <2> QED BY <1>2, <2>1 DEF Entitled, TablesMonotone, KeyAdmitted, CodeSteps
<1> QED BY <1>1, <1>2

\* No step of the system takes an identity away or rewrites a key binding.
LEMMA NextIsMonotone ==
  ASSUME FamilyInv, [Next]_vars
  PROVE  TablesMonotone
<1>1. TypeOK /\ RequestsAreGrounded
  BY DEF FamilyInv
<1> DEFINE CodesStay == \A c \in Codes : codes[c].st \in {"used", "purged"} =>
                            codes'[c].st \in {"used", "purged"}
<1>2. CASE rt' = rt /\ CodesStay
  BY <1>1, <1>2, SameRowsShrink, ShrinkIsMonotone
<1>3. CASE codes' = codes /\ ((\E S : RevokeRows(S)) \/ PurgeTokens)
  BY <1>1, <1>3, RevokeRowsShrink, PurgeTokensShrink, ShrinkIsMonotone
<1>4. CASE codes' = codes /\ \E row : InsertToken(row)
  BY <1>1, <1>4, InsertIsMonotone
<1>5. ASSUME NEW r \in Requests, Consume(r) PROVE rt' = rt /\ CodesStay
  BY <1>1, <1>5 DEF Consume, TypeOK, CodeRecord, RequestsAreGrounded, Grounded
<1>6. ASSUME NEW u \in Users, RevokeCodesOfUser(u) PROVE rt' = rt /\ CodesStay
  BY <1>1, <1>6 DEF RevokeCodesOfUser, TypeOK, CodeRecord
<1>7. CASE PurgeCodes
  <2>1. rt' = rt /\ CodesStay
    BY <1>1, <1>7 DEF PurgeCodes, TypeOK, CodeRecord
  <2> QED BY <1>2, <2>1
<1>8. ASSUME NEW c \in Codes, NEW client \in Clients, NEW u \in Users, NEW sid \in Sids,
             NEW o \in BOOLEAN, IssueCode(c, client, u, sid, o)
      PROVE  rt' = rt /\ CodesStay
  BY <1>1, <1>8 DEF IssueCode, TypeOK, CodeRecord
<1>9. ASSUME NEW r \in Requests, Continue(r) PROVE TablesMonotone
  BY <1>2, <1>3, <1>4, <1>5, <1>9
     DEF Continue, FindUsed, Redeem, LoadCodeUser, CreateRoot, Find, CheckReuse, LoadUser, Gate,
         Rotate, CreateChild, RevokeFamily, FindToRevoke, Revoke, TablesUnchanged
<1>10. ASSUME NEW r \in Requests, Start(r) \/ Abandon(r) PROVE TablesMonotone
  BY <1>2, <1>10 DEF Start, StartCode, StartRefresh, StartRevocation, Abandon, TablesUnchanged
<1>11. CASE Sweep
  BY <1>2, <1>3, <1>6, <1>7, <1>11
     DEF Sweep, RevokeTokensOfUser, RevokeTokensOfMember, RevokeTokensOfSession,
         RevokeTokensOfClient, PurgeTokens
<1>12. CASE UNCHANGED <<codes, rt>>
  BY <1>2, <1>12
<1> QED BY <1>2, <1>8, <1>9, <1>10, <1>11, <1>12 DEF Next, SetUserActive, Tick, vars

LEMMA NextEntitled == FamilyInv /\ EntitledInv /\ [Next]_vars => EntitledInv'
<1> SUFFICES ASSUME FamilyInv, EntitledInv, [Next]_vars PROVE EntitledInv'
  OBVIOUS
<1>1. TypeOK /\ RequestsAreGrounded /\ TablesMonotone
  BY NextIsMonotone DEF FamilyInv
<1>2. CASE req' = req
  BY <1>1, <1>2, BystanderStaysEntitled DEF EntitledInv
<1>3. ASSUME NEW r \in Requests, Goto(r, "idle") PROVE EntitledInv'
  BY <1>1, <1>3, GotoEntitled
<1>4. ASSUME NEW r \in Requests, Continue(r) PROVE EntitledInv'
  <2>0. Grounded(r) /\ Entitled(r)
    BY <1>1 DEF RequestsAreGrounded, EntitledInv
  <2>1. CASE Consume(r)
    BY <1>1, <2>1, GotoEntitled DEF Consume, CodeSteps
  <2>2. CASE FindUsed(r)
    BY <1>1, <1>3, <2>0, <2>2, GotoStopEntitled DEF FindUsed, Entitled, CodeSteps
  <2>3. CASE Redeem(r) \/ LoadCodeUser(r)
    BY <1>1, <2>3, GotoEntitled DEF Redeem, LoadCodeUser, CodeSteps
  <2>4. CASE CreateRoot(r) \/ CreateChild(r) \/ RevokeFamily(r) \/ Revoke(r)
    BY <1>3, <2>4 DEF CreateRoot, CreateChild, RevokeFamily, Revoke
  <2>5. CASE Find(r)
    <3>1. \A q \in Requests : q # r => req'[q] = req[q]
      BY <1>1, <2>5 DEF Find, TypeOK
    <3>2. req'[r] = IdleRequest \/ req'[r].pc = "check_reuse"
      BY <1>1, <2>5 DEF Find, TypeOK, RequestRecord
    <3>3. Entitled(r)'
      BY <3>2, IdleIsEntitled DEF Entitled, CodeSteps
    <3> QED BY <1>1, <3>1, <3>3, BystanderStaysEntitled DEF EntitledInv
  <2>6. ASSUME Refreshing(r), NEW f, GotoStop(r, f) PROVE EntitledInv'
    BY <1>1, <2>0, <2>6, GotoStopEntitled DEF Grounded
  <2>7. CASE CheckReuse(r)
    BY <1>1, <2>6, <2>7, GotoEntitled DEF CheckReuse, Refreshing, CodeSteps
  <2>8. CASE LoadUser(r)
    BY <1>1, <2>8, GotoEntitled DEF LoadUser, CodeSteps
  <2>9. ASSUME NEW b \in BOOLEAN, Gate(r, b) PROVE EntitledInv'
    BY <1>1, <2>6, <2>9, GotoEntitled DEF Gate, Refreshing, CodeSteps
  <2>10. CASE Rotate(r)
    BY <1>1, <2>6, <2>10, GotoEntitled DEF Rotate, Refreshing, CodeSteps
  <2>11. CASE FindToRevoke(r)
    BY <1>1, <2>11, GotoEntitled DEF FindToRevoke, CodeSteps
  <2> QED BY <1>4, <2>1, <2>2, <2>3, <2>4, <2>5, <2>7, <2>8, <2>9, <2>10, <2>11 DEF Continue
<1>5. ASSUME NEW r \in Requests, Start(r) PROVE EntitledInv'
  <2>1. \A q \in Requests : q # r => req'[q] = req[q]
    BY <1>1, <1>5 DEF Start, StartCode, StartRefresh, StartRevocation, TypeOK
  <2>2. \/ req'[r].pc = "consume" /\ req'[r].token = None
        \/ req'[r].pc \in {"find", "find_to_revoke"}
    <3>1. ASSUME NEW c \in Codes, NEW client \in Clients, NEW key \in Keys \cup {None},
                 NEW v \in BOOLEAN, StartCode(r, c, client, key, v)
          PROVE  req'[r].pc = "consume" /\ req'[r].token = None
      BY <1>1, <3>1 DEF StartCode, TypeOK, IdleRequest
    <3>2. ASSUME NEW t \in Tokens, NEW client \in Clients, NEW key \in Keys \cup {None},
                 StartRefresh(r, t, client, key)
          PROVE  req'[r].pc = "find"
      BY <1>1, <3>2 DEF StartRefresh, TypeOK, IdleRequest
    <3>3. ASSUME NEW t \in Tokens, NEW client \in Clients, StartRevocation(r, t, client)
          PROVE  req'[r].pc = "find_to_revoke"
      BY <1>1, <3>3 DEF StartRevocation, TypeOK, IdleRequest
    <3> QED BY <1>5, <3>1, <3>2, <3>3 DEF Start
  <2>3. Entitled(r)'
    BY <2>2 DEF Entitled, CodeSteps
  <2> QED BY <1>1, <2>1, <2>3, BystanderStaysEntitled DEF EntitledInv
<1>6. ASSUME NEW r \in Requests, Abandon(r) PROVE EntitledInv'
  BY <1>3, <1>6 DEF Abandon
<1> QED BY <1>2, <1>4, <1>5, <1>6
        DEF Next, Sweep, RevokeCodesOfUser, RevokeTokensOfUser, RevokeTokensOfMember,
            RevokeTokensOfSession, RevokeTokensOfClient, PurgeCodes, PurgeTokens, IssueCode,
            NoRequest, SetUserActive, Tick, vars

\* A step of a request that is not entitled to its token leaves the table alone.
LEMMA ForeignStep ==
  ASSUME FamilyInv, EntitledInv, [Next]_vars, NEW r \in Requests, PresentsForeignToken(r),
         req'[r] # req[r]
  PROVE  rt' = rt
<1>1. TypeOK /\ Grounded(r) /\ Entitled(r) /\ None \notin Tokens
  BY IdsAssumption DEF FamilyInv, RequestsAreGrounded, EntitledInv
<1>2. ~Refreshing(r) /\ req[r].pc # "revoke_family" /\ req[r].pc \notin {"find_to_revoke", "revoke"}
      /\ req[r].pc \notin CodeSteps
  BY <1>1 DEF PresentsForeignToken, Grounded, Entitled
<1>3. req[r].pc = "find"
  BY <1>1, <1>2 DEF TypeOK, RequestRecord, Steps, Refreshing, CodeSteps
<1>4. ASSUME NEW q \in Requests, Start(q) \/ Abandon(q) PROVE rt' = rt
  BY <1>4 DEF Start, StartCode, StartRefresh, StartRevocation, Abandon, TablesUnchanged
<1>5. ASSUME NEW q \in Requests, Continue(q) PROVE rt' = rt
  <2>1. q = r
    BY <1>1, <1>5 DEF Continue, Consume, FindUsed, Redeem, LoadCodeUser, CreateRoot, Find,
          CheckReuse, LoadUser, Gate, Rotate, CreateChild, RevokeFamily, FindToRevoke, Revoke, Goto,
          GotoStop, TypeOK
  <2>2. Find(r)
    BY <1>3, <1>5, <2>1 DEF Continue, Consume, FindUsed, Redeem, LoadCodeUser, CreateRoot,
          CheckReuse, LoadUser, Gate, Rotate, CreateChild, RevokeFamily, FindToRevoke, Revoke
  <2> QED BY <2>2 DEF Find, TablesUnchanged
<1> QED BY <1>4, <1>5
        DEF Next, Sweep, RevokeCodesOfUser, RevokeTokensOfUser, RevokeTokensOfMember,
            RevokeTokensOfSession, RevokeTokensOfClient, PurgeCodes, PurgeTokens, IssueCode,
            NoRequest, SetUserActive, Tick, vars

\* Presenting a bound refresh token without its key changes no row of the table,
\* however old the token is and whatever runs beside it: the key is compared
\* before reuse detection (exchange_refresh_token; ADR-0075, decision 7).
THEOREM KeylessPresenterChangesNothing == Spec => WithoutKeyNothingChanges
<1>1. Init => EntitledInv
  BY DEF Init, EntitledInv, Entitled, IdleRequest
<1>2. FamilyInv /\ EntitledInv /\ [Next]_vars =>
        [\A r \in Requests : PresentsForeignToken(r) /\ req'[r] # req[r] => rt' = rt]_vars
  BY ForeignStep
<1> QED BY <1>1, <1>2, NextEntitled, FamilyInvariant, PTL DEF Spec, WithoutKeyNothingChanges

-----------------------------------------------------------------------------
(* The token endpoint implements GrantFamily.                              *)

Grants == Codes \cup Legacy

\* A request has the baton; a token is the baton.
Held(f) == \E r \in Requests : Holds(r, f)
Usable(f) == \E t \in Tokens : Live(t) /\ Family(t) = f

LEMMA StateDef ==
  ASSUME NEW f
  PROVE  FamilyState(f) = IF Held(f) THEN "held"
                          ELSE IF Usable(f) THEN "live"
                          ELSE IF f \in Codes /\ codes[f].st = "absent" THEN "unissued"
                          ELSE IF f \in Codes /\ codes[f].st = "active" THEN "issued"
                          ELSE "dead"
  BY DEF FamilyState, Held, Usable

LEMMA StateDefNext ==
  ASSUME NEW f
  PROVE  FamilyState(f)' = IF Held(f)' THEN "held"
                           ELSE IF Usable(f)' THEN "live"
                           ELSE IF f \in Codes /\ codes'[f].st = "absent" THEN "unissued"
                           ELSE IF f \in Codes /\ codes'[f].st = "active" THEN "issued"
                           ELSE "dead"
  BY DEF FamilyState, Held, Usable

\* A code whose baton is in a request or a token was used.
LEMMA BatonIsSpent ==
  ASSUME FamilyInv, NEW c \in Codes, Held(c) \/ Usable(c)
  PROVE  codes[c].st \notin {"absent", "active"}
<1>1. TypeOK /\ RequestsAreGrounded /\ RootsComeOnce
  BY DEF FamilyInv
<1>2. ASSUME NEW t \in Tokens, Family(t) = c PROVE codes[c].st \notin {"absent", "active"}
  <2>1. rt[t].grant = c
    BY <1>2, IdsAssumption DEF Family
  <2> QED BY <1>1, <2>1 DEF RootsComeOnce
<1>3. ASSUME NEW r \in Requests, Holds(r, c) PROVE codes[c].st \notin {"absent", "active"}
  BY <1>1, <1>2, <1>3 DEF Holds, RequestsAreGrounded, Grounded, Refreshing
<1> QED BY <1>2, <1>3 DEF Held, Usable

LEMMA HeldNotUsable ==
  ASSUME FamilyInv, NEW f, Held(f)
  PROVE  ~Usable(f)
  BY DEF FamilyInv, HolderExcludesLive, Held, Usable

LEMMA StateSame ==
  ASSUME NEW f, Held(f)' <=> Held(f), Usable(f)' <=> Usable(f),
         f \in Codes => codes'[f].st = codes[f].st
  PROVE  FamilyState(f)' = FamilyState(f)
  BY StateDef, StateDefNext

\* The steps of GrantFamily, in terms of the families' states.
LEMMA AbstractIssue ==
  ASSUME NEW g \in Grants, FamilyState(g) = "unissued", FamilyState(g)' = "issued",
         \A f \in Grants : f # g => FamilyState(f)' = FamilyState(f)
  PROVE  Abstract!Next
<1>1. Abstract!Issue(g)
  BY DEF Abstract!Issue, Grants
<1> QED BY <1>1 DEF Abstract!Next, Abstract!Grants, Grants

LEMMA AbstractTake ==
  ASSUME NEW g \in Grants, FamilyState(g) \in {"issued", "live"}, FamilyState(g)' = "held",
         \A f \in Grants : f # g => FamilyState(f)' = FamilyState(f)
  PROVE  Abstract!Next
<1>1. Abstract!Take(g)
  BY DEF Abstract!Take, Grants
<1> QED BY <1>1 DEF Abstract!Next, Abstract!Grants, Grants

LEMMA AbstractPass ==
  ASSUME NEW g \in Grants, FamilyState(g) = "held", FamilyState(g)' = "live",
         \A f \in Grants : f # g => FamilyState(f)' = FamilyState(f)
  PROVE  Abstract!Next
<1>1. Abstract!Pass(g)
  BY DEF Abstract!Pass, Grants
<1> QED BY <1>1 DEF Abstract!Next, Abstract!Grants, Grants

LEMMA AbstractEnd ==
  ASSUME \A f \in Grants : \/ FamilyState(f)' = FamilyState(f)
                           \/ FamilyState(f)' = "dead" /\ FamilyState(f) # "unissued"
  PROVE  Abstract!Next
<1> DEFINE S == {f \in Grants : FamilyState(f)' = "dead"}
<1>1. ASSUME NEW f \in S PROVE FamilyState(f) # "unissued"
  OBVIOUS
<1>2. Abstract!End(S)
  BY <1>1 DEF Abstract!End, Abstract!Grants, Grants
<1>3. S \in SUBSET Abstract!Grants
  BY DEF Abstract!Grants, Grants
<1> QED BY <1>2, <1>3 DEF Abstract!Next


\* A step that takes rows away and lets no request pick a baton up only ends
\* families.
LEMMA QuietEnds ==
  ASSUME FamilyInv, RowsShrink, CodesAdvance, BatonsKept,
         \A c \in Codes : codes'[c].st = "absent" <=> codes[c].st = "absent"
  PROVE  Abstract!Next
<1>0. TypeOK /\ RequestsAreGrounded
  BY DEF FamilyInv
<1> SUFFICES ASSUME NEW f \in Grants
             PROVE  \/ FamilyState(f)' = FamilyState(f)
                    \/ FamilyState(f)' = "dead" /\ FamilyState(f) # "unissued"
  BY AbstractEnd
<1>1. ASSUME NEW r \in Requests, Holds(r, f)' PROVE Holds(r, f)
  <2>1. req'[r].pc = "create_child" =>
          req[r].token \in Tokens /\ req'[r].token = req[r].token /\ req[r].pc = "create_child"
    BY <1>0 DEF BatonsKept, RequestsAreGrounded, Grounded, Refreshing
  <2> QED BY <1>1, <2>1, ShrinkKeepsFamilies DEF Holds, BatonsKept
<1>2. Held(f)' => Held(f)
  BY <1>1 DEF Held
<1>3. Usable(f)' => Usable(f)
  BY ShrinkKeepsFamilies DEF Usable
<1>4. ASSUME f \in Codes, codes[f].st \notin {"absent", "active"}
      PROVE  codes'[f].st \notin {"absent", "active"}
  BY <1>4 DEF CodesAdvance
<1>5. ASSUME f \in Codes, codes'[f].st = "active" PROVE codes[f].st = "active"
  BY <1>4, <1>5 DEF CodesAdvance
<1>6. f \in Codes /\ (Held(f) \/ Usable(f)) => codes[f].st \notin {"absent", "active"}
  BY BatonIsSpent
<1>7. Held(f) => ~Usable(f)
  BY HeldNotUsable
<1>8. CASE Held(f)
  BY <1>3, <1>4, <1>6, <1>7, <1>8, StateDef, StateDefNext
<1>9. CASE ~Held(f) /\ Usable(f)
  BY <1>2, <1>4, <1>6, <1>9, StateDef, StateDefNext
<1>10. CASE ~Held(f) /\ ~Usable(f)
  BY <1>2, <1>3, <1>4, <1>5, <1>10, StateDef, StateDefNext
<1> QED BY <1>8, <1>9, <1>10

\* A login issues a code.
LEMMA IssueSimulates ==
  ASSUME FamilyInv, NEW c \in Codes, NEW client \in Clients, NEW u \in Users, NEW sid \in Sids,
         NEW o \in BOOLEAN, IssueCode(c, client, u, sid, o)
  PROVE  Abstract!Next
<1>1. codes[c].st = "absent" /\ codes'[c].st = "active" /\ rt' = rt /\ req' = req
      /\ \A d \in Codes : d # c => codes'[d] = codes[d]
  BY DEF IssueCode, NoRequest, FamilyInv, TypeOK
<1>2. ASSUME NEW f PROVE (Held(f)' <=> Held(f)) /\ (Usable(f)' <=> Usable(f))
  BY <1>1 DEF Held, Usable, Holds, Redeeming, Family, Live
<1>3. ~Held(c) /\ ~Usable(c)
  BY <1>1, BatonIsSpent
<1>4. FamilyState(c) = "unissued" /\ FamilyState(c)' = "issued"
  BY <1>1, <1>2, <1>3, StateDef, StateDefNext
<1>5. \A f \in Grants : f # c => FamilyState(f)' = FamilyState(f)
  BY <1>1, <1>2, StateSame
<1> QED BY <1>4, <1>5, AbstractIssue DEF Grants

\* The UPDATE that marks a code used takes it for one request.
LEMMA ConsumeSimulates ==
  ASSUME FamilyInv, NEW r \in Requests, Consume(r)
  PROVE  Abstract!Next
<1>0. TypeOK /\ RequestsAreGrounded
  BY DEF FamilyInv
<1>1. PICK c \in Codes : c = req[r].code /\ rt' = rt
  BY <1>0 DEF Consume, RequestsAreGrounded, Grounded
<1>2. CASE codes[c].st = "active" /\ codes[c].exp > req[r].now
  <2>1. /\ codes' = [codes EXCEPT ![c].st = "used"]
        /\ req' = [req EXCEPT ![r] = [@ EXCEPT !.pc = "redeem"]]
        /\ req[r].pc = "consume"
    BY <1>1, <1>2 DEF Consume, Goto
  <2>2. ~Held(c) /\ ~Usable(c)
    BY <1>1, <1>2, BatonIsSpent
  <2>3. req'[r].pc = "redeem" /\ req'[r].code = c /\ \A q \in Requests : q # r => req'[q] = req[q]
    BY <1>0, <1>1, <2>1 DEF TypeOK, RequestRecord
  <2>4. Holds(r, c)'
    BY <2>3 DEF Holds, Redeeming
  <2>5. ASSUME NEW f, f # c, NEW q \in Requests PROVE Holds(q, f)' <=> Holds(q, f)
    <3>1. CASE q = r
      BY <2>1, <2>3, <2>5, <3>1 DEF Holds, Redeeming
    <3>2. CASE q # r
      BY <1>1, <2>3, <3>2 DEF Holds, Redeeming, Family
    <3> QED BY <3>1, <3>2
  <2>6. ASSUME NEW f \in Grants, f # c PROVE FamilyState(f)' = FamilyState(f)
    <3>1. Held(f)' <=> Held(f)
      BY <2>5, <2>6 DEF Held
    <3>2. Usable(f)' <=> Usable(f)
      BY <1>1 DEF Usable, Live, Family
    <3>3. f \in Codes => codes'[f].st = codes[f].st
      BY <1>0, <2>1, <2>6 DEF TypeOK
    <3> QED BY <3>1, <3>2, <3>3, StateSame
  <2>7. FamilyState(c) = "issued"
    BY <1>1, <1>2, <2>2, StateDef
  <2>8. FamilyState(c)' = "held"
    BY <2>4, StateDefNext DEF Held
  <2> QED BY <1>1, <2>6, <2>7, <2>8, AbstractTake DEF Grants
<1>3. CASE ~(codes[c].st = "active" /\ codes[c].exp > req[r].now)
  <2>1. BatonsKept
    BY <1>0, <1>1, <1>3, GotoBatons DEF Consume, Steps
  <2>2. CodesAdvance /\ codes' = codes
    BY <1>1, <1>3 DEF Consume, CodesAdvance
  <2> QED BY <1>0, <1>1, <2>1, <2>2, SameRowsShrink, QuietEnds
<1> QED BY <1>2, <1>3

\* The UPDATE that revokes the presented token takes the baton from it.
LEMMA RotateSimulates ==
  ASSUME FamilyInv, NEW r \in Requests, Rotate(r)
  PROVE  Abstract!Next
<1>0. TypeOK /\ RequestsAreGrounded /\ OneLiveTokenPerFamily
  BY DEF FamilyInv
<1>1. PICK t \in Tokens : t = req[r].token
  BY <1>0 DEF Rotate, RequestsAreGrounded, Grounded, Refreshing
<1>2. codes' = codes /\ RowsShrink
  BY <1>0, RevokeRowsShrink DEF Rotate
<1>3. CASE ~Live(t)
  <2>1. BatonsKept
    BY <1>0, <1>1, <1>3, GotoStopBatons DEF Rotate
  <2> QED BY <1>2, <2>1, QuietEnds DEF CodesAdvance
<1>4. CASE Live(t)
  <2>1. req' = [req EXCEPT ![r] = [@ EXCEPT !.pc = "create_child"]] /\ req[r].pc = "rotate"
    BY <1>1, <1>4 DEF Rotate, Goto
  <2>2. /\ req'[r].pc = "create_child" /\ req'[r].token = t
        /\ \A q \in Requests : q # r => req'[q] = req[q]
    BY <1>0, <1>1, <2>1 DEF TypeOK, RequestRecord
  <2>3. \A u \in Tokens : Family(u)' = Family(u)
    BY <1>2, ShrinkKeepsFamilies
  <2>4. \A u \in Tokens : u # t => (Live(u)' <=> Live(u))
    BY <1>1 DEF Rotate, RevokeRows, Live
  <2> PICK g : g = Family(t)
    OBVIOUS
  <2>5. Holds(r, g)'
    BY <2>2, <2>3 DEF Holds, Family
  <2>6. ASSUME NEW f, f # g, NEW q \in Requests PROVE Holds(q, f)' <=> Holds(q, f)
    <3>1. CASE q = r
      <4>1. ~Holds(r, f)
        BY <2>1 DEF Holds, Redeeming
      <4>2. ~Holds(r, f)'
        <5>1. Family(req[r].token)' = g
          BY <2>2, <2>3 DEF Family
        <5> QED BY <2>2, <2>6, <5>1 DEF Holds, Redeeming
      <4> QED BY <3>1, <4>1, <4>2
    <3>2. CASE q # r
      <4>1. req'[q] = req[q] /\ (req[q].pc = "create_child" => req[q].token \in Tokens)
        BY <1>0, <2>2, <3>2 DEF RequestsAreGrounded, Grounded, Refreshing
      <4>2. req[q].pc = "create_child" => Family(req[q].token)' = Family(req[q].token)
        BY <2>3, <4>1 DEF Family
      <4> QED BY <4>1, <4>2 DEF Holds, Redeeming
    <3> QED BY <3>1, <3>2
  <2>7. ASSUME NEW f \in Grants, f # g PROVE FamilyState(f)' = FamilyState(f)
    <3>1. Held(f)' <=> Held(f)
      BY <2>6, <2>7 DEF Held
    <3>2. Usable(f)' <=> Usable(f)
      BY <2>3, <2>4, <2>7 DEF Usable
    <3> QED BY <1>2, <3>1, <3>2, StateSame
  <2>8. FamilyState(g) = "live"
    <3>1. Usable(g)
      BY <1>4 DEF Usable
    <3>2. ~Held(g)
      BY <3>1, HeldNotUsable
    <3> QED BY <3>1, <3>2, StateDef
  <2>9. FamilyState(g)' = "held"
    BY <2>5, StateDefNext DEF Held
  <2>10. CASE g \in Grants
    <3> QED BY <2>7, <2>8, <2>9, <2>10, AbstractTake
  <2>11. CASE g \notin Grants
    BY <2>7, <2>11, AbstractEnd
  <2> QED BY <2>10, <2>11
<1> QED BY <1>3, <1>4


\* The INSERT of the next token passes the baton on from the request.
LEMMA InsertSimulates ==
  ASSUME FamilyInv, NEW r \in Requests, NEW n \in Tokens, NEW row,
         rt[n].st = "absent", rt' = [rt EXCEPT ![n] = row], codes' = codes, Goto(r, "idle"),
         NEW g \in Families, row.st = "live", row.grant = g, Holds(r, g)
  PROVE  Abstract!Next
<1>0. TypeOK /\ RequestsAreGrounded /\ OneHolder
  BY DEF FamilyInv
<1>1. rt'[n] = row /\ \A t \in Tokens : t # n => rt'[t] = rt[t]
  BY <1>0 DEF TypeOK
<1>2. Family(n)' = g /\ Live(n)' /\ ~Live(n)
  BY <1>1, IdsAssumption DEF Family, Live, Families
<1>3. \A t \in Tokens : t # n => Family(t)' = Family(t) /\ (Live(t)' <=> Live(t))
  BY <1>1 DEF Family, Live
<1>4. req'[r] = IdleRequest /\ \A q \in Requests : q # r => req'[q] = req[q]
  BY <1>0 DEF Goto, TypeOK
<1>5. \A f : ~Holds(r, f)'
  BY <1>4 DEF Holds, Redeeming, IdleRequest
<1>6. ASSUME NEW q \in Requests, q # r, NEW f PROVE Holds(q, f)' <=> Holds(q, f)
  <2>1. req[q].pc = "create_child" => req[q].token \in Tokens /\ req[q].token # n
    BY <1>0 DEF RequestsAreGrounded, Grounded, Refreshing
  <2>2. req[q].pc = "create_child" => Family(req[q].token)' = Family(req[q].token)
    BY <1>3, <1>4, <1>6, <2>1 DEF Family
  <2> QED BY <1>4, <1>6, <2>2 DEF Holds, Redeeming
<1>7. ~Held(g)'
  <2>1. \A q \in Requests : q # r => ~Holds(q, g)
    BY <1>0 DEF OneHolder
  <2> QED BY <1>5, <1>6, <2>1 DEF Held
<1>8. ASSUME NEW f \in Grants, f # g PROVE FamilyState(f)' = FamilyState(f)
  <2>1. ~Holds(r, f)
    BY <1>0, <1>8, IdsAssumption DEF Holds, Redeeming
  <2>2. Held(f)' <=> Held(f)
    BY <1>5, <1>6, <2>1 DEF Held
  <2>3. Usable(f)' <=> Usable(f)
    BY <1>2, <1>3, <1>8 DEF Usable
  <2> QED BY <2>2, <2>3, StateSame
<1>9. FamilyState(g) = "held"
  BY StateDef DEF Held
<1>10. FamilyState(g)' = "live"
  <2>1. Usable(g)'
    BY <1>2 DEF Usable
  <2> QED BY <1>7, <2>1, StateDefNext
<1>11. CASE g \in Grants
  BY <1>8, <1>9, <1>10, <1>11, AbstractPass
<1>12. CASE g \notin Grants
  BY <1>8, <1>12, AbstractEnd
<1> QED BY <1>11, <1>12

LEMMA CreateSimulates ==
  ASSUME FamilyInv, NEW r \in Requests, CreateRoot(r) \/ CreateChild(r)
  PROVE  Abstract!Next
<1>0. TypeOK /\ RequestsAreGrounded
  BY DEF FamilyInv
<1>1. CASE CreateRoot(r)
  <2>1. PICK c \in Codes : c = req[r].code
    BY <1>0, <1>1 DEF CreateRoot, RequestsAreGrounded, Grounded, Redeeming
  <2>2. PICK row :
          row = [st |-> "live", parent |-> None, grant |-> c,
                 client |-> req[r].client, user |-> codes[c].user, sid |-> codes[c].sid,
                 jkt |-> req[r].key, exp |-> req[r].now + RefreshTtl,
                 created |-> req[r].now, authTime |-> codes[c].authTime]
    OBVIOUS
  <2>3. PICK n \in Tokens : rt[n].st = "absent" /\ rt' = [rt EXCEPT ![n] = row]
    BY <1>1, <2>1, <2>2 DEF CreateRoot, InsertToken
  <2>4. row.st = "live" /\ row.grant = c /\ c \in Families
    BY <2>2 DEF Families
  <2>5. Holds(r, c) /\ codes' = codes /\ Goto(r, "idle")
    BY <1>1, <2>1 DEF CreateRoot, Redeeming, Holds
  <2> QED BY <2>3, <2>4, <2>5, InsertSimulates
<1>2. CASE CreateChild(r)
  <2>1. PICK p \in Tokens : p = req[r].token
    BY <1>0, <1>2 DEF CreateChild, RequestsAreGrounded, Grounded, Refreshing
  <2>2. PICK g \in Families : g = Family(p)
    BY <1>0, FamilyType
  <2>3. PICK row :
          row = [st |-> "live", parent |-> p, grant |-> g,
                 client |-> req[r].client, user |-> rt[p].user, sid |-> rt[p].sid,
                 jkt |-> IF rt[p].jkt = None THEN req[r].key ELSE rt[p].jkt,
                 exp |-> rt[p].exp, created |-> req[r].now,
                 authTime |-> AuthTimeOrIssued(p)]
    OBVIOUS
  <2>4. PICK n \in Tokens : rt[n].st = "absent" /\ rt' = [rt EXCEPT ![n] = row]
    BY <1>2, <2>1, <2>2, <2>3 DEF CreateChild, InsertToken
  <2>5. row.st = "live" /\ row.grant = g
    BY <2>3
  <2>6. Holds(r, g) /\ codes' = codes /\ Goto(r, "idle")
    BY <1>2, <2>1, <2>2 DEF CreateChild, Holds
  <2> QED BY <2>4, <2>5, <2>6, InsertSimulates
<1> QED BY <1>1, <1>2

\* Every other step of a request reads, revokes rows or ends.
LEMMA ContinueSimulates ==
  ASSUME FamilyInv, NEW r \in Requests, Continue(r)
  PROVE  Abstract!Next
<1>0. TypeOK /\ RequestsAreGrounded
  BY DEF FamilyInv
<1>1. ASSUME BatonsKept, RowsShrink, codes' = codes PROVE Abstract!Next
  BY <1>1, QuietEnds DEF CodesAdvance
<1>2. ASSUME BatonsKept, TablesUnchanged PROVE Abstract!Next
  BY <1>0, <1>1, <1>2, SameRowsShrink DEF TablesUnchanged
<1>3. CASE Consume(r) \/ Rotate(r) \/ CreateRoot(r) \/ CreateChild(r)
  BY <1>3, ConsumeSimulates, RotateSimulates, CreateSimulates
<1>4. CASE FindUsed(r)
  BY <1>0, <1>2, <1>4, GotoBatons, GotoStopBatons DEF FindUsed, Steps
<1>5. CASE Redeem(r) \/ LoadCodeUser(r)
  <2>1. Redeeming(r) /\ TablesUnchanged
    BY <1>5 DEF Redeem, LoadCodeUser, Redeeming
  <2>2. BatonsKept
    BY <1>0, <1>5, <2>1, GotoBatons DEF Redeem, LoadCodeUser, Steps
  <2> QED BY <1>2, <2>1, <2>2
<1>6. CASE Find(r)
  <2>1. req'[r] = IdleRequest \/ req'[r].pc = "check_reuse"
    BY <1>0, <1>6 DEF Find, TypeOK, RequestRecord
  <2>2. BatonsKept
    BY <1>0, <1>6, <2>1 DEF Find, BatonsKept, Redeeming, IdleRequest, TypeOK
  <2> QED BY <1>2, <1>6, <2>2 DEF Find
<1>7. CASE CheckReuse(r)
  BY <1>0, <1>2, <1>7, GotoBatons, GotoStopBatons DEF CheckReuse, Steps
<1>8. CASE LoadUser(r)
  BY <1>0, <1>2, <1>8, GotoBatons DEF LoadUser, Steps
<1>9. ASSUME NEW b \in BOOLEAN, Gate(r, b) PROVE Abstract!Next
  BY <1>0, <1>2, <1>9, GotoBatons, GotoStopBatons DEF Gate, Steps
<1>10. CASE RevokeFamily(r) \/ Revoke(r)
  <2>1. RowsShrink /\ codes' = codes /\ Goto(r, "idle")
    BY <1>0, <1>10, RevokeRowsShrink DEF RevokeFamily, Revoke
  <2> QED BY <1>0, <1>1, <2>1, GotoBatons DEF Steps
<1>11. CASE FindToRevoke(r)
  BY <1>0, <1>2, <1>11, GotoBatons DEF FindToRevoke, Steps
<1> QED BY <1>3, <1>4, <1>5, <1>6, <1>7, <1>8, <1>9, <1>10, <1>11 DEF Continue

LEMMA StartSimulates ==
  ASSUME FamilyInv, NEW r \in Requests, Start(r) \/ Abandon(r)
  PROVE  Abstract!Next
<1>0. TypeOK
  BY DEF FamilyInv
<1>1. RowsShrink /\ codes' = codes
  BY <1>0, SameRowsShrink
     DEF Start, StartCode, StartRefresh, StartRevocation, Abandon, TablesUnchanged
<1>2. CASE Abandon(r)
  BY <1>0, <1>1, <1>2, GotoBatons, QuietEnds DEF Abandon, Steps, CodesAdvance
<1>3. CASE Start(r)
  <2>1. \A q \in Requests : q # r => req'[q] = req[q]
    BY <1>0, <1>3 DEF Start, StartCode, StartRefresh, StartRevocation, TypeOK
  <2>2. req'[r].pc \in {"consume", "find", "find_to_revoke"}
    <3>1. ASSUME NEW c \in Codes, NEW client \in Clients, NEW key \in Keys \cup {None},
                 NEW v \in BOOLEAN, StartCode(r, c, client, key, v)
          PROVE  req'[r].pc = "consume"
      BY <1>0, <3>1 DEF StartCode, TypeOK, IdleRequest
    <3>2. ASSUME NEW t \in Tokens, NEW client \in Clients, NEW key \in Keys \cup {None},
                 StartRefresh(r, t, client, key)
          PROVE  req'[r].pc = "find"
      BY <1>0, <3>2 DEF StartRefresh, TypeOK, IdleRequest
    <3>3. ASSUME NEW t \in Tokens, NEW client \in Clients, StartRevocation(r, t, client)
          PROVE  req'[r].pc = "find_to_revoke"
      BY <1>0, <3>3 DEF StartRevocation, TypeOK, IdleRequest
    <3> QED BY <1>3, <3>1, <3>2, <3>3 DEF Start
  <2>3. BatonsKept
    BY <2>1, <2>2 DEF BatonsKept, Redeeming
  <2> QED BY <1>1, <2>3, QuietEnds DEF CodesAdvance
<1> QED BY <1>2, <1>3

\* The other writers of the tables only end families.
LEMMA SweepSimulates ==
  ASSUME FamilyInv, Sweep
  PROVE  Abstract!Next
<1>0. TypeOK
  BY DEF FamilyInv
<1>1. req' = req
  BY DEF Sweep, RevokeCodesOfUser, RevokeTokensOfUser, RevokeTokensOfMember,
         RevokeTokensOfSession, RevokeTokensOfClient, PurgeCodes, PurgeTokens, NoRequest
<1>2. BatonsKept
  BY <1>1 DEF BatonsKept, Redeeming
<1>3. ASSUME RowsShrink, codes' = codes PROVE Abstract!Next
  BY <1>2, <1>3, QuietEnds DEF CodesAdvance
<1>4. ASSUME NEW u \in Users, RevokeCodesOfUser(u) PROVE Abstract!Next
  <2>1. CodesAdvance /\ \A c \in Codes : codes'[c].st = "absent" <=> codes[c].st = "absent"
    BY <1>0, <1>4 DEF RevokeCodesOfUser, CodesAdvance, TypeOK, CodeRecord
  <2> QED BY <1>0, <1>2, <1>4, <2>1, SameRowsShrink, QuietEnds DEF RevokeCodesOfUser
<1>5. CASE PurgeCodes
  <2>1. CodesAdvance /\ \A c \in Codes : codes'[c].st = "absent" <=> codes[c].st = "absent"
    BY <1>0, <1>5 DEF PurgeCodes, CodesAdvance, TypeOK, CodeRecord
  <2> QED BY <1>0, <1>2, <1>5, <2>1, SameRowsShrink, QuietEnds DEF PurgeCodes
<1>6. ASSUME NEW S, RevokeRows(S), codes' = codes PROVE Abstract!Next
  BY <1>0, <1>3, <1>6, RevokeRowsShrink
<1>7. CASE PurgeTokens
  BY <1>0, <1>3, <1>7, PurgeTokensShrink DEF PurgeTokens
<1> QED BY <1>4, <1>5, <1>6, <1>7
        DEF Sweep, RevokeTokensOfUser, RevokeTokensOfMember, RevokeTokensOfSession,
            RevokeTokensOfClient

\* The families begin as codes to be issued and inherited tokens in use.
LEMMA InitSimulates == Init => Abstract!Init
<1> SUFFICES ASSUME Init PROVE Abstract!Init
  OBVIOUS
<1>1. \A f : ~Held(f)
  BY DEF Init, Held, Holds, Redeeming, IdleRequest
<1>2. \A t \in Tokens : Family(t) = t /\ (Live(t) <=> t \in Legacy)
  BY DEF Init, Family, Live, BlankToken, LegacyToken
<1>3. ASSUME NEW f \in Grants
      PROVE  FamilyState(f) = IF f \in Legacy THEN "live" ELSE "unissued"
  <2>1. CASE f \in Legacy
    <3>1. Usable(f)
      BY <1>2, <2>1, IdsAssumption DEF Usable
    <3> QED BY <1>1, <2>1, <3>1, StateDef
  <2>2. CASE f \notin Legacy
    <3>1. f \in Codes /\ ~Usable(f)
      BY <1>2, <2>2, IdsAssumption DEF Usable, Grants
    <3>2. codes[f].st = "absent"
      BY <3>1 DEF Init, BlankCode
    <3> QED BY <1>1, <2>2, <3>1, <3>2, StateDef
  <2> QED BY <2>1, <2>2
<1> QED BY <1>3 DEF Abstract!Init, Abstract!Grants, Grants

LEMMA NextSimulates ==
  ASSUME FamilyInv, [Next]_vars
  PROVE  [Abstract!Next]_([f \in Codes \cup Legacy |-> FamilyState(f)])
<1>1. CASE UNCHANGED <<codes, rt, req>>
  <2>1. ASSUME NEW f PROVE FamilyState(f)' = FamilyState(f)
    BY <1>1 DEF FamilyState, Holds, Redeeming, Family, Live
  <2> QED BY <2>1
<1> QED BY <1>1, ContinueSimulates, StartSimulates, SweepSimulates, IssueSimulates
        DEF Next, SetUserActive, Tick, vars

\* The token endpoint implements the abstract grant, step by step: a used code
\* or a rotated token never returns, one request at a time has the baton, and a
\* dead family never gets a live token (exchange_authorization_code,
\* exchange_refresh_token, revoke and the sweeps and purges beside them).
THEOREM Refinement == Spec => ImplementsGrantFamily
<1>1. FamilyInv /\ [Next]_vars =>
        [Abstract!Next]_([f \in Codes \cup Legacy |-> FamilyState(f)])
  BY NextSimulates
<1> QED BY <1>1, InitSimulates, FamilyInvariant, PTL
        DEF Spec, ImplementsGrantFamily, Abstract!Spec
=============================================================================
