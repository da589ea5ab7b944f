--------------------------- MODULE AccountProofs ---------------------------
(***************************************************************************)
(* For any number of concurrent requests, links, passkeys and stops on one *)
(* account.                                                                *)
(***************************************************************************)
EXTENDS Account, FiniteSetTheorems, TLAPS

\* What a call holds at each of its steps.
Controlled(r) ==
  /\ r.op \in {"reset", "passkey"} => r.link \in Links
  /\ r.pc = "load" => r.op = "reset"
  /\ r.pc = "write" => r.op \in {"change", "reset", "forced"}
  /\ r.pc \in {"load", "write"} => r.stop = 0
  /\ r.pc \in {"register", "consume", "discard"} => r.op = "passkey"
  /\ r.op = "passkey" => r.stop = 0 /\ r.pc \in {"register", "finish", "consume", "discard", "ok"}
  /\ r.op = "passkey" /\ r.pc \in {"finish", "consume", "discard"} => r.key \in Passkeys
  /\ r.pc \in {"invalidate", "create"} => r.op \in {"forced", "request"}
  /\ r.op = "mfa" /\ r.pc = "ok" => ~r.lost

Sound(r) == r \in CallRecord /\ Controlled(r)

Orderly == \A c \in Calls : Controlled(call[c])

Typed == TypeOK /\ Orderly

\* The record a call starts from is one.
LEMMA IdleType == Sound(Idle)
  BY AccountAssumption DEF Idle, Sound, CallRecord, Ops, Steps, Controlled

\* A request that begins, goes on or leaves touches its own record only.
LEMMA BeginType ==
  ASSUME Typed, NEW c \in Calls, NEW record, Sound(record), Begin(c, record)
  PROVE  call' \in [Calls -> CallRecord] /\ Orderly' /\ started' \in 0..MaxCalls
  BY AccountAssumption DEF Typed, Orderly, TypeOK, Begin, Sound

LEMMA WriteType ==
  ASSUME Typed, NEW c \in Calls, NEW record, Sound(record),
         call' = [call EXCEPT ![c] = record]
  PROVE  call' \in [Calls -> CallRecord] /\ Orderly'
  BY DEF Typed, Orderly, TypeOK, Sound

LEMMA GotoType ==
  ASSUME Typed, NEW c \in Calls, NEW step, Sound([call[c] EXCEPT !.pc = step]), Goto(c, step)
  PROVE  call' \in [Calls -> CallRecord] /\ Orderly'
  BY WriteType DEF Goto

LEMMA LeaveType ==
  ASSUME Typed, NEW c \in Calls, Leave(c)
  PROVE  call' \in [Calls -> CallRecord] /\ Orderly'
  BY IdleType, WriteType DEF Leave

LEMMA FaultType ==
  ASSUME Typed, Fault
  PROVE  faults' \in 0..MaxFaults
  BY AccountAssumption DEF Typed, TypeOK, Fault

\* What a sign-in leaves behind is of a type that can be held.
LEMMA MadeType ==
  ASSUME Typed, NEW kind \in Kinds
  PROVE  Made(kind) \in Held
  BY DEF Typed, TypeOK, Made, Held

\* Every row, call and counter keeps its type.
LEMMA EnvironmentTypes ==
  ASSUME Typed, Environment
  PROVE  Typed'
<1> USE DEF Typed, TypeOK, Orderly
<1>1. CASE LockLapses
  BY <1>1 DEF LockLapses, UserRow
<1>2. CASE UnlockAccount
  <2>1. 0 \in 0..(Threshold + 1)
    BY AccountAssumption
  <2>2. [user EXCEPT !.fails = 0, !.locked = FALSE] \in UserRow
    BY <2>1 DEF UserRow
  <2> QED
    BY <1>2, <2>2 DEF UnlockAccount
<1>3. CASE Enable
  BY <1>3 DEF Enable, UserRow
<1>4. CASE ReissueTokens
  BY <1>4 DEF ReissueTokens
<1>5. ASSUME NEW a \in held, Exchange(a) PROVE Typed'
  BY <1>5, MadeType DEF Exchange, Kinds
<1>6. ASSUME NEW l \in Links, ExpireLink(l) PROVE Typed'
  BY <1>6 DEF ExpireLink, Spent, LinkRow
<1> QED
  BY <1>1, <1>2, <1>3, <1>4, <1>5, <1>6 DEF Environment

LEMMA StartTypes ==
  ASSUME Typed, NEW c \in Calls, Start(c)
  PROVE  Typed'
<1> USE AccountAssumption DEF Typed, TypeOK
<1>1. CASE SignIn(c)
  <2> DEFINE failed == user.fails > 0
  <2>1. failed \in BOOLEAN /\ user.chosen \in BOOLEAN
    BY DEF UserRow
  <2> HIDE DEF failed
  <2>2. Sound([Idle EXCEPT !.op = "sign_in", !.pc = "verify",
                     !.knows = user.chosen, !.fails = failed])
    BY <2>1, IdleType DEF Sound, Controlled, Idle, CallRecord, Ops, Steps
  <2> QED
    BY <1>1, <2>2, BeginType DEF SignIn, failed
<1>2. CASE RequestReset(c)
  <2>1. Sound([Idle EXCEPT !.op = "request", !.pc = "invalidate"])
    BY IdleType DEF Sound, Controlled, Idle, CallRecord, Ops, Steps
  <2> QED
    BY <1>2, <2>1, BeginType DEF RequestReset
<1>3. CASE ResetPasswordFor(c)
  <2>1. Sound([Idle EXCEPT !.op = "forced", !.pc = "write", !.hash = user.hash])
    BY IdleType DEF Sound, Controlled, Idle, CallRecord, UserRow, Ops, Steps
  <2> QED
    BY <1>3, <2>1, BeginType DEF ResetPasswordFor
<1>4. CASE Disable(c)
  <2>1. stops + 1 \in 0..MaxStops
    BY <1>4 DEF Disable
  <2>2. Sound([Idle EXCEPT !.op = "disable", !.pc = "sweep_session", !.stop = stops + 1])
    BY <2>1, IdleType DEF Sound, Controlled, Idle, CallRecord, Ops, Steps
  <2>3. [user EXCEPT !.active = FALSE] \in UserRow
    BY DEF UserRow
  <2> QED
    BY <1>4, <2>1, <2>2, <2>3, BeginType DEF Disable
<1>5. CASE ResetMfa(c)
  <2>1. stops + 1 \in 0..MaxStops
    BY <1>5 DEF ResetMfa
  <2>2. Sound([Idle EXCEPT !.op = "mfa", !.pc = "sweep_session", !.stop = stops + 1])
    BY <2>1, IdleType DEF Sound, Controlled, Idle, CallRecord, Ops, Steps
  <2>3. passkey' \in [Passkeys -> PasskeyRow]
    BY <1>5 DEF ResetMfa, PasskeyRow
  <2> QED
    BY <1>5, <2>1, <2>2, <2>3, BeginType DEF ResetMfa
<1>6. ASSUME NEW a \in held, Change(c, a) PROVE Typed'
  <2>1. Sound([Idle EXCEPT !.op = "change", !.pc = "write", !.hash = user.hash, !.own = {a}])
    BY IdleType DEF Sound, Controlled, Idle, CallRecord, UserRow, Ops, Steps
  <2> QED
    BY <1>6, <2>1, BeginType DEF Change
<1>7. ASSUME NEW k \in Passkeys, PasskeySignIn(c, k) PROVE Typed'
  <2>1. Sound([Idle EXCEPT !.op = "sign_in", !.pc = "establish"])
    BY IdleType DEF Sound, Controlled, Idle, CallRecord, Ops, Steps
  <2> QED
    BY <1>7, <2>1, BeginType DEF PasskeySignIn
<1>8. ASSUME NEW l \in Links, Consume(c, l) PROVE Typed'
  <2>1. Sound([Idle EXCEPT !.op = "reset", !.pc = "load", !.link = l])
    BY IdleType DEF Sound, Controlled, Idle, CallRecord, Ops, Steps
  <2>2. link' \in [Links -> LinkRow]
    BY <1>8 DEF Consume, LinkRow
  <2> QED
    BY <1>8, <2>1, <2>2, BeginType DEF Consume
<1>9. ASSUME NEW l \in Links, Resolve(c, l) PROVE Typed'
  <2>1. Sound([Idle EXCEPT !.op = "passkey", !.pc = "register", !.link = l,
                     !.pend = user.pending])
    BY IdleType DEF Sound, Controlled, Idle, CallRecord, UserRow, Ops, Steps
  <2> QED
    BY <1>9, <2>1, BeginType DEF Resolve
<1> QED
  BY <1>1, <1>2, <1>3, <1>4, <1>5, <1>6, <1>7, <1>8, <1>9 DEF Start

LEMMA ContinueTypes ==
  ASSUME Typed, NEW c \in Calls, Continue(c)
  PROVE  Typed'
<1> USE AccountAssumption DEF Typed, TypeOK
<1>0. call[c] \in CallRecord /\ Controlled(call[c]) /\ user \in UserRow
  BY DEF Orderly
<1>1. CASE WrongPassword(c)
  <2>1. Sound([call[c] EXCEPT !.pc = "count"])
    BY <1>0, <1>1 DEF WrongPassword, At, Sound, Controlled, CallRecord, Steps
  <2> QED
    BY <1>1, <2>1, GotoType DEF WrongPassword
<1>2. CASE RecordLoginFailure(c)
  <2> DEFINE n == IF user.fails > Threshold THEN user.fails ELSE user.fails + 1
  <2>1. n \in 0..(Threshold + 1) /\ (n >= Threshold \/ user.locked) \in BOOLEAN
    BY DEF UserRow
  <2>2. user' = [user EXCEPT !.fails = n, !.locked = n >= Threshold \/ @]
    BY <1>2 DEF RecordLoginFailure
  <2> HIDE DEF n
  <2>3. user' \in UserRow
    BY <2>1, <2>2 DEF UserRow
  <2> QED
    BY <1>2, <2>3, LeaveType DEF RecordLoginFailure
<1>3. CASE RightPassword(c)
  <2>1. Sound([call[c] EXCEPT !.pc = IF call[c].fails THEN "clear" ELSE "establish"])
    BY <1>0, <1>3 DEF RightPassword, At, Sound, Controlled, CallRecord, Steps
  <2> QED
    BY <1>3, <2>1, GotoType DEF RightPassword
<1>4. CASE ClearFailures(c)
  <2>0. Sound([call[c] EXCEPT !.pc = "establish"])
    BY <1>0, <1>4 DEF ClearFailures, At, Sound, Controlled, CallRecord, Steps
  <2>1. 0 \in 0..(Threshold + 1)
    OBVIOUS
  <2>2. [user EXCEPT !.fails = 0, !.locked = FALSE] \in UserRow
    BY <2>1 DEF UserRow
  <2> QED
    BY <1>4, <2>0, <2>2, GotoType DEF ClearFailures
<1>5. CASE Establish(c)
  BY <1>5, MadeType, LeaveType DEF Establish, Kinds
<1>6. CASE LoadOwner(c)
  <2>1. call' = [call EXCEPT ![c] = [call[c] EXCEPT !.pc = "write", !.hash = user.hash,
                                                    !.pend = user.pending]]
    BY <1>6 DEF LoadOwner
  <2>2. Sound([call[c] EXCEPT !.pc = "write", !.hash = user.hash, !.pend = user.pending])
    BY <1>0, <1>6 DEF LoadOwner, At, Sound, Controlled, CallRecord, UserRow, Steps
  <2> QED
    BY <1>6, <2>1, <2>2, WriteType DEF LoadOwner
<1>7. CASE Refuse(c)
  BY <1>7, LeaveType DEF Refuse
<1>8. CASE WritePassword(c)
  <2>1. stops + 1 \in 0..MaxStops
    BY <1>8 DEF WritePassword
  <2>2. user' \in UserRow
    <3>1. (call[c].op # "forced") \in BOOLEAN
      OBVIOUS
    <3> QED
      BY <1>8, <2>1, <3>1 DEF WritePassword, UserRow
  <2>3. gave' \subseteq Links
    BY <1>0, <1>8 DEF WritePassword, Controlled
  <2>4. Sound([call[c] EXCEPT !.pc = IF call[c].pend THEN "finish" ELSE "sweep_session",
                                !.stop = stops + 1])
    BY <1>0, <1>8, <2>1 DEF WritePassword, At, Sound, Controlled, CallRecord, Steps
  <2>5. call' \in [Calls -> CallRecord] /\ Orderly'
    BY <1>8, <2>4, WriteType DEF WritePassword
  <2> QED
    BY <1>8, <2>1, <2>2, <2>3, <2>5 DEF WritePassword
<1>9. CASE LoseUpdate(c)
  BY <1>9, LeaveType DEF LoseUpdate
<1>10. CASE FinishSetup(c)
  <2>1. Sound([call[c] EXCEPT !.pc = IF call[c].op = "passkey" THEN "consume" ELSE "sweep_session"])
    BY <1>0, <1>10 DEF FinishSetup, At, Sound, Controlled, CallRecord, Steps
  <2>2. [user EXCEPT !.pending = FALSE] \in UserRow
    BY DEF UserRow
  <2> QED
    BY <1>10, <2>1, <2>2, GotoType DEF FinishSetup
<1>11. CASE Sweep(c) \/ SweepFails(c)
  <2>1. /\ AfterSweep(c) \in {"sweep_token", "sweep_code", "invalidate", "ok"}
        /\ AfterSweep(c) = "invalidate" => call[c].op = "forced"
        /\ AfterSweep(c) = "ok" => call[c].pc = "sweep_code"
        /\ call[c].op # "passkey"
    BY <1>0, <1>11 DEF Sweep, SweepFails, Sweeping, AfterSweep, Controlled
  <2>2. ASSUME NEW lost \in BOOLEAN PROVE Sound(Swept(c, lost))
    <3>1. CASE call[c].pc = "sweep_code" /\ call[c].op = "mfa" /\ lost
      BY <3>1, IdleType DEF Swept
    <3>2. CASE ~(call[c].pc = "sweep_code" /\ call[c].op = "mfa" /\ lost)
      <4> DEFINE r == [call[c] EXCEPT !.pc = AfterSweep(c), !.lost = lost]
      <4>1. Swept(c, lost) = r
        BY <3>2 DEF Swept
      <4>2. /\ r \in CallRecord
            /\ r.pc = AfterSweep(c) /\ r.lost = lost
            /\ r.op = call[c].op /\ r.link = call[c].link
        BY <1>0, <2>1 DEF CallRecord, Steps
      <4> HIDE DEF r
      <4>3. Controlled(r)
        BY <1>0, <2>1, <3>2, <4>2 DEF Controlled
      <4> QED
        BY <4>1, <4>2, <4>3 DEF Sound
    <3> QED
      BY <3>1, <3>2
  <2>3. call' \in [Calls -> CallRecord] /\ Orderly'
    <3>1. call[c].lost \in BOOLEAN /\ TRUE \in BOOLEAN
      BY <1>0 DEF CallRecord
    <3> QED
      BY <1>11, <2>2, <3>1, WriteType DEF Sweep, SweepFails
  <2>4. CASE Sweep(c)
    <3>1. \A a \in ToSweep(c) : [a EXCEPT !.kept = TRUE] \in Held
      BY DEF ToSweep, Held
    <3> QED
      BY <2>3, <2>4, <3>1 DEF Sweep
  <2>5. CASE SweepFails(c)
    BY <2>3, <2>5, FaultType DEF SweepFails
  <2> QED
    BY <1>11, <2>4, <2>5
<1>12. CASE Invalidate(c)
  <2>1. Sound([call[c] EXCEPT !.pc = "create"])
    BY <1>0, <1>12 DEF Invalidate, At, Sound, Controlled, CallRecord, Steps
  <2> QED
    BY <1>12, <2>1, GotoType DEF Invalidate, Spent, LinkRow
<1>13. ASSUME NEW l \in Links, Create(c, l) PROVE Typed'
  <2>1. Sound([call[c] EXCEPT !.pc = "ok"])
    BY <1>0, <1>13 DEF Create, At, Sound, Controlled, CallRecord, Steps
  <2> QED
    BY <1>13, <2>1, GotoType DEF Create, Purpose, LinkRow
<1>14. ASSUME NEW k \in Passkeys, Register(c, k) PROVE Typed'
  <2>1. passkey' \in [Passkeys -> PasskeyRow]
    BY <1>0, <1>14 DEF Register, PasskeyRow, CallRecord
  <2>2. Sound([call[c] EXCEPT !.key = k, !.pc = IF call[c].pend THEN "finish" ELSE "consume"])
    BY <1>0, <1>14 DEF Register, At, Sound, Controlled, CallRecord, Steps
  <2>3. call' \in [Calls -> CallRecord] /\ Orderly'
    BY <1>14, <2>2, WriteType DEF Register
  <2> QED
    BY <1>14, <2>1, <2>3 DEF Register
<1>15. CASE ConsumeAfter(c)
  <2>1. Sound([call[c] EXCEPT !.pc = IF call[c].link \in Live THEN "ok" ELSE "discard"])
    BY <1>0, <1>15 DEF ConsumeAfter, At, Sound, Controlled, CallRecord, Steps
  <2> QED
    BY <1>15, <2>1, GotoType DEF ConsumeAfter, Spent, LinkRow
<1>16. CASE Discard(c)
  BY <1>16, LeaveType DEF Discard, PasskeyRow
<1>17. CASE Reply(c)
  BY <1>17, LeaveType DEF Reply
<1>18. CASE Fails(c)
  BY <1>18, LeaveType, FaultType DEF Fails
<1> QED
  BY <1>1, <1>2, <1>3, <1>4, <1>5, <1>6, <1>7, <1>8, <1>9, <1>10, <1>11, <1>12, <1>13,
     <1>14, <1>15, <1>16, <1>17, <1>18 DEF Continue

\* The typing of the initial state and of every step.
LEMMA InitTypes == Init => Typed
<1> SUFFICES ASSUME Init PROVE Typed
  OBVIOUS
<1>1. user \in UserRow
  BY AccountAssumption DEF Init, UserRow
<1>2. link \in [Links -> LinkRow] /\ passkey \in [Passkeys -> PasskeyRow]
  BY DEF Init, PasskeyRow
<1>3. call \in [Calls -> CallRecord] /\ Orderly
  BY IdleType DEF Init, Sound, Orderly
<1> QED
  BY <1>1, <1>2, <1>3, AccountAssumption DEF Init, Typed, TypeOK

LEMMA NextTypes == Typed /\ [Next]_vars => Typed'
<1> SUFFICES ASSUME Typed, [Next]_vars PROVE Typed'
  OBVIOUS
<1>1. CASE UNCHANGED vars
  BY <1>1 DEF vars, Typed, TypeOK, Orderly
<1> QED
  BY <1>1, EnvironmentTypes, StartTypes, ContinueTypes DEF Next

LEMMA AlwaysTyped == Spec => []Typed
  BY InitTypes, NextTypes, PTL DEF Spec

(* The rows of the account and what its requests hold keep their types, for *)
(* any number of requests, links, passkeys and stops.                      *)
THEOREM Typing == Spec => []TypeOK
<1>1. Typed => TypeOK
  BY DEF Typed
<1> QED
  BY <1>1, AlwaysTyped, PTL

-----------------------------------------------------------------------------
(* What a step may do to the calls, whichever it is.                       *)

\* A request that arrives.
LEMMA StartShape ==
  ASSUME Typed, NEW c \in Calls, Start(c)
  PROVE  /\ call[c].pc = "idle"
         /\ \A d \in Calls : d # c => call'[d] = call[d]
         /\ call'[c].pc \in {"verify", "establish", "load", "write", "sweep_session",
                             "invalidate", "register"}
         /\ call'[c].pc = "verify" => ~user.locked
         /\ \/ call'[c].stop = 0 /\ stops' = stops
            \/ /\ call'[c].stop = stops + 1 /\ stops' = stops + 1
               /\ call'[c].op \in {"disable", "mfa"} /\ call'[c].pc = "sweep_session"
         /\ user'.hash = user.hash /\ user'.fails = user.fails /\ user'.locked = user.locked
         /\ UNCHANGED <<held, gave, guesses, faults>>
<1> USE DEF Typed, TypeOK, Begin, Free, Idle
<1>1. CASE SignIn(c)
  BY <1>1 DEF SignIn
<1>2. CASE RequestReset(c)
  BY <1>2 DEF RequestReset
<1>3. CASE ResetPasswordFor(c)
  BY <1>3 DEF ResetPasswordFor
<1>4. CASE Disable(c)
  BY <1>4 DEF Disable, UserRow
<1>5. CASE ResetMfa(c)
  BY <1>5 DEF ResetMfa
<1>6. ASSUME NEW a \in held, Change(c, a)
      PROVE  call'[c].pc = "write" /\ call'[c].stop = 0 /\ call[c].pc = "idle"
             /\ (\A d \in Calls : d # c => call'[d] = call[d])
             /\ UNCHANGED <<user, stops, held, gave, guesses, faults>>
  BY <1>6 DEF Change
<1>7. ASSUME NEW k \in Passkeys, PasskeySignIn(c, k)
      PROVE  call'[c].pc = "establish" /\ call'[c].stop = 0 /\ call[c].pc = "idle"
             /\ (\A d \in Calls : d # c => call'[d] = call[d])
             /\ UNCHANGED <<user, stops, held, gave, guesses, faults>>
  BY <1>7 DEF PasskeySignIn
<1>8. ASSUME NEW l \in Links, Consume(c, l)
      PROVE  call'[c].pc = "load" /\ call'[c].stop = 0 /\ call[c].pc = "idle"
             /\ (\A d \in Calls : d # c => call'[d] = call[d])
             /\ UNCHANGED <<user, stops, held, gave, guesses, faults>>
  BY <1>8 DEF Consume
<1>9. ASSUME NEW l \in Links, Resolve(c, l)
      PROVE  call'[c].pc = "register" /\ call'[c].stop = 0 /\ call[c].pc = "idle"
             /\ (\A d \in Calls : d # c => call'[d] = call[d])
             /\ UNCHANGED <<user, stops, held, gave, guesses, faults>>
  BY <1>9 DEF Resolve
<1> QED
  BY <1>1, <1>2, <1>3, <1>4, <1>5, <1>6, <1>7, <1>8, <1>9 DEF Start

\* A statement of a request: others keep what they hold, and the request what it did
\* before, unless it leaves.
LEMMA ContinueShape ==
  ASSUME Typed, NEW c \in Calls, Continue(c)
  PROVE  /\ call[c].pc # "idle"
         /\ \A d \in Calls : d # c => call'[d] = call[d]
         /\ \/ call'[c] = Idle
            \/ /\ call'[c].op = call[c].op /\ call'[c].link = call[c].link
               /\ call'[c].own = call[c].own /\ (call[c].lost => call'[c].lost)
               /\ call'[c].pc \notin {"idle", "verify", "load", "register"}
               /\ WritePassword(c) \/ call'[c].stop = call[c].stop
               /\ LoadOwner(c) \/ call'[c].hash = call[c].hash
         /\ WritePassword(c) \/ (user'.hash = user.hash /\ UNCHANGED <<stops, gave>>)
<1> USE DEF Typed, TypeOK, Goto, Leave, At
<1>0. call[c] \in CallRecord /\ user \in UserRow
  OBVIOUS
<1>1. CASE WrongPassword(c) \/ RightPassword(c) \/ Invalidate(c) \/ ConsumeAfter(c)
  BY <1>0, <1>1 DEF WrongPassword, RightPassword, Invalidate, ConsumeAfter, CallRecord
<1>2. CASE RecordLoginFailure(c)
  <2>1. user'.hash = user.hash
    BY <1>0, <1>2 DEF RecordLoginFailure, UserRow
  <2> QED
    BY <1>2, <2>1 DEF RecordLoginFailure
<1>3. CASE ClearFailures(c)
  BY <1>0, <1>3 DEF ClearFailures, CallRecord, UserRow
<1>4. CASE Establish(c) \/ Refuse(c) \/ LoseUpdate(c) \/ Discard(c) \/ Reply(c) \/ Fails(c)
  BY <1>4 DEF Establish, Refuse, LoseUpdate, Discard, Reply, Fails, Free
<1>5. CASE LoadOwner(c)
  BY <1>0, <1>5 DEF LoadOwner, CallRecord
<1>6. CASE WritePassword(c)
  BY <1>0, <1>6 DEF WritePassword, CallRecord
<1>7. CASE FinishSetup(c)
  BY <1>0, <1>7 DEF FinishSetup, CallRecord, UserRow
<1>8. CASE Sweep(c) \/ SweepFails(c)
  <2>1. AfterSweep(c) \in {"sweep_token", "sweep_code", "invalidate", "ok"}
    BY <1>8 DEF Sweep, SweepFails, Sweeping, AfterSweep
  <2>2. PICK lost \in BOOLEAN : /\ call' = [call EXCEPT ![c] = Swept(c, lost)]
                                /\ call[c].lost => lost
    BY <1>0, <1>8 DEF Sweep, SweepFails, CallRecord
  <2>3. /\ call'[c] = Swept(c, lost) /\ call[c].pc # "idle"
        /\ \A d \in Calls : d # c => call'[d] = call[d]
        /\ UNCHANGED <<user, stops, gave>>
    BY <1>8, <2>2 DEF Sweep, SweepFails, Sweeping
  <2>4. \/ call'[c] = Idle
        \/ call'[c] = [call[c] EXCEPT !.pc = AfterSweep(c), !.lost = lost]
    BY <2>3 DEF Swept
  <2> QED
    BY <1>0, <2>1, <2>2, <2>3, <2>4 DEF CallRecord
<1>9. ASSUME NEW l \in Links, Create(c, l)
      PROVE  /\ call[c].pc # "idle" /\ call'[c] = [call[c] EXCEPT !.pc = "ok"]
             /\ \A d \in Calls : d # c => call'[d] = call[d]
             /\ UNCHANGED <<user, stops, gave>>
  BY <1>9 DEF Create
<1>10. ASSUME NEW k \in Passkeys, Register(c, k)
      PROVE  /\ call[c].pc # "idle"
             /\ call'[c] = [call[c] EXCEPT !.key = k,
                                           !.pc = IF call[c].pend THEN "finish" ELSE "consume"]
             /\ \A d \in Calls : d # c => call'[d] = call[d]
             /\ UNCHANGED <<user, stops, gave>>
  BY <1>10 DEF Register
<1> QED
  BY <1>0, <1>1, <1>2, <1>3, <1>4, <1>5, <1>6, <1>7, <1>8, <1>9, <1>10 DEF Continue, CallRecord

\* Where a statement takes its request.
LEMMA StepTo ==
  ASSUME Typed, NEW c \in Calls, Continue(c)
  PROVE  \/ call'[c] = Idle
         \/ WrongPassword(c) /\ call'[c].pc = "count"
         \/ RightPassword(c) /\ call'[c].pc \in {"clear", "establish"}
         \/ ClearFailures(c) /\ call'[c].pc = "establish"
         \/ LoadOwner(c) /\ call'[c].pc = "write"
         \/ WritePassword(c) /\ call'[c].pc \in {"finish", "sweep_session"}
         \/ FinishSetup(c) /\ call'[c].pc \in {"consume", "sweep_session"}
         \/ /\ Sweep(c) \/ SweepFails(c)
            /\ call'[c].pc \in {"sweep_token", "sweep_code", "invalidate", "ok"}
         \/ Invalidate(c) /\ call'[c].pc = "create"
         \/ (\E l \in Links : Create(c, l)) /\ call'[c].pc = "ok"
         \/ (\E k \in Passkeys : Register(c, k)) /\ call'[c].pc \in {"finish", "consume"}
         \/ ConsumeAfter(c) /\ call'[c].pc \in {"ok", "discard"}
<1> USE DEF Typed, TypeOK
<1>0. call[c] \in CallRecord /\ call \in [Calls -> CallRecord]
  OBVIOUS
<1>1. RecordLoginFailure(c) \/ Establish(c) \/ Refuse(c) \/ LoseUpdate(c) \/ Discard(c)
      \/ Reply(c) \/ Fails(c) => call'[c] = Idle
  BY DEF RecordLoginFailure, Establish, Refuse, LoseUpdate, Discard, Reply, Fails, Leave
<1>2. WrongPassword(c) => call'[c].pc = "count"
  BY <1>0 DEF WrongPassword, Goto, CallRecord
<1>3. RightPassword(c) => call'[c].pc \in {"clear", "establish"}
  BY <1>0 DEF RightPassword, Goto, CallRecord
<1>4. ClearFailures(c) => call'[c].pc = "establish"
  BY <1>0 DEF ClearFailures, Goto, CallRecord
<1>5. LoadOwner(c) => call'[c].pc = "write"
  BY <1>0 DEF LoadOwner, CallRecord
<1>6. WritePassword(c) => call'[c].pc \in {"finish", "sweep_session"}
  BY <1>0 DEF WritePassword, CallRecord
<1>7. FinishSetup(c) => call'[c].pc \in {"consume", "sweep_session"}
  BY <1>0 DEF FinishSetup, Goto, CallRecord
<1>8. ASSUME Sweep(c) \/ SweepFails(c)
      PROVE  \/ call'[c] = Idle
             \/ call'[c].pc \in {"sweep_token", "sweep_code", "invalidate", "ok"}
  <2>1. AfterSweep(c) \in {"sweep_token", "sweep_code", "invalidate", "ok"}
    BY <1>8 DEF Sweep, SweepFails, Sweeping, AfterSweep
  <2>2. PICK lost \in BOOLEAN : call'[c] = Swept(c, lost)
    BY <1>0, <1>8 DEF Sweep, SweepFails, CallRecord
  <2> QED
    BY <1>0, <2>1, <2>2 DEF Swept, CallRecord
<1>9. Invalidate(c) => call'[c].pc = "create"
  BY <1>0 DEF Invalidate, Goto, CallRecord
<1>10. \A l \in Links : Create(c, l) => call'[c].pc = "ok"
  BY <1>0 DEF Create, Goto, CallRecord
<1>11. \A k \in Passkeys : Register(c, k) => call'[c].pc \in {"finish", "consume"}
  BY <1>0 DEF Register, CallRecord
<1>12. ConsumeAfter(c) => call'[c].pc \in {"ok", "discard"}
  BY <1>0 DEF ConsumeAfter, Goto, CallRecord
<1> QED
  BY <1>1, <1>2, <1>3, <1>4, <1>5, <1>6, <1>7, <1>8, <1>9, <1>10, <1>11, <1>12 DEF Continue

\* A step of nobody's request.
LEMMA EnvironmentShape ==
  ASSUME Typed, Environment
  PROVE  /\ UNCHANGED <<call, stops, gave, passkey, faults>>
         /\ user'.hash = user.hash
  BY DEF Typed, TypeOK, UserRow, Environment, LockLapses, UnlockAccount, Enable, ReissueTokens,
         Exchange, ExpireLink

-----------------------------------------------------------------------------
(* A password is replaced once.                                            *)

PasswordInv ==
  /\ user.hash <= stops
  /\ \A c \in Replacing : call[c].hash < user.hash
  /\ OneReplacementPerPassword

LEMMA PasswordStep == Typed /\ PasswordInv /\ [Next]_vars => PasswordInv'
<1> SUFFICES ASSUME Typed, PasswordInv, [Next]_vars PROVE PasswordInv'
  OBVIOUS
<1> USE DEF PasswordInv, OneReplacementPerPassword, Replacing
<1>0. /\ user.hash \in Nat /\ stops \in Nat
      /\ \A c \in Calls : call[c].hash \in Nat /\ Controlled(call[c])
  BY AccountAssumption DEF Typed, TypeOK, Orderly, UserRow, CallRecord
<1>1. CASE UNCHANGED vars
  BY <1>1 DEF vars
<1>2. CASE Environment
  BY <1>2, EnvironmentShape
<1>3. ASSUME NEW c \in Calls, Start(c) PROVE PasswordInv'
  BY <1>0, <1>3, StartShape
<1>4. ASSUME NEW c \in Calls, Continue(c) PROVE PasswordInv'
  <2>1. CASE WritePassword(c)
    <3>1. /\ call'[c].hash = call[c].hash /\ call[c].hash = user.hash
          /\ user'.hash = stops + 1 /\ stops' = stops + 1
          /\ \A d \in Calls : d # c => call'[d] = call[d]
      BY <2>1 DEF WritePassword, HashMatches, Typed, TypeOK, CallRecord, UserRow
    <3> QED
      BY <1>0, <3>1
  <2>2. CASE LoadOwner(c)
    <3>1. call'[c].stop = 0 /\ UNCHANGED <<user, stops>>
      BY <1>0, <2>2 DEF LoadOwner, At, Controlled, Typed, TypeOK, CallRecord
    <3> QED
      BY <1>4, <3>1, ContinueShape
  <2>3. CASE ~WritePassword(c) /\ ~LoadOwner(c)
    BY <1>4, <2>3, ContinueShape DEF Idle
  <2> QED
    BY <2>1, <2>2, <2>3
<1> QED
  BY <1>1, <1>2, <1>3, <1>4 DEF Next

(* update_password and reset_password_forced: of the requests that read one *)
(* and the same password, one replaces it.                                 *)
THEOREM PasswordsReplacedOnce == Spec => []OneReplacementPerPassword
<1>1. Init => PasswordInv
  BY AccountAssumption DEF Init, PasswordInv, OneReplacementPerPassword, Replacing, Idle
<1>2. PasswordInv => OneReplacementPerPassword
  BY DEF PasswordInv
<1> QED
  BY <1>1, <1>2, PasswordStep, AlwaysTyped, PTL DEF Spec

-----------------------------------------------------------------------------
(* A stop whose sweeps went through leaves nothing issued before it.       *)

\* The kinds a call has swept when it is at pc.
Done(pc) ==
  IF pc = "sweep_token" THEN {"session"}
  ELSE IF pc = "sweep_code" THEN {"session", "token"}
  ELSE IF pc \in {"invalidate", "create", "ok"} THEN Kinds
  ELSE {}

\* What a call has swept stays swept: whatever is issued later follows its stop.
SweptSoFar(c) ==
  /\ call[c].stop <= stops
  /\ ~call[c].lost => \A a \in held : a.kind \in Done(call[c].pc) => ~Outlives(c, a)

SweepInv == \A c \in Calls : SweptSoFar(c)

\* What is held after a step was held before, is marked as kept, or follows every stop.
LEMMA HeldShape ==
  ASSUME Typed, [Next]_vars, NEW a \in held'
  PROVE  a \in held \/ a.made = stops \/ \E b \in held : a = [b EXCEPT !.kept = TRUE]
<1>1. CASE UNCHANGED held
  BY <1>1
<1>2. CASE ReissueTokens
  BY <1>2 DEF ReissueTokens
<1>3. ASSUME NEW b \in held, Exchange(b) PROVE a \in held \/ a.made = stops
  BY <1>3 DEF Exchange, Made
<1>4. ASSUME NEW c \in Calls, Establish(c) PROVE a \in held \/ a.made = stops
  BY <1>4 DEF Establish, Made
<1>5. ASSUME NEW c \in Calls, Sweep(c)
      PROVE  a \in held \/ \E b \in held : a = [b EXCEPT !.kept = TRUE]
  BY <1>5 DEF Sweep, ToSweep
<1>6. Environment => UNCHANGED held \/ ReissueTokens \/ \E b \in held : Exchange(b)
  BY DEF Environment, LockLapses, UnlockAccount, Enable, ExpireLink
<1>7. ASSUME NEW c \in Calls, Continue(c) PROVE UNCHANGED held \/ Establish(c) \/ Sweep(c)
  BY <1>7 DEF Continue, WrongPassword, RecordLoginFailure, RightPassword, ClearFailures, LoadOwner,
       Refuse, WritePassword, LoseUpdate, FinishSetup, SweepFails, Invalidate, Create, Register,
       ConsumeAfter, Discard, Reply, Fails
<1>8. ASSUME NEW c \in Calls, Start(c) PROVE UNCHANGED held
  BY <1>8, StartShape
<1>9. UNCHANGED vars => UNCHANGED held
  BY DEF vars
<1> QED
  BY <1>1, <1>2, <1>3, <1>4, <1>5, <1>6, <1>7, <1>8, <1>9 DEF Next

\* Another request's step does not bring back what a request has swept.
LEMMA SweptStays ==
  ASSUME Typed, [Next]_vars, NEW d \in Calls, SweptSoFar(d),
         call'[d].stop = call[d].stop, call'[d].own = call[d].own,
         call[d].lost => call'[d].lost,
         Done(call'[d].pc) \subseteq Done(call[d].pc), stops' >= stops
  PROVE  SweptSoFar(d)'
<1>1. stops \in Nat /\ stops' \in Nat /\ call[d].stop \in Nat
      /\ held \subseteq Held /\ held' \subseteq Held /\ call[d].own \subseteq Held
  BY AccountAssumption, NextTypes DEF Typed, TypeOK, CallRecord
<1>2. ASSUME ~call'[d].lost, NEW a \in held', a.kind \in Done(call'[d].pc), Outlives(d, a)'
      PROVE  FALSE
  <2>1. a.made < call[d].stop /\ a \notin {[o EXCEPT !.kept = TRUE] : o \in call[d].own}
    BY <1>2 DEF Outlives
  <2>2. CASE a \in held
    BY <1>2, <2>1, <2>2 DEF SweptSoFar, Outlives
  <2>3. CASE a.made = stops
    BY <1>1, <2>1, <2>3 DEF SweptSoFar
  <2>4. ASSUME NEW b \in held, a = [b EXCEPT !.kept = TRUE] PROVE FALSE
    <3>1. b \in Held /\ a.kind = b.kind /\ a.made = b.made
      BY <1>1, <2>4 DEF Held
    <3>2. ~Outlives(d, b)
      BY <1>2, <3>1 DEF SweptSoFar
    <3>3. PICK o \in call[d].own : b = [o EXCEPT !.kept = TRUE]
      BY <2>1, <3>1, <3>2 DEF Outlives
    <3>4. a = [o EXCEPT !.kept = TRUE]
      BY <1>1, <2>4, <3>3 DEF Held
    <3> QED
      BY <2>1, <3>4
  <2> QED
    BY <2>2, <2>3, <2>4, HeldShape
<1> QED
  BY <1>1, <1>2 DEF SweptSoFar

\* The sweep of one kind.
LEMMA SweepSweeps ==
  ASSUME Typed, NEW c \in Calls, SweptSoFar(c), Sweep(c)
  PROVE  SweptSoFar(c)'
<1>1. call[c] \in CallRecord /\ call[c].lost \in BOOLEAN /\ call[c].stop \in Nat
      /\ held \subseteq Held /\ stops \in Nat /\ call \in [Calls -> CallRecord]
  BY AccountAssumption DEF Typed, TypeOK, CallRecord
<1>2. call'[c] = Swept(c, call[c].lost) /\ stops' = stops
  BY <1>1 DEF Sweep
<1>3. CASE call'[c] = Idle
  BY <1>1, <1>2, <1>3 DEF SweptSoFar, Idle, Done
<1>4. CASE call'[c] # Idle
  <2>1. /\ call'[c].pc = AfterSweep(c) /\ call'[c].lost = call[c].lost
        /\ call'[c].stop = call[c].stop /\ call'[c].own = call[c].own
    BY <1>1, <1>2, <1>4 DEF Swept, CallRecord
  <2>2. Done(AfterSweep(c)) = Done(call[c].pc) \cup {SweptKind(c)}
    <3>1. CASE call[c].pc = "sweep_session"
      BY <3>1 DEF AfterSweep, Done, SweptKind
    <3>2. CASE call[c].pc = "sweep_token"
      BY <3>2 DEF AfterSweep, Done, SweptKind
    <3>3. CASE call[c].pc = "sweep_code"
      BY <3>3 DEF AfterSweep, Done, SweptKind, Kinds
    <3> QED
      BY <3>1, <3>2, <3>3 DEF Sweep, Sweeping
  <2>3. ASSUME ~call'[c].lost, NEW a \in held', a.kind \in Done(call'[c].pc), Outlives(c, a)'
        PROVE  FALSE
    <3>1. a.made < call[c].stop /\ a \notin {[o EXCEPT !.kept = TRUE] : o \in call[c].own}
      BY <2>1, <2>3 DEF Outlives
    <3>2. a \in held \ ToSweep(c)
      BY <2>3, <3>1 DEF Sweep
    <3>3. a.kind \in Done(call[c].pc)
      BY <2>1, <2>2, <2>3, <3>2 DEF ToSweep
    <3> QED
      BY <2>1, <2>3, <3>1, <3>2, <3>3 DEF SweptSoFar, Outlives
  <2> QED
    BY <1>2, <2>1, <2>3 DEF SweptSoFar
<1> QED
  BY <1>3, <1>4

LEMMA SweepStep == Typed /\ SweepInv /\ [Next]_vars => SweepInv'
<1> SUFFICES ASSUME Typed, SweepInv, [Next]_vars PROVE SweepInv'
  OBVIOUS
<1>0. /\ Typed' /\ stops \in Nat /\ stops' \in Nat /\ call \in [Calls -> CallRecord]
      /\ held' \subseteq Held /\ \A a \in Held : a.made \in Nat
      /\ \A c \in Calls : SweptSoFar(c) /\ Controlled(call[c]) /\ call[c].stop \in Nat
  BY AccountAssumption, NextTypes DEF SweepInv, Typed, TypeOK, Orderly, CallRecord, Held
<1>1. \A c \in Calls : call'[c].stop = 0 => SweptSoFar(c)'
  BY <1>0 DEF SweptSoFar, Outlives
<1>2. CASE UNCHANGED vars
  BY <1>0, <1>2, SweptStays DEF vars, SweepInv
<1>3. CASE Environment
  BY <1>0, <1>3, SweptStays, EnvironmentShape DEF SweepInv
<1>4. ASSUME NEW c \in Calls, Start(c) PROVE SweepInv'
  <2>1. stops' >= stops
    BY <1>0, <1>4, StartShape
  <2>2. \A d \in Calls : d # c => SweptSoFar(d)'
    BY <1>0, <1>4, <2>1, StartShape, SweptStays
  <2>3. SweptSoFar(c)'
    BY <1>0, <1>1, <1>4, StartShape DEF SweptSoFar, Done
  <2> QED
    BY <2>2, <2>3 DEF SweepInv
<1>5. ASSUME NEW c \in Calls, Continue(c) PROVE SweepInv'
  <2>1. stops' >= stops
    <3>1. WritePassword(c) => stops' = stops + 1
      BY DEF WritePassword
    <3> QED
      BY <1>0, <1>5, <3>1, ContinueShape
  <2>2. \A d \in Calls : d # c => SweptSoFar(d)'
    BY <1>0, <1>5, <2>1, ContinueShape, SweptStays
  <2>3. SweptSoFar(c)'
    <3>1. CASE call'[c] = Idle
      BY <1>1, <3>1 DEF Idle
    <3>2. CASE Sweep(c)
      BY <1>0, <3>2, SweepSweeps
    <3>3. CASE WritePassword(c)
      <4>1. call'[c].stop = stops' /\ call'[c].pc \in {"finish", "sweep_session"}
        BY <1>0, <3>3 DEF WritePassword, CallRecord
      <4> QED
        BY <1>0, <4>1 DEF SweptSoFar, Done
    <3>4. CASE SweepFails(c)
      <4>1. call'[c] = Idle \/ (call'[c].lost /\ call'[c].stop = call[c].stop)
        BY <1>0, <3>4 DEF SweepFails, Swept, CallRecord
      <4> QED
        BY <1>0, <2>1, <3>1, <4>1 DEF SweptSoFar
    <3>5. CASE ConsumeAfter(c)
      <4>1. call'[c].stop = 0
        BY <1>0, <3>5 DEF ConsumeAfter, Goto, At, Controlled, CallRecord
      <4> QED
        BY <1>1, <4>1
    <3>6. ASSUME call'[c] # Idle,
                 ~(Sweep(c) \/ WritePassword(c) \/ SweepFails(c) \/ ConsumeAfter(c))
          PROVE  SweptSoFar(c)'
      <4>1. Done(call'[c].pc) \subseteq Done(call[c].pc)
        <5>1. CASE Invalidate(c) \/ \E l \in Links : Create(c, l)
          BY <1>0, <5>1 DEF Invalidate, Create, At, Goto, Done, CallRecord
        <5>2. CASE ~(Invalidate(c) \/ \E l \in Links : Create(c, l))
          BY <1>5, <3>6, <5>2, StepTo DEF Done
        <5> QED
          BY <5>1, <5>2
      <4> QED
        BY <1>0, <1>5, <2>1, <3>6, <4>1, ContinueShape, SweptStays
    <3> QED
      BY <3>1, <3>2, <3>3, <3>4, <3>5, <3>6
  <2> QED
    BY <2>2, <2>3 DEF SweepInv
<1> QED
  BY <1>2, <1>3, <1>4, <1>5 DEF Next

LEMMA AlwaysSwept == Spec => []SweepInv
<1>1. Init => SweepInv
  BY AccountAssumption DEF Init, SweepInv, SweptSoFar, Idle, Done
<1> QED
  BY <1>1, SweepStep, AlwaysTyped, PTL DEF Spec

(* revoke_credentials, change and reset_password: a stop whose three sweeps *)
(* went through leaves nothing issued before it but the session a change   *)
(* keeps, whatever was issued or kept between the sweeps.                  *)
THEOREM SweepsReachAll == Spec => []SweepReachesAll
<1>1. Typed /\ SweepInv => SweepReachesAll
  BY DEF Typed, TypeOK, Held, SweepInv, SweptSoFar, Done, SweepReachesAll, At
<1> QED
  BY <1>1, AlwaysTyped, AlwaysSwept, PTL

(* reset_mfa is fail-closed: when it answers with success no sweep was lost *)
(* and nothing issued before it is left.                                   *)
THEOREM MfaResetsFailClosed == Spec => []MfaResetFailsClosed
<1>1. Typed /\ SweepInv => MfaResetFailsClosed
  BY DEF Typed, TypeOK, Orderly, Controlled, Held, SweepInv, SweptSoFar, Done,
         MfaResetFailsClosed, At
<1> QED
  BY <1>1, AlwaysTyped, AlwaysSwept, PTL

-----------------------------------------------------------------------------
(* One link sets one credential.                                           *)

\* The call registered passkey k with its link and has not settled it.
Holds(c, k) ==
  call[c].op = "passkey" /\ call[c].pc \in {"finish", "consume", "discard"} /\ call[c].key = k

\* The passkeys of a link that stay, and the calls that spent it for a password.
Won(l) == {k \in Passkeys : passkey[k] = [st |-> "live", link |-> l] /\ \A c \in Calls : ~Holds(c, k)}

Resetting(l) == {c \in Calls : call[c].op = "reset" /\ call[c].link = l /\ call[c].pc \in {"load", "write"}}

HoldersKnown ==
  \A c \in Calls, k \in Passkeys :
    Holds(c, k) => /\ passkey[k].st # "absent"
                   /\ passkey[k].st = "live" => passkey[k].link = call[c].link

\* Nothing has come of a link that is not spent, and one thing of one that is.
LinkUse(l) ==
  /\ link[l].st # "spent" => Won(l) = {} /\ l \notin gave /\ Resetting(l) = {}
  /\ \A j, k \in Won(l) : j = k
  /\ Won(l) # {} => l \notin gave /\ Resetting(l) = {}
  /\ l \in gave => Resetting(l) = {}
  /\ \A c, d \in Resetting(l) : c = d

CredentialInv == HoldersKnown /\ (faults = 0 => \A l \in Links : LinkUse(l))

\* A link that a step leaves alone keeps its use.
LEMMA LinkUseStays ==
  ASSUME NEW l \in Links, LinkUse(l), Won(l)' \subseteq Won(l), Resetting(l)' \subseteq Resetting(l),
         l \in gave' => l \in gave, link[l].st = "spent" => link'[l].st = "spent"
  PROVE  LinkUse(l)'
  BY DEF LinkUse

\* What a step may do to a passkey.
LEMMA PasskeyShape ==
  ASSUME Typed, [Next]_vars, NEW k \in Passkeys
  PROVE  \/ passkey'[k] = passkey[k]
         \/ passkey'[k].st = "gone"
         \/ \E c \in Calls : Register(c, k)
<1> USE DEF Typed, TypeOK
<1>1. ASSUME NEW c \in Calls, Start(c)
      PROVE  passkey'[k] = passkey[k] \/ passkey'[k].st = "gone"
  <2>1. CASE ResetMfa(c)
    BY <2>1 DEF ResetMfa, PasskeyRow
  <2>2. CASE ~ResetMfa(c)
    BY <1>1, <2>2 DEF Start, SignIn, RequestReset, ResetPasswordFor, Disable, Change, PasskeySignIn,
       Consume, Resolve
  <2> QED
    BY <2>1, <2>2
<1>2. ASSUME NEW c \in Calls, Continue(c)
      PROVE  passkey'[k] = passkey[k] \/ passkey'[k].st = "gone" \/ Register(c, k)
  <2>1. CASE Discard(c)
    BY <2>1 DEF Discard, PasskeyRow
  <2>2. ASSUME NEW j \in Passkeys, Register(c, j) PROVE passkey'[k] = passkey[k] \/ Register(c, k)
    BY <2>2 DEF Register
  <2>3. CASE ~Discard(c) /\ ~\E j \in Passkeys : Register(c, j)
    BY <1>2, <2>3 DEF Continue, WrongPassword, RecordLoginFailure, RightPassword, ClearFailures,
       Establish, LoadOwner, Refuse, WritePassword, LoseUpdate, FinishSetup, Sweep, SweepFails,
       Invalidate, Create, ConsumeAfter, Reply, Fails
  <2> QED
    BY <2>1, <2>2, <2>3
<1> QED
  BY <1>1, <1>2, EnvironmentShape DEF Next, vars

\* Who holds a passkey holds on to it until the link is settled, and has it from Register.
LEMMA HoldsShape ==
  ASSUME Typed, NEW c \in Calls, Continue(c), NEW k \in Passkeys
  PROVE  /\ Holds(c, k) => Holds(c, k)' \/ ConsumeAfter(c) \/ Fails(c)
                           \/ (Discard(c) /\ passkey'[k].st = "gone")
         /\ Holds(c, k)' => Holds(c, k) \/ Register(c, k)
<1> USE DEF Typed, TypeOK
<1>0. call[c] \in CallRecord /\ Controlled(call[c])
  BY DEF Orderly
<1>1. CASE ~(call[c].op = "passkey")
  <2>1. call'[c] = Idle \/ call'[c].op = call[c].op
    BY ContinueShape
  <2> QED
    BY <1>1, <2>1 DEF Holds, Idle
<1>2. CASE call[c].op = "passkey"
  <2>0. call[c].pc \in {"register", "finish", "consume", "discard", "ok"}
    BY <1>0, <1>2 DEF Controlled
  <2>1. CASE FinishSetup(c)
    BY <1>0, <1>2, <2>1 DEF FinishSetup, At, Goto, Holds, CallRecord
  <2>2. ASSUME NEW j \in Passkeys, Register(c, j)
        PROVE  ~Holds(c, k) /\ (Holds(c, k)' => Register(c, k))
    <3>1. call'[c].key = j /\ call[c].pc = "register"
      BY <1>0, <2>2 DEF Register, At, CallRecord
    <3> QED
      BY <2>2, <3>1 DEF Holds
  <2>3. CASE ConsumeAfter(c)
    BY <1>0, <1>2, <2>3 DEF ConsumeAfter, At, Goto, Holds, CallRecord
  <2>4. CASE Discard(c)
    BY <1>0, <1>2, <2>4 DEF Discard, At, Leave, Idle, Holds, PasskeyRow
  <2>5. CASE Reply(c)
    BY <1>0, <2>5 DEF Reply, At, Leave, Idle, Holds
  <2>6. CASE Fails(c)
    BY <1>0, <2>6 DEF Fails, Leave, Idle, Holds
  <2> QED
    BY <1>0, <2>0, <2>1, <2>2, <2>3, <2>4, <2>5, <2>6 DEF Continue, At, WrongPassword,
       RecordLoginFailure, RightPassword, ClearFailures, Establish, LoadOwner, Refuse, WritePassword,
       LoseUpdate, Sweep, SweepFails, Sweeping, Invalidate, Create
<1> QED
  BY <1>1, <1>2

LEMMA HoldersStep == Typed /\ HoldersKnown /\ [Next]_vars => HoldersKnown'
<1> SUFFICES ASSUME Typed, HoldersKnown, [Next]_vars, NEW d \in Calls, NEW k \in Passkeys, Holds(d, k)'
             PROVE  /\ passkey'[k].st # "absent"
                    /\ passkey'[k].st = "live" => passkey'[k].link = call'[d].link
  BY DEF HoldersKnown
<1>1. CASE \E c \in Calls : Register(c, k)
  <2> PICK c \in Calls : Register(c, k)
    BY <1>1
  <2>1. passkey'[k] = [st |-> "live", link |-> call[c].link] /\ passkey[k].st = "absent"
    BY DEF Register, Typed, TypeOK
  <2>2. call'[c].link = call[c].link /\ \A e \in Calls : e # c => call'[e] = call[e]
    BY DEF Register, Typed, TypeOK, CallRecord
  <2>3. d = c
    BY <2>1, <2>2 DEF HoldersKnown, Holds
  <2> QED
    BY <2>1, <2>2, <2>3
<1>2. CASE ~\E c \in Calls : Register(c, k)
  <2>1. Holds(d, k) /\ call'[d].link = call[d].link
    <3>1. CASE UNCHANGED call
      BY <3>1 DEF Holds
    <3>2. ASSUME NEW c \in Calls, Start(c) PROVE Holds(d, k) /\ call'[d].link = call[d].link
      BY <3>2, StartShape DEF Holds
    <3>3. ASSUME NEW c \in Calls, Continue(c) PROVE Holds(d, k) /\ call'[d].link = call[d].link
      BY <1>2, <3>3, ContinueShape, HoldsShape DEF Holds, Idle
    <3> QED
      BY <3>1, <3>2, <3>3, EnvironmentShape DEF Next, vars
  <2> QED
    BY <1>2, <2>1, PasskeyShape DEF HoldersKnown
<1> QED
  BY <1>1, <1>2

\* Passkeys that stay: only the request that spends the link adds one.
LEMMA WonShape ==
  ASSUME Typed, HoldersKnown, [Next]_vars, faults' = 0, NEW l \in Links
  PROVE  \/ Won(l)' \subseteq Won(l)
         \/ \E c \in Calls : /\ ConsumeAfter(c) /\ call[c].link = l /\ link[l].st = "live"
                             /\ \A k \in Won(l)' : k \in Won(l) \/ k = call[c].key
<1>0. faults \in Nat
  BY AccountAssumption DEF Typed, TypeOK
<1>1. ASSUME NEW k \in Won(l)', k \notin Won(l)
      PROVE  \E c \in Calls : Holds(c, k) /\ ConsumeAfter(c) /\ call[c].link = l /\ link[l].st = "live"
  <2>1. k \in Passkeys /\ passkey'[k] = [st |-> "live", link |-> l] /\ \A c \in Calls : ~Holds(c, k)'
    BY <1>1 DEF Won
  <2>2. ~\E c \in Calls : Register(c, k)
    <3> SUFFICES ASSUME NEW c \in Calls, Register(c, k) PROVE FALSE
      OBVIOUS
    <3>1. call[c].op = "passkey"
      BY DEF Register, At, Typed, TypeOK, Orderly, Controlled
    <3>2. Holds(c, k)'
      BY <3>1 DEF Register, Holds, Typed, TypeOK, CallRecord
    <3> QED
      BY <2>1, <3>2
  <2>3. passkey[k] = [st |-> "live", link |-> l]
    BY <2>1, <2>2, PasskeyShape
  <2>4. PICK d \in Calls : Holds(d, k)
    BY <1>1, <2>1, <2>3 DEF Won
  <2>5. ~UNCHANGED call /\ ~\E c \in Calls : Start(c)
    BY <2>1, <2>4, StartShape DEF Holds
  <2>6. PICK c \in Calls : Continue(c)
    BY <2>5, EnvironmentShape DEF Next, vars
  <2>7. c = d
    BY <2>1, <2>4, <2>6, ContinueShape DEF Holds
  <2>8. ~Fails(c)
    BY <1>0 DEF Fails, Fault
  <2>9. ConsumeAfter(c)
    BY <2>1, <2>4, <2>6, <2>7, <2>8, HoldsShape
  <2>10. call[c].link = l
    BY <2>1, <2>3, <2>4, <2>7 DEF HoldersKnown
  <2>11. call'[c].pc # "discard"
    BY <2>1, <2>4, <2>7, <2>9 DEF Holds, ConsumeAfter, Goto, Typed, TypeOK, CallRecord
  <2>12. link[l].st = "live"
    BY <2>9, <2>10, <2>11 DEF ConsumeAfter, Goto, Live, Typed, TypeOK, CallRecord
  <2> QED
    BY <2>4, <2>7, <2>9, <2>10, <2>12
<1>2. CASE Won(l)' \subseteq Won(l)
  BY <1>2
<1>3. ASSUME NEW k \in Won(l)', k \notin Won(l)
      PROVE  \E c \in Calls : /\ ConsumeAfter(c) /\ call[c].link = l /\ link[l].st = "live"
                              /\ \A j \in Won(l)' : j \in Won(l) \/ j = call[c].key
  <2>1. PICK c \in Calls : Holds(c, k) /\ ConsumeAfter(c) /\ call[c].link = l /\ link[l].st = "live"
    BY <1>1, <1>3
  <2>2. ASSUME NEW j \in Won(l)', j \notin Won(l) PROVE j = call[c].key
    <3>1. PICK d \in Calls : Holds(d, j) /\ ConsumeAfter(d)
      BY <1>1, <2>2
    <3>2. call'[c] # call[c] /\ call'[d] # call[d]
      BY <2>1, <3>1 DEF ConsumeAfter, Goto, At, Typed, TypeOK, CallRecord
    <3>3. c = d
      BY <2>1, <3>2 DEF ConsumeAfter, Goto, Typed, TypeOK
    <3> QED
      BY <3>1, <3>3 DEF Holds
  <2> QED
    BY <2>1, <2>2
<1> QED
  BY <1>2, <1>3

\* A spent link stays spent.
LEMMA SpentStays ==
  ASSUME Typed, [Next]_vars, NEW l \in Links, link[l].st = "spent"
  PROVE  link'[l].st = "spent"
<1> USE DEF Typed, TypeOK
<1>1. ASSUME NEW c \in Calls, Start(c) PROVE link'[l].st = "spent"
  BY <1>1 DEF Start, SignIn, RequestReset, ResetPasswordFor, Disable, ResetMfa, Change, PasskeySignIn,
     Consume, Resolve, LinkRow
<1>2. ASSUME NEW c \in Calls, Continue(c) PROVE link'[l].st = "spent"
  <2>1. CASE Invalidate(c) \/ ConsumeAfter(c)
    BY <2>1 DEF Invalidate, ConsumeAfter, Spent, LinkRow
  <2>2. ASSUME NEW m \in Links, Create(c, m) PROVE link'[l].st = "spent"
    BY <2>2 DEF Create
  <2>3. CASE ~(Invalidate(c) \/ ConsumeAfter(c) \/ \E m \in Links : Create(c, m))
    BY <1>2, <2>3 DEF Continue, WrongPassword, RecordLoginFailure, RightPassword, ClearFailures,
       Establish, LoadOwner, Refuse, WritePassword, LoseUpdate, FinishSetup, Sweep, SweepFails,
       Register, Discard, Reply, Fails
  <2> QED
    BY <2>1, <2>2, <2>3
<1>3. Environment => link'[l].st = "spent"
  BY DEF Environment, LockLapses, UnlockAccount, Enable, ReissueTokens, Exchange, ExpireLink, Spent,
     LinkRow
<1> QED
  BY <1>1, <1>2, <1>3 DEF Next, vars

\* A request spends the link for a password by Consume, and sets the password it spent the link for.
LEMMA ResettingShape ==
  ASSUME Typed, NEW c \in Calls, NEW l \in Links
  PROVE  /\ Start(c) => \/ Resetting(l)' \subseteq Resetting(l)
                        \/ Consume(c, l) /\ Resetting(l)' \subseteq Resetting(l) \cup {c}
         /\ Continue(c) => /\ Resetting(l)' \subseteq Resetting(l)
                           /\ \/ l \in gave' => l \in gave
                              \/ c \in Resetting(l) /\ c \notin Resetting(l)'
<1> USE DEF Typed, TypeOK
<1>0. call[c] \in CallRecord /\ Controlled(call[c])
  BY DEF Orderly
<1>1. ASSUME Start(c)
      PROVE  \/ Resetting(l)' \subseteq Resetting(l)
             \/ Consume(c, l) /\ Resetting(l)' \subseteq Resetting(l) \cup {c}
  <2>1. Resetting(l)' \subseteq Resetting(l) \cup {c}
    BY <1>1, StartShape DEF Resetting
  <2>2. c \in Resetting(l)' => Consume(c, l)
    <3>1. ASSUME NEW m \in Links, Consume(c, m) PROVE call'[c].link = m
      BY <3>1 DEF Consume, Begin, Idle
    <3>2. ASSUME ~\E m \in Links : Consume(c, m) PROVE call'[c].op # "reset"
      <4>1. CASE SignIn(c) \/ RequestReset(c) \/ ResetPasswordFor(c) \/ Disable(c) \/ ResetMfa(c)
        BY <4>1 DEF SignIn, RequestReset, ResetPasswordFor, Disable, ResetMfa, Begin, Idle
      <4>2. ASSUME NEW a \in held, Change(c, a) PROVE call'[c].op = "change"
        BY <4>2 DEF Change, Begin, Idle
      <4>3. ASSUME NEW k \in Passkeys, PasskeySignIn(c, k) PROVE call'[c].op = "sign_in"
        BY <4>3 DEF PasskeySignIn, Begin, Idle
      <4>4. ASSUME NEW m \in Links, Resolve(c, m) PROVE call'[c].op = "passkey"
        BY <4>4 DEF Resolve, Begin, Idle
      <4> QED
        BY <1>1, <3>2, <4>1, <4>2, <4>3, <4>4 DEF Start
    <3> QED
      BY <3>1, <3>2 DEF Resetting
  <2> QED
    BY <2>1, <2>2
<1>2. ASSUME Continue(c)
      PROVE  /\ Resetting(l)' \subseteq Resetting(l)
             /\ \/ l \in gave' => l \in gave
                \/ c \in Resetting(l) /\ c \notin Resetting(l)'
  <2>1. Resetting(l)' \subseteq Resetting(l)
    <3>1. \A d \in Calls : d # c => call'[d] = call[d]
      BY <1>2, ContinueShape
    <3>2. ASSUME c \in Resetting(l)' PROVE c \in Resetting(l)
      <4>1. /\ call'[c].op = "reset" /\ call'[c].link = l /\ call'[c].pc \in {"load", "write"}
            /\ call'[c] # Idle
        BY <3>2 DEF Resetting, Idle
      <4>2. call[c].op = "reset" /\ call[c].link = l /\ call'[c].pc = "write"
        BY <1>2, <4>1, ContinueShape
      <4>3. LoadOwner(c)
        BY <1>2, <4>1, <4>2, StepTo
      <4> QED
        BY <4>2, <4>3 DEF LoadOwner, At, Resetting
    <3> QED
      BY <3>1, <3>2 DEF Resetting
  <2>2. CASE WritePassword(c)
    <3>1. call'[c].pc \notin {"load", "write"}
      BY <1>0, <2>2 DEF WritePassword, CallRecord
    <3> QED
      BY <2>1, <2>2, <3>1 DEF WritePassword, At, Resetting
  <2>3. CASE ~WritePassword(c)
    BY <1>2, <2>1, <2>3, ContinueShape
  <2> QED
    BY <2>2, <2>3
<1> QED
  BY <1>1, <1>2

LEMMA CredentialStep == Typed /\ CredentialInv /\ [Next]_vars => CredentialInv'
<1> SUFFICES ASSUME Typed, CredentialInv, [Next]_vars PROVE CredentialInv'
  OBVIOUS
<1>1. HoldersKnown'
  BY HoldersStep DEF CredentialInv
<1>2. ASSUME faults' = 0, NEW l \in Links PROVE LinkUse(l)'
  <2>1. faults = 0
    <3>1. faults \in Nat
      BY AccountAssumption DEF Typed, TypeOK
    <3>2. faults' = faults \/ faults' = faults + 1
      <4>1. ASSUME NEW c \in Calls, Continue(c) PROVE faults' = faults \/ faults' = faults + 1
        BY <4>1 DEF Continue, WrongPassword, RecordLoginFailure, RightPassword, ClearFailures,
           Establish, LoadOwner, Refuse, WritePassword, LoseUpdate, FinishSetup, Sweep, SweepFails,
           Invalidate, Create, Register, ConsumeAfter, Discard, Reply, Fails, Fault
      <4> QED
        BY <4>1, StartShape, EnvironmentShape DEF Next, vars
    <3> QED
      BY <1>2, <3>1, <3>2
  <2>2. LinkUse(l) /\ HoldersKnown
    BY <2>1 DEF CredentialInv
  <2>3. link[l].st = "spent" => link'[l].st = "spent"
    BY SpentStays
  <2>4. CASE \E c \in Calls : /\ ConsumeAfter(c) /\ call[c].link = l /\ link[l].st = "live"
                              /\ \A k \in Won(l)' : k \in Won(l) \/ k = call[c].key
    <3> PICK c \in Calls : /\ ConsumeAfter(c) /\ call[c].link = l /\ link[l].st = "live"
                           /\ \A k \in Won(l)' : k \in Won(l) \/ k = call[c].key
      BY <2>4
    <3>1. Won(l) = {} /\ l \notin gave /\ Resetting(l) = {}
      BY <2>2 DEF LinkUse
    <3>2. Continue(c)
      BY DEF Continue
    <3>3. Resetting(l)' = {}
      BY <3>1, <3>2, ResettingShape
    <3>4. l \notin gave' /\ link'[l].st = "spent"
      BY <3>1 DEF ConsumeAfter, Spent, Live, Typed, TypeOK, LinkRow
    <3> QED
      BY <3>1, <3>3, <3>4 DEF LinkUse
  <2>5. CASE Won(l)' \subseteq Won(l)
    <3>1. CASE UNCHANGED <<call, gave>>
      BY <2>2, <2>3, <2>5, <3>1, LinkUseStays DEF Resetting
    <3>2. ASSUME NEW c \in Calls, Start(c) PROVE LinkUse(l)'
      <4>1. gave' = gave
        BY <3>2, StartShape
      <4>2. CASE Consume(c, l) /\ Resetting(l)' \subseteq Resetting(l) \cup {c}
        <5>1. link[l].st = "live" /\ link'[l].st = "spent"
          BY <4>2 DEF Consume, Live, Typed, TypeOK, LinkRow
        <5> QED
          BY <2>2, <2>5, <4>1, <4>2, <5>1 DEF LinkUse
      <4> QED
        BY <2>2, <2>3, <2>5, <3>2, <4>1, <4>2, ResettingShape, LinkUseStays
    <3>3. ASSUME NEW c \in Calls, Continue(c) PROVE LinkUse(l)'
      <4>1. CASE l \in gave' => l \in gave
        BY <2>2, <2>3, <2>5, <3>3, <4>1, ResettingShape, LinkUseStays
      <4>2. CASE c \in Resetting(l) /\ c \notin Resetting(l)'
        <5>1. Resetting(l)' = {} /\ Won(l)' = {} /\ link'[l].st = "spent"
          BY <2>2, <2>3, <2>5, <3>3, <4>2, ResettingShape DEF LinkUse
        <5> QED
          BY <5>1 DEF LinkUse
      <4> QED
        BY <3>3, <4>1, <4>2, ResettingShape
    <3> QED
      BY <3>1, <3>2, <3>3, EnvironmentShape DEF Next, vars
  <2> QED
    BY <1>2, <2>2, <2>4, <2>5, WonShape
<1> QED
  BY <1>1, <1>2 DEF CredentialInv

(* reset_password and complete_passkey: of all the requests that come with *)
(* one link at once, one sets a password or one keeps its passkey; the     *)
(* others are refused or discard what they registered.                     *)
THEOREM LinksSetOneCredential == Spec => []OneCredentialPerLink
<1>1. Init => CredentialInv
  BY DEF Init, CredentialInv, HoldersKnown, Holds, LinkUse, Won, Resetting, Idle
<1>2. CredentialInv => OneCredentialPerLink
  <2> SUFFICES ASSUME CredentialInv, NEW l \in Links, faults = 0, Settling(l) = {}
               PROVE  Cardinality(Yield(l)) <= 1
    BY DEF OneCredentialPerLink
  <2>1. LinkUse(l) /\ HoldersKnown
    BY DEF CredentialInv
  <2>2. {k \in Passkeys : passkey[k] = [st |-> "live", link |-> l]} = Won(l)
    BY <2>1 DEF HoldersKnown, Won, Holds, Settling
  <2>3. Yield(l) = {} \/ \E x : Yield(l) = {x}
    <3>1. CASE l \in gave
      BY <2>1, <2>2, <3>1 DEF LinkUse, Yield
    <3>2. CASE l \notin gave
      <4>1. Yield(l) = Won(l)
        BY <2>2, <3>2 DEF Yield
      <4>2. \A j, k \in Won(l) : j = k
        BY <2>1 DEF LinkUse
      <4> QED
        BY <4>1, <4>2
    <3> QED
      BY <3>1, <3>2
  <2>4. CASE Yield(l) = {}
    BY <2>4, FS_EmptySet
  <2>5. ASSUME NEW x, Yield(l) = {x} PROVE Cardinality(Yield(l)) <= 1
    <3>1. Cardinality({x}) = 1
      BY FS_Singleton
    <3> QED
      BY <2>5, <3>1
  <2> QED
    BY <2>3, <2>4, <2>5
<1> QED
  BY <1>1, <1>2, CredentialStep, AlwaysTyped, PTL DEF Spec

-----------------------------------------------------------------------------
(* Sizes of sets of requests.                                              *)

LEMMA Sizes ==
  /\ \A S \in SUBSET Calls : /\ IsFiniteSet(S) /\ Cardinality(S) \in Nat
                            /\ Cardinality(S) <= Cardinality(Calls)
  /\ Cardinality(Calls) \in Nat
  BY AccountAssumption, FS_Subset, FS_CardinalityType

LEMMA Smaller ==
  ASSUME NEW T, IsFiniteSet(T), NEW S \in SUBSET T
  PROVE  Cardinality(S) <= Cardinality(T)
  BY FS_Subset

LEMMA OneMore ==
  ASSUME NEW S, NEW x, IsFiniteSet(S), x \notin S
  PROVE  Cardinality(S \cup {x}) = Cardinality(S) + 1
  BY FS_AddElement

LEMMA OneLess ==
  ASSUME NEW S, NEW x, IsFiniteSet(S), x \in S
  PROVE  Cardinality(S \ {x}) = Cardinality(S) - 1
  BY FS_RemoveElement

-----------------------------------------------------------------------------
(* Wrong passwords and the lock.                                           *)

\* The requests past the check of the lock whose password is not verified yet.
Verifying == {c \in Calls : At(c, "verify")}

\* The failures an open lock has counted.
Counted == IF user.fails < Threshold THEN user.fails ELSE 0

GuessInv ==
  /\ guesses + Cardinality(Verifying) <= Threshold - 1 + Cardinality(Calls) + faults
  /\ ~user.locked => guesses <= Counted + Cardinality(Uncounted) + faults

\* A request verifies its password or counts its failure, not both.
LEMMA GuessSizes ==
  ASSUME Typed
  PROVE  /\ Verifying \subseteq Calls /\ Uncounted \subseteq Calls
         /\ IsFiniteSet(Verifying) /\ IsFiniteSet(Uncounted)
         /\ Cardinality(Verifying) \in Nat /\ Cardinality(Uncounted) \in Nat
         /\ Cardinality(Calls) \in Nat
         /\ Cardinality(Verifying) <= Cardinality(Calls)
         /\ \A c \in Calls : call[c].pc = "idle" =>
              Cardinality(Verifying) + Cardinality(Uncounted) <= Cardinality(Calls) - 1
         /\ guesses \in Nat /\ faults \in Nat /\ Counted \in Nat /\ Counted <= Threshold - 1
         /\ Threshold \in Nat \ {0} /\ user.fails \in Nat
<1>1. /\ Verifying \subseteq Calls /\ Uncounted \subseteq Calls
      /\ IsFiniteSet(Verifying) /\ IsFiniteSet(Uncounted)
      /\ Cardinality(Verifying) \in Nat /\ Cardinality(Uncounted) \in Nat
      /\ Cardinality(Calls) \in Nat
      /\ Cardinality(Verifying) <= Cardinality(Calls)
  BY Sizes DEF Verifying, Uncounted
<1>2. ASSUME NEW c \in Calls, call[c].pc = "idle"
      PROVE  Cardinality(Verifying) + Cardinality(Uncounted) <= Cardinality(Calls) - 1
  <2>1. Verifying \cap Uncounted = {}
    BY DEF Verifying, Uncounted, At
  <2>2. Cardinality(Verifying \cup Uncounted) = Cardinality(Verifying) + Cardinality(Uncounted)
    BY <1>1, <2>1, FS_Union, FS_EmptySet
  <2>3. Verifying \cup Uncounted \in SUBSET (Calls \ {c})
    BY <1>1, <1>2 DEF Verifying, Uncounted, At
  <2>4. IsFiniteSet(Calls \ {c}) /\ Cardinality(Calls \ {c}) = Cardinality(Calls) - 1
    BY AccountAssumption, FS_RemoveElement
  <2>5. Cardinality(Verifying \cup Uncounted) <= Cardinality(Calls \ {c})
    BY <2>3, <2>4, Smaller
  <2> QED
    BY <2>2, <2>4, <2>5
<1>3. /\ guesses \in Nat /\ faults \in Nat /\ user.fails \in Nat
      /\ Threshold \in Nat \ {0}
  BY AccountAssumption DEF Typed, TypeOK, UserRow
<1>4. Counted \in Nat /\ Counted <= Threshold - 1
  BY <1>3 DEF Counted
<1> QED
  BY <1>1, <1>2, <1>3, <1>4

\* An open lock has counted every guess, and a lock that opens forgets them.
LEMMA GuessReset ==
  ASSUME Typed, Typed', guesses' = 0
  PROVE  GuessInv'
<1>1. /\ Cardinality(Verifying)' <= Cardinality(Calls) /\ Cardinality(Verifying)' \in Nat
      /\ Cardinality(Uncounted)' \in Nat
      /\ faults' \in Nat /\ Counted' \in Nat
      /\ Cardinality(Calls) \in Nat /\ Threshold \in Nat \ {0}
  <2>1. Verifying' \subseteq Calls /\ Uncounted' \subseteq Calls
    BY DEF Verifying, Uncounted
  <2>2. faults' \in Nat /\ user'.fails \in Nat
    BY AccountAssumption DEF Typed, TypeOK, UserRow
  <2> QED
    BY <2>1, <2>2, Sizes, AccountAssumption DEF Counted
<1> QED
  BY <1>1 DEF GuessInv

\* Steps that try no password and count none.
LEMMA GuessStays ==
  ASSUME Typed, Typed', GuessInv, guesses' = guesses, faults' >= faults,
         Verifying' \subseteq Verifying, Uncounted' = Uncounted,
         user'.fails = user.fails, user'.locked = user.locked
  PROVE  GuessInv'
<1>1. Cardinality(Verifying') <= Cardinality(Verifying) /\ Cardinality(Verifying') \in Nat
  BY GuessSizes, Smaller, FS_Subset, FS_CardinalityType
<1>2. faults' \in Nat
  BY AccountAssumption DEF Typed, TypeOK
<1>3. Counted' = Counted
  BY DEF Counted
<1> QED
  BY <1>1, <1>2, <1>3, GuessSizes DEF GuessInv

LEMMA GuessStep == Typed /\ GuessInv /\ [Next]_vars => GuessInv'
<1> SUFFICES ASSUME Typed, GuessInv, [Next]_vars PROVE GuessInv'
  OBVIOUS
<1>0. Typed' /\ call \in [Calls -> CallRecord] /\ user \in UserRow /\ faults \in Nat
  BY NextTypes, AccountAssumption DEF Typed, TypeOK
<1>1. CASE UNCHANGED vars
  BY <1>0, <1>1, GuessStays DEF vars, Verifying, Uncounted, At
<1>2. CASE Environment
  <2>1. CASE guesses' = 0
    BY <1>0, <2>1, GuessReset
  <2>2. CASE guesses' # 0
    <3>1. UNCHANGED <<guesses, faults, call>> /\ user'.fails = user.fails /\ user'.locked = user.locked
      BY <1>0, <1>2, <2>2 DEF Environment, LockLapses, UnlockAccount, Enable, ReissueTokens, Exchange,
         ExpireLink, UserRow
    <3> QED
      BY <1>0, <3>1, GuessStays DEF Verifying, Uncounted, At
  <2> QED
    BY <2>1, <2>2
<1>3. ASSUME NEW c \in Calls, Start(c) PROVE GuessInv'
  <2>1. /\ UNCHANGED <<guesses, faults>> /\ user'.fails = user.fails /\ user'.locked = user.locked
        /\ Uncounted' = Uncounted /\ Verifying' \subseteq Verifying \cup {c}
        /\ c \in Verifying' => ~user.locked
        /\ call[c].pc = "idle"
    BY <1>3, StartShape DEF Verifying, Uncounted, At
  <2>2. CASE c \in Verifying'
    <3>1. Verifying' = Verifying \cup {c} /\ c \notin Verifying
      BY <1>3, <2>1, <2>2, StartShape DEF Verifying, At
    <3>2. Cardinality(Verifying') = Cardinality(Verifying) + 1
      BY <3>1, GuessSizes, OneMore
    <3>3. guesses <= Counted + Cardinality(Uncounted) + faults
      BY <2>1, <2>2 DEF GuessInv
    <3>4. Counted' = Counted
      BY <2>1 DEF Counted
    <3> QED
      BY <2>1, <3>2, <3>3, <3>4, GuessSizes DEF GuessInv
  <2>3. CASE c \notin Verifying'
    BY <1>0, <2>1, <2>3, GuessStays
  <2> QED
    BY <2>2, <2>3
<1>4. ASSUME NEW c \in Calls, Continue(c) PROVE GuessInv'
  <2>0. \A d \in Calls : d # c => call'[d] = call[d]
    BY <1>4, ContinueShape
  <2>1. CASE WrongPassword(c)
    <3>1. /\ Verifying' = Verifying \ {c} /\ c \in Verifying
          /\ Uncounted' = Uncounted \cup {c} /\ c \notin Uncounted
          /\ guesses' = guesses + 1 /\ UNCHANGED <<user, faults>>
      BY <1>0, <2>1 DEF WrongPassword, Goto, At, Verifying, Uncounted, CallRecord
    <3>2. /\ Cardinality(Verifying') = Cardinality(Verifying) - 1
          /\ Cardinality(Uncounted') = Cardinality(Uncounted) + 1
      BY <3>1, GuessSizes, OneMore, OneLess
    <3>3. Counted' = Counted
      BY <3>1 DEF Counted
    <3> QED
      BY <3>1, <3>2, <3>3, GuessSizes DEF GuessInv
  <2>2. CASE RecordLoginFailure(c)
    <3>1. /\ Verifying' = Verifying
          /\ Uncounted' = Uncounted \ {c} /\ c \in Uncounted
          /\ UNCHANGED <<guesses, faults>>
      BY <1>0, <2>2 DEF RecordLoginFailure, Leave, Idle, At, Verifying, Uncounted
    <3>2. Cardinality(Uncounted') = Cardinality(Uncounted) - 1
      BY <3>1, GuessSizes, OneLess
    <3>3. ASSUME ~user'.locked
          PROVE  ~user.locked /\ user'.fails = user.fails + 1 /\ user'.fails < Threshold
      <4> DEFINE n == IF user.fails > Threshold THEN user.fails ELSE user.fails + 1
      <4>1. user' = [user EXCEPT !.fails = n, !.locked = n >= Threshold \/ @]
        BY <2>2 DEF RecordLoginFailure
      <4>2. n \in Nat /\ Threshold \in Nat
        BY GuessSizes
      <4>3. n >= Threshold \/ n = user.fails + 1
        BY GuessSizes
      <4> HIDE DEF n
      <4>4. user'.fails = n /\ ~(n >= Threshold) /\ ~user.locked
        <5> DEFINE over == n >= Threshold
        <5>1. user' = [user EXCEPT !.fails = n, !.locked = over \/ user.locked]
          BY <1>0, <4>1
        <5>2. over \in BOOLEAN
          OBVIOUS
        <5> HIDE DEF over
        <5>3. user'.fails = n /\ user'.locked = (over \/ user.locked)
          BY <1>0, <5>1 DEF UserRow
        <5>4. ~over /\ ~user.locked
          BY <3>3, <5>3
        <5> QED
          BY <5>3, <5>4 DEF over
      <4> QED
        BY <3>3, <4>2, <4>3, <4>4
    <3>4. ASSUME ~user'.locked PROVE Counted' = Counted + 1
      BY <3>3, <3>4, GuessSizes DEF Counted
    <3> QED
      BY <3>1, <3>2, <3>3, <3>4, GuessSizes DEF GuessInv
  <2>3. CASE ClearFailures(c)
    BY <1>0, <2>3, GuessReset DEF ClearFailures
  <2>4. CASE Fails(c)
    <3>1. /\ Verifying' \subseteq Verifying /\ Uncounted' = Uncounted \ {c}
          /\ UNCHANGED <<guesses, user>> /\ faults' = faults + 1
      BY <1>0, <2>4 DEF Fails, Fault, Leave, Idle, At, Verifying, Uncounted
    <3>2. Cardinality(Verifying') <= Cardinality(Verifying) /\ Cardinality(Verifying') \in Nat
      BY <3>1, GuessSizes, Smaller, FS_Subset, FS_CardinalityType
    <3>3. /\ Cardinality(Uncounted') \in Nat
          /\ Cardinality(Uncounted') \in {Cardinality(Uncounted) - 1, Cardinality(Uncounted)}
      BY <3>1, GuessSizes, FS_RemoveElement, FS_CardinalityType
    <3>4. Counted' = Counted
      BY <3>1 DEF Counted
    <3> QED
      BY <3>1, <3>2, <3>3, <3>4, GuessSizes DEF GuessInv
  <2>5. CASE ~(WrongPassword(c) \/ RecordLoginFailure(c) \/ ClearFailures(c) \/ Fails(c))
    <3>1. Verifying' \subseteq Verifying
      BY <1>4, <2>0, ContinueShape DEF Verifying, At, Idle
    <3>2. Uncounted' \subseteq Uncounted
      BY <1>4, <2>0, <2>5, StepTo DEF Uncounted, At, Idle
    <3>3. call[c].pc # "count"
      BY <1>4, <2>5 DEF Continue, At, RightPassword, Establish, LoadOwner, Refuse, WritePassword,
         LoseUpdate, FinishSetup, Sweep, SweepFails, Sweeping, Invalidate, Create, Register,
         ConsumeAfter, Discard, Reply
    <3>4. Uncounted' = Uncounted
      BY <2>0, <3>2, <3>3 DEF Uncounted, At
    <3>5. /\ guesses' = guesses /\ user'.fails = user.fails /\ user'.locked = user.locked
          /\ faults' \in {faults, faults + 1}
      BY <1>0, <1>4, <2>5 DEF Continue, RightPassword, Establish, LoadOwner, Refuse, WritePassword,
         LoseUpdate, FinishSetup, Sweep, SweepFails, Fault, Invalidate, Create, Register,
         ConsumeAfter, Discard, Reply, UserRow
    <3> QED
      BY <1>0, <3>1, <3>4, <3>5, GuessStays
  <2> QED
    BY <2>1, <2>2, <2>3, <2>4, <2>5
<1> QED
  BY <1>1, <1>2, <1>3, <1>4 DEF Next

(* record_login_failure: between two openings of the lock at most Threshold *)
(* wrong passwords are tried, and those of the requests that were past the *)
(* check, however many run at once.                                        *)
THEOREM GuessesAreBounded == Spec => []GuessesBounded
<1>1. Init => GuessInv
  <2> SUFFICES ASSUME Init PROVE GuessInv
    OBVIOUS
  <2>1. Verifying = {} /\ Uncounted = {} /\ Counted = 0 /\ guesses = 0 /\ faults = 0
    BY AccountAssumption DEF Init, Verifying, Uncounted, Counted, At, Idle
  <2> QED
    BY <2>1, FS_EmptySet, Sizes, AccountAssumption DEF GuessInv
<1>2. Typed /\ GuessInv => GuessesBounded
  <2> SUFFICES ASSUME Typed, GuessInv PROVE GuessesBounded
    OBVIOUS
  <2> QED
    BY GuessSizes DEF GuessInv, GuessesBounded, Counted
<1> QED
  BY <1>1, <1>2, GuessStep, AlwaysTyped, PTL DEF Spec
=============================================================================
