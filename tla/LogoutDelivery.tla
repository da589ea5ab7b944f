--------------------------- MODULE LogoutDelivery ---------------------------
(***************************************************************************)
(* The persistent queue of back-channel logout notifications.              *)
(*                                                                         *)
(* When an administrator stops a user, StopAnnouncementService queues one  *)
(* row per relying party (application/stop_announcement.rs).  Workers (the *)
(* background loop of every running api process; two overlap while one is  *)
(* being replaced) read the rows that are due, claim them one by one with  *)
(* a compare-and-swap on `attempts`, POST a freshly signed logout token and *)
(* write down how it went (application/backchannel_logout.rs and the       *)
(* repository of the same name).  Each database call is a step of its own, *)
(* and a worker may crash, or a call may fail, between any two of them.    *)
(*                                                                         *)
(* Time is relative: a row keeps the ticks left until next_attempt_at, a   *)
(* worker the ticks since it read the clock in deliver_due.  Nothing bounds *)
(* how long a run lasts, so liveness is checked on the real loop.          *)
(***************************************************************************)
EXTENDS Integers, FiniteSets

CONSTANTS Stops,        \* operations that stop a user
          Clients,      \* relying parties with a back-channel logout URI
          Internal,     \* those whose URI is_internal_destination refuses
          Workers,      \* delivery loops
          MaxAttempts,  \* max_attempts
          BatchSize,    \* batch_size
          Base, Cap,    \* BASE_SECS and MAX_SECS of retry_backoff, in ticks
          Retention,    \* retention of settled rows, in ticks
          MaxFaults     \* bound: crashes and failed calls

ASSUME DeliveryAssumption ==
    /\ Internal \subseteq Clients
    /\ IsFiniteSet(Stops \X Clients) /\ IsFiniteSet(Workers)
    /\ MaxAttempts \in Nat \ {0} /\ BatchSize \in Nat \ {0}
    /\ Base \in Nat \ {0} /\ Cap \in Nat /\ Base =< Cap
    /\ Retention \in Nat /\ MaxFaults \in Nat

VARIABLES announced, \* stops announced so far
          row,     \* the table backchannel_logout_deliveries
          worker,  \* where each delivery loop is
          posts,   \* POSTs sent for a row (what the relying parties saw)
          faults   \* crashes and failed calls so far

vars == <<announced, row, worker, posts, faults>>

Row == Stops \X Clients

(* retry_backoff: the base doubled for every attempt after the first,      *)
(* never above the cap.  The exponent is clamped to 0..15.                 *)
Backoff(a) ==
    LET n == IF a < 1 THEN 0 ELSE IF a > 16 THEN 15 ELSE a - 1
        d == Base * 2^n
    IN  IF d < Cap THEN d ELSE Cap

\* abandon postpones a row by ten years: further than any other wait.
Far == Cap + 1

Absent == [queued |-> FALSE, attempts |-> 0, wait |-> 0,
           delivered |-> FALSE, idle |-> 0]
Fresh  == [Absent EXCEPT !.queued = TRUE]

Idle == [pc |-> "idle", age |-> 0, due |-> {}, held |-> {},
         job |-> <<>>, outcome |-> "none"]

Init ==
    /\ announced = {}
    /\ row = [r \in Row |-> Absent]
    /\ worker = [w \in Workers |-> Idle]
    /\ posts = [r \in Row |-> 0]
    /\ faults = 0

-----------------------------------------------------------------------------
(* The queue's SQL statements.                                             *)

\* A fault the code logs and survives: a crash or a call that returned Err.
Fault == faults < MaxFaults /\ faults' = faults + 1

Due == {r \in Row : /\ row[r].queued
                    /\ ~row[r].delivered
                    /\ row[r].wait = 0
                    /\ row[r].attempts < MaxAttempts}

\* UPDATE ... WHERE id = ?: a row that was purged is not brought back.
Written(r, fields) == IF row[r].queued
                      THEN [row EXCEPT ![r] = fields]
                      ELSE row

Settled(r) == row[r].delivered \/ row[r].attempts >= MaxAttempts

-----------------------------------------------------------------------------
(* Announcing that a user was stopped.                                     *)

\* The relying parties listed get their rows in one INSERT.
Announce(s) ==
    /\ s \notin announced
    /\ announced' = announced \cup {s}
    /\ \E listed \in SUBSET Clients \ {{}} :
          row' = [r \in Row |-> IF r[1] = s /\ r[2] \in listed
                                THEN Fresh ELSE row[r]]
    /\ UNCHANGED <<worker, posts, faults>>

\* Listing the clients or the INSERT failed: logged, and nobody is told.
AnnounceFails(s) ==
    /\ s \notin announced
    /\ Fault
    /\ announced' = announced \cup {s}
    /\ UNCHANGED <<row, worker, posts>>

-----------------------------------------------------------------------------
(* One delivery loop: deliver_due.                                         *)

\* The clock is read once, then the SELECT of claim_due.
Select(w) ==
    /\ worker[w].pc = "idle"
    /\ Due # {}
    /\ \E batch \in SUBSET Due :
          /\ Cardinality(batch) = IF Cardinality(Due) < BatchSize
                                  THEN Cardinality(Due) ELSE BatchSize
          /\ worker' = [worker EXCEPT ![w] =
                [Idle EXCEPT !.pc = "claiming",
                             !.due = {<<r, row[r].attempts>> : r \in batch}]]
    /\ UNCHANGED <<announced, row, posts, faults>>

\* Where a loop goes once a row is dealt with.
After(due, held) == IF due # {} THEN "claiming"
                    ELSE IF held # {} THEN "sending" ELSE "idle"

\* (mutant) The claim compares nothing: whoever read the row takes it.
ClaimsAnyway(r, seen) == row[r].queued /\ ~row[r].delivered

\* The compare-and-swap: the row is as it was read.
Claims(r, seen) == /\ row[r].queued
                      /\ ~row[r].delivered
                      /\ row[r].attempts = seen

\* The UPDATE of claim_due: the attempt is counted and the row held back
\* until Backoff(1) after the clock was read.
Claim(w) ==
    \E d \in worker[w].due :
      LET r == d[1]
          left == worker[w].due \ {d}
          won == Claims(r, d[2])
          held == worker[w].held \cup (IF won THEN {<<r, d[2] + 1>>} ELSE {})
      IN  /\ worker[w].pc = "claiming"
          /\ row' = IF won
                    THEN [row EXCEPT ![r].attempts = @ + 1,
                                     ![r].wait = Backoff(1) - worker[w].age,
                                     ![r].idle = 0]
                    ELSE row
          /\ worker' = [worker EXCEPT ![w] =
                [@ EXCEPT !.due = left, !.held = held,
                          !.pc = After(left, held)]]
          /\ UNCHANGED <<announced, posts, faults>>

\* A failing UPDATE ends claim_due: what it claimed is not delivered now.
ClaimFails(w) ==
    /\ worker[w].pc = "claiming"
    /\ Fault
    /\ worker' = [worker EXCEPT ![w] = Idle]
    /\ UNCHANGED <<announced, row, posts>>

\* (mutant) A row whose attempt was made stays in the batch.
TakeAgain(w, h, outcome) ==
    worker' = [worker EXCEPT ![w] =
        [@ EXCEPT !.job = h, !.pc = "recording", !.outcome = outcome]]

\* The for loop of deliver_due takes a row out of the batch.
Take(w, h, outcome) ==
    worker' = [worker EXCEPT ![w] =
        [@ EXCEPT !.held = worker[w].held \ {h}, !.job = h, !.pc = "recording",
                  !.outcome = outcome]]

\* deliver_one for a refused destination: nothing is sent.
Refuse(w) ==
    /\ worker[w].pc = "sending"
    /\ \E h \in worker[w].held : h[1][2] \in Internal /\ Take(w, h, "refused")
    /\ UNCHANGED <<announced, row, posts, faults>>

\* No signing key is usable: the attempt is spent and written as a failure.
SignFails(w) ==
    /\ worker[w].pc = "sending"
    /\ Fault
    /\ \E h \in worker[w].held : h[1][2] \notin Internal /\ Take(w, h, "failed")
    /\ UNCHANGED <<announced, row, posts>>

\* The POST: answered with 2xx, or not (an error, a lost answer, a timeout).
Post(w) ==
    /\ worker[w].pc = "sending"
    /\ \E h \in worker[w].held, outcome \in {"ok", "failed"} :
          /\ h[1][2] \notin Internal
          /\ Take(w, h, outcome)
          /\ posts' = [posts EXCEPT ![h[1]] = @ + 1]
    /\ UNCHANGED <<announced, row, faults>>

\* (mutant) Every failure is treated as one that a retry cannot cure.
MarkedForGood(r, attempt, outcome) ==
    IF outcome = "ok" THEN [row[r] EXCEPT !.delivered = TRUE, !.idle = 0]
    ELSE [row[r] EXCEPT !.wait = Far, !.idle = 0]

\* mark_delivered, mark_failed after a failure, mark_failed by abandon.
Marked(r, attempt, outcome) ==
    CASE outcome = "ok"      -> [row[r] EXCEPT !.delivered = TRUE, !.idle = 0]
      [] outcome = "failed"  -> [row[r] EXCEPT !.wait = Backoff(attempt),
                                               !.idle = 0]
      [] outcome = "refused" -> [row[r] EXCEPT !.wait = Far, !.idle = 0]

\* (mutant) A failure ends the run and the rest of the batch is dropped.
FreeAll(w) == [worker EXCEPT ![w] = Idle]

\* The for loop of deliver_due goes on with the rest of the batch.
Free(w) == [worker EXCEPT ![w] =
    IF @.held = {} THEN Idle
    ELSE [@ EXCEPT !.pc = "sending", !.job = <<>>, !.outcome = "none"]]

Record(w) ==
    /\ worker[w].pc = "recording"
    /\ LET r == worker[w].job[1]
       IN  row' = Written(r, Marked(r, worker[w].job[2], worker[w].outcome))
    /\ worker' = Free(w)
    /\ UNCHANGED <<announced, posts, faults>>

\* The result could not be written: logged, the held-back row stays.
RecordFails(w) ==
    /\ worker[w].pc = "recording"
    /\ Fault
    /\ worker' = Free(w)
    /\ UNCHANGED <<announced, row, posts>>

Crash(w) ==
    /\ worker[w].pc # "idle"
    /\ Fault
    /\ worker' = [worker EXCEPT ![w] = Idle]
    /\ UNCHANGED <<announced, row, posts>>

-----------------------------------------------------------------------------
(* Time and the purge of settled rows.                                     *)

Older(n, bound) == IF n < bound THEN n + 1 ELSE n

Tick ==
    /\ row' = [r \in Row |->
          IF ~row[r].queued THEN row[r]
          ELSE [row[r] EXCEPT
                  !.wait = IF @ \in 1 .. Cap THEN @ - 1 ELSE @,
                  !.idle = Older(@, Retention + 1)]]
    /\ worker' = [w \in Workers |->
          IF worker[w].pc = "idle" THEN worker[w]
          ELSE [worker[w] EXCEPT !.age = Older(@, Backoff(1))]]
    /\ UNCHANGED <<announced, posts, faults>>

PurgeSettled ==
    LET old == {r \in Row : /\ row[r].queued
                            /\ row[r].idle > Retention
                            /\ Settled(r)}
    IN  /\ old # {}
        /\ row' = [r \in Row |-> IF r \in old THEN Absent ELSE row[r]]
        /\ UNCHANGED <<announced, worker, posts, faults>>

-----------------------------------------------------------------------------
Step(w) == Select(w) \/ Claim(w) \/ Refuse(w) \/ Post(w) \/ Record(w)

Next ==
    \/ \E s \in Stops : Announce(s) \/ AnnounceFails(s)
    \/ \E w \in Workers : Step(w) \/ ClaimFails(w) \/ SignFails(w)
                            \/ RecordFails(w) \/ Crash(w)
    \/ Tick
    \/ PurgeSettled

Spec == Init /\ [][Next]_vars

\* The loop polls for ever and time passes; nothing else is promised.
FairSpec == Spec /\ (\A w \in Workers : WF_vars(Step(w))) /\ WF_vars(Tick)

-----------------------------------------------------------------------------
RowType == [queued : BOOLEAN, attempts : 0 .. MaxAttempts, wait : 0 .. Far,
            delivered : BOOLEAN, idle : 0 .. Retention + 1]

(* The queue's rows and the loops hold what their columns and fields can.  *)
TypeOK ==
    /\ announced \subseteq Stops
    /\ row \in [Row -> RowType]
    /\ \A w \in Workers :
          /\ worker[w].pc \in {"idle", "claiming", "sending", "recording"}
          /\ worker[w].age \in 0 .. Backoff(1)
          /\ worker[w].due \subseteq Row \X (0 .. MaxAttempts - 1)
          /\ worker[w].held \subseteq Row \X (1 .. MaxAttempts)
          /\ worker[w].pc = "recording" =>
                worker[w].job \in Row \X (1 .. MaxAttempts)
          /\ worker[w].outcome \in {"none", "ok", "failed", "refused"}
    /\ posts \in [Row -> 0 .. MaxAttempts]
    /\ faults \in 0 .. MaxFaults

\* The claims a loop has not finished with.
Claimed(w) == worker[w].held \cup
              (IF worker[w].pc = "recording" THEN {worker[w].job} ELSE {})

(* claim_due: "the row is taken by one runner only, so there is no double  *)
(* delivery".  Two loops never work on the same attempt, and they work on  *)
(* the same row only when the one that claimed it first has outlived the   *)
(* hold it placed (a batch slower than retry_backoff(1)).                  *)
HeldByOne ==
    \A v, w \in Workers : v # w =>
      \A a \in Claimed(v), b \in Claimed(w) : a[1] = b[1] =>
        /\ a[2] # b[2]
        /\ a[2] < b[2] => worker[v].age = Backoff(1)

\* Attempts counted whose POST has not happened yet.
Waiting(r) == {w \in Workers : \E h \in worker[w].held : h[1] = r}

(* Every counted attempt of a row is a POST, is still waiting in a loop, or *)
(* was spent by a crash or a failing call: a relying party is never given  *)
(* up on by bookkeeping alone, and it never sees more POSTs than attempts. *)
NoAttemptLost ==
    \A r \in Row : r[2] \notin Internal /\ row[r].queued =>
      /\ posts[r] =< row[r].attempts
      /\ row[r].attempts =< posts[r] + Cardinality(Waiting(r)) + faults

(* Once a delivery is on record, a loop may have another POST of that row  *)
(* ahead of it only because two attempts overlapped: the row was claimed   *)
(* more than once, and a loop whose claim was overtaken has outlived the   *)
(* hold it placed.  A loop that keeps within its hold, and is the only one *)
(* to have claimed the row, never repeats a notification that arrived,     *)
(* whatever crashed or failed to be written meanwhile.                     *)
NoNeedlessPost ==
    \A w \in Workers : \A h \in worker[w].held :
      row[h[1]].delivered =>
        /\ row[h[1]].attempts > 1
        /\ h[2] < row[h[1]].attempts => worker[w].age = Backoff(1)

(* The queue makes up for a relying party that is down, for crashes and    *)
(* for failing calls: every notification to an acceptable address is       *)
(* marked delivered or tried until its attempts are used up.               *)
EventuallySettled ==
    \A r \in Row : r[2] \notin Internal =>
      (row[r].queued ~> (~row[r].queued \/ Settled(r)))
=============================================================================
