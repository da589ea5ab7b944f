----------------------- MODULE LogoutDeliveryProofs -----------------------
(***************************************************************************)
(* The delivery queue of back-channel logout notifications, for any number *)
(* of stops, relying parties and overlapping delivery loops, any back-off  *)
(* and retention, and any number of crashes and failing calls.             *)
(***************************************************************************)
EXTENDS LogoutDelivery, FiniteSetTheorems, TLAPS

-----------------------------------------------------------------------------
(* The back-off.                                                           *)

\* The clamped exponent is small enough to look at every power.
LEMMA SmallPowers ==
  ASSUME NEW n \in 0..15
  PROVE  2^n \in Nat /\ 2^n >= 1
<1>1. n = 0 \/ n = 1 \/ n = 2 \/ n = 3 \/ n = 4 \/ n = 5 \/ n = 6 \/ n = 7
      \/ n = 8 \/ n = 9 \/ n = 10 \/ n = 11 \/ n = 12 \/ n = 13 \/ n = 14 \/ n = 15
  BY SMT
<1>2. CASE n = 0
  BY <1>2, SMT
<1>3. CASE n = 1
  BY <1>3, SMT
<1>4. CASE n = 2
  BY <1>4, SMT
<1>5. CASE n = 3
  BY <1>5, SMT
<1>6. CASE n = 4
  BY <1>6, SMT
<1>7. CASE n = 5
  BY <1>7, SMT
<1>8. CASE n = 6
  BY <1>8, SMT
<1>9. CASE n = 7
  BY <1>9, SMT
<1>10. CASE n = 8
  BY <1>10, SMT
<1>11. CASE n = 9
  BY <1>11, SMT
<1>12. CASE n = 10
  BY <1>12, SMT
<1>13. CASE n = 11
  BY <1>13, SMT
<1>14. CASE n = 12
  BY <1>14, SMT
<1>15. CASE n = 13
  BY <1>15, SMT
<1>16. CASE n = 14
  BY <1>16, SMT
<1>17. CASE n = 15
  BY <1>17, SMT
<1> QED
  BY <1>1, <1>2, <1>3, <1>4, <1>5, <1>6, <1>7, <1>8, <1>9,
     <1>10, <1>11, <1>12, <1>13, <1>14, <1>15, <1>16, <1>17

\* retry_backoff is shortest after the first attempt, and never above the cap.
LEMMA BackoffBounds ==
  /\ Backoff(1) = Base
  /\ \A a \in Nat : Backoff(a) \in Base..Cap
<1> USE DeliveryAssumption
<1>1. \A n \in 0..15 : Base * 2^n \in Nat /\ Base * 2^n >= Base
  <2> SUFFICES ASSUME NEW n \in 0..15 PROVE Base * 2^n \in Nat /\ Base * 2^n >= Base
    OBVIOUS
  <2> DEFINE p == 2^n
  <2>1. p \in Nat /\ p >= 1
    BY SmallPowers
  <2> HIDE DEF p
  <2>2. Base * p \in Nat /\ Base * p >= Base
    BY <2>1
  <2> QED
    BY <2>2 DEF p
<1>2. Backoff(1) = Base
  <2>1. 2^0 = 1
    BY SMT
  <2>2. Base * 2^0 = Base
    BY <2>1
  <2> QED
    BY <2>2 DEF Backoff
<1>3. ASSUME NEW a \in Nat PROVE Backoff(a) \in Base..Cap
  <2> DEFINE n == IF a < 1 THEN 0 ELSE IF a > 16 THEN 15 ELSE a - 1
             d == Base * 2^n
  <2>1. n \in 0..15
    OBVIOUS
  <2>2. d \in Nat /\ d >= Base
    BY <1>1, <2>1
  <2>3. Backoff(a) = IF d < Cap THEN d ELSE Cap
    BY DEF Backoff
  <2> HIDE DEF d
  <2> QED
    BY <2>2, <2>3
<1> QED
  BY <1>2, <1>3

-----------------------------------------------------------------------------
(* What the loops hold.                                                    *)

Job == Row \X (1..MaxAttempts)
Seen == Row \X (0..MaxAttempts - 1)
Outcomes == {"ok", "failed", "refused"}

WorkerRecord ==
  [pc : {"idle", "claiming", "sending", "recording"}, age : 0..Backoff(1),
   due : SUBSET Seen, held : SUBSET Job,
   job : Job \cup {<<>>}, outcome : Outcomes \cup {"none"}]

\* The claims of a loop whose record is x.
Holding(x) == x.held \cup (IF x.pc = "recording" THEN {x.job} ELSE {})

\* A loop deals with a row once: it read it once, holds one claim on it, and
\* drops what it read when it claims.
Neat(x) ==
  /\ x \in WorkerRecord
  /\ x.pc = "idle" => x.due = {} /\ x.held = {}
  /\ x.pc = "recording" => x.job \in Job /\ x.outcome \in Outcomes
  /\ \A d, e \in x.due : d[1] = e[1] => d = e
  /\ \A a, b \in Holding(x) : a[1] = b[1] => a = b
  /\ \A d \in x.due, a \in Holding(x) : d[1] # a[1]

\* A row is in the table, and a loop knows of it, only after its announcement.
Of(x, stops) == \A d \in x.due \cup Holding(x) : d[1][1] \in stops

Typed ==
  /\ announced \subseteq Stops
  /\ row \in [Row -> RowType]
  /\ worker \in [Workers -> WorkerRecord]
  /\ posts \in [Row -> Nat]
  /\ faults \in 0..MaxFaults
  /\ \A w \in Workers : Neat(worker[w]) /\ Of(worker[w], announced)
  /\ \A r \in Row : r[1] \notin announced => ~row[r].queued /\ posts[r] = 0

\* The wait a claim places is the base of the back-off.
LEMMA HoldPositive == Backoff(1) \in Nat \ {0} /\ Backoff(1) =< Cap /\ Far \in Nat /\ Far > Cap
  BY BackoffBounds, DeliveryAssumption DEF Far

\* A loop that does nothing holds nothing.
LEMMA IdleNeat == Neat(Idle) /\ (\A stops : Of(Idle, stops))
                  /\ Holding(Idle) = {} /\ Idle.due = {} /\ Idle.held = {}
  BY HoldPositive DEF Neat, Idle, WorkerRecord, Holding, Of, Outcomes

\* A loop writes its own record only.
LEMMA WorkerTypes ==
  ASSUME Typed, NEW w \in Workers, NEW x, Neat(x), Of(x, announced),
         worker' = [worker EXCEPT ![w] = x], UNCHANGED announced
  PROVE  /\ worker' \in [Workers -> WorkerRecord]
         /\ \A v \in Workers : Neat(worker'[v]) /\ Of(worker'[v], announced')
  BY DEF Typed, Neat

LEMMA FaultType ==
  ASSUME Typed, Fault
  PROVE  faults' \in 0..MaxFaults /\ faults' = faults + 1 /\ faults \in Nat
  BY DeliveryAssumption DEF Typed, Fault

-----------------------------------------------------------------------------
(* The records the loop's steps write.                                     *)

Reading(batch) == [Idle EXCEPT !.pc = "claiming", !.due = {<<r, row[r].attempts>> : r \in batch}]

LEMMA SelectNeat ==
  ASSUME Typed, NEW batch, batch \subseteq Due
  PROVE  /\ Neat(Reading(batch)) /\ Of(Reading(batch), announced)
         /\ Holding(Reading(batch)) = {} /\ Reading(batch).age = 0 /\ Reading(batch).held = {}
         /\ \A d \in Reading(batch).due : d[1] \in Due /\ d[2] = row[d[1]].attempts
<1> DEFINE x == Reading(batch)
<1>0. \A r \in batch : r \in Row /\ row[r] \in RowType /\ row[r].attempts < MaxAttempts
                       /\ row[r].queued
  BY DEF Typed, Due
<1>1. x.pc = "claiming" /\ x.age = 0 /\ x.held = {} /\ x.job = <<>> /\ x.outcome = "none"
      /\ x.due = {<<r, row[r].attempts>> : r \in batch}
  BY DEF Reading, Idle
<1>2. \A d \in x.due : d[1] \in batch /\ d[2] = row[d[1]].attempts /\ d = <<d[1], d[2]>>
  BY <1>1
<1>3. x.due \subseteq Seen
  <2>1. \A r \in batch : row[r].attempts \in 0..MaxAttempts - 1
    BY <1>0, DeliveryAssumption DEF RowType
  <2> QED
    BY <1>0, <1>1, <2>1 DEF Seen
<1>4. x \in WorkerRecord
  <2> DEFINE D == {<<r, row[r].attempts>> : r \in batch}
  <2>1. x = [Idle EXCEPT !.pc = "claiming", !.due = D] /\ D \subseteq Seen
    BY <1>1, <1>3 DEF Reading
  <2> HIDE DEF D
  <2>2. Idle \in WorkerRecord
    BY IdleNeat DEF Neat
  <2> QED
    BY <2>1, <2>2 DEF WorkerRecord
<1>5. Holding(x) = {}
  BY <1>1 DEF Holding
<1>6. Neat(x)
  BY <1>1, <1>2, <1>4, <1>5 DEF Neat
<1>7. Of(x, announced)
  BY <1>0, <1>2, <1>5 DEF Of, Typed
<1> QED
  BY <1>1, <1>2, <1>5, <1>6, <1>7


Claiming(w, d, new) ==
  [worker[w] EXCEPT !.due = worker[w].due \ {d}, !.held = worker[w].held \cup new,
                    !.pc = After(worker[w].due \ {d}, worker[w].held \cup new)]

\* A claim moves a row from what was read to what is held, or drops it.
LEMMA ClaimNeat ==
  ASSUME Typed, NEW w \in Workers, worker[w].pc = "claiming",
         NEW d \in worker[w].due, NEW new, new = {} \/ new = {<<d[1], d[2] + 1>>}
  PROVE  /\ Neat(Claiming(w, d, new)) /\ Of(Claiming(w, d, new), announced)
         /\ Holding(Claiming(w, d, new)) = Holding(worker[w]) \cup new
         /\ Claiming(w, d, new).held = worker[w].held \cup new
         /\ Claiming(w, d, new).due = worker[w].due \ {d}
         /\ Claiming(w, d, new).age = worker[w].age
<1> DEFINE y == worker[w]
           x == Claiming(w, d, new)
<1>0. y \in WorkerRecord /\ Neat(y) /\ Of(y, announced) /\ y.pc = "claiming" /\ d \in y.due
  BY DEF Typed
<1> HIDE DEF x, y
<1>1. x.due = y.due \ {d} /\ x.held = y.held \cup new /\ x.age = y.age /\ x.job = y.job
      /\ x.outcome = y.outcome /\ x.pc \in {"idle", "claiming", "sending"}
      /\ x.pc = After(x.due, x.held)
  BY <1>0 DEF WorkerRecord, After, Claiming, x, y
<1>2. new \subseteq Job
  <2>1. d[1] \in Row /\ d[2] \in 0..MaxAttempts - 1
    BY <1>0 DEF WorkerRecord, Seen
  <2> QED
    BY <2>1, DeliveryAssumption DEF Job
<1>3. x \in WorkerRecord
  BY <1>0, <1>1, <1>2 DEF WorkerRecord, Claiming, x, y
<1>4. Holding(y) = y.held /\ Holding(x) = x.held
  BY <1>0, <1>1 DEF Holding
<1>5. \A a \in new : a[1] = d[1]
  OBVIOUS
<1>6. \A a \in new, b \in new : a = b
  OBVIOUS
<1>7. x.pc = "idle" => x.due = {} /\ x.held = {}
  BY <1>1 DEF After
<1>8. Neat(x)
  <2>1. \A e, f \in x.due : e[1] = f[1] => e = f
    BY <1>0, <1>1 DEF Neat
  <2>2. \A a, b \in Holding(x) : a[1] = b[1] => a = b
    BY <1>0, <1>1, <1>4, <1>5, <1>6 DEF Neat
  <2>3. \A e \in x.due, a \in Holding(x) : e[1] # a[1]
    BY <1>0, <1>1, <1>4, <1>5 DEF Neat
  <2> QED
    BY <1>1, <1>3, <1>7, <2>1, <2>2, <2>3 DEF Neat
<1>9. Of(x, announced)
  BY <1>0, <1>1, <1>4, <1>5 DEF Of
<1> QED
  BY <1>1, <1>4, <1>8, <1>9 DEF x, y

Sending(w, h, outcome) ==
  [worker[w] EXCEPT !.held = worker[w].held \ {h}, !.job = h, !.pc = "recording",
                    !.outcome = outcome]

\* Sending moves a claim from the batch to the job; the loop holds the same.
LEMMA TakeNeat ==
  ASSUME Typed, NEW w \in Workers, worker[w].pc = "sending",
         NEW h \in worker[w].held, NEW outcome \in Outcomes
  PROVE  /\ Neat(Sending(w, h, outcome)) /\ Of(Sending(w, h, outcome), announced)
         /\ Holding(Sending(w, h, outcome)) = Holding(worker[w])
         /\ Sending(w, h, outcome).held = worker[w].held \ {h}
         /\ Sending(w, h, outcome).due = worker[w].due
         /\ Sending(w, h, outcome).age = worker[w].age
         /\ h \in Job /\ \A g \in Sending(w, h, outcome).held : g[1] # h[1]
<1> DEFINE y == worker[w]
           x == Sending(w, h, outcome)
<1>0. y \in WorkerRecord /\ Neat(y) /\ Of(y, announced) /\ y.pc = "sending" /\ h \in y.held
  BY DEF Typed
<1> HIDE DEF x, y
<1>1. x.due = y.due /\ x.held = y.held \ {h} /\ x.age = y.age /\ x.job = h
      /\ x.outcome = outcome /\ x.pc = "recording" /\ h \in Job
  BY <1>0 DEF WorkerRecord, Sending, x, y
<1>2. x \in WorkerRecord
  BY <1>0, <1>1 DEF WorkerRecord, Sending, x, y
<1>3. Holding(y) = y.held /\ Holding(x) = Holding(y)
  BY <1>0, <1>1 DEF Holding
<1>4. Neat(x)
  BY <1>0, <1>1, <1>2, <1>3 DEF Neat
<1>5. Of(x, announced)
  BY <1>0, <1>1, <1>3 DEF Of
<1>6. \A g \in x.held : g[1] # h[1]
  BY <1>0, <1>1, <1>3 DEF Neat
<1> QED
  BY <1>1, <1>3, <1>4, <1>5, <1>6 DEF x, y

\* After a job the loop holds the rest of its batch.
LEMMA FreeNeat ==
  ASSUME Typed, NEW w \in Workers, worker[w].pc = "recording", worker' = Free(w)
  PROVE  \E x : /\ worker' = [worker EXCEPT ![w] = x]
                /\ Neat(x) /\ Of(x, announced)
                /\ Holding(x) \subseteq Holding(worker[w])
                /\ x.held = worker[w].held /\ x.due \subseteq worker[w].due
                /\ Holding(x) # {} \/ x.due # {} => x.age = worker[w].age
<1> DEFINE y == worker[w]
           z == [y EXCEPT !.pc = "sending", !.job = <<>>, !.outcome = "none"]
<1>0. y \in WorkerRecord /\ Neat(y) /\ Of(y, announced) /\ y.pc = "recording"
  BY DEF Typed
<1>1. CASE y.held = {}
  <2>1. worker' = [worker EXCEPT ![w] = Idle]
    BY <1>1 DEF Free
  <2> QED
    BY <1>1, <2>1, IdleNeat
<1>2. CASE y.held # {}
  <2>1. worker' = [worker EXCEPT ![w] = z]
    BY <1>2 DEF Free
  <2> HIDE DEF y
  <2>2. z.due = y.due /\ z.held = y.held /\ z.age = y.age /\ z.pc = "sending"
    BY <1>0 DEF WorkerRecord
  <2>3. z \in WorkerRecord
    BY <1>0 DEF WorkerRecord
  <2> HIDE DEF z
  <2>4. Holding(z) = y.held /\ y.held \subseteq Holding(y)
    BY <2>2 DEF Holding
  <2>5. Neat(z)
    BY <1>0, <2>2, <2>3, <2>4 DEF Neat
  <2>6. Of(z, announced)
    BY <1>0, <2>2, <2>4 DEF Of
  <2> QED
    BY <2>1, <2>2, <2>4, <2>5, <2>6 DEF y
<1> QED
  BY <1>1, <1>2


-----------------------------------------------------------------------------
(* The rows the steps write.                                               *)

\* The row a won claim leaves.
LEMMA ClaimRow ==
  ASSUME Typed, NEW w \in Workers, NEW d \in worker[w].due, Claims(d[1], d[2]),
         row' = [row EXCEPT ![d[1]].attempts = @ + 1,
                            ![d[1]].wait = Backoff(1) - worker[w].age,
                            ![d[1]].idle = 0]
  PROVE  /\ d[1] \in Row /\ row' \in [Row -> RowType]
         /\ \A r \in Row : r # d[1] => row'[r] = row[r]
         /\ row[d[1]].queued /\ ~row[d[1]].delivered /\ row[d[1]].attempts = d[2]
         /\ row'[d[1]].queued /\ ~row'[d[1]].delivered
         /\ row'[d[1]].attempts = d[2] + 1
         /\ row'[d[1]].wait = Backoff(1) - worker[w].age
<1> DEFINE r == d[1]
           n == Backoff(1) - worker[w].age
<1>1. r \in Row /\ row[r] \in RowType /\ d[2] \in 0..MaxAttempts - 1
  BY DEF Typed, WorkerRecord, Seen
<1>2. n \in 0..Far
  <2>1. worker[w].age \in 0..Backoff(1)
    BY DEF Typed, WorkerRecord
  <2> QED
    BY <2>1, HoldPositive, DeliveryAssumption
<1>3. row[r].queued /\ ~row[r].delivered /\ row[r].attempts = d[2]
  BY DEF Claims
<1>4. row' = [row EXCEPT ![r] = [row[r] EXCEPT !.attempts = @ + 1, !.wait = n, !.idle = 0]]
  BY <1>1 DEF Typed
<1> HIDE DEF r, n
<1>5. row[r].attempts + 1 \in 0..MaxAttempts /\ 0 \in 0..Retention + 1
  BY <1>1, <1>3, DeliveryAssumption
<1>6. [row[r] EXCEPT !.attempts = @ + 1, !.wait = n, !.idle = 0] \in RowType
  BY <1>1, <1>2, <1>5 DEF RowType
<1>7. row'[r] = [row[r] EXCEPT !.attempts = @ + 1, !.wait = n, !.idle = 0]
  BY <1>1, <1>4 DEF Typed
<1>8. row' \in [Row -> RowType] /\ \A q \in Row : q # r => row'[q] = row[q]
  BY <1>1, <1>4, <1>6 DEF Typed
<1>9. row'[r].queued = row[r].queued /\ row'[r].delivered = row[r].delivered
      /\ row'[r].attempts = row[r].attempts + 1 /\ row'[r].wait = n
  BY <1>1, <1>7 DEF RowType
<1> QED
  BY <1>1, <1>3, <1>8, <1>9 DEF r, n

\* Writing down how an attempt went leaves the count, and never shortens a hold
\* below the one a claim places.
LEMMA RecordRow ==
  ASSUME Typed, NEW w \in Workers, worker[w].pc = "recording",
         row' = Written(worker[w].job[1],
                        Marked(worker[w].job[1], worker[w].job[2], worker[w].outcome))
  PROVE  /\ row' \in [Row -> RowType]
         /\ \A r \in Row :
              /\ row'[r].queued = row[r].queued /\ row'[r].attempts = row[r].attempts
              /\ row[r].delivered => row'[r].delivered
              /\ row'[r].wait = row[r].wait \/ row'[r].wait >= Backoff(1)
<1> DEFINE r == worker[w].job[1]
           a == worker[w].job[2]
           o == worker[w].outcome
<1>1. r \in Row /\ a \in 1..MaxAttempts /\ o \in Outcomes /\ row[r] \in RowType
  BY DEF Typed, Neat, Job
<1>2. row' = Written(r, Marked(r, a, o))
  OBVIOUS
<1> HIDE DEF r, a, o
<1>3. Backoff(a) \in 0..Far /\ Backoff(a) >= Backoff(1) /\ Far >= Backoff(1) /\ Far \in 0..Far
  <2>1. a \in Nat
    BY <1>1, DeliveryAssumption
  <2>2. Backoff(a) \in Base..Cap /\ Backoff(1) = Base
    BY <2>1, BackoffBounds
  <2> QED
    BY <2>2, HoldPositive, DeliveryAssumption
<1>4. 0 \in 0..Retention + 1
  BY DeliveryAssumption
<1> DEFINE m == Marked(r, a, o)
<1>5. /\ m \in RowType /\ m.queued = row[r].queued /\ m.attempts = row[r].attempts
      /\ row[r].delivered => m.delivered
      /\ m.wait = row[r].wait \/ m.wait >= Backoff(1)
  <2>1. CASE o = "ok"
    <3>1. m = [row[r] EXCEPT !.delivered = TRUE, !.idle = 0]
      BY <2>1 DEF Marked
    <3> QED
      BY <1>1, <1>4, <3>1 DEF RowType
  <2>2. CASE o = "failed"
    <3>1. m = [row[r] EXCEPT !.wait = Backoff(a), !.idle = 0]
      BY <2>2 DEF Marked
    <3> QED
      BY <1>1, <1>3, <1>4, <3>1 DEF RowType
  <2>3. CASE o = "refused"
    <3>1. m = [row[r] EXCEPT !.wait = Far, !.idle = 0]
      BY <2>3 DEF Marked
    <3> QED
      BY <1>1, <1>3, <1>4, <3>1 DEF RowType
  <2> QED
    BY <1>1, <2>1, <2>2, <2>3 DEF Outcomes
<1>6. row' = [row EXCEPT ![r] = m] \/ row' = row
  BY <1>2 DEF Written
<1> HIDE DEF m
<1> QED
  BY <1>1, <1>5, <1>6 DEF Typed

\* Time passes for the rows in the table and the loops that run.
LEMMA TickRows ==
  ASSUME Typed, Tick
  PROVE  /\ row' \in [Row -> RowType]
         /\ \A r \in Row :
              /\ row'[r].queued = row[r].queued /\ row'[r].attempts = row[r].attempts
              /\ row'[r].delivered = row[r].delivered
              /\ row'[r].wait \in {row[r].wait, row[r].wait - 1}
<1> SUFFICES ASSUME NEW r \in Row
             PROVE  /\ row'[r] \in RowType
                    /\ row'[r].queued = row[r].queued /\ row'[r].attempts = row[r].attempts
                    /\ row'[r].delivered = row[r].delivered
                    /\ row'[r].wait \in {row[r].wait, row[r].wait - 1}
  BY DEF Tick
<1> DEFINE old == row[r]
           wait == IF old.wait \in 1..Cap THEN old.wait - 1 ELSE old.wait
           idle == Older(old.idle, Retention + 1)
<1>1. old \in RowType
  BY DEF Typed
<1>2. row'[r] = IF ~old.queued THEN old ELSE [old EXCEPT !.wait = wait, !.idle = idle]
  BY <1>1 DEF Tick, RowType
<1> HIDE DEF old
<1>3. wait \in 0..Far /\ wait \in {old.wait, old.wait - 1}
  BY <1>1, HoldPositive, DeliveryAssumption DEF RowType
<1>4. idle \in 0..Retention + 1
  BY <1>1, DeliveryAssumption DEF RowType, Older
<1> HIDE DEF wait, idle
<1>5. [old EXCEPT !.wait = wait, !.idle = idle] \in RowType
  BY <1>1, <1>3, <1>4 DEF RowType
<1> QED
  BY <1>1, <1>2, <1>3, <1>5 DEF old, RowType

LEMMA TickWorkers ==
  ASSUME Typed, Tick
  PROVE  /\ worker' \in [Workers -> WorkerRecord]
         /\ \A w \in Workers :
              /\ Neat(worker'[w]) /\ Of(worker'[w], announced)
              /\ Holding(worker'[w]) = Holding(worker[w])
              /\ worker'[w].due = worker[w].due /\ worker'[w].held = worker[w].held
              /\ worker[w].pc # "idle" =>
                   worker'[w].age = IF worker[w].age < Backoff(1)
                                    THEN worker[w].age + 1 ELSE worker[w].age
<1> SUFFICES ASSUME NEW w \in Workers
             PROVE  /\ Neat(worker'[w]) /\ Of(worker'[w], announced)
                    /\ Holding(worker'[w]) = Holding(worker[w])
                    /\ worker'[w].due = worker[w].due /\ worker'[w].held = worker[w].held
                    /\ worker[w].pc # "idle" =>
                         worker'[w].age = IF worker[w].age < Backoff(1)
                                          THEN worker[w].age + 1 ELSE worker[w].age
  BY DEF Tick, Neat
<1> DEFINE x == worker[w]
           n == IF x.age < Backoff(1) THEN x.age + 1 ELSE x.age
           y == [x EXCEPT !.age = n]
<1>1. x \in WorkerRecord /\ Neat(x) /\ Of(x, announced)
  BY DEF Typed
<1>2. worker'[w] = IF x.pc = "idle" THEN x ELSE y
  BY DEF Tick, Older
<1>3. CASE x.pc = "idle"
  BY <1>1, <1>2, <1>3
<1>4. CASE x.pc # "idle"
  <2>1. worker'[w] = y
    BY <1>2, <1>4
  <2>2. n \in 0..Backoff(1)
    BY <1>1, HoldPositive DEF WorkerRecord
  <2> HIDE DEF x, n
  <2>3. /\ y \in WorkerRecord /\ y.due = x.due /\ y.held = x.held /\ y.job = x.job
        /\ y.pc = x.pc /\ y.outcome = x.outcome /\ y.age = n
    BY <1>1, <2>2 DEF WorkerRecord
  <2> HIDE DEF y
  <2>4. Holding(y) = Holding(x)
    BY <2>3 DEF Holding
  <2>5. Neat(y)
    BY <1>1, <2>3, <2>4 DEF Neat
  <2>6. Of(y, announced)
    BY <1>1, <2>3, <2>4 DEF Of
  <2> QED
    BY <2>1, <2>3, <2>4, <2>5, <2>6 DEF x, n
<1> QED
  BY <1>3, <1>4


-----------------------------------------------------------------------------
LEMMA InitTyped == Init => Typed
<1> SUFFICES ASSUME Init PROVE Typed
  OBVIOUS
<1>1. Absent \in RowType
  BY DeliveryAssumption, HoldPositive DEF Absent, RowType
<1>2. row \in [Row -> RowType] /\ posts \in [Row -> Nat]
  BY <1>1 DEF Init
<1>3. \A r \in Row : ~row[r].queued /\ posts[r] = 0
  BY DEF Init, Absent
<1>4. worker \in [Workers -> WorkerRecord] /\ \A w \in Workers : Neat(worker[w]) /\ Of(worker[w], announced)
  BY IdleNeat DEF Init, Neat
<1> QED
  BY <1>2, <1>3, <1>4, DeliveryAssumption DEF Init, Typed

\* A step that writes one loop and neither rows nor POSTs.
LEMMA LoopTyped ==
  ASSUME Typed, NEW w \in Workers, NEW x, Neat(x), Of(x, announced),
         worker' = [worker EXCEPT ![w] = x], UNCHANGED <<announced, row, posts>>,
         faults' \in 0..MaxFaults
  PROVE  Typed'
<1>1. /\ worker' \in [Workers -> WorkerRecord]
      /\ \A v \in Workers : Neat(worker'[v]) /\ Of(worker'[v], announced')
  BY WorkerTypes
<1> QED
  BY <1>1 DEF Typed, Neat, Of, Holding

\* A lost claim, and a won one, seen from the loop.
LEMMA ClaimShape ==
  ASSUME Typed, NEW w \in Workers, Claim(w)
  PROVE  \E d, new, x :
           /\ d \in worker[w].due
           /\ worker' = [worker EXCEPT ![w] = x]
           /\ Neat(x) /\ Of(x, announced)
           /\ Holding(x) = Holding(worker[w]) \cup new
           /\ x.held = worker[w].held \cup new /\ x.due = worker[w].due \ {d}
           /\ x.age = worker[w].age
           /\ UNCHANGED <<announced, posts, faults>>
           /\ \/ new = {} /\ row' = row
              \/ /\ new = {<<d[1], d[2] + 1>>} /\ Claims(d[1], d[2])
                 /\ row' = [row EXCEPT ![d[1]].attempts = @ + 1,
                                       ![d[1]].wait = Backoff(1) - worker[w].age,
                                       ![d[1]].idle = 0]
<1>1. PICK d \in worker[w].due :
        LET won == Claims(d[1], d[2])
            left == worker[w].due \ {d}
            held == worker[w].held \cup (IF won THEN {<<d[1], d[2] + 1>>} ELSE {})
        IN  /\ worker[w].pc = "claiming"
            /\ row' = IF won
                      THEN [row EXCEPT ![d[1]].attempts = @ + 1,
                                       ![d[1]].wait = Backoff(1) - worker[w].age,
                                       ![d[1]].idle = 0]
                      ELSE row
            /\ worker' = [worker EXCEPT ![w] =
                  [@ EXCEPT !.due = left, !.held = held, !.pc = After(left, held)]]
            /\ UNCHANGED <<announced, posts, faults>>
  BY DEF Claim
<1> DEFINE new == IF Claims(d[1], d[2]) THEN {<<d[1], d[2] + 1>>} ELSE {}
           x == Claiming(w, d, new)
<1>2. worker' = [worker EXCEPT ![w] = x]
  BY <1>1 DEF Typed, Claiming
<1>3. new = {} \/ new = {<<d[1], d[2] + 1>>}
  OBVIOUS
<1>4. /\ Neat(x) /\ Of(x, announced)
      /\ Holding(x) = Holding(worker[w]) \cup new
      /\ x.held = worker[w].held \cup new /\ x.due = worker[w].due \ {d}
      /\ x.age = worker[w].age
  <2>1. worker[w].pc = "claiming"
    BY <1>1
  <2> HIDE DEF new
  <2> QED
    BY <1>3, <2>1, ClaimNeat
<1>5. \/ new = {} /\ row' = row
      \/ /\ new = {<<d[1], d[2] + 1>>} /\ Claims(d[1], d[2])
         /\ row' = [row EXCEPT ![d[1]].attempts = @ + 1,
                               ![d[1]].wait = Backoff(1) - worker[w].age,
                               ![d[1]].idle = 0]
  BY <1>1
<1> HIDE DEF new, x
<1> QED
  BY <1>1, <1>2, <1>4, <1>5

\* The three ways a claim becomes a job.
LEMMA TakeShape ==
  ASSUME Typed, NEW w \in Workers, Refuse(w) \/ SignFails(w) \/ Post(w)
  PROVE  \E h, x :
           /\ h \in worker[w].held
           /\ worker' = [worker EXCEPT ![w] = x]
           /\ Neat(x) /\ Of(x, announced)
           /\ Holding(x) = Holding(worker[w])
           /\ x.held = worker[w].held \ {h} /\ x.due = worker[w].due
           /\ x.age = worker[w].age
           /\ h \in Job /\ \A g \in x.held : g[1] # h[1]
           /\ UNCHANGED <<announced, row>>
           /\ \/ h[1][2] \in Internal /\ UNCHANGED <<posts, faults>>
              \/ Fault /\ UNCHANGED posts
              \/ posts' = [posts EXCEPT ![h[1]] = @ + 1] /\ UNCHANGED faults
<1>1. PICK h \in worker[w].held, outcome \in Outcomes :
        /\ worker[w].pc = "sending" /\ Take(w, h, outcome)
        /\ UNCHANGED <<announced, row>>
        /\ \/ h[1][2] \in Internal /\ UNCHANGED <<posts, faults>>
           \/ Fault /\ UNCHANGED posts
           \/ posts' = [posts EXCEPT ![h[1]] = @ + 1] /\ UNCHANGED faults
  BY DEF Refuse, SignFails, Post, Outcomes
<1> DEFINE x == Sending(w, h, outcome)
<1>2. worker' = [worker EXCEPT ![w] = x]
  BY <1>1 DEF Take, Typed, Sending
<1>3. /\ Neat(x) /\ Of(x, announced)
      /\ Holding(x) = Holding(worker[w])
      /\ x.held = worker[w].held \ {h} /\ x.due = worker[w].due
      /\ x.age = worker[w].age
      /\ h \in Job /\ \A g \in x.held : g[1] # h[1]
  <2>1. worker[w].pc = "sending"
    BY <1>1
  <2> QED
    BY <2>1, TakeNeat
<1> HIDE DEF x
<1> QED
  BY <1>1, <1>2, <1>3


LEMMA StepTyped == Typed /\ [Next]_vars => Typed'
<1> SUFFICES ASSUME Typed, [Next]_vars PROVE Typed'
  OBVIOUS
<1>0. Absent \in RowType /\ Fresh \in RowType /\ ~Absent.queued
  <2>1. Absent \in RowType /\ ~Absent.queued
    BY DeliveryAssumption, HoldPositive DEF Absent, RowType
  <2> QED
    BY <2>1 DEF Fresh, RowType
<1>1. ASSUME NEW s \in Stops, Announce(s) PROVE Typed'
  <2>1. PICK listed \in SUBSET Clients \ {{}} :
          row' = [r \in Row |-> IF r[1] = s /\ r[2] \in listed THEN Fresh ELSE row[r]]
    BY <1>1 DEF Announce
  <2>2. row' \in [Row -> RowType]
    BY <1>0, <2>1 DEF Typed
  <2>3. \A w \in Workers : Of(worker[w], announced')
    BY <1>1 DEF Announce, Typed, Of
  <2>4. \A r \in Row : r[1] \notin announced' => ~row'[r].queued /\ posts'[r] = 0
    BY <1>1, <2>1 DEF Announce, Typed
  <2> QED
    BY <1>1, <2>2, <2>3, <2>4 DEF Announce, Typed
<1>2. ASSUME NEW s \in Stops, AnnounceFails(s) PROVE Typed'
  <2>1. \A w \in Workers : Of(worker[w], announced')
    BY <1>2 DEF AnnounceFails, Typed, Of
  <2> QED
    BY <1>2, <2>1, FaultType DEF AnnounceFails, Typed
<1>3. ASSUME NEW w \in Workers, Select(w) PROVE Typed'
  <2>1. PICK batch \in SUBSET Due : worker' = [worker EXCEPT ![w] = Reading(batch)]
    BY <1>3 DEF Select, Reading
  <2>2. faults' \in 0..MaxFaults
    BY <1>3 DEF Select, Typed
  <2> QED
    BY <1>3, <2>1, <2>2, SelectNeat, LoopTyped DEF Select
<1>4. ASSUME NEW w \in Workers, Claim(w) PROVE Typed'
  <2>1. PICK d, new, x :
           /\ d \in worker[w].due
           /\ worker' = [worker EXCEPT ![w] = x]
           /\ Neat(x) /\ Of(x, announced)
           /\ UNCHANGED <<announced, posts, faults>>
           /\ \/ row' = row
              \/ /\ Claims(d[1], d[2])
                 /\ row' = [row EXCEPT ![d[1]].attempts = @ + 1,
                                       ![d[1]].wait = Backoff(1) - worker[w].age,
                                       ![d[1]].idle = 0]
    BY <1>4, ClaimShape
  <2>2. CASE row' = row
    <3>1. faults' \in 0..MaxFaults
      BY <2>1 DEF Typed
    <3> QED
      BY <2>1, <2>2, <3>1, LoopTyped
  <2>3. CASE row' # row
    <3>1. /\ worker' \in [Workers -> WorkerRecord]
          /\ \A v \in Workers : Neat(worker'[v]) /\ Of(worker'[v], announced')
      BY <2>1, WorkerTypes
    <3>2. /\ d[1] \in Row /\ row' \in [Row -> RowType]
          /\ \A r \in Row : r # d[1] => row'[r] = row[r]
          /\ row[d[1]].queued
      BY <2>1, <2>3, ClaimRow
    <3>3. d[1][1] \in announced
      BY <2>1 DEF Typed, Of
    <3> QED
      BY <2>1, <3>1, <3>2, <3>3 DEF Typed
  <2> QED
    BY <2>2, <2>3
<1>5. ASSUME NEW w \in Workers, ClaimFails(w) \/ Crash(w) PROVE Typed'
  BY <1>5, IdleNeat, FaultType, LoopTyped DEF ClaimFails, Crash
<1>6. ASSUME NEW w \in Workers, Refuse(w) \/ SignFails(w) \/ Post(w) PROVE Typed'
  <2>1. PICK h, x :
           /\ h \in worker[w].held
           /\ worker' = [worker EXCEPT ![w] = x]
           /\ Neat(x) /\ Of(x, announced) /\ h \in Job
           /\ UNCHANGED <<announced, row>>
           /\ \/ UNCHANGED <<posts, faults>>
              \/ Fault /\ UNCHANGED posts
              \/ posts' = [posts EXCEPT ![h[1]] = @ + 1] /\ UNCHANGED faults
    BY <1>6, TakeShape
  <2>2. /\ worker' \in [Workers -> WorkerRecord]
        /\ \A v \in Workers : Neat(worker'[v]) /\ Of(worker'[v], announced')
    BY <2>1, WorkerTypes
  <2>3. h[1] \in Row /\ h[1][1] \in announced
    BY <2>1 DEF Job, Typed, Of, Holding
  <2>4. faults' \in 0..MaxFaults
    BY <2>1, FaultType DEF Typed
  <2>5. posts' \in [Row -> Nat] /\ \A r \in Row : r # h[1] => posts'[r] = posts[r]
    BY <2>1, <2>3 DEF Typed
  <2> QED
    BY <2>1, <2>2, <2>3, <2>4, <2>5 DEF Typed
<1>7. ASSUME NEW w \in Workers, Record(w) PROVE Typed'
  <2>1. PICK x : worker' = [worker EXCEPT ![w] = x] /\ Neat(x) /\ Of(x, announced)
    BY <1>7, FreeNeat DEF Record
  <2>2. /\ row' \in [Row -> RowType]
        /\ \A r \in Row : row'[r].queued = row[r].queued
    BY <1>7, RecordRow DEF Record
  <2>3. /\ worker' \in [Workers -> WorkerRecord]
        /\ \A v \in Workers : Neat(worker'[v]) /\ Of(worker'[v], announced')
    BY <1>7, <2>1, WorkerTypes DEF Record
  <2> QED
    BY <1>7, <2>2, <2>3 DEF Record, Typed
<1>8. ASSUME NEW w \in Workers, RecordFails(w) PROVE Typed'
  <2>1. PICK x : worker' = [worker EXCEPT ![w] = x] /\ Neat(x) /\ Of(x, announced)
    BY <1>8, FreeNeat DEF RecordFails
  <2> QED
    BY <1>8, <2>1, FaultType, LoopTyped DEF RecordFails
<1>9. CASE Tick
  BY <1>9, TickRows, TickWorkers DEF Tick, Typed
<1>10. CASE PurgeSettled
  BY <1>0, <1>10 DEF PurgeSettled, Typed
<1>11. CASE UNCHANGED vars
  BY <1>11 DEF vars, Typed
<1> QED
  BY <1>1, <1>2, <1>3, <1>4, <1>5, <1>6, <1>7, <1>8, <1>9, <1>10, <1>11 DEF Next, Step

LEMMA AlwaysTyped == Spec => []Typed
  BY InitTyped, StepTyped, PTL DEF Spec

-----------------------------------------------------------------------------
(* Who works on a row.                                                     *)

\* What a claim of a row in the table is worth: it is for an attempt that was
\* counted, a later claim waited for the hold it placed, and while the row is
\* still to be delivered that hold and the claim's age add up.
Guarded(v) ==
  \A a \in Claimed(v) : row[a[1]].queued =>
    /\ a[2] =< row[a[1]].attempts
    /\ a[2] < row[a[1]].attempts => worker[v].age = Backoff(1)
    /\ a[2] = row[a[1]].attempts /\ ~row[a[1]].delivered =>
         row[a[1]].wait + worker[v].age >= Backoff(1)

\* What a loop read is no newer than the row, and if nothing changed since,
\* whoever made the last attempt has outlived its hold.
ReadLate(w) ==
  \A d \in worker[w].due : row[d[1]].queued =>
    /\ d[2] =< row[d[1]].attempts
    /\ d[2] = row[d[1]].attempts /\ ~row[d[1]].delivered =>
         \A v \in Workers : \A a \in Claimed(v) :
           a[1] = d[1] /\ a[2] = d[2] => worker[v].age = Backoff(1)

HoldInv == HeldByOne /\ (\A w \in Workers : Guarded(w) /\ ReadLate(w))

LEMMA ClaimedIsHolding == \A w : Claimed(w) = Holding(worker[w])
  BY DEF Claimed, Holding

LEMMA ClaimedIsHoldingNext == \A w : Claimed(w)' = Holding(worker'[w])
  BY DEF Claimed, Holding

\* Typed facts about one claim and one row that was read.
LEMMA ClaimTypes ==
  ASSUME Typed, NEW w \in Workers
  PROVE  /\ \A a \in Claimed(w) : a \in Job /\ a[1] \in Row /\ a[2] \in Nat /\ a[1][1] \in announced
         /\ \A d \in worker[w].due : d[1] \in Row /\ d[2] \in Nat /\ d[1][1] \in announced
         /\ worker[w].age \in 0..Backoff(1)
         /\ worker[w].pc = "idle" => Claimed(w) = {}
         /\ \A d \in worker[w].due, a \in Claimed(w) : d[1] # a[1]
<1>1. worker[w] \in WorkerRecord /\ Neat(worker[w]) /\ Of(worker[w], announced)
  BY DEF Typed
<1>2. Claimed(w) = Holding(worker[w])
  BY ClaimedIsHolding
<1>3. \A a \in Claimed(w) : a \in Job /\ a[1] \in Row /\ a[2] \in Nat
  <2>1. \A a \in Claimed(w) : a \in Job
    BY <1>1, <1>2 DEF Holding, Neat, WorkerRecord
  <2>2. \A a \in Job : a[1] \in Row /\ a[2] \in Nat
    BY DeliveryAssumption DEF Job
  <2> QED
    BY <2>1, <2>2
<1>4. \A d \in worker[w].due : d[1] \in Row /\ d[2] \in Nat
  <2>1. \A d \in Seen : d[1] \in Row /\ d[2] \in Nat
    BY DeliveryAssumption DEF Seen
  <2> QED
    BY <1>1, <2>1 DEF WorkerRecord
<1> QED
  BY <1>1, <1>2, <1>3, <1>4 DEF Of, Neat, WorkerRecord, Holding

LEMMA RowTypes ==
  ASSUME Typed, NEW r \in Row
  PROVE  row[r].attempts \in Nat /\ row[r].wait \in Nat /\ row[r].attempts =< MaxAttempts
         /\ row[r].queued \in BOOLEAN /\ row[r].delivered \in BOOLEAN
<1>1. row[r] \in RowType
  BY DEF Typed
<1>2. row[r].attempts \in 0..MaxAttempts /\ row[r].wait \in 0..Far
  BY <1>1 DEF RowType
<1> QED
  BY <1>1, <1>2, HoldPositive, DeliveryAssumption DEF RowType

\* A loop's claims and what it read only shrink, and keep their age.
Shrinks(v) ==
  /\ Claimed(v)' \subseteq Claimed(v) /\ worker'[v].due \subseteq worker[v].due
  /\ Claimed(v)' # {} => worker'[v].age = worker[v].age

\* A row is counted as before, and its hold is not cut below a first one.
Keeps(r) ==
  row'[r].queued =>
    /\ row[r].queued /\ row'[r].attempts = row[r].attempts
    /\ row[r].delivered => row'[r].delivered
    /\ row'[r].wait = row[r].wait \/ row'[r].wait >= Backoff(1)

LEMMA QuietHold ==
  ASSUME Typed, Typed', HoldInv, \A v \in Workers : Shrinks(v),
         \A r \in Row : r[1] \in announced => Keeps(r)
  PROVE  HoldInv'
<1> USE HoldPositive
<1>1. HeldByOne'
  BY DEF HeldByOne, HoldInv, Shrinks
<1>2. ASSUME NEW v \in Workers PROVE Guarded(v)'
  <2> SUFFICES ASSUME NEW a \in Claimed(v)', row'[a[1]].queued
               PROVE  /\ a[2] =< row'[a[1]].attempts
                      /\ a[2] < row'[a[1]].attempts => worker'[v].age = Backoff(1)
                      /\ a[2] = row'[a[1]].attempts /\ ~row'[a[1]].delivered =>
                           row'[a[1]].wait + worker'[v].age >= Backoff(1)
    BY DEF Guarded
  <2>1. a \in Claimed(v) /\ worker'[v].age = worker[v].age
    BY DEF Shrinks
  <2>2. a[1] \in Row /\ a[1][1] \in announced /\ worker[v].age \in 0..Backoff(1) /\ a[2] \in Nat
    BY <2>1, ClaimTypes
  <2>3. Keeps(a[1])
    BY <2>2
  <2>4. /\ a[2] =< row[a[1]].attempts
        /\ a[2] < row[a[1]].attempts => worker[v].age = Backoff(1)
        /\ a[2] = row[a[1]].attempts /\ ~row[a[1]].delivered =>
             row[a[1]].wait + worker[v].age >= Backoff(1)
    BY <2>1, <2>3 DEF HoldInv, Guarded, Keeps
  <2>5. row'[a[1]].wait \in Nat
    BY <2>2, HoldPositive DEF Typed, RowType
  <2> QED
    BY <2>1, <2>2, <2>3, <2>4, <2>5 DEF Keeps
<1>3. ASSUME NEW w \in Workers PROVE ReadLate(w)'
  <2> SUFFICES ASSUME NEW d \in worker'[w].due, row'[d[1]].queued
               PROVE  /\ d[2] =< row'[d[1]].attempts
                      /\ d[2] = row'[d[1]].attempts /\ ~row'[d[1]].delivered =>
                           \A v \in Workers : \A a \in Claimed(v)' :
                             a[1] = d[1] /\ a[2] = d[2] => worker'[v].age = Backoff(1)
    BY DEF ReadLate
  <2>1. d \in worker[w].due
    BY DEF Shrinks
  <2>2. Keeps(d[1])
    BY <2>1, ClaimTypes
  <2>3. /\ d[2] =< row[d[1]].attempts
        /\ d[2] = row[d[1]].attempts /\ ~row[d[1]].delivered =>
             \A v \in Workers : \A a \in Claimed(v) :
               a[1] = d[1] /\ a[2] = d[2] => worker[v].age = Backoff(1)
    BY <2>1, <2>2 DEF HoldInv, ReadLate, Keeps
  <2> QED
    BY <2>2, <2>3 DEF Keeps, Shrinks
<1> QED
  BY <1>1, <1>2, <1>3 DEF HoldInv


\* One loop writes its record and shrinks; the others are as they were.
LEMMA LoopShrinks ==
  ASSUME Typed, NEW w \in Workers, NEW x, worker' = [worker EXCEPT ![w] = x],
         Holding(x) \subseteq Holding(worker[w]), x.due \subseteq worker[w].due,
         Holding(x) # {} => x.age = worker[w].age
  PROVE  \A v \in Workers : Shrinks(v)
<1>1. worker'[w] = x /\ \A v \in Workers : v # w => worker'[v] = worker[v]
  BY DEF Typed
<1>2. \A v \in Workers : Claimed(v) = Holding(worker[v]) /\ Claimed(v)' = Holding(worker'[v])
  BY ClaimedIsHolding, ClaimedIsHoldingNext
<1> QED
  BY <1>1, <1>2 DEF Shrinks

\* A loop that reads the due rows: whoever made their last attempt is late.
LEMMA SelectHold ==
  ASSUME Typed, Typed', HoldInv, NEW w \in Workers, Select(w)
  PROVE  HoldInv'
<1> USE HoldPositive
<1>1. PICK batch \in SUBSET Due : worker' = [worker EXCEPT ![w] = Reading(batch)]
  BY DEF Select, Reading
<1>2. /\ worker'[w] = Reading(batch) /\ Claimed(w)' = {}
      /\ \A d \in worker'[w].due : d[1] \in Due /\ d[2] = row[d[1]].attempts
  BY <1>1, SelectNeat, ClaimedIsHoldingNext DEF Typed
<1>3. \A v \in Workers : v # w => worker'[v] = worker[v] /\ Claimed(v)' = Claimed(v)
  BY <1>1, ClaimedIsHolding, ClaimedIsHoldingNext DEF Typed
<1>4. row' = row
  BY DEF Select
<1>5. HeldByOne'
  BY <1>2, <1>3 DEF HeldByOne, HoldInv
<1>6. \A v \in Workers : Guarded(v)'
  BY <1>2, <1>3, <1>4 DEF Guarded, HoldInv
<1>7. ASSUME NEW v \in Workers PROVE ReadLate(v)'
  <2>1. CASE v # w
    BY <1>2, <1>3, <1>4, <2>1 DEF ReadLate, HoldInv
  <2>2. CASE v = w
    <3> SUFFICES ASSUME NEW d \in worker'[w].due
                 PROVE  /\ d[2] =< row[d[1]].attempts
                        /\ \A u \in Workers : \A a \in Claimed(u)' :
                             a[1] = d[1] /\ a[2] = d[2] => worker'[u].age = Backoff(1)
      BY <1>4, <2>2 DEF ReadLate
    <3>1. /\ d[1] \in Row /\ row[d[1]].queued /\ ~row[d[1]].delivered /\ row[d[1]].wait = 0
          /\ d[2] = row[d[1]].attempts
      BY <1>2 DEF Due
    <3>2. d[2] =< row[d[1]].attempts
      BY <3>1, RowTypes
    <3>3. ASSUME NEW u \in Workers, NEW a \in Claimed(u)', a[1] = d[1], a[2] = d[2]
          PROVE  worker'[u].age = Backoff(1)
      <4>1. u # w /\ worker'[u] = worker[u] /\ a \in Claimed(u)
        BY <1>2, <1>3, <3>3
      <4>2. row[d[1]].wait + worker[u].age >= Backoff(1)
        BY <3>1, <3>3, <4>1 DEF HoldInv, Guarded
      <4>3. worker[u].age \in 0..Backoff(1)
        BY ClaimTypes
      <4> QED
        BY <3>1, <4>1, <4>2, <4>3
    <3> QED
      BY <3>2, <3>3
  <2> QED
    BY <2>1, <2>2
<1> QED
  BY <1>5, <1>6, <1>7 DEF HoldInv

\* A won claim: the others that hold the row are late, and nobody has read it
\* as it is now.
LEMMA ClaimHold ==
  ASSUME Typed, Typed', HoldInv, NEW w \in Workers, Claim(w)
  PROVE  HoldInv'
<1> USE HoldPositive
<1>1. PICK d, new, x :
           /\ d \in worker[w].due
           /\ worker' = [worker EXCEPT ![w] = x]
           /\ Neat(x) /\ Of(x, announced)
           /\ Holding(x) = Holding(worker[w]) \cup new
           /\ x.held = worker[w].held \cup new /\ x.due = worker[w].due \ {d}
           /\ x.age = worker[w].age
           /\ UNCHANGED <<announced, posts, faults>>
           /\ \/ new = {} /\ row' = row
              \/ /\ new = {<<d[1], d[2] + 1>>} /\ Claims(d[1], d[2])
                 /\ row' = [row EXCEPT ![d[1]].attempts = @ + 1,
                                       ![d[1]].wait = Backoff(1) - worker[w].age,
                                       ![d[1]].idle = 0]
  BY ClaimShape
<1>2. CASE new = {} /\ row' = row
  <2>1. \A v \in Workers : Shrinks(v)
    BY <1>1, <1>2, LoopShrinks
  <2>2. \A r \in Row : Keeps(r)
    BY <1>2 DEF Keeps
  <2> QED
    BY <2>1, <2>2, QuietHold
<1>3. CASE /\ new = {<<d[1], d[2] + 1>>} /\ Claims(d[1], d[2])
           /\ row' = [row EXCEPT ![d[1]].attempts = @ + 1,
                                 ![d[1]].wait = Backoff(1) - worker[w].age,
                                 ![d[1]].idle = 0]
  <2> DEFINE r == d[1]
             n == d[2]
             mine == <<r, n + 1>>
  <2>1. /\ r \in Row /\ n \in Nat /\ row[r].queued /\ ~row[r].delivered /\ row[r].attempts = n
        /\ row'[r].queued /\ ~row'[r].delivered /\ row'[r].attempts = n + 1
        /\ row'[r].wait = Backoff(1) - worker[w].age
        /\ \A q \in Row : q # r => row'[q] = row[q]
    BY <1>1, <1>3, ClaimRow, ClaimTypes
  <2>2. /\ Claimed(w)' = Claimed(w) \cup {mine} /\ worker'[w].age = worker[w].age
        /\ worker'[w].due \subseteq worker[w].due
        /\ \A v \in Workers : v # w => worker'[v] = worker[v] /\ Claimed(v)' = Claimed(v)
    BY <1>1, <1>3, ClaimedIsHolding, ClaimedIsHoldingNext DEF Typed
  <2>3. \A v \in Workers : worker'[v].age = worker[v].age /\ worker'[v].due \subseteq worker[v].due
    BY <2>2
  <2>4. \A a \in Claimed(w) : a[1] # r
    BY <1>1, ClaimTypes
  <2>5. \A v \in Workers : \A a \in Claimed(v) : a[1] = r =>
          a[2] =< n /\ worker[v].age = Backoff(1)
    <3> SUFFICES ASSUME NEW v \in Workers, NEW a \in Claimed(v), a[1] = r
                 PROVE  a[2] =< n /\ worker[v].age = Backoff(1)
      OBVIOUS
    <3>1. a[2] =< n /\ (a[2] < n => worker[v].age = Backoff(1))
      BY <2>1 DEF HoldInv, Guarded
    <3>2. a[2] = n => worker[v].age = Backoff(1)
      BY <1>1, <2>1 DEF HoldInv, ReadLate
    <3>3. a[2] \in Nat
      BY ClaimTypes
    <3> QED
      BY <2>1, <3>1, <3>2, <3>3
  <2>6. mine[1] = r /\ mine[2] = n + 1
    OBVIOUS
  <2> HIDE DEF r, n, mine
  <2>7. HeldByOne'
    <3> SUFFICES ASSUME NEW u \in Workers, NEW v \in Workers, u # v,
                        NEW a \in Claimed(u)', NEW b \in Claimed(v)', a[1] = b[1]
                 PROVE  a[2] # b[2] /\ (a[2] < b[2] => worker'[u].age = Backoff(1))
      BY DEF HeldByOne
    <3>1. CASE a \in Claimed(u) /\ b \in Claimed(v)
      BY <2>3, <3>1 DEF HoldInv, HeldByOne
    <3>2. CASE u = w /\ a = mine
      <4>1. b \in Claimed(v) /\ b[1] = r /\ b[2] =< n /\ b[2] \in Nat
        BY <2>2, <2>5, <2>6, <3>2, ClaimTypes
      <4> QED
        BY <2>1, <2>6, <3>2, <4>1
    <3>3. CASE v = w /\ b = mine
      <4>1. a \in Claimed(u) /\ a[1] = r /\ a[2] =< n /\ a[2] \in Nat /\ worker[u].age = Backoff(1)
        BY <2>2, <2>5, <2>6, <3>3, ClaimTypes
      <4> QED
        BY <2>1, <2>3, <2>6, <3>3, <4>1
    <3> QED
      BY <2>2, <3>1, <3>2, <3>3
  <2>8. ASSUME NEW v \in Workers PROVE Guarded(v)'
    <3> SUFFICES ASSUME NEW a \in Claimed(v)', row'[a[1]].queued
                 PROVE  /\ a[2] =< row'[a[1]].attempts
                        /\ a[2] < row'[a[1]].attempts => worker'[v].age = Backoff(1)
                        /\ a[2] = row'[a[1]].attempts /\ ~row'[a[1]].delivered =>
                             row'[a[1]].wait + worker'[v].age >= Backoff(1)
      BY DEF Guarded
    <3>1. CASE a \in Claimed(v) /\ a[1] # r
      <4>1. row'[a[1]] = row[a[1]]
        BY <2>1, <3>1, ClaimTypes
      <4> QED
        BY <2>3, <3>1, <4>1 DEF HoldInv, Guarded
    <3>2. CASE a \in Claimed(v) /\ a[1] = r
      <4>1. a[2] =< n /\ a[2] \in Nat /\ worker[v].age = Backoff(1)
        BY <2>5, <3>2, ClaimTypes
      <4> QED
        BY <2>1, <2>3, <3>2, <4>1
    <3>3. CASE v = w /\ a = mine
      <4>1. worker[w].age \in 0..Backoff(1)
        BY ClaimTypes
      <4> QED
        BY <2>1, <2>3, <2>6, <3>3, <4>1
    <3> QED
      BY <2>2, <3>1, <3>2, <3>3
  <2>9. ASSUME NEW v \in Workers PROVE ReadLate(v)'
    <3> SUFFICES ASSUME NEW e \in worker'[v].due, row'[e[1]].queued
                 PROVE  /\ e[2] =< row'[e[1]].attempts
                        /\ e[2] = row'[e[1]].attempts /\ ~row'[e[1]].delivered =>
                             \A u \in Workers : \A a \in Claimed(u)' :
                               a[1] = e[1] /\ a[2] = e[2] => worker'[u].age = Backoff(1)
      BY DEF ReadLate
    <3>1. e \in worker[v].due /\ e[1] \in Row /\ e[2] \in Nat
      BY <2>3, ClaimTypes
    <3>2. CASE e[1] = r
      <4>1. e[2] =< n
        BY <2>1, <3>1, <3>2 DEF HoldInv, ReadLate
      <4> QED
        BY <2>1, <3>1, <3>2, <4>1
    <3>3. CASE e[1] # r
      <4>1. row'[e[1]] = row[e[1]]
        BY <2>1, <3>1, <3>3
      <4>2. \A u \in Workers : \A a \in Claimed(u)' : a[1] = e[1] => a \in Claimed(u)
        BY <2>2, <2>6, <3>3
      <4> QED
        BY <2>3, <3>1, <4>1, <4>2 DEF HoldInv, ReadLate
    <3> QED
      BY <3>2, <3>3
  <2> QED
    BY <2>7, <2>8, <2>9 DEF HoldInv
<1> QED
  BY <1>1, <1>2, <1>3

\* A tick takes from a hold what it adds to the age of the claim.
LEMMA TickHold ==
  ASSUME Typed, Typed', HoldInv, Tick
  PROVE  HoldInv'
<1> USE HoldPositive
<1>1. \A v \in Workers : Claimed(v)' = Claimed(v) /\ worker'[v].due = worker[v].due
  BY TickWorkers, ClaimedIsHolding, ClaimedIsHoldingNext
<1>2. \A v \in Workers : Claimed(v) # {} =>
        /\ worker[v].age \in 0..Backoff(1)
        /\ worker'[v].age = IF worker[v].age < Backoff(1)
                            THEN worker[v].age + 1 ELSE worker[v].age
  BY TickWorkers, ClaimTypes
<1>3. \A v \in Workers : Claimed(v) # {} /\ worker[v].age = Backoff(1) => worker'[v].age = Backoff(1)
  BY <1>2
<1>4. \A r \in Row :
        /\ row'[r].queued = row[r].queued /\ row'[r].attempts = row[r].attempts
        /\ row'[r].delivered = row[r].delivered
        /\ row'[r].wait \in {row[r].wait, row[r].wait - 1}
  BY TickRows
<1>5. HeldByOne'
  BY <1>1, <1>3 DEF HoldInv, HeldByOne
<1>6. ASSUME NEW v \in Workers PROVE Guarded(v)'
  <2> SUFFICES ASSUME NEW a \in Claimed(v), row'[a[1]].queued
               PROVE  /\ a[2] =< row'[a[1]].attempts
                      /\ a[2] < row'[a[1]].attempts => worker'[v].age = Backoff(1)
                      /\ a[2] = row'[a[1]].attempts /\ ~row'[a[1]].delivered =>
                           row'[a[1]].wait + worker'[v].age >= Backoff(1)
    BY <1>1 DEF Guarded
  <2>1. a[1] \in Row /\ a[2] \in Nat
    BY ClaimTypes
  <2>2. /\ a[2] =< row[a[1]].attempts
        /\ a[2] < row[a[1]].attempts => worker[v].age = Backoff(1)
        /\ a[2] = row[a[1]].attempts /\ ~row[a[1]].delivered =>
             row[a[1]].wait + worker[v].age >= Backoff(1)
    BY <1>4, <2>1 DEF HoldInv, Guarded
  <2>3. /\ row[a[1]].wait \in Nat /\ worker[v].age \in Nat
        /\ row'[a[1]].wait \in {row[a[1]].wait, row[a[1]].wait - 1} /\ row'[a[1]].wait \in Nat
    <3>1. row'[a[1]] \in RowType
      BY <2>1 DEF Typed
    <3>2. row'[a[1]].wait \in 0..Far
      BY <3>1 DEF RowType
    <3> QED
      BY <1>2, <1>4, <2>1, <3>2, RowTypes
  <2>4. row[a[1]].wait + worker[v].age >= Backoff(1) =>
          row'[a[1]].wait + worker'[v].age >= Backoff(1)
    BY <1>2, <2>3
  <2> QED
    BY <1>3, <1>4, <2>1, <2>2, <2>4
<1>7. ASSUME NEW w \in Workers PROVE ReadLate(w)'
  <2> SUFFICES ASSUME NEW d \in worker[w].due, row'[d[1]].queued
               PROVE  /\ d[2] =< row'[d[1]].attempts
                      /\ d[2] = row'[d[1]].attempts /\ ~row'[d[1]].delivered =>
                           \A v \in Workers : \A a \in Claimed(v) :
                             a[1] = d[1] /\ a[2] = d[2] => worker'[v].age = Backoff(1)
    BY <1>1 DEF ReadLate
  <2>1. d[1] \in Row
    BY ClaimTypes
  <2> QED
    BY <1>3, <1>4, <2>1 DEF HoldInv, ReadLate
<1> QED
  BY <1>5, <1>6, <1>7 DEF HoldInv


LEMMA InitHold == Init => HoldInv
<1> SUFFICES ASSUME Init PROVE HoldInv
  OBVIOUS
<1>1. \A w \in Workers : Claimed(w) = {} /\ worker[w].due = {}
  BY ClaimedIsHolding, IdleNeat DEF Init
<1> QED
  BY <1>1 DEF HoldInv, HeldByOne, Guarded, ReadLate

LEMMA StepHold == Typed /\ Typed' /\ HoldInv /\ [Next]_vars => HoldInv'
<1> SUFFICES ASSUME Typed, Typed', HoldInv, [Next]_vars PROVE HoldInv'
  OBVIOUS
<1>0. /\ UNCHANGED worker => \A v \in Workers : Shrinks(v)
      /\ UNCHANGED row => \A r \in Row : Keeps(r)
  BY DEF Shrinks, Keeps, Claimed
<1>1. ASSUME NEW s \in Stops, Announce(s) PROVE HoldInv'
  <2>1. PICK listed : row' = [r \in Row |-> IF r[1] = s /\ r[2] \in listed THEN Fresh ELSE row[r]]
    BY <1>1 DEF Announce
  <2>2. \A r \in Row : r[1] \in announced => Keeps(r)
    BY <1>1, <2>1 DEF Announce, Keeps
  <2> QED
    BY <1>0, <1>1, <2>2, QuietHold DEF Announce
<1>2. ASSUME NEW s \in Stops, AnnounceFails(s) PROVE HoldInv'
  BY <1>0, <1>2, QuietHold DEF AnnounceFails
<1>3. ASSUME NEW w \in Workers, Select(w) PROVE HoldInv'
  BY <1>3, SelectHold
<1>4. ASSUME NEW w \in Workers, Claim(w) PROVE HoldInv'
  BY <1>4, ClaimHold
<1>5. ASSUME NEW w \in Workers, ClaimFails(w) \/ Crash(w) PROVE HoldInv'
  <2>1. worker' = [worker EXCEPT ![w] = Idle] /\ UNCHANGED row
    BY <1>5 DEF ClaimFails, Crash
  <2>2. \A v \in Workers : Shrinks(v)
    BY <2>1, IdleNeat, LoopShrinks
  <2> QED
    BY <1>0, <2>1, <2>2, QuietHold
<1>6. ASSUME NEW w \in Workers, Refuse(w) \/ SignFails(w) \/ Post(w) PROVE HoldInv'
  <2>1. PICK h, x :
           /\ h \in worker[w].held
           /\ worker' = [worker EXCEPT ![w] = x]
           /\ Holding(x) = Holding(worker[w])
           /\ x.due = worker[w].due
           /\ x.age = worker[w].age
           /\ UNCHANGED <<announced, row>>
    BY <1>6, TakeShape
  <2>2. \A v \in Workers : Shrinks(v)
    BY <2>1, LoopShrinks
  <2> QED
    BY <1>0, <2>1, <2>2, QuietHold
<1>7. ASSUME NEW w \in Workers, Record(w) \/ RecordFails(w) PROVE HoldInv'
  <2>1. PICK x : /\ worker' = [worker EXCEPT ![w] = x]
                 /\ Holding(x) \subseteq Holding(worker[w])
                 /\ x.due \subseteq worker[w].due
                 /\ Holding(x) # {} => x.age = worker[w].age
    BY <1>7, FreeNeat DEF Record, RecordFails
  <2>2. \A v \in Workers : Shrinks(v)
    BY <2>1, LoopShrinks
  <2>3. \A r \in Row : Keeps(r)
    BY <1>0, <1>7, RecordRow DEF Record, RecordFails, Keeps
  <2> QED
    BY <2>2, <2>3, QuietHold
<1>8. CASE Tick
  BY <1>8, TickHold
<1>9. CASE PurgeSettled
  <2>1. \A r \in Row : Keeps(r)
    BY <1>9 DEF PurgeSettled, Keeps, Absent
  <2> QED
    BY <1>0, <1>9, <2>1, QuietHold DEF PurgeSettled
<1>10. CASE UNCHANGED vars
  BY <1>0, <1>10, QuietHold DEF vars
<1> QED
  BY <1>1, <1>2, <1>3, <1>4, <1>5, <1>6, <1>7, <1>8, <1>9, <1>10 DEF Next, Step

(* However many delivery loops overlap, whichever of them crash and however  *)
(* long a batch takes: the compare-and-swap of claim_due gives an attempt  *)
(* to one loop, and a second loop works on a row only when the first has   *)
(* outlived the hold of retry_backoff(1).                                  *)
THEOREM ClaimsAreExclusive == Spec => []HeldByOne
<1>1. HoldInv => HeldByOne
  BY DEF HoldInv
<1> QED
  BY <1>1, InitHold, StepHold, AlwaysTyped, PTL DEF Spec


-----------------------------------------------------------------------------
(* What is still ahead of a row that is marked delivered.                  *)

\* The attempt under way is not in the batch any more.
Apart(w) == worker[w].pc = "recording" => worker[w].job \notin worker[w].held

\* A row marked delivered is in the table, and whoever still holds a claim on
\* it shares it with another attempt.
Reached(r) ==
  row[r].delivered =>
    /\ row[r].queued
    /\ \A w \in Workers : \A a \in Claimed(w) : a[1] = r => row[r].attempts > 1

ReachInv == (\A w \in Workers : Apart(w)) /\ (\A r \in Row : Reached(r))

\* Nothing is marked and nothing is claimed.
LEMMA QuietReach ==
  ASSUME ReachInv, \A w \in Workers : Apart(w)', \A v \in Workers : Claimed(v)' \subseteq Claimed(v),
         \A r \in Row : row'[r].delivered =>
           row[r].delivered /\ row'[r].queued = row[r].queued /\ row'[r].attempts = row[r].attempts
  PROVE  ReachInv'
  BY DEF ReachInv, Reached

\* One loop writes its record; it is not recording, or starts to with a row it
\* took out of its batch.
LEMMA LoopApart ==
  ASSUME Typed, ReachInv, NEW w \in Workers, NEW x, worker' = [worker EXCEPT ![w] = x],
         x.pc = "recording" => x.job \notin x.held
  PROVE  \A v \in Workers : Apart(v)'
  BY DEF Typed, ReachInv, Apart

LEMMA FreeApart ==
  ASSUME Typed, ReachInv, NEW w \in Workers, worker' = Free(w)
  PROVE  \A v \in Workers : Apart(v)'
<1>1. worker[w] \in WorkerRecord
  BY DEF Typed
<1>2. CASE worker[w].held = {}
  <2>1. worker' = [worker EXCEPT ![w] = Idle] /\ Idle.pc = "idle"
    BY <1>2 DEF Free, Idle
  <2> QED
    BY <2>1, LoopApart
<1>3. CASE worker[w].held # {}
  <2> DEFINE z == [worker[w] EXCEPT !.pc = "sending", !.job = <<>>, !.outcome = "none"]
  <2>1. worker' = [worker EXCEPT ![w] = z] /\ z.pc = "sending"
    BY <1>1, <1>3 DEF Free, WorkerRecord
  <2> HIDE DEF z
  <2> QED
    BY <2>1, LoopApart
<1> QED
  BY <1>2, <1>3

\* Marking a row delivered: whoever else holds it made another attempt.
LEMMA RecordReach ==
  ASSUME Typed, HoldInv, ReachInv, NEW w \in Workers, Record(w)
  PROVE  ReachInv'
<1> DEFINE r == worker[w].job[1]
<1>1. worker[w].pc = "recording" /\ worker' = Free(w)
      /\ row' = Written(r, Marked(r, worker[w].job[2], worker[w].outcome))
  BY DEF Record
<1>2. PICK x : /\ worker' = [worker EXCEPT ![w] = x]
               /\ Holding(x) \subseteq Holding(worker[w])
               /\ x.held = worker[w].held /\ Neat(x)
  BY <1>1, FreeNeat
<1>3. \A v \in Workers : Apart(v)'
  BY <1>1, FreeApart
<1>4. \A v \in Workers : Claimed(v)' \subseteq Claimed(v)
  BY <1>2, ClaimedIsHolding, ClaimedIsHoldingNext DEF Typed
<1>5. /\ worker[w].job \in Claimed(w) /\ r \in Row /\ worker[w].job[2] \in Nat
      /\ worker[w].job[2] >= 1
  <2>1. worker[w].job \in Claimed(w)
    BY <1>1 DEF Claimed
  <2>2. worker[w].job \in Job
    BY <1>1 DEF Typed, Neat
  <2> QED
    BY <2>1, <2>2, DeliveryAssumption DEF Job
<1>6. \A q \in Row : row'[q].queued = row[q].queued /\ row'[q].attempts = row[q].attempts
  BY <1>1, RecordRow
<1>7. \A q \in Row : q # r => row'[q] = row[q]
  BY <1>1 DEF Written, Typed
<1>8. ASSUME NEW q \in Row, row'[q].delivered, ~row[q].delivered
      PROVE  q = r /\ row[r].queued
  BY <1>1, <1>7, <1>8 DEF Written
<1>9. ASSUME NEW v \in Workers, NEW a \in Claimed(v)', a[1] = r, row[r].queued
      PROVE  row[r].attempts > 1
  <2>1. a \in Claimed(v) /\ a \in Job /\ a[2] \in Nat /\ row[r].attempts \in Nat
    BY <1>4, <1>5, <1>9, ClaimTypes, RowTypes
  <2>2. a[2] >= 1
    BY <2>1, DeliveryAssumption DEF Job
  <2>3. CASE v = w
    <3>1. a \in Holding(x)
      BY <1>2, <1>9, <2>3, ClaimedIsHoldingNext DEF Typed
    <3>2. worker'[w].pc # "recording"
      <4>1. CASE worker[w].held = {}
        BY <1>1, <4>1 DEF Free, Idle, Typed
      <4>2. CASE worker[w].held # {}
        <5>1. worker[w] \in WorkerRecord
          BY DEF Typed
        <5> QED
          BY <1>1, <4>2, <5>1 DEF Free, Typed, WorkerRecord
      <4> QED
        BY <4>1, <4>2
    <3>3. a \in worker[w].held
      BY <1>2, <3>1, <3>2 DEF Holding, Typed
    <3>4. a = worker[w].job
      BY <1>5, <1>9, <2>1, <2>3, ClaimedIsHolding DEF Typed, Neat
    <3>5. worker[w].job \notin worker[w].held
      BY <1>1 DEF ReachInv, Apart
    <3> QED
      BY <3>3, <3>4, <3>5
  <2>4. CASE v # w
    <3>1. a[2] # worker[w].job[2]
      BY <1>5, <1>9, <2>1, <2>4 DEF HoldInv, HeldByOne
    <3>2. a[2] =< row[r].attempts /\ worker[w].job[2] =< row[r].attempts
      BY <1>5, <1>9, <2>1 DEF HoldInv, Guarded
    <3> HIDE DEF r
    <3> QED
      BY <1>5, <2>1, <2>2, <3>1, <3>2
  <2> QED
    BY <2>3, <2>4
<1> HIDE DEF r
<1>10. ASSUME NEW q \in Row PROVE Reached(q)'
  <2>1. CASE row[q].delivered
    <3>1. Reached(q)
      BY DEF ReachInv
    <3> QED
      BY <1>4, <1>6, <2>1, <3>1 DEF Reached
  <2>2. CASE ~row[q].delivered
    <3> SUFFICES ASSUME row'[q].delivered PROVE Reached(q)'
      BY DEF Reached
    <3>1. q = r /\ row[r].queued
      BY <1>8, <2>2
    <3> QED
      BY <1>6, <1>9, <3>1 DEF Reached
  <2> QED
    BY <2>1, <2>2
<1> QED
  BY <1>3, <1>10 DEF ReachInv

\* A claim is made on a row that is not marked.
LEMMA ClaimReach ==
  ASSUME Typed, ReachInv, NEW w \in Workers, Claim(w)
  PROVE  ReachInv'
<1>1. PICK d, new, x :
           /\ d \in worker[w].due
           /\ worker' = [worker EXCEPT ![w] = x]
           /\ Neat(x) /\ Of(x, announced)
           /\ Holding(x) = Holding(worker[w]) \cup new
           /\ x.held = worker[w].held \cup new /\ x.due = worker[w].due \ {d}
           /\ x.age = worker[w].age
           /\ UNCHANGED <<announced, posts, faults>>
           /\ \/ new = {} /\ row' = row
              \/ /\ new = {<<d[1], d[2] + 1>>} /\ Claims(d[1], d[2])
                 /\ row' = [row EXCEPT ![d[1]].attempts = @ + 1,
                                       ![d[1]].wait = Backoff(1) - worker[w].age,
                                       ![d[1]].idle = 0]
  BY ClaimShape
<1>2. \A v \in Workers : Apart(v)'
  <2>1. worker'[w].pc # "recording"
    <3>1. worker[w] \in WorkerRecord
      BY DEF Typed
    <3> QED
      BY <3>1 DEF Claim, After, Typed, WorkerRecord
  <2>2. worker'[w] = x
    BY <1>1 DEF Typed
  <2> QED
    BY <1>1, <2>1, <2>2, LoopApart
<1>3. \A v \in Workers : Claimed(v)' = Claimed(v) \cup (IF v = w THEN new ELSE {})
  BY <1>1, ClaimedIsHolding, ClaimedIsHoldingNext DEF Typed
<1>4. CASE new = {} /\ row' = row
  BY <1>2, <1>3, <1>4, QuietReach
<1>5. CASE /\ new = {<<d[1], d[2] + 1>>} /\ Claims(d[1], d[2])
           /\ row' = [row EXCEPT ![d[1]].attempts = @ + 1,
                                 ![d[1]].wait = Backoff(1) - worker[w].age,
                                 ![d[1]].idle = 0]
  <2>1. /\ d[1] \in Row /\ ~row'[d[1]].delivered
        /\ \A r \in Row : r # d[1] => row'[r] = row[r]
    BY <1>1, <1>5, ClaimRow
  <2>2. \A a \in new : a[1] = d[1]
    BY <1>5
  <2>3. \A r \in Row : Reached(r)'
    BY <1>3, <2>1, <2>2 DEF ReachInv, Reached
  <2> QED
    BY <1>2, <2>3 DEF ReachInv
<1> QED
  BY <1>1, <1>4, <1>5

LEMMA InitReach == Init => ReachInv
  BY DEF Init, ReachInv, Apart, Reached, Idle, Absent

LEMMA StepReach == Typed /\ HoldInv /\ ReachInv /\ [Next]_vars => ReachInv'
<1> SUFFICES ASSUME Typed, HoldInv, ReachInv, [Next]_vars PROVE ReachInv'
  OBVIOUS
<1>0. UNCHANGED worker => \A v \in Workers : Apart(v)' /\ Claimed(v)' = Claimed(v)
  BY DEF ReachInv, Apart, Claimed
<1>1. ASSUME NEW s \in Stops, Announce(s) PROVE ReachInv'
  <2>1. PICK listed : row' = [r \in Row |-> IF r[1] = s /\ r[2] \in listed THEN Fresh ELSE row[r]]
    BY <1>1 DEF Announce
  <2>2. ~Fresh.delivered
    BY DEF Fresh, Absent
  <2> QED
    BY <1>0, <1>1, <2>1, <2>2, QuietReach DEF Announce
<1>2. ASSUME NEW s \in Stops, AnnounceFails(s) PROVE ReachInv'
  BY <1>0, <1>2, QuietReach DEF AnnounceFails
<1>3. ASSUME NEW w \in Workers, Select(w) PROVE ReachInv'
  <2>1. PICK batch \in SUBSET Due : worker' = [worker EXCEPT ![w] = Reading(batch)]
    BY <1>3 DEF Select, Reading
  <2>2. Holding(Reading(batch)) = {} /\ Reading(batch).pc = "claiming"
    BY SelectNeat DEF Reading, Idle
  <2>3. \A v \in Workers : Apart(v)'
    BY <2>1, <2>2, LoopApart
  <2>4. \A v \in Workers : Claimed(v)' \subseteq Claimed(v)
    BY <2>1, <2>2, ClaimedIsHolding, ClaimedIsHoldingNext DEF Typed
  <2> QED
    BY <1>3, <2>3, <2>4, QuietReach DEF Select
<1>4. ASSUME NEW w \in Workers, Claim(w) PROVE ReachInv'
  BY <1>4, ClaimReach
<1>5. ASSUME NEW w \in Workers, ClaimFails(w) \/ Crash(w) PROVE ReachInv'
  <2>1. worker' = [worker EXCEPT ![w] = Idle] /\ UNCHANGED row /\ Idle.pc = "idle"
    BY <1>5 DEF ClaimFails, Crash, Idle
  <2>2. \A v \in Workers : Apart(v)'
    BY <2>1, LoopApart
  <2>3. \A v \in Workers : Claimed(v)' \subseteq Claimed(v)
    BY <2>1, IdleNeat, ClaimedIsHolding, ClaimedIsHoldingNext DEF Typed
  <2> QED
    BY <2>1, <2>2, <2>3, QuietReach
<1>6. ASSUME NEW w \in Workers, Refuse(w) \/ SignFails(w) \/ Post(w) PROVE ReachInv'
  <2>1. PICK h \in worker[w].held, outcome \in Outcomes : Take(w, h, outcome) /\ UNCHANGED row
    BY <1>6 DEF Refuse, SignFails, Post, Outcomes
  <2>2. worker' = [worker EXCEPT ![w] = Sending(w, h, outcome)]
    BY <2>1 DEF Take, Typed, Sending
  <2>3. worker[w].pc = "sending" /\ worker[w] \in WorkerRecord
    BY <1>6 DEF Refuse, SignFails, Post, Typed
  <2>4. /\ Holding(Sending(w, h, outcome)) = Holding(worker[w])
        /\ Sending(w, h, outcome).held = worker[w].held \ {h}
    BY <2>3, TakeNeat
  <2>5. Sending(w, h, outcome).job = h
    BY <2>3 DEF Sending, WorkerRecord
  <2>6. \A v \in Workers : Apart(v)'
    BY <2>2, <2>4, <2>5, LoopApart
  <2>7. \A v \in Workers : Claimed(v)' \subseteq Claimed(v)
    BY <2>2, <2>4, ClaimedIsHolding, ClaimedIsHoldingNext DEF Typed
  <2> QED
    BY <2>1, <2>6, <2>7, QuietReach
<1>7. ASSUME NEW w \in Workers, Record(w) PROVE ReachInv'
  BY <1>7, RecordReach
<1>8. ASSUME NEW w \in Workers, RecordFails(w) PROVE ReachInv'
  <2>1. PICK x : worker' = [worker EXCEPT ![w] = x] /\ Holding(x) \subseteq Holding(worker[w])
    BY <1>8, FreeNeat DEF RecordFails
  <2>2. \A v \in Workers : Apart(v)'
    BY <1>8, FreeApart DEF RecordFails
  <2>3. \A v \in Workers : Claimed(v)' \subseteq Claimed(v)
    BY <2>1, ClaimedIsHolding, ClaimedIsHoldingNext DEF Typed
  <2> QED
    BY <1>8, <2>2, <2>3, QuietReach DEF RecordFails
<1>9. CASE Tick
  <2>1. \A v \in Workers : Claimed(v)' = Claimed(v)
    BY <1>9, TickWorkers, ClaimedIsHolding, ClaimedIsHoldingNext
  <2>2. \A v \in Workers : Apart(v)'
    <3> SUFFICES ASSUME NEW v \in Workers PROVE Apart(v)'
      OBVIOUS
    <3>1. worker[v] \in WorkerRecord
      BY DEF Typed
    <3>2. worker'[v].pc = worker[v].pc /\ worker'[v].job = worker[v].job
          /\ worker'[v].held = worker[v].held
      BY <1>9, <3>1 DEF Tick, WorkerRecord
    <3> QED
      BY <3>2 DEF ReachInv, Apart
  <2> QED
    BY <1>9, <2>1, <2>2, TickRows, QuietReach
<1>10. CASE PurgeSettled
  <2>1. ~Absent.delivered
    BY DEF Absent
  <2> QED
    BY <1>0, <1>10, <2>1, QuietReach DEF PurgeSettled
<1>11. CASE UNCHANGED vars
  BY <1>0, <1>11, QuietReach DEF vars
<1> QED
  BY <1>1, <1>2, <1>3, <1>4, <1>5, <1>6, <1>7, <1>8, <1>9, <1>10, <1>11 DEF Next, Step

LEMMA ReachedIsEnough == Typed /\ HoldInv /\ ReachInv => NoNeedlessPost
<1> SUFFICES ASSUME Typed, HoldInv, ReachInv, NEW w \in Workers, NEW h \in worker[w].held,
                    row[h[1]].delivered
             PROVE  /\ row[h[1]].attempts > 1
                    /\ h[2] < row[h[1]].attempts => worker[w].age = Backoff(1)
  BY DEF NoNeedlessPost
<1>1. h \in Claimed(w) /\ h[1] \in Row
  BY ClaimTypes DEF Claimed
<1>2. Reached(h[1])
  BY <1>1 DEF ReachInv
<1> QED
  BY <1>1, <1>2 DEF Reached, HoldInv, Guarded

(* After mark_delivered, a loop still POSTs the notification only because  *)
(* the row was claimed twice, and a loop whose claim was overtaken has     *)
(* outlived the hold of retry_backoff(1): for any number of loops, crashes *)
(* and results that could not be written.                                  *)
THEOREM DeliveredIsNotRepeated == Spec => []NoNeedlessPost
  BY InitHold, StepHold, InitReach, StepReach, AlwaysTyped, ReachedIsEnough, PTL DEF Spec


-----------------------------------------------------------------------------
(* Where the attempts of a row went.                                       *)

\* POSTs and claims still waiting never exceed the attempts counted, even when
\* the row is gone; and only faults make up the difference.
Counted(r) ==
  /\ posts[r] + Cardinality(Waiting(r)) =<
        (IF row[r].queued THEN row[r].attempts ELSE MaxAttempts)
  /\ row[r].queued /\ r[2] \notin Internal =>
        row[r].attempts =< posts[r] + Cardinality(Waiting(r)) + faults

CountInv == \A r \in Row : Counted(r)

\* A loop whose record is x still has a POST for r to send.
Has(x, r) == \E h \in x.held : h[1] = r

LEMMA WaitingFinite ==
  ASSUME NEW r
  PROVE  /\ Waiting(r) = {w \in Workers : Has(worker[w], r)}
         /\ IsFiniteSet(Waiting(r)) /\ Cardinality(Waiting(r)) \in Nat
<1>1. Waiting(r) \subseteq Workers
  BY DEF Waiting
<1>2. IsFiniteSet(Waiting(r))
  BY <1>1, FS_Subset, DeliveryAssumption
<1> QED
  BY <1>2, FS_CardinalityType DEF Waiting, Has

LEMMA WaitingNext ==
  ASSUME NEW r
  PROVE  Waiting(r)' = {w \in Workers : Has(worker'[w], r)}
  BY DEF Waiting, Has

\* One loop's record decides how the number of waiting loops changes.
LEMMA LoopWaiting ==
  ASSUME Typed, NEW w \in Workers, NEW x, worker' = [worker EXCEPT ![w] = x], NEW r
  PROVE  /\ Cardinality(Waiting(r)) \in Nat
         /\ (Has(x, r) <=> Has(worker[w], r)) => Waiting(r)' = Waiting(r)
         /\ Has(x, r) /\ ~Has(worker[w], r) =>
              Cardinality(Waiting(r)') = Cardinality(Waiting(r)) + 1
         /\ ~Has(x, r) /\ Has(worker[w], r) =>
              /\ Cardinality(Waiting(r)') = Cardinality(Waiting(r)) - 1
              /\ Cardinality(Waiting(r)) >= 1
<1>1. worker'[w] = x /\ \A v \in Workers : v # w => worker'[v] = worker[v]
  BY DEF Typed
<1> DEFINE A == Waiting(r)
           B == Waiting(r)'
<1>2. A = {v \in Workers : Has(worker[v], r)} /\ IsFiniteSet(A) /\ Cardinality(A) \in Nat
  BY WaitingFinite
<1>3. B = {v \in Workers : Has(worker'[v], r)}
  BY WaitingNext
<1>4. (Has(x, r) <=> Has(worker[w], r)) => B = A
  BY <1>1, <1>2, <1>3
<1>5. ASSUME Has(x, r), ~Has(worker[w], r) PROVE Cardinality(B) = Cardinality(A) + 1
  <2>1. B = A \cup {w} /\ w \notin A
    BY <1>1, <1>2, <1>3, <1>5
  <2> HIDE DEF A, B
  <2> QED
    BY <1>2, <2>1, FS_AddElement
<1>6. ASSUME ~Has(x, r), Has(worker[w], r)
      PROVE  Cardinality(B) = Cardinality(A) - 1 /\ Cardinality(A) >= 1
  <2>1. B = A \ {w} /\ w \in A
    BY <1>1, <1>2, <1>3, <1>6
  <2> HIDE DEF A, B
  <2>2. Cardinality(B) = Cardinality(A) - 1 /\ IsFiniteSet(B)
    BY <1>2, <2>1, FS_RemoveElement
  <2>3. Cardinality(B) \in Nat
    BY <2>2, FS_CardinalityType
  <2> QED
    BY <1>2, <2>2, <2>3
<1> QED
  BY <1>2, <1>4, <1>5, <1>6

\* The numbers Counted is about.
LEMMA CountTypes ==
  ASSUME Typed, NEW r \in Row
  PROVE  /\ posts[r] \in Nat /\ faults \in Nat /\ Cardinality(Waiting(r)) \in Nat
         /\ row[r].attempts \in Nat /\ row[r].attempts =< MaxAttempts
  BY WaitingFinite, RowTypes, DeliveryAssumption DEF Typed

\* Nothing about the row's attempts, POSTs and claims changes.
LEMMA QuietCount ==
  ASSUME Typed, NEW r \in Row, Counted(r), Waiting(r)' = Waiting(r), posts'[r] = posts[r],
         faults' \in {faults, faults + 1},
         row'[r].queued => row[r].queued /\ row'[r].attempts = row[r].attempts
  PROVE  Counted(r)'
<1>1. /\ posts[r] \in Nat /\ faults \in Nat /\ Cardinality(Waiting(r)) \in Nat
      /\ row[r].attempts \in Nat /\ row[r].attempts =< MaxAttempts
  BY CountTypes
<1>2. Cardinality(Waiting(r))' = Cardinality(Waiting(r))
  OBVIOUS
<1>3. posts'[r] + Cardinality(Waiting(r))' =<
        (IF row'[r].queued THEN row'[r].attempts ELSE MaxAttempts)
  BY <1>1, <1>2, DeliveryAssumption DEF Counted
<1>4. row'[r].queued /\ r[2] \notin Internal =>
        row'[r].attempts =< posts'[r] + Cardinality(Waiting(r))' + faults'
  BY <1>1, <1>2 DEF Counted
<1> QED
  BY <1>3, <1>4 DEF Counted


\* A fault may lose a loop's claims: one POST per row at most.
LEMMA DropCount ==
  ASSUME Typed, CountInv, NEW w \in Workers, NEW x, worker' = [worker EXCEPT ![w] = x],
         x.held \subseteq worker[w].held, UNCHANGED <<row, posts>>, faults' = faults + 1
  PROVE  CountInv'
<1> SUFFICES ASSUME NEW r \in Row PROVE Counted(r)'
  BY DEF CountInv
<1>1. /\ posts[r] \in Nat /\ faults \in Nat /\ Cardinality(Waiting(r)) \in Nat
      /\ row[r].attempts \in Nat /\ Counted(r)
  BY CountTypes DEF CountInv
<1>2. Has(x, r) => Has(worker[w], r)
  BY DEF Has
<1>3. CASE Has(x, r) <=> Has(worker[w], r)
  <2>1. Waiting(r)' = Waiting(r)
    BY <1>3, LoopWaiting
  <2> QED
    BY <1>1, <2>1, QuietCount
<1>4. CASE ~Has(x, r) /\ Has(worker[w], r)
  <2>1. Cardinality(Waiting(r)') = Cardinality(Waiting(r)) - 1
    BY <1>4, LoopWaiting
  <2>2. posts'[r] + Cardinality(Waiting(r)') =<
          (IF row'[r].queued THEN row'[r].attempts ELSE MaxAttempts)
    BY <1>1, <2>1, DeliveryAssumption DEF Counted
  <2>3. row'[r].queued /\ r[2] \notin Internal =>
          row'[r].attempts =< posts'[r] + Cardinality(Waiting(r)') + faults'
    BY <1>1, <2>1 DEF Counted
  <2> QED
    BY <2>2, <2>3 DEF Counted
<1> QED
  BY <1>2, <1>3, <1>4

\* Nothing the count is about changes.
LEMMA SameCount ==
  ASSUME Typed, CountInv, \A w \in Workers : worker'[w].held = worker[w].held,
         UNCHANGED posts, faults' \in {faults, faults + 1},
         \A r \in Row : row'[r].queued => row[r].queued /\ row'[r].attempts = row[r].attempts
  PROVE  CountInv'
<1> SUFFICES ASSUME NEW r \in Row PROVE Counted(r)'
  BY DEF CountInv
<1>1. Waiting(r)' = Waiting(r)
  BY DEF Waiting
<1> QED
  BY <1>1, QuietCount DEF CountInv

\* An announced row is new: nobody has heard of it.
LEMMA AnnounceCount ==
  ASSUME Typed, CountInv, NEW s \in Stops, Announce(s)
  PROVE  CountInv'
<1>1. PICK listed : row' = [r \in Row |-> IF r[1] = s /\ r[2] \in listed THEN Fresh ELSE row[r]]
  BY DEF Announce
<1> SUFFICES ASSUME NEW r \in Row PROVE Counted(r)'
  BY DEF CountInv
<1>2. Waiting(r)' = Waiting(r) /\ posts'[r] = posts[r] /\ faults' = faults
  BY DEF Announce, Waiting
<1>3. CASE row'[r] = row[r]
  BY <1>2, <1>3, QuietCount DEF CountInv
<1>4. CASE r[1] = s /\ row'[r] = Fresh
  <2>1. r[1] \notin announced
    BY <1>4 DEF Announce
  <2>2. posts[r] = 0 /\ Waiting(r) = {}
    BY <2>1 DEF Typed, Of, Holding, Waiting
  <2>3. Cardinality(Waiting(r)') = 0 /\ row'[r].attempts = 0 /\ posts'[r] = 0 /\ faults' \in Nat
    BY <1>2, <1>4, <2>2, FS_EmptySet, DeliveryAssumption DEF Fresh, Absent, Typed
  <2>4. Cardinality(Waiting(r))' = 0 /\ row'[r].attempts \in 0..MaxAttempts
    BY <2>3, DeliveryAssumption
  <2>5. posts'[r] + Cardinality(Waiting(r))' = 0
    BY <2>3, <2>4
  <2>6. 0 =< (IF row'[r].queued THEN row'[r].attempts ELSE MaxAttempts)
    BY <2>3, DeliveryAssumption
  <2> QED
    <3>1. row'[r].attempts =< posts'[r] + Cardinality(Waiting(r))' + faults'
      <4>1. row'[r].attempts = 0 /\ faults' \in Nat
        BY <2>3
      <4> QED
        BY <2>5, <4>1
    <3>2. posts'[r] + Cardinality(Waiting(r))' =<
            (IF row'[r].queued THEN row'[r].attempts ELSE MaxAttempts)
      BY <2>5, <2>6
    <3> QED
      BY <3>1, <3>2 DEF Counted
<1> QED
  BY <1>1, <1>3, <1>4

\* A won claim counts the attempt and makes the loop wait for its POST.
LEMMA ClaimCount ==
  ASSUME Typed, CountInv, NEW w \in Workers, Claim(w)
  PROVE  CountInv'
<1>1. PICK d, new, x :
           /\ d \in worker[w].due
           /\ worker' = [worker EXCEPT ![w] = x]
           /\ Neat(x) /\ Of(x, announced)
           /\ Holding(x) = Holding(worker[w]) \cup new
           /\ x.held = worker[w].held \cup new /\ x.due = worker[w].due \ {d}
           /\ x.age = worker[w].age
           /\ UNCHANGED <<announced, posts, faults>>
           /\ \/ new = {} /\ row' = row
              \/ /\ new = {<<d[1], d[2] + 1>>} /\ Claims(d[1], d[2])
                 /\ row' = [row EXCEPT ![d[1]].attempts = @ + 1,
                                       ![d[1]].wait = Backoff(1) - worker[w].age,
                                       ![d[1]].idle = 0]
  BY ClaimShape
<1>2. CASE new = {} /\ row' = row
  <2>1. \A v \in Workers : worker'[v].held = worker[v].held
    BY <1>1, <1>2 DEF Typed
  <2> QED
    BY <1>1, <1>2, <2>1, SameCount
<1>3. CASE /\ new = {<<d[1], d[2] + 1>>} /\ Claims(d[1], d[2])
           /\ row' = [row EXCEPT ![d[1]].attempts = @ + 1,
                                 ![d[1]].wait = Backoff(1) - worker[w].age,
                                 ![d[1]].idle = 0]
  <2>1. /\ d[1] \in Row /\ row[d[1]].queued /\ row[d[1]].attempts = d[2]
        /\ row'[d[1]].queued /\ row'[d[1]].attempts = d[2] + 1
        /\ \A r \in Row : r # d[1] => row'[r] = row[r]
    BY <1>1, <1>3, ClaimRow
  <2>2. \A h \in x.held : h \in worker[w].held \/ h[1] = d[1]
    BY <1>1, <1>3
  <2>3. Has(x, d[1]) /\ ~Has(worker[w], d[1])
    <3>1. <<d[1], d[2] + 1>> \in x.held
      BY <1>1, <1>3
    <3>2. \A a \in worker[w].held : d[1] # a[1]
      BY <1>1 DEF Typed, Neat, Holding
    <3> QED
      BY <3>1, <3>2 DEF Has
  <2> SUFFICES ASSUME NEW r \in Row PROVE Counted(r)'
    BY DEF CountInv
  <2>4. CASE r = d[1]
    <3>1. Cardinality(Waiting(r)') = Cardinality(Waiting(r)) + 1
      BY <1>1, <2>3, <2>4, LoopWaiting
    <3>2. /\ posts[r] \in Nat /\ faults \in Nat /\ Cardinality(Waiting(r)) \in Nat
          /\ row[r].attempts \in Nat /\ Counted(r)
      BY CountTypes DEF CountInv
    <3>3. posts'[r] = posts[r] /\ faults' = faults /\ row'[r].attempts = row[r].attempts + 1
          /\ row[r].queued /\ row'[r].queued
      BY <1>1, <2>1, <2>4
    <3>4. posts'[r] + Cardinality(Waiting(r)') =< row'[r].attempts
      BY <3>1, <3>2, <3>3 DEF Counted
    <3>5. r[2] \notin Internal => row'[r].attempts =< posts'[r] + Cardinality(Waiting(r)') + faults'
      BY <3>1, <3>2, <3>3 DEF Counted
    <3> QED
      BY <3>3, <3>4, <3>5 DEF Counted
  <2>5. CASE r # d[1]
    <3>1. Has(x, r) <=> Has(worker[w], r)
      BY <1>1, <2>2, <2>5 DEF Has
    <3>2. Waiting(r)' = Waiting(r)
      BY <1>1, <3>1, LoopWaiting
    <3> QED
      BY <1>1, <2>1, <2>5, <3>2, QuietCount DEF CountInv
  <2> QED
    BY <2>4, <2>5
<1> QED
  BY <1>1, <1>2, <1>3

\* A claim that becomes a job is sent, refused or spent by a fault.
LEMMA TakeCount ==
  ASSUME Typed, CountInv, NEW w \in Workers, Refuse(w) \/ SignFails(w) \/ Post(w)
  PROVE  CountInv'
<1>1. PICK h, x :
           /\ h \in worker[w].held
           /\ worker' = [worker EXCEPT ![w] = x]
           /\ Neat(x) /\ Of(x, announced)
           /\ Holding(x) = Holding(worker[w])
           /\ x.held = worker[w].held \ {h} /\ x.due = worker[w].due
           /\ x.age = worker[w].age
           /\ h \in Job /\ (\A g \in x.held : g[1] # h[1])
           /\ UNCHANGED <<announced, row>>
           /\ \/ h[1][2] \in Internal /\ UNCHANGED <<posts, faults>>
              \/ Fault /\ UNCHANGED posts
              \/ posts' = [posts EXCEPT ![h[1]] = @ + 1] /\ UNCHANGED faults
  BY TakeShape
<1>2. CASE Fault /\ UNCHANGED posts
  <2>1. faults' = faults + 1 /\ x.held \subseteq worker[w].held
    BY <1>1, <1>2, FaultType
  <2> QED
    BY <1>1, <1>2, <2>1, DropCount
<1>3. CASE UNCHANGED faults /\ \/ h[1][2] \in Internal /\ UNCHANGED posts
                               \/ posts' = [posts EXCEPT ![h[1]] = @ + 1]
  <2> SUFFICES ASSUME NEW r \in Row PROVE Counted(r)'
    BY DEF CountInv
  <2>1. /\ posts[r] \in Nat /\ faults \in Nat /\ Cardinality(Waiting(r)) \in Nat
        /\ row[r].attempts \in Nat /\ Counted(r) /\ row' = row /\ faults' = faults
    BY <1>1, <1>3, CountTypes DEF CountInv
  <2>2. CASE r = h[1]
    <3>1. ~Has(x, r) /\ Has(worker[w], r)
      BY <1>1, <2>2 DEF Has
    <3>2. Cardinality(Waiting(r)') = Cardinality(Waiting(r)) - 1
      BY <1>1, <3>1, LoopWaiting
    <3>3. CASE r[2] \in Internal /\ posts'[r] = posts[r]
      BY <2>1, <3>2, <3>3, DeliveryAssumption DEF Counted
    <3>4. CASE posts'[r] = posts[r] + 1
      <4>1. posts'[r] + Cardinality(Waiting(r)') = posts[r] + Cardinality(Waiting(r))
        BY <2>1, <3>2, <3>4
      <4> QED
        BY <2>1, <4>1 DEF Counted
    <3> QED
      BY <1>3, <2>2, <3>3, <3>4 DEF Typed
  <2>3. CASE r # h[1]
    <3>1. Has(x, r) <=> Has(worker[w], r)
      BY <1>1, <2>3 DEF Has
    <3>2. Waiting(r)' = Waiting(r)
      BY <1>1, <3>1, LoopWaiting
    <3>3. posts'[r] = posts[r]
      BY <1>3, <2>3 DEF Typed
    <3> QED
      BY <2>1, <3>2, <3>3, QuietCount
  <2> QED
    BY <2>2, <2>3
<1> QED
  BY <1>1, <1>2, <1>3


LEMMA InitCount == Init => CountInv
<1> SUFFICES ASSUME Init, NEW r \in Row PROVE Counted(r)
  BY DEF CountInv
<1>1. Waiting(r) = {}
  BY IdleNeat DEF Init, Waiting
<1>2. Cardinality(Waiting(r)) = 0
  BY <1>1, FS_EmptySet
<1>3. posts[r] = 0 /\ ~row[r].queued
  BY DEF Init, Absent
<1>4. posts[r] + Cardinality(Waiting(r)) = 0
  BY <1>2, <1>3
<1> QED
  BY <1>3, <1>4, DeliveryAssumption DEF Counted

LEMMA StepCount == Typed /\ CountInv /\ [Next]_vars => CountInv'
<1> SUFFICES ASSUME Typed, CountInv, [Next]_vars PROVE CountInv'
  OBVIOUS
<1>1. ASSUME NEW s \in Stops, Announce(s) PROVE CountInv'
  BY <1>1, AnnounceCount
<1>2. ASSUME NEW s \in Stops, AnnounceFails(s) PROVE CountInv'
  BY <1>2, SameCount DEF AnnounceFails, Fault
<1>3. ASSUME NEW w \in Workers, Select(w) PROVE CountInv'
  <2>1. PICK batch \in SUBSET Due : worker' = [worker EXCEPT ![w] = Reading(batch)]
    BY <1>3 DEF Select, Reading
  <2>2. worker[w].held = {} /\ Reading(batch).held = {}
    BY <1>3, SelectNeat DEF Select, Typed, Neat
  <2>3. \A v \in Workers : worker'[v].held = worker[v].held
    BY <2>1, <2>2 DEF Typed
  <2> QED
    BY <1>3, <2>3, SameCount DEF Select
<1>4. ASSUME NEW w \in Workers, Claim(w) PROVE CountInv'
  BY <1>4, ClaimCount
<1>5. ASSUME NEW w \in Workers, ClaimFails(w) \/ Crash(w) PROVE CountInv'
  <2>1. worker' = [worker EXCEPT ![w] = Idle] /\ UNCHANGED <<row, posts>> /\ Fault
    BY <1>5 DEF ClaimFails, Crash
  <2> QED
    BY <2>1, IdleNeat, FaultType, DropCount
<1>6. ASSUME NEW w \in Workers, Refuse(w) \/ SignFails(w) \/ Post(w) PROVE CountInv'
  BY <1>6, TakeCount
<1>7. ASSUME NEW w \in Workers, Record(w) \/ RecordFails(w) PROVE CountInv'
  <2>1. PICK x : worker' = [worker EXCEPT ![w] = x] /\ x.held = worker[w].held
    BY <1>7, FreeNeat DEF Record, RecordFails
  <2>2. \A v \in Workers : worker'[v].held = worker[v].held
    BY <2>1 DEF Typed
  <2>3. \A r \in Row : row'[r].queued => row[r].queued /\ row'[r].attempts = row[r].attempts
    BY <1>7, RecordRow DEF Record, RecordFails
  <2> QED
    BY <1>7, <2>2, <2>3, SameCount DEF Record, RecordFails, Fault
<1>8. CASE Tick
  BY <1>8, TickRows, TickWorkers, SameCount DEF Tick
<1>9. CASE PurgeSettled
  <2>1. \A r \in Row : row'[r].queued => row[r].queued /\ row'[r].attempts = row[r].attempts
    BY <1>9 DEF PurgeSettled, Absent
  <2> QED
    BY <1>9, <2>1, SameCount DEF PurgeSettled
<1>10. CASE UNCHANGED vars
  BY <1>10, SameCount DEF vars
<1> QED
  BY <1>1, <1>2, <1>3, <1>4, <1>5, <1>6, <1>7, <1>8, <1>9, <1>10 DEF Next, Step

LEMMA CountsAttempts == Typed /\ CountInv => NoAttemptLost
<1> SUFFICES ASSUME Typed, CountInv, NEW r \in Row, r[2] \notin Internal, row[r].queued
             PROVE  /\ posts[r] =< row[r].attempts
                    /\ row[r].attempts =< posts[r] + Cardinality(Waiting(r)) + faults
  BY DEF NoAttemptLost
<1>1. posts[r] \in Nat /\ Cardinality(Waiting(r)) \in Nat /\ row[r].attempts \in Nat /\ Counted(r)
  BY CountTypes DEF CountInv
<1>2. posts[r] + Cardinality(Waiting(r)) =< row[r].attempts
  BY <1>1 DEF Counted
<1> QED
  BY <1>1, <1>2 DEF Counted

LEMMA TypesAgree == Typed /\ CountInv => TypeOK
<1> SUFFICES ASSUME Typed, CountInv PROVE TypeOK
  OBVIOUS
<1>1. ASSUME NEW r \in Row PROVE posts[r] \in 0..MaxAttempts
  <2>1. /\ posts[r] \in Nat /\ Cardinality(Waiting(r)) \in Nat /\ row[r].attempts \in Nat
        /\ row[r].attempts =< MaxAttempts /\ Counted(r)
    BY <1>1, CountTypes DEF CountInv
  <2>2. posts[r] + Cardinality(Waiting(r)) =< MaxAttempts
    BY <2>1, DeliveryAssumption DEF Counted
  <2> QED
    BY <2>1, <2>2, DeliveryAssumption
<1>2. posts \in [Row -> 0..MaxAttempts]
  BY <1>1 DEF Typed
<1>3. ASSUME NEW w \in Workers
      PROVE  /\ worker[w].pc \in {"idle", "claiming", "sending", "recording"}
             /\ worker[w].age \in 0..Backoff(1)
             /\ worker[w].due \subseteq Row \X (0..MaxAttempts - 1)
             /\ worker[w].held \subseteq Row \X (1..MaxAttempts)
             /\ worker[w].pc = "recording" => worker[w].job \in Row \X (1..MaxAttempts)
             /\ worker[w].outcome \in {"none", "ok", "failed", "refused"}
  BY DEF Typed, Neat, WorkerRecord, Job, Seen, Outcomes
<1> QED
  BY <1>2, <1>3 DEF Typed, TypeOK

(* The rows and the loops hold what their columns and fields can; that the *)
(* relying party is POSTed to at most max_attempts times is part of it.    *)
THEOREM Typing == Spec => []TypeOK
  BY InitCount, StepCount, AlwaysTyped, TypesAgree, PTL DEF Spec

(* The attempts claim_due counts on a row are POSTs, claims a loop still   *)
(* holds, or lost to a crash or a failing call; the relying party never    *)
(* sees more POSTs than attempts.                                          *)
THEOREM AttemptsAreAccounted == Spec => []NoAttemptLost
  BY InitCount, StepCount, AlwaysTyped, CountsAttempts, PTL DEF Spec
=============================================================================
