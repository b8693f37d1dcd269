------------------------ MODULE EmailOutbox_proofs ------------------------
(***************************************************************************)
(* Proofs about EmailOutbox, for any number of mails, batches, attempts    *)
(* and failures: what a second copy, a SENT row and a waiting row say.     *)
(***************************************************************************)
EXTENDS EmailOutbox, FiniteSetTheorems, SequenceTheorems, TLAPS

-----------------------------------------------------------------------------
(* Rows and sequences *)

LEMMA MovedRow ==
  ASSUME NEW row \in Row, NEW status \in Stored \cup Unstored, NEW due \in BOOLEAN
  PROVE  /\ Moved(row, status, due) \in Row
         /\ Moved(row, status, due).status = status
         /\ Moved(row, status, due).attempts = row.attempts
  BY DEF Moved, Row

LEMMA TailOf ==
  ASSUME NEW S, NEW s \in Seq(S), s # << >>
  PROVE  /\ Len(s) \in Nat /\ Len(s) >= 1
         /\ Head(s) = s[1] /\ s[1] \in S
         /\ Tail(s) \in Seq(S)
         /\ Len(Tail(s)) = Len(s) - 1
         /\ \A i \in 1..Len(Tail(s)) : Tail(s)[i] = s[i + 1]
         /\ Tail(s) = << >> <=> Len(s) = 1
  <1>1. Len(s) \in Nat /\ Len(s) >= 1
    OBVIOUS
  <1>2. Head(s) = s[1] /\ s[1] \in S
    BY <1>1
  <1>3. Tail(s) \in Seq(S) /\ Len(Tail(s)) = Len(s) - 1
    BY <1>1
  <1>4. \A i \in 1..Len(Tail(s)) : Tail(s)[i] = s[i + 1]
    BY <1>1, <1>3
  <1>5. Tail(s) = << >> <=> Len(Tail(s)) = 0
    BY <1>3, EmptySeq
  <1> QED
    BY <1>1, <1>2, <1>3, <1>4, <1>5

\* The records a batch reads: one for each claimed row that still exists.
LEMMA FetchedOrder ==
  ASSUME NEW S \in SUBSET Mails, NEW order \in SetToSeqs(S), order # << >>
  PROVE  /\ order \in Seq(Mails) /\ order # << >> /\ Len(order) \in Nat
         /\ DOMAIN order = 1..Len(order) /\ 1 \in DOMAIN order
         /\ \A i \in DOMAIN order : order[i] \in S
         /\ \A i, j \in DOMAIN order : order[i] = order[j] => i = j
  <1> DEFINE n == Cardinality(S)
  <1>1. n \in Nat
    BY FS_Subset, FS_CardinalityType, OutboxAssumption
  <1>2. /\ order \in [1..n -> S]
        /\ \A i, j \in 1..n : i # j => order[i] # order[j]
    BY DEF SetToSeqs
  <1> HIDE DEF n
  <1>3. order \in Seq(S) /\ Len(order) = n
    BY <1>1, <1>2
  <1>4. n # 0
    BY <1>3, EmptySeq
  <1> QED
    BY <1>1, <1>2, <1>3, <1>4

-----------------------------------------------------------------------------
(* Types *)

WorkingAt == {"send", "mark", "settle", "throttle", "defer"}

\* A worker has claims, records and an error only where its batch uses them.
Placed(w) ==
  /\ batch[w] # {} <=> at[w] = "fetch"
  /\ todo[w] # << >> <=> at[w] \in WorkingAt
  /\ fault[w] # "none" <=> at[w] = "settle"

WorkersOK ==
  /\ at \in [Workers -> Places]
  /\ batch \in [Workers -> SUBSET Mails]
  /\ todo \in [Workers -> Seq(Record)]
  /\ fault \in [Workers -> Faults \cup {"none"}]
  /\ \A w \in Workers : Placed(w)

LEMMA TypeParts ==
  TypeOK <=> /\ mail \in [Mails -> Row]
             /\ lock \in Workers \cup {NoWorker, DeadWorker}
             /\ throttled \in BOOLEAN
             /\ WorkersOK
             /\ failures \in 0..MaxFailures
             /\ copies \in [Mails -> 0..2]
             /\ doubt \in [Mails -> {"none", "unsure", "reclaimed"}]
  BY DEF TypeOK, WorkersOK, Placed, WorkingAt

\* A worker moved to a place with what it needs there.
LEMMA WorkerMoves ==
  ASSUME WorkersOK, NEW w \in Workers,
         NEW place \in Places, NEW claimed \in SUBSET Mails, NEW records \in Seq(Record),
         NEW error \in Faults \cup {"none"},
         at' = [at EXCEPT ![w] = place],
         batch' = [batch EXCEPT ![w] = claimed],
         todo' = [todo EXCEPT ![w] = records],
         fault' = [fault EXCEPT ![w] = error],
         claimed # {} <=> place = "fetch",
         records # << >> <=> place \in WorkingAt,
         error # "none" <=> place = "settle"
  PROVE  WorkersOK'
  <1>1. /\ at' \in [Workers -> Places]
        /\ batch' \in [Workers -> SUBSET Mails]
        /\ todo' \in [Workers -> Seq(Record)]
        /\ fault' \in [Workers -> Faults \cup {"none"}]
    BY DEF WorkersOK
  <1>2. ASSUME NEW x \in Workers PROVE Placed(x)'
    <2>1. CASE x = w
      <3>1. at'[x] = place /\ batch'[x] = claimed /\ todo'[x] = records /\ fault'[x] = error
        BY <2>1 DEF WorkersOK
      <3> QED
        BY <3>1 DEF Placed
    <2>2. CASE x # w
      <3>1. at'[x] = at[x] /\ batch'[x] = batch[x] /\ todo'[x] = todo[x] /\ fault'[x] = fault[x]
        BY <2>2 DEF WorkersOK
      <3>2. Placed(x)
        BY DEF WorkersOK
      <3> QED
        BY <3>1, <3>2 DEF Placed
    <2> QED
      BY <2>1, <2>2
  <1> QED
    BY <1>1, <1>2 DEF WorkersOK

\* What a statement leaves alone can be written as an assignment of the old value.
LEMMA WorkerUnchanged ==
  ASSUME WorkersOK, NEW w \in Workers
  PROVE  /\ at = [at EXCEPT ![w] = at[w]]
         /\ batch = [batch EXCEPT ![w] = batch[w]]
         /\ todo = [todo EXCEPT ![w] = todo[w]]
         /\ fault = [fault EXCEPT ![w] = fault[w]]
         /\ at[w] \in Places /\ batch[w] \in SUBSET Mails /\ todo[w] \in Seq(Record)
         /\ fault[w] \in Faults \cup {"none"}
         /\ Placed(w)
  BY DEF WorkersOK

LEMMA WorkerFinishes ==
  ASSUME WorkersOK, NEW w \in Workers, Finish(w), fault' = [fault EXCEPT ![w] = "none"]
  PROVE  WorkersOK'
  <1>1. << >> \in Seq(Record)
    OBVIOUS
  <1>2. "release" \in Places /\ "none" \in Faults \cup {"none"} /\ {} \in SUBSET Mails
    BY DEF Places
  <1> QED
    BY <1>1, <1>2, WorkerMoves DEF Finish, Goto, WorkingAt

LEMMA WorkerGoesOn ==
  ASSUME WorkersOK, NEW w \in Workers, NEW place \in Places, Goto(w, place),
         UNCHANGED <<batch, todo>>,
         NEW error \in Faults \cup {"none"}, fault' = [fault EXCEPT ![w] = error],
         at[w] = "fetch" <=> place = "fetch",
         at[w] \in WorkingAt <=> place \in WorkingAt,
         error # "none" <=> place = "settle"
  PROVE  WorkersOK'
  <1>1. /\ at' = [at EXCEPT ![w] = place]
        /\ batch' = [batch EXCEPT ![w] = batch[w]]
        /\ todo' = [todo EXCEPT ![w] = todo[w]]
    BY WorkerUnchanged DEF Goto
  <1>2. /\ batch[w] \in SUBSET Mails /\ todo[w] \in Seq(Record)
        /\ batch[w] # {} <=> place = "fetch"
        /\ todo[w] # << >> <=> place \in WorkingAt
    BY WorkerUnchanged DEF Placed
  <1> QED
    BY <1>1, <1>2, WorkerMoves

LEMMA WorkerAdvances ==
  ASSUME WorkersOK, NEW w \in Workers, Advance(w), at[w] \in {"mark", "settle"},
         fault' = [fault EXCEPT ![w] = "none"]
  PROVE  WorkersOK'
  <1>1. CASE Len(todo[w]) = 1
    BY <1>1, WorkerFinishes DEF Advance
  <1>2. CASE Len(todo[w]) # 1
    <2>1. todo[w] \in Seq(Record) /\ todo[w] # << >> /\ batch[w] = {}
      BY WorkerUnchanged DEF Placed, WorkingAt
    <2>2. Tail(todo[w]) \in Seq(Record) /\ Tail(todo[w]) # << >>
      BY <1>2, <2>1, TailOf
    <2>3. /\ at' = [at EXCEPT ![w] = "send"]
          /\ todo' = [todo EXCEPT ![w] = Tail(todo[w])]
          /\ batch' = [batch EXCEPT ![w] = batch[w]]
      BY <1>2, WorkerUnchanged DEF Advance, Goto
    <2>4. "send" \in Places /\ "none" \in Faults \cup {"none"} /\ "send" \in WorkingAt
      BY DEF Places, WorkingAt
    <2>5. batch[w] \in SUBSET Mails
      BY WorkerUnchanged
    <2> QED
      BY <2>1, <2>2, <2>3, <2>4, <2>5, WorkerMoves
  <1> QED
    BY <1>1, <1>2

\* A mail is sent: at once, or by a batch.
LEMMA SendEmailType ==
  ASSUME TypeOK, NEW m \in Mails, NEW result, SendEmail(m, result)
  PROVE  /\ copies' \in [Mails -> 0..2]
         /\ doubt' \in [Mails -> {"none", "unsure", "reclaimed"}]
  <1>1. copies \in [Mails -> 0..2] /\ doubt \in [Mails -> {"none", "unsure", "reclaimed"}]
    BY TypeParts
  <1>2. PICK accepted \in BOOLEAN :
          /\ copies' = [copies EXCEPT ![m] =
               IF accepted /\ (@ = 0 \/ (@ = 1 /\ doubt[m] = "none")) THEN @ + 1 ELSE @]
          /\ IF accepted /\ result # "none" THEN Doubts(m) ELSE UNCHANGED doubt
    BY DEF SendEmail
  <1>3. copies' \in [Mails -> 0..2]
    BY <1>1, <1>2
  <1>4. doubt' \in [Mails -> {"none", "unsure", "reclaimed"}]
    BY <1>1, <1>2 DEF Doubts
  <1> QED
    BY <1>3, <1>4

\* The mail whose turn it is in a batch.
LEMMA CurrentType ==
  ASSUME TypeOK, NEW w \in Workers, at[w] \in WorkingAt
  PROVE  /\ todo[w] \in Seq(Record) /\ todo[w] # << >>
         /\ Len(todo[w]) \in Nat /\ Len(todo[w]) >= 1
         /\ Current(w) = todo[w][1] /\ Current(w) \in Record
         /\ Current(w).mail \in Mails /\ Current(w).attempts \in Nat
         /\ batch[w] = {}
  <1>1. todo[w] \in Seq(Record) /\ todo[w] # << >> /\ batch[w] = {}
    BY TypeParts, WorkerUnchanged DEF Placed, WorkingAt
  <1>2. /\ Len(todo[w]) \in Nat /\ Len(todo[w]) >= 1
        /\ Current(w) = todo[w][1] /\ Current(w) \in Record
    BY <1>1, TailOf DEF Current
  <1> QED
    BY <1>1, <1>2 DEF Record

LEMMA SettledRow ==
  ASSUME TypeOK, NEW w \in Workers, at[w] = "settle"
  PROVE  /\ Settled(w) \in [Mails -> Row]
         /\ \A m \in Mails : m # Current(w).mail => Settled(w)[m] = mail[m]
         /\ Settled(w)[Current(w).mail].attempts = Current(w).attempts + 1
         /\ Settled(w)[Current(w).mail].status = IF RetryAgain(w) THEN "RETRYING" ELSE "FAILED"
  <1> DEFINE n == Current(w).mail
             status == IF RetryAgain(w) THEN "RETRYING" ELSE "FAILED"
             row == Moved(mail[n], status, FALSE)
  <1>1. n \in Mails /\ Current(w).attempts \in Nat
    BY CurrentType DEF WorkingAt
  <1>2. mail \in [Mails -> Row]
    BY TypeParts
  <1>3. row \in Row /\ row.status = status
    BY <1>1, <1>2, MovedRow DEF Stored, Open
  <1>4. Settled(w) = [mail EXCEPT ![n] = [row EXCEPT !.attempts = Current(w).attempts + 1]]
    BY <1>1, <1>2 DEF Settled
  <1> HIDE DEF n, row, status
  <1>5. /\ [row EXCEPT !.attempts = Current(w).attempts + 1] \in Row
        /\ [row EXCEPT !.attempts = Current(w).attempts + 1].status = status
        /\ [row EXCEPT !.attempts = Current(w).attempts + 1].attempts = Current(w).attempts + 1
    BY <1>1, <1>3 DEF Row
  <1>6. /\ Settled(w) \in [Mails -> Row]
        /\ \A m \in Mails : m # n => Settled(w)[m] = mail[m]
        /\ Settled(w)[n].attempts = Current(w).attempts + 1
        /\ Settled(w)[n].status = status
    BY <1>1, <1>2, <1>4, <1>5
  <1> QED
    BY <1>6 DEF n, status

\* The rows after the sweep of a batch: the same attempts, and another status only for
\* a claim taken back or an expired mail.
LEMMA SweptRow ==
  ASSUME NEW row \in Row
  PROVE  /\ Expired(Reclaimed(row)) \in Row
         /\ Expired(Reclaimed(row)).attempts = row.attempts
         /\ \/ Expired(Reclaimed(row)).status = row.status
            \/ Expired(Reclaimed(row)).status = "FAILED" /\ row.status \in Open
            \/ IsStale(row)
  <1>1. /\ Reclaimed(row) \in Row
        /\ Reclaimed(row).attempts = row.attempts
        /\ Reclaimed(row) = row \/ IsStale(row)
    BY MovedRow DEF Reclaimed, Stored, Open
  <1> DEFINE r == Reclaimed(row)
  <1>2. r \in Row
    BY <1>1
  <1> HIDE DEF r
  <1>3. /\ Expired(r) \in Row
        /\ Expired(r).attempts = r.attempts
        /\ \/ Expired(r).status = r.status
           \/ Expired(r).status = "FAILED" /\ r.status \in Open
    BY <1>2, MovedRow DEF Expired, Stored, Open
  <1> QED
    BY <1>1, <1>3 DEF r

LEMMA InitType == Init => TypeOK
  <1> SUFFICES ASSUME Init PROVE TypeOK
    OBVIOUS
  <1>1. mail \in [Mails -> Row]
    BY DEF Init, Row, Unstored
  <1>2. WorkersOK
    <2>1. << >> \in Seq(Record)
      OBVIOUS
    <2> QED
      BY <2>1 DEF Init, WorkersOK, Placed, Places, WorkingAt
  <1>3. /\ lock \in Workers \cup {NoWorker, DeadWorker}
        /\ throttled \in BOOLEAN
        /\ failures \in 0..MaxFailures
    <2>1. lock \in Workers \cup {NoWorker, DeadWorker}
      BY DEF Init
    <2>2. throttled \in BOOLEAN
      BY DEF Init
    <2>3. MaxFailures \in Nat
      BY OutboxAssumption
    <2>4. failures = 0
      BY DEF Init
    <2>5. failures \in 0..MaxFailures
      BY <2>3, <2>4
    <2> QED
      BY <2>1, <2>2, <2>5
  <1>4. /\ copies \in [Mails -> 0..2]
        /\ doubt \in [Mails -> {"none", "unsure", "reclaimed"}]
    BY DEF Init
  <1> QED
    BY <1>1, <1>2, <1>3, <1>4, TypeParts

\* The parts of the state that no worker's place depends on.
TablesOK ==
  /\ mail \in [Mails -> Row]
  /\ lock \in Workers \cup {NoWorker, DeadWorker}
  /\ throttled \in BOOLEAN
  /\ failures \in 0..MaxFailures
  /\ copies \in [Mails -> 0..2]
  /\ doubt \in [Mails -> {"none", "unsure", "reclaimed"}]

LEMMA TypeIsParts == TypeOK <=> TablesOK /\ WorkersOK
  BY TypeParts DEF TablesOK

LEMMA TypeNext == ASSUME TablesOK', WorkersOK' PROVE TypeOK'
  BY DEF TypeOK, TablesOK, WorkersOK, Placed, WorkingAt

LEMMA FailsType == ASSUME TablesOK, Fails PROVE failures' \in 0..MaxFailures
  BY OutboxAssumption DEF TablesOK, Fails

LEMMA DoubtsType ==
  ASSUME TablesOK, NEW m \in Mails, Doubts(m)
  PROVE  doubt' \in [Mails -> {"none", "unsure", "reclaimed"}]
  BY DEF TablesOK, Doubts

LEMMA SendWithRecoveryType ==
  ASSUME TypeOK, NEW m \in Mails, SendEmailWithRecovery(m)
  PROVE  TypeOK'
  <1>1. PICK result \in Faults \cup {"none"} :
          /\ SendEmail(m, result)
          /\ \E status \in CASE result = "none"      -> {"DIRECT"}
                             [] result = "permanent" -> {"REFUSED"}
                             [] OTHER                -> {"PENDING", "REFUSED"} :
               mail' = [mail EXCEPT ![m] = Moved(@, status, status = "PENDING")]
    BY DEF SendEmailWithRecovery
  <1>2. PICK status \in {"DIRECT", "REFUSED", "PENDING"} :
          mail' = [mail EXCEPT ![m] = Moved(mail[m], status, status = "PENDING")]
    <2>1. mail \in [Mails -> Row]
      BY TypeParts
    <2> QED
      BY <1>1, <2>1
  <1>3. mail' \in [Mails -> Row]
    <2>1. mail \in [Mails -> Row] /\ mail[m] \in Row
      BY TypeParts
    <2>2. Moved(mail[m], status, status = "PENDING") \in Row
      BY <2>1, MovedRow DEF Stored, Open, Unstored
    <2> QED
      BY <1>2, <2>1, <2>2
  <1>4. UNCHANGED <<lock, throttled, workerVars, failures>>
    BY DEF SendEmailWithRecovery
  <1>5. WorkersOK'
    BY <1>4, TypeIsParts DEF WorkersOK, Placed, workerVars
  <1>6. TablesOK'
    BY <1>1, <1>3, <1>4, SendEmailType, TypeIsParts DEF TablesOK
  <1> QED
    BY <1>5, <1>6, TypeNext

\* The steps that only move a worker, take or lose the lock, or set the throttle.
LEMMA WalkType ==
  ASSUME TypeOK, NEW w \in Workers,
         \/ Start(w) \/ AcquireWorkerLock(w) \/ ReleaseWorkerLock(w) \/ DeleteWorkerLock(w)
  PROVE  TypeOK'
  <1>1. TablesOK /\ WorkersOK
    BY TypeIsParts
  <1>2. fault = [fault EXCEPT ![w] = fault[w]]
        /\ fault[w] \in Faults \cup {"none"} /\ Placed(w)
    BY <1>1, WorkerUnchanged
  <1>3. CASE Start(w)
    <2>1. TablesOK'
      BY <1>1, <1>3 DEF Start, TablesOK, history
    <2>2. PICK place \in {"lock"} : Goto(w, place)
      BY <1>3 DEF Start
    <2>3. at[w] = "idle" /\ UNCHANGED <<batch, todo, fault>>
      BY <1>3 DEF Start
    <2>4. WorkersOK'
      BY <1>1, <1>2, <2>2, <2>3, WorkerGoesOn DEF Places, WorkingAt, Placed
    <2> QED
      BY <2>1, <2>4, TypeNext
  <1>4. CASE AcquireWorkerLock(w)
    <2>1. TablesOK'
      BY <1>1, <1>4 DEF AcquireWorkerLock, TablesOK, history
    <2>2. PICK place \in {"claim", "idle"} : Goto(w, place)
      BY <1>4 DEF AcquireWorkerLock
    <2>3. at[w] = "lock" /\ UNCHANGED <<batch, todo, fault>>
      BY <1>4 DEF AcquireWorkerLock
    <2>4. WorkersOK'
      BY <1>1, <1>2, <2>2, <2>3, WorkerGoesOn DEF Places, WorkingAt, Placed
    <2> QED
      BY <2>1, <2>4, TypeNext
  <1>5. CASE ReleaseWorkerLock(w)
    <2>1. TablesOK'
      BY <1>1, <1>5 DEF ReleaseWorkerLock, TablesOK, history
    <2>2. PICK place \in {"del", "idle"} : Goto(w, place)
      BY <1>5 DEF ReleaseWorkerLock
    <2>3. at[w] = "release" /\ UNCHANGED <<batch, todo, fault>>
      BY <1>5 DEF ReleaseWorkerLock
    <2>4. WorkersOK'
      BY <1>1, <1>2, <2>2, <2>3, WorkerGoesOn DEF Places, WorkingAt, Placed
    <2> QED
      BY <2>1, <2>4, TypeNext
  <1>6. CASE DeleteWorkerLock(w)
    <2>1. TablesOK'
      BY <1>1, <1>6 DEF DeleteWorkerLock, TablesOK, history
    <2>2. PICK place \in {"idle"} : Goto(w, place)
      BY <1>6 DEF DeleteWorkerLock
    <2>3. at[w] = "del" /\ UNCHANGED <<batch, todo, fault>>
      BY <1>6 DEF DeleteWorkerLock
    <2>4. WorkersOK'
      BY <1>1, <1>2, <2>2, <2>3, WorkerGoesOn DEF Places, WorkingAt, Placed
    <2> QED
      BY <2>1, <2>4, TypeNext
  <1> QED
    BY <1>3, <1>4, <1>5, <1>6

LEMMA ClaimType ==
  ASSUME TypeOK, NEW w \in Workers, ClaimDueOutboxItems(w)
  PROVE  TypeOK'
  <1> DEFINE swept == [m \in Mails |-> Expired(Reclaimed(mail[m]))]
             claimable == {m \in Mails : Claimable(swept[m])}
  <1>1. TablesOK /\ WorkersOK
    BY TypeIsParts
  <1>2. PICK S \in SUBSET claimable :
          /\ mail' = [m \in Mails |-> IF m \in S THEN Moved(swept[m], "PROCESSING", FALSE)
                                      ELSE swept[m]]
          /\ IF S = {} THEN Finish(w)
             ELSE batch' = [batch EXCEPT ![w] = S] /\ Goto(w, "fetch") /\ UNCHANGED todo
    BY DEF ClaimDueOutboxItems
  <1>3. /\ at[w] = "claim"
        /\ doubt' = [m \in Mails |-> IF IsStale(mail[m]) THEN "reclaimed" ELSE doubt[m]]
        /\ UNCHANGED <<lock, throttled, fault, failures, copies>>
    BY DEF ClaimDueOutboxItems
  <1>4. mail' \in [Mails -> Row]
    <2>1. ASSUME NEW m \in Mails
          PROVE  swept[m] \in Row /\ Moved(swept[m], "PROCESSING", FALSE) \in Row
      <3>1. swept[m] \in Row
        BY <1>1, SweptRow DEF TablesOK
      <3> QED
        BY <3>1, MovedRow DEF Stored, Open
    <2> HIDE DEF swept
    <2> QED
      BY <1>2, <2>1
  <1>5. TablesOK'
    <2>1. doubt' \in [Mails -> {"none", "unsure", "reclaimed"}]
      BY <1>1, <1>3 DEF TablesOK
    <2> QED
      BY <1>1, <1>3, <1>4, <2>1 DEF TablesOK
  <1>6. S \in SUBSET Mails
    BY <1>2
  <1> HIDE DEF swept, claimable
  <1>7. WorkersOK'
    <2>1. fault[w] = "none" /\ todo[w] = << >> /\ todo[w] \in Seq(Record)
      BY <1>1, <1>3, WorkerUnchanged DEF Placed, WorkingAt
    <2>2. fault' = [fault EXCEPT ![w] = "none"]
      BY <1>1, <1>3, <2>1, WorkerUnchanged
    <2>3. CASE S = {}
      BY <1>1, <1>2, <2>2, <2>3, WorkerFinishes
    <2>4. CASE S # {}
      <3>1. /\ at' = [at EXCEPT ![w] = "fetch"]
            /\ batch' = [batch EXCEPT ![w] = S]
            /\ todo' = [todo EXCEPT ![w] = todo[w]]
        BY <1>1, <1>2, <2>4, WorkerUnchanged DEF Goto
      <3>2. "fetch" \in Places /\ "none" \in Faults \cup {"none"} /\ "fetch" \notin WorkingAt
        BY DEF Places, WorkingAt
      <3> QED
        BY <1>1, <1>6, <2>1, <2>2, <2>4, <3>1, <3>2, WorkerMoves
    <2> QED
      BY <2>3, <2>4
  <1> QED
    BY <1>5, <1>7, TypeNext

LEMMA FetchType ==
  ASSUME TypeOK, NEW w \in Workers, FetchRecords(w)
  PROVE  TypeOK'
  <1>1. TablesOK /\ WorkersOK
    BY TypeIsParts
  <1>2. TablesOK'
    BY <1>1 DEF FetchRecords, TablesOK, history
  <1> DEFINE S == {m \in batch[w] : IsStored(m)}
  <1>3. PICK order \in SetToSeqs(S) :
       IF order = << >> THEN Finish(w)
       ELSE /\ todo' = [todo EXCEPT ![w] = [i \in DOMAIN order |->
                          [mail |-> order[i], attempts |-> mail[order[i]].attempts]]]
            /\ batch' = [batch EXCEPT ![w] = {}]
            /\ Goto(w, "send")
    BY DEF FetchRecords
  <1>4. at[w] = "fetch" /\ fault' = fault
    BY DEF FetchRecords
  <1>5. fault' = [fault EXCEPT ![w] = "none"]
    <2>1. fault[w] = "none"
      BY <1>1, <1>4, WorkerUnchanged DEF Placed
    <2> QED
      BY <1>1, <1>4, <2>1, WorkerUnchanged
  <1>6. S \in SUBSET Mails
    BY <1>1, WorkerUnchanged
  <1> HIDE DEF S
  <1>7. CASE order = << >>
    BY <1>1, <1>2, <1>3, <1>5, <1>7, WorkerFinishes, TypeNext
  <1>8. CASE order # << >>
    <2> DEFINE records == [i \in DOMAIN order |->
                             [mail |-> order[i], attempts |-> mail[order[i]].attempts]]
    <2>1. /\ Len(order) \in Nat /\ DOMAIN order = 1..Len(order) /\ 1 \in DOMAIN order
          /\ \A i \in DOMAIN order : order[i] \in Mails
      BY <1>6, <1>8, FetchedOrder
    <2>2. \A i \in DOMAIN order : [mail |-> order[i], attempts |-> mail[order[i]].attempts] \in Record
      BY <1>1, <2>1 DEF TablesOK, Row, Record
    <2>3. records \in Seq(Record) /\ Len(records) = Len(order)
      BY <2>1, <2>2
    <2>4. records # << >>
      BY <2>1, <2>3
    <2> HIDE DEF records
    <2>5. /\ at' = [at EXCEPT ![w] = "send"]
          /\ batch' = [batch EXCEPT ![w] = {}]
          /\ todo' = [todo EXCEPT ![w] = records]
      BY <1>3, <1>8 DEF Goto, records
    <2>6. "send" \in Places /\ "none" \in Faults \cup {"none"} /\ "send" \in WorkingAt
      BY DEF Places, WorkingAt
    <2>7. WorkersOK'
      BY <1>1, <1>5, <2>3, <2>4, <2>5, <2>6, WorkerMoves
    <2> QED
      BY <1>2, <2>7, TypeNext
  <1> QED
    BY <1>7, <1>8

LEMMA SendType ==
  ASSUME TypeOK, NEW w \in Workers, Send(w)
  PROVE  TypeOK'
  <1>1. TablesOK /\ WorkersOK
    BY TypeIsParts
  <1>2. at[w] = "send" /\ UNCHANGED <<mail, lock, throttled, batch, todo, failures>>
    BY DEF Send
  <1>3. PICK result \in Faults \cup {"none"} :
          /\ SendEmail(Current(w).mail, result)
          /\ fault' = [fault EXCEPT ![w] = result]
          /\ Goto(w, IF result = "none" THEN "mark" ELSE "settle")
    BY DEF Send
  <1>4. Current(w).mail \in Mails
    BY <1>2, CurrentType DEF WorkingAt
  <1>5. TablesOK'
    BY <1>1, <1>2, <1>3, <1>4, SendEmailType DEF TablesOK
  <1>6. PICK place \in {"mark", "settle"} :
          Goto(w, place) /\ (result # "none" <=> place = "settle")
    BY <1>3
  <1>7. WorkersOK'
    <2>1. place \in Places /\ place \in WorkingAt /\ place # "fetch" /\ at[w] \in WorkingAt
      BY <1>2 DEF Places, WorkingAt
    <2> QED
      BY <1>1, <1>2, <1>3, <1>6, <2>1, WorkerGoesOn
  <1> QED
    BY <1>5, <1>7, TypeNext

LEMMA MarkSentType ==
  ASSUME TypeOK, NEW w \in Workers, MarkSent(w)
  PROVE  TypeOK'
  <1> DEFINE m == Current(w).mail
             marked == [n \in Mails |-> IF n \in Marked(w) THEN Moved(mail[n], "SENT", FALSE)
                                        ELSE mail[n]]
  <1>1. TablesOK /\ WorkersOK
    BY TypeIsParts
  <1>2. at[w] = "mark" /\ UNCHANGED <<lock, throttled, copies>>
    BY DEF MarkSent
  <1>3. m \in Mails
    BY <1>2, CurrentType DEF WorkingAt
  <1>4. marked \in [Mails -> Row]
    <2>1. ASSUME NEW n \in Mails PROVE Moved(mail[n], "SENT", FALSE) \in Row /\ mail[n] \in Row
      BY <1>1, MovedRow DEF TablesOK, Stored
    <2> QED
      BY <2>1
  <1>5. fault[w] = "none" /\ fault = [fault EXCEPT ![w] = "none"]
    BY <1>1, <1>2, WorkerUnchanged DEF Placed
  <1>6. \/ /\ mail' = marked
           /\ Advance(w)
           /\ UNCHANGED <<fault, failures, doubt>>
        \/ /\ \/ UNCHANGED <<mail, failures>>
              \/ Fails /\ mail' \in {mail, marked}
           /\ \E f \in {"throttle", "permanent"} : fault' = [fault EXCEPT ![w] = f]
           /\ Doubts(m)
           /\ Goto(w, "settle")
           /\ UNCHANGED <<batch, todo>>
    BY DEF MarkSent
  <1> HIDE DEF m, marked
  <1>7. CASE mail' = marked /\ Advance(w) /\ UNCHANGED <<fault, failures, doubt>>
    <2>1. TablesOK'
      BY <1>1, <1>2, <1>4, <1>7 DEF TablesOK
    <2>2. WorkersOK'
      BY <1>1, <1>2, <1>5, <1>7, WorkerAdvances
    <2> QED
      BY <2>1, <2>2, TypeNext
  <1>8. ASSUME \/ UNCHANGED <<mail, failures>>
               \/ Fails /\ mail' \in {mail, marked},
               NEW f \in {"throttle", "permanent"}, fault' = [fault EXCEPT ![w] = f],
               Doubts(m), Goto(w, "settle"), UNCHANGED <<batch, todo>>
        PROVE  TypeOK'
    <2>1. failures' \in 0..MaxFailures
      BY <1>1, <1>8, FailsType DEF TablesOK
    <2>2. mail' \in [Mails -> Row]
      BY <1>1, <1>4, <1>8 DEF TablesOK
    <2>3. doubt' \in [Mails -> {"none", "unsure", "reclaimed"}]
      BY <1>1, <1>3, <1>8, DoubtsType
    <2>4. TablesOK'
      BY <1>1, <1>2, <2>1, <2>2, <2>3 DEF TablesOK
    <2>5. /\ "settle" \in Places /\ f \in Faults \cup {"none"} /\ f # "none"
          /\ at[w] # "fetch" /\ at[w] \in WorkingAt /\ "settle" \in WorkingAt
      BY <1>2 DEF Places, Faults, WorkingAt
    <2>6. WorkersOK'
      BY <1>1, <1>8, <2>5, WorkerGoesOn
    <2> QED
      BY <2>4, <2>6, TypeNext
  <1> QED
    BY <1>6, <1>7, <1>8

LEMMA SettleType ==
  ASSUME TypeOK, NEW w \in Workers, SettleFailure(w)
  PROVE  TypeOK'
  <1>1. TablesOK /\ WorkersOK
    BY TypeIsParts
  <1>2. /\ at[w] = "settle" /\ fault' = [fault EXCEPT ![w] = "none"]
        /\ UNCHANGED <<lock, throttled, failures, history>>
    BY DEF SettleFailure
  <1>3. mail' \in [Mails -> Row]
    BY <1>1, <1>2, SettledRow DEF SettleFailure, TablesOK
  <1>4. TablesOK'
    BY <1>1, <1>2, <1>3 DEF TablesOK, history
  <1>5. Finish(w) \/ Advance(w) \/ (Goto(w, "throttle") /\ UNCHANGED <<batch, todo>>)
    BY DEF SettleFailure
  <1>6. CASE Goto(w, "throttle") /\ UNCHANGED <<batch, todo>>
    <2>1. /\ "throttle" \in Places /\ "none" \in Faults \cup {"none"}
          /\ at[w] # "fetch" /\ at[w] \in WorkingAt /\ "throttle" \in WorkingAt
      BY <1>2 DEF Places, WorkingAt
    <2> QED
      BY <1>1, <1>2, <1>4, <1>6, <2>1, WorkerGoesOn, TypeNext
  <1>7. CASE Finish(w)
    BY <1>1, <1>2, <1>4, <1>7, WorkerFinishes, TypeNext
  <1>8. CASE Advance(w)
    BY <1>1, <1>2, <1>4, <1>8, WorkerAdvances, TypeNext
  <1> QED
    BY <1>5, <1>6, <1>7, <1>8

LEMMA ThrottleType ==
  ASSUME TypeOK, NEW w \in Workers, SetGlobalThrottlePause(w) \/ DeferTail(w)
  PROVE  TypeOK'
  <1>1. TablesOK /\ WorkersOK
    BY TypeIsParts
  <1>2. at[w] \in {"throttle", "defer"} /\ UNCHANGED <<lock, fault, failures, history>>
    BY DEF SetGlobalThrottlePause, DeferTail
  <1>3. fault[w] = "none" /\ fault' = [fault EXCEPT ![w] = "none"]
    BY <1>1, <1>2, WorkerUnchanged DEF Placed
  <1>4. throttled' \in BOOLEAN
    <2>1. CASE SetGlobalThrottlePause(w)
      <3>1. throttled \in BOOLEAN
        BY <1>1 DEF TablesOK
      <3>2. throttled' = throttled \/ throttled' = TRUE
        BY <2>1 DEF SetGlobalThrottlePause
      <3> QED
        BY <3>1, <3>2, Zenon
    <2>2. CASE DeferTail(w)
      BY <1>1, <2>2 DEF DeferTail, TablesOK
    <2> QED
      BY <2>1, <2>2
  <1>5. mail' \in [Mails -> Row]
    <2>1. CASE SetGlobalThrottlePause(w)
      BY <1>1, <2>1 DEF SetGlobalThrottlePause, TablesOK
    <2>2. CASE DeferTail(w)
      <3>1. ASSUME NEW m \in Mails
            PROVE  Moved(mail[m], "RETRYING", FALSE) \in Row /\ mail[m] \in Row
        BY <1>1, MovedRow DEF TablesOK, Stored, Open
      <3>2. mail' = [m \in Mails |-> IF m \in Tailing(w) /\ IsStored(m)
                              THEN Moved(mail[m], "RETRYING", FALSE) ELSE mail[m]]
        BY <2>2 DEF DeferTail
      <3> QED
        BY <3>1, <3>2
    <2> QED
      BY <2>1, <2>2
  <1>6. TablesOK'
    BY <1>1, <1>2, <1>4, <1>5 DEF TablesOK, history
  <1>7. Finish(w) \/ (Goto(w, "defer") /\ UNCHANGED <<batch, todo>>)
    BY DEF SetGlobalThrottlePause, DeferTail
  <1>8. CASE Finish(w)
    BY <1>1, <1>3, <1>6, <1>8, WorkerFinishes, TypeNext
  <1>9. CASE Goto(w, "defer") /\ UNCHANGED <<batch, todo>>
    <2>1. /\ "defer" \in Places /\ "none" \in Faults \cup {"none"}
          /\ at[w] # "fetch" /\ at[w] \in WorkingAt /\ "defer" \in WorkingAt
      BY <1>2 DEF Places, WorkingAt
    <2> QED
      BY <1>1, <1>3, <1>6, <1>9, <2>1, WorkerGoesOn, TypeNext
  <1> QED
    BY <1>7, <1>8, <1>9

LEMMA FailureType ==
  ASSUME TypeOK, NEW w \in Workers, StatementFails(w) \/ Crash(w)
  PROVE  TypeOK'
  <1>1. TablesOK /\ WorkersOK
    BY TypeIsParts
  <1>2. /\ Fails /\ UNCHANGED <<throttled, history>> /\ fault' = [fault EXCEPT ![w] = "none"]
    BY DEF StatementFails, Crash
  <1>3. failures' \in 0..MaxFailures
    BY <1>1, <1>2, FailsType
  <1>4. CASE StatementFails(w)
    <2>1. mail' \in [Mails -> Row] /\ lock' = lock /\ Finish(w)
      BY <1>1, <1>4, SettledRow DEF StatementFails, TablesOK
    <2>2. TablesOK'
      BY <1>1, <1>2, <1>3, <2>1 DEF TablesOK, history
    <2> QED
      BY <1>1, <1>2, <2>1, <2>2, WorkerFinishes, TypeNext
  <1>5. CASE Crash(w)
    <2>1. TablesOK'
      BY <1>1, <1>2, <1>3, <1>5 DEF TablesOK, history, Crash
    <2>2. /\ at' = [at EXCEPT ![w] = "idle"]
          /\ batch' = [batch EXCEPT ![w] = {}]
          /\ todo' = [todo EXCEPT ![w] = << >>]
      BY <1>5 DEF Crash, Goto
    <2>3. /\ "idle" \in Places /\ {} \in SUBSET Mails /\ << >> \in Seq(Record)
          /\ "none" \in Faults \cup {"none"} /\ "idle" \notin WorkingAt
      BY DEF Places, WorkingAt
    <2>4. WorkersOK'
      BY <1>1, <1>2, <2>2, <2>3, WorkerMoves
    <2> QED
      BY <2>1, <2>4, TypeNext
  <1> QED
    BY <1>4, <1>5

LEMMA TimeType ==
  ASSUME TypeOK,
         \/ CleanupEmailOutbox \/ LockExpires \/ ThrottleEnds
         \/ \E m \in Mails : BecomesDue(m) \/ GoesStale(m) \/ Expires(m)
  PROVE  TypeOK'
  <1>1. TablesOK /\ WorkersOK
    BY TypeIsParts
  <1>2. UNCHANGED <<at, batch, todo, fault>>
    BY DEF CleanupEmailOutbox, LockExpires, ThrottleEnds, BecomesDue, GoesStale, Expires, Ticks,
           workerVars
  <1>3. WorkersOK'
    BY <1>1, <1>2 DEF WorkersOK, Placed
  <1>4. CASE CleanupEmailOutbox
    <2>1. ASSUME NEW m \in Mails
          PROVE  Moved(mail[m], "DELETED", FALSE) \in Row /\ mail[m] \in Row
      BY <1>1, MovedRow DEF TablesOK, Unstored
    <2>2. mail' \in [Mails -> Row]
      BY <1>4, <2>1 DEF CleanupEmailOutbox
    <2>3. TablesOK'
      BY <1>1, <1>4, <2>2 DEF CleanupEmailOutbox, TablesOK, history
    <2> QED
      BY <1>3, <2>3, TypeNext
  <1>5. CASE LockExpires
    <2>1. TablesOK'
      BY <1>1, <1>5 DEF LockExpires, TablesOK, history
    <2> QED
      BY <1>3, <2>1, TypeNext
  <1>6. CASE ThrottleEnds
    <2>1. throttled' \in BOOLEAN
      BY <1>6 DEF ThrottleEnds
    <2>2. TablesOK'
      BY <1>1, <1>6, <2>1 DEF ThrottleEnds, TablesOK, history
    <2> QED
      BY <1>3, <2>2, TypeNext
  <1>7. ASSUME NEW m \in Mails, BecomesDue(m) \/ GoesStale(m) \/ Expires(m)
        PROVE  TypeOK'
    <2>1. mail \in [Mails -> Row] /\ mail[m] \in Row
      BY <1>1 DEF TablesOK
    <2>2. /\ [mail[m] EXCEPT !.due = TRUE] \in Row
          /\ [mail[m] EXCEPT !.stale = TRUE] \in Row
          /\ [mail[m] EXCEPT !.expired = TRUE] \in Row
      BY <2>1 DEF Row
    <2>3. mail' \in [Mails -> Row]
      BY <1>7, <2>1, <2>2 DEF BecomesDue, GoesStale, Expires, Ticks
    <2>4. TablesOK'
      BY <1>1, <1>7, <2>3 DEF BecomesDue, GoesStale, Expires, Ticks, TablesOK, history
    <2> QED
      BY <1>3, <2>4, TypeNext
  <1> QED
    BY <1>4, <1>5, <1>6, <1>7

LEMMA TypeStep == ASSUME TypeOK, [Next]_vars PROVE TypeOK'
  <1>1. CASE UNCHANGED vars
    BY <1>1 DEF TypeOK, vars, workerVars, history
  <1>2. ASSUME NEW m \in Mails, SendEmailWithRecovery(m)
        PROVE  TypeOK'
    BY <1>2, SendWithRecoveryType
  <1>3. ASSUME NEW w \in Workers, Batch(w) \/ StatementFails(w) \/ Crash(w)
        PROVE  TypeOK'
    BY <1>3, WalkType, ClaimType, FetchType, SendType, MarkSentType, SettleType, ThrottleType,
       FailureType DEF Batch
  <1> QED
    BY <1>1, <1>2, <1>3, TimeType DEF Next

\* Rows, claims, records and errors keep their types.
THEOREM TypeCorrect == Spec => []TypeOK
  BY InitType, TypeStep, PTL DEF Spec

-----------------------------------------------------------------------------
(* Claims.  A worker holds a mail from its claim until it has settled it;  *)
(* while no claim on the mail was ever taken back, nobody else holds it.   *)

InWork == {"send", "mark", "settle"}

\* The first record is in hand, unless it was settled with a throttle error.
Holds(w, m) ==
  \/ m \in batch[w]
  \/ \E i \in DOMAIN todo[w] : todo[w][i].mail = m /\ (i = 1 => at[w] \in InWork)

Marking(w, m) == at[w] = "mark" /\ Current(w).mail = m

\* The records of a worker are of different mails, and were read with an attempt left.
RecordsOK(w) ==
  /\ \A i, j \in DOMAIN todo[w] : todo[w][i].mail = todo[w][j].mail => i = j
  /\ \A i \in DOMAIN todo[w] :
       doubt[todo[w][i].mail] # "reclaimed" => todo[w][i].attempts < MaxAttempts
  /\ at[w] = "mark" => copies[Current(w).mail] > 0

HeldOK(w, m) ==
  Holds(w, m) =>
    /\ mail[m].status \in {"PROCESSING", "SENT", "FAILED", "DELETED"}
    /\ mail[m].attempts < MaxAttempts
    /\ doubt[m] = "none" => /\ mail[m].status # "SENT"
                            /\ ~Marking(w, m) => copies[m] = 0

RowOK(m) ==
  /\ mail[m].attempts <= MaxAttempts
  /\ mail[m].status \in {"NEW", "PENDING", "RETRYING", "PROCESSING"} =>
       mail[m].attempts < MaxAttempts
  /\ doubt[m] = "none" =>
       /\ copies[m] <= 1
       /\ mail[m].status \in {"NEW", "PENDING", "RETRYING"} => copies[m] = 0

MailOK(m) ==
  /\ mail[m].status \in {"SENT", "DIRECT"} => copies[m] > 0
  /\ mail[m].status = "NEW" => doubt[m] = "none" /\ mail[m].attempts = 0
  /\ doubt[m] # "reclaimed" =>
       /\ \A w, x \in Workers : Holds(w, m) /\ Holds(x, m) => w = x
       /\ \A w \in Workers : HeldOK(w, m)
       /\ RowOK(m)

IInv ==
  /\ TypeOK
  /\ \A w \in Workers : RecordsOK(w)
  /\ \A m \in Mails : MailOK(m)

LEMMA InitInv == ASSUME Init, TypeOK PROVE IInv
  <1>1. ASSUME NEW w \in Workers PROVE RecordsOK(w)
    BY DEF Init, RecordsOK
  <1>2. ASSUME NEW m \in Mails PROVE MailOK(m)
    <2>1. \A w \in Workers : ~Holds(w, m)
      BY DEF Init, Holds
    <2> QED
      BY <2>1, OutboxAssumption DEF Init, MailOK, HeldOK, RowOK
  <1> QED
    BY <1>1, <1>2 DEF IInv

\* One worker moves.
Others(w) ==
  \A x \in Workers \ {w} : at'[x] = at[x] /\ batch'[x] = batch[x] /\ todo'[x] = todo[x]

LEMMA OthersHold ==
  ASSUME NEW w \in Workers, Others(w), NEW x \in Workers \ {w}, NEW m
  PROVE  (Holds(x, m)' <=> Holds(x, m)) /\ (Marking(x, m)' <=> Marking(x, m))
  BY DEF Others, Holds, Marking, Current

\* The mail is not the one the step is about: at most its claim is given up, or the row
\* expires or is deleted.
LEMMA Untouched ==
  ASSUME NEW m \in Mails, MailOK(m),
         \A x \in Workers : Holds(x, m)' => Holds(x, m) /\ (Marking(x, m)' <=> Marking(x, m)),
         mail'[m].attempts = mail[m].attempts,
         \/ mail'[m].status = mail[m].status
         \/ mail'[m].status = "FAILED" /\ mail[m].status \in Open
         \/ mail'[m].status = "DELETED",
         copies'[m] = copies[m], doubt'[m] = doubt[m]
  PROVE  MailOK(m)'
  <1>1. ASSUME doubt[m] # "reclaimed", NEW x \in Workers, HeldOK(x, m) PROVE HeldOK(x, m)'
    BY <1>1 DEF HeldOK
  <1>2. ASSUME RowOK(m) PROVE RowOK(m)'
    BY <1>2 DEF RowOK, Open
  <1> QED
    BY <1>1, <1>2 DEF MailOK

\* The mail is in the hands of one worker, which gives it up.
LEMMA GivenUp ==
  ASSUME TypeOK, NEW m \in Mails, MailOK(m), NEW w \in Workers, Others(w),
         Holds(w, m), ~Holds(w, m)',
         copies'[m] = copies[m], doubt'[m] = doubt[m],
         \/ mail'[m].status = "SENT" /\ copies[m] > 0 /\ mail'[m].attempts = mail[m].attempts
         \/ /\ mail'[m].status \in {"RETRYING", "FAILED"} /\ ~Marking(w, m)
            /\ doubt[m] # "reclaimed" =>
                 /\ mail'[m].attempts <= MaxAttempts
                 /\ mail'[m].status = "RETRYING" => mail'[m].attempts < MaxAttempts
  PROVE  MailOK(m)'
  <1>1. ASSUME doubt[m] # "reclaimed", NEW x \in Workers PROVE ~Holds(x, m)'
    BY <1>1, OthersHold DEF MailOK
  <1>2. ASSUME doubt[m] # "reclaimed" PROVE RowOK(m)'
    <2>1. HeldOK(w, m) /\ RowOK(m)
      BY <1>2 DEF MailOK
    <2> QED
      BY <1>2, <2>1 DEF HeldOK, RowOK
  <1>3. mail'[m].status \in {"SENT", "DIRECT"} => copies'[m] > 0
    OBVIOUS
  <1>4. mail'[m].status # "NEW"
    OBVIOUS
  <1> QED
    BY <1>1, <1>2, <1>3, <1>4 DEF MailOK, HeldOK

\* The mail stays in the hands of one worker, and is sent or marked there.
LEMMA KeptInHand ==
  ASSUME TypeOK, TypeOK', NEW m \in Mails, MailOK(m), NEW w \in Workers, Others(w),
         Holds(w, m), Holds(w, m)',
         mail'[m].attempts = mail[m].attempts,
         mail'[m].status = mail[m].status \/ (mail'[m].status = "SENT" /\ doubt'[m] # "none"),
         copies'[m] >= copies[m], mail'[m].status = "SENT" => copies'[m] > 0,
         doubt'[m] = "none" => /\ doubt[m] = "none" /\ copies'[m] <= 1
                               /\ ~Marking(w, m)' => copies'[m] = 0,
         doubt[m] = "reclaimed" => doubt'[m] = "reclaimed"
  PROVE  MailOK(m)'
  <1>0. copies[m] \in Nat /\ copies'[m] \in Nat
    <2>1. copies \in [Mails -> 0..2]
      BY DEF TypeOK
    <2>2. copies' \in [Mails -> 0..2]
      BY DEF TypeOK
    <2> QED
      BY <2>1, <2>2
  <1>1. mail[m].status # "NEW"
    BY DEF MailOK, HeldOK
  <1>2. ASSUME doubt'[m] # "reclaimed"
        PROVE  /\ \A x \in Workers : Holds(x, m)' => x = w
               /\ \A x \in Workers : HeldOK(x, m)'
               /\ RowOK(m)'
    <2>1. \A x \in Workers : Holds(x, m) => x = w
      BY <1>2 DEF MailOK
    <2>2. HeldOK(w, m) /\ RowOK(m)
      BY <1>2 DEF MailOK
    <2>3. \A x \in Workers : Holds(x, m)' => x = w
      BY <2>1, OthersHold
    <2>4. HeldOK(w, m)'
      BY <2>2 DEF HeldOK
    <2>5. \A x \in Workers : HeldOK(x, m)'
      BY <2>3, <2>4 DEF HeldOK
    <2>6. RowOK(m)'
      BY <2>2 DEF HeldOK, RowOK
    <2> QED
      BY <2>3, <2>5, <2>6
  <1>3. mail'[m].status \in {"SENT", "DIRECT"} => copies'[m] > 0
    BY <1>0 DEF MailOK
  <1> QED
    BY <1>1, <1>2, <1>3 DEF MailOK

\* What a worker holds after the moves it makes.
LEMMA FinishHolds ==
  ASSUME WorkersOK, NEW w \in Workers, NEW place,
         Goto(w, place), batch' = [batch EXCEPT ![w] = {}], todo' = [todo EXCEPT ![w] = << >>],
         place # "mark"
  PROVE  /\ Others(w) /\ \A m : ~Holds(w, m)' /\ ~Marking(w, m)'
         /\ RecordsOK(w)'
         /\ \A x \in Workers \ {w} : todo'[x] = todo[x] /\ at'[x] = at[x]
  BY DEF WorkersOK, Goto, Others, Holds, Marking, RecordsOK

LEMMA StayHolds ==
  ASSUME WorkersOK, NEW w \in Workers, NEW place,
         Goto(w, place), UNCHANGED <<batch, todo>>,
         at[w] \in InWork <=> place \in InWork
  PROVE  /\ Others(w)
         /\ \A m : Holds(w, m)' <=> Holds(w, m)
         /\ at'[w] = place
         /\ \A m : Marking(w, m)' <=> place = "mark" /\ Current(w).mail = m
         /\ Current(w)' = Current(w)
  BY DEF WorkersOK, Goto, Others, Holds, Marking, Current

\* The current mail is in hand, and the others of the batch behind it are different ones.
LEMMA InHand ==
  ASSUME TypeOK, NEW w \in Workers, at[w] \in InWork
  PROVE  /\ Holds(w, Current(w).mail)
         /\ Current(w) = todo[w][1] /\ 1 \in DOMAIN todo[w]
         /\ Current(w) \in Record /\ Current(w).mail \in Mails
  <1>1. /\ todo[w] \in Seq(Record) /\ Len(todo[w]) \in Nat /\ Len(todo[w]) >= 1
        /\ Current(w) = todo[w][1] /\ Current(w) \in Record /\ Current(w).mail \in Mails
    BY CurrentType DEF WorkingAt, InWork
  <1>2. 1 \in DOMAIN todo[w]
    BY <1>1
  <1> QED
    BY <1>1, <1>2 DEF Holds

LEMMA AdvanceHolds ==
  ASSUME TypeOK, NEW w \in Workers, RecordsOK(w), at[w] \in {"mark", "settle"}, Advance(w),
         \A m \in Mails : doubt'[m] = doubt[m]
  PROVE  /\ Others(w)
         /\ \A m \in Mails : Holds(w, m)' => Holds(w, m) /\ m # Current(w).mail
         /\ \A m : ~Marking(w, m)'
         /\ RecordsOK(w)'
  <1>1. WorkersOK
    BY TypeIsParts
  <1>2. CASE Len(todo[w]) = 1
    BY <1>1, <1>2, FinishHolds DEF Advance, Finish
  <1>3. CASE Len(todo[w]) # 1
    <2> DEFINE s == todo[w]
               t == Tail(todo[w])
    <2>1. /\ s \in Seq(Record) /\ s # << >> /\ Len(s) \in Nat /\ Len(s) >= 1
          /\ Current(w) = s[1]
      BY CurrentType DEF WorkingAt
    <2>2. /\ t \in Seq(Record) /\ Len(t) = Len(s) - 1
          /\ \A i \in 1..Len(t) : t[i] = s[i + 1]
      BY <2>1, TailOf
    <2>3. /\ at' = [at EXCEPT ![w] = "send"] /\ todo' = [todo EXCEPT ![w] = t]
          /\ batch' = batch
      BY <1>1, <1>3 DEF Advance, Goto, WorkersOK
    <2>4. at'[w] = "send" /\ todo'[w] = t /\ Others(w)
      BY <1>1, <2>3 DEF WorkersOK, Others
    <2>5. /\ DOMAIN s = 1..Len(s) /\ DOMAIN t = 1..Len(t)
          /\ \A i \in DOMAIN t : i + 1 \in DOMAIN s /\ t[i] = s[i + 1] /\ i + 1 # 1
          /\ 1 \in DOMAIN s
      BY <2>1, <2>2
    <2>6. /\ \A i \in DOMAIN t : i \in Nat
          /\ \A i \in DOMAIN t : t[i] \in Record
      BY <2>2, <2>5
    <2> HIDE DEF t
    <2>7. ASSUME NEW m \in Mails, Holds(w, m)'
          PROVE  Holds(w, m) /\ m # Current(w).mail
      <3>1. CASE m \in batch'[w]
        <4>1. batch[w] = {}
          BY CurrentType DEF WorkingAt
        <4> QED
          BY <2>3, <3>1, <4>1
      <3>2. ASSUME NEW i \in DOMAIN t, t[i].mail = m
            PROVE  Holds(w, m) /\ m # Current(w).mail
        <4>1. i + 1 \in DOMAIN s /\ s[i + 1].mail = m /\ i + 1 # 1
          BY <2>5, <3>2
        <4> QED
          BY <2>1, <2>5, <4>1 DEF Holds, RecordsOK
      <3> QED
        BY <2>4, <2>7, <3>1, <3>2 DEF Holds
    <2>8. RecordsOK(w)'
      <3>1. ASSUME NEW i \in DOMAIN t, NEW j \in DOMAIN t, t[i].mail = t[j].mail
            PROVE  i = j
        <4>1. i + 1 = j + 1
          BY <2>5, <3>1 DEF RecordsOK
        <4> QED
          BY <2>6, <4>1
      <3>2. ASSUME NEW i \in DOMAIN t, doubt'[t[i].mail] # "reclaimed"
            PROVE  t[i].attempts < MaxAttempts
        <4>1. t[i].mail \in Mails
          BY <2>6 DEF Record
        <4> QED
          BY <2>5, <3>2, <4>1 DEF RecordsOK
      <3> QED
        BY <2>4, <3>1, <3>2 DEF RecordsOK
    <2> QED
      BY <2>4, <2>7, <2>8 DEF Marking
  <1> QED
    BY <1>2, <1>3

LEMMA RecordType ==
  ASSUME TypeOK, NEW w \in Workers, NEW i \in DOMAIN todo[w]
  PROVE  todo[w][i] \in Record /\ todo[w][i].mail \in Mails /\ todo[w][i].attempts \in Nat
  <1>1. todo[w] \in Seq(Record)
    BY TypeIsParts DEF WorkersOK
  <1>2. todo[w][i] \in Record
    BY <1>1
  <1> QED
    BY <1>2 DEF Record

\* The records of the workers that do not move stay as good as they were.
LEMMA OthersRecords ==
  ASSUME TypeOK, NEW w \in Workers, Others(w), NEW x \in Workers \ {w}, RecordsOK(x),
         \A m \in Mails : doubt[m] = "reclaimed" => doubt'[m] = "reclaimed",
         \A m \in Mails : copies[m] > 0 => copies'[m] > 0
  PROVE  RecordsOK(x)'
  <1>1. /\ at'[x] = at[x] /\ todo'[x] = todo[x]
        /\ \A i \in DOMAIN todo[x] : todo[x][i].mail \in Mails
    BY RecordType DEF Others
  <1>2. at[x] = "mark" => Current(x).mail \in Mails
    BY CurrentType DEF WorkingAt
  <1> QED
    BY <1>1, <1>2 DEF RecordsOK, Current

LEMMA StayRecords ==
  ASSUME TypeOK, NEW w \in Workers, RecordsOK(w), todo'[w] = todo[w],
         \A m \in Mails : doubt[m] = "reclaimed" => doubt'[m] = "reclaimed",
         at'[w] = "mark" => copies'[Current(w).mail] > 0
  PROVE  RecordsOK(w)'
  <1>1. \A i \in DOMAIN todo[w] : todo[w][i].mail \in Mails
    BY RecordType
  <1> QED
    BY <1>1 DEF RecordsOK, Current

-----------------------------------------------------------------------------
(* The steps *)

Claims == (\A w \in Workers : RecordsOK(w)) /\ (\A m \in Mails : MailOK(m))

\* A step after which no worker holds more, and the mails are as good as they were.
LEMMA QuietStep ==
  ASSUME IInv, NEW w \in Workers, Others(w), RecordsOK(w)',
         \A m \in Mails : Holds(w, m)' => Holds(w, m) /\ (Marking(w, m)' <=> Marking(w, m)),
         \A m \in Mails :
           /\ mail'[m].attempts = mail[m].attempts
           /\ \/ mail'[m].status = mail[m].status
              \/ mail'[m].status = "FAILED" /\ mail[m].status \in Open
              \/ mail'[m].status = "DELETED",
         UNCHANGED history
  PROVE  Claims'
  <1>1. ASSUME NEW x \in Workers PROVE RecordsOK(x)'
    BY <1>1, OthersRecords DEF IInv, history
  <1>2. ASSUME NEW m \in Mails PROVE MailOK(m)'
    <2>1. \A x \in Workers : Holds(x, m)' => Holds(x, m) /\ (Marking(x, m)' <=> Marking(x, m))
      BY OthersHold
    <2>2. MailOK(m)
      BY DEF IInv
    <2>3. copies'[m] = copies[m] /\ doubt'[m] = doubt[m]
      BY DEF history
    <2> QED
      BY <2>1, <2>2, <2>3, Untouched
  <1> QED
    BY <1>1, <1>2 DEF Claims

LEMMA WalkStep ==
  ASSUME IInv, NEW w \in Workers,
         \/ Start(w) \/ AcquireWorkerLock(w) \/ ReleaseWorkerLock(w) \/ DeleteWorkerLock(w)
  PROVE  Claims'
  <1>1. TypeOK /\ WorkersOK /\ RecordsOK(w)
    BY TypeIsParts DEF IInv
  <1>2. PICK place \in {"lock", "claim", "idle", "del"} : Goto(w, place)
    BY DEF Start, AcquireWorkerLock, ReleaseWorkerLock, DeleteWorkerLock
  <1>3. /\ at[w] \in {"idle", "lock", "release", "del"}
        /\ UNCHANGED <<mail, batch, todo, history>>
    BY DEF Start, AcquireWorkerLock, ReleaseWorkerLock, DeleteWorkerLock
  <1>4. /\ Others(w) /\ at'[w] = place
        /\ \A m : Holds(w, m)' <=> Holds(w, m)
        /\ \A m : ~Marking(w, m)' /\ ~Marking(w, m)
    BY <1>1, <1>2, <1>3, StayHolds DEF InWork, Marking
  <1>5. RecordsOK(w)'
    BY <1>1, <1>2, <1>3, <1>4, StayRecords DEF history
  <1> QED
    BY <1>3, <1>4, <1>5, QuietStep

\* A batch that ends gives up its claims.
LEMMA CrashStep ==
  ASSUME IInv, NEW w \in Workers, Crash(w)
  PROVE  Claims'
  <1>1. WorkersOK
    BY TypeIsParts DEF IInv
  <1>2. /\ Others(w) /\ RecordsOK(w)'
        /\ \A m : ~Holds(w, m)'
    BY <1>1, FinishHolds DEF Crash
  <1> QED
    BY <1>2, QuietStep DEF Crash

LEMMA ThrottleStep ==
  ASSUME IInv, NEW w \in Workers, SetGlobalThrottlePause(w)
  PROVE  Claims'
  <1>1. TypeOK /\ WorkersOK /\ RecordsOK(w)
    BY TypeIsParts DEF IInv
  <1>2. at[w] = "throttle" /\ UNCHANGED <<mail, history>>
    BY DEF SetGlobalThrottlePause
  <1>3. CASE Finish(w)
    <2>1. /\ Others(w) /\ RecordsOK(w)'
          /\ \A m : ~Holds(w, m)'
      BY <1>1, <1>3, FinishHolds DEF Finish
    <2> QED
      BY <1>2, <2>1, QuietStep
  <1>4. CASE Goto(w, "defer") /\ UNCHANGED <<batch, todo>>
    <2>1. /\ Others(w) /\ at'[w] = "defer"
          /\ \A m : Holds(w, m)' <=> Holds(w, m)
          /\ \A m : ~Marking(w, m)' /\ ~Marking(w, m)
      BY <1>1, <1>2, <1>4, StayHolds DEF InWork, Marking
    <2>2. RecordsOK(w)'
      BY <1>1, <1>2, <1>4, <2>1, StayRecords DEF history
    <2> QED
      BY <1>2, <2>1, <2>2, QuietStep
  <1> QED
    BY <1>3, <1>4 DEF SetGlobalThrottlePause

LEMMA FetchStep ==
  ASSUME IInv, NEW w \in Workers, FetchRecords(w)
  PROVE  Claims'
  <1> DEFINE S == {m \in batch[w] : IsStored(m)}
  <1>1. TypeOK /\ WorkersOK /\ \A m \in Mails : MailOK(m)
    BY TypeIsParts DEF IInv
  <1>2. at[w] = "fetch" /\ UNCHANGED <<mail, history>>
    BY DEF FetchRecords
  <1>3. PICK order \in SetToSeqs(S) :
       IF order = << >> THEN Finish(w)
       ELSE /\ todo' = [todo EXCEPT ![w] = [i \in DOMAIN order |->
                          [mail |-> order[i], attempts |-> mail[order[i]].attempts]]]
            /\ batch' = [batch EXCEPT ![w] = {}]
            /\ Goto(w, "send")
    BY DEF FetchRecords
  <1>4. S \in SUBSET Mails /\ \A m \in S : m \in Mails /\ m \in batch[w]
    BY <1>1 DEF WorkersOK
  <1> HIDE DEF S
  <1>5. CASE order = << >>
    <2>1. /\ Others(w) /\ RecordsOK(w)'
          /\ \A m : ~Holds(w, m)'
      BY <1>1, <1>3, <1>5, FinishHolds DEF Finish
    <2> QED
      BY <1>2, <2>1, QuietStep
  <1>6. CASE order # << >>
    <2> DEFINE records == [i \in DOMAIN order |->
                             [mail |-> order[i], attempts |-> mail[order[i]].attempts]]
    <2>1. /\ \A i \in DOMAIN order : order[i] \in S
          /\ \A i, j \in DOMAIN order : order[i] = order[j] => i = j
      BY <1>4, <1>6, FetchedOrder
    <2>2. /\ at'[w] = "send" /\ batch'[w] = {} /\ todo'[w] = records /\ Others(w)
      BY <1>1, <1>3, <1>6 DEF Goto, WorkersOK, Others
    <2>3. /\ DOMAIN records = DOMAIN order
          /\ \A i \in DOMAIN order : /\ records[i].mail = order[i]
                                     /\ records[i].attempts = mail[order[i]].attempts
      OBVIOUS
    <2> HIDE DEF records
    <2>4. \A m \in Mails : Holds(w, m)' => Holds(w, m)
      BY <1>4, <2>1, <2>2, <2>3 DEF Holds
    <2>5. ASSUME NEW i \in DOMAIN records, doubt'[records[i].mail] # "reclaimed"
          PROVE  records[i].attempts < MaxAttempts
      <3>1. order[i] \in Mails /\ Holds(w, order[i]) /\ doubt[order[i]] # "reclaimed"
        BY <1>2, <1>4, <2>1, <2>3, <2>5 DEF Holds, history
      <3>2. HeldOK(w, order[i])
        BY <1>1, <3>1 DEF MailOK
      <3> QED
        BY <2>3, <3>1, <3>2 DEF HeldOK
    <2>6. RecordsOK(w)'
      BY <2>1, <2>2, <2>3, <2>5 DEF RecordsOK
    <2>7. \A m : ~Marking(w, m)' /\ ~Marking(w, m)
      BY <1>2, <2>2 DEF Marking
    <2> QED
      BY <1>2, <2>2, <2>4, <2>6, <2>7, QuietStep
  <1> QED
    BY <1>5, <1>6

\* What a call of the provider does to the history of the mail.
LEMMA SendEmailEffect ==
  ASSUME TypeOK, NEW m \in Mails, NEW result, SendEmail(m, result)
  PROVE  /\ \A n \in Mails \ {m} : copies'[n] = copies[n] /\ doubt'[n] = doubt[n]
         /\ copies'[m] >= copies[m]
         /\ copies[m] > 0 => copies'[m] > 0
         /\ result = "none" => copies'[m] > 0
         /\ doubt[m] = "reclaimed" => doubt'[m] = "reclaimed"
         /\ doubt'[m] = "reclaimed" => doubt[m] = "reclaimed"
         /\ doubt'[m] = "none" =>
              /\ doubt[m] = "none"
              /\ copies[m] = 0 => /\ copies'[m] <= 1
                                  /\ result # "none" => copies'[m] = 0
  <1>1. /\ copies \in [Mails -> 0..2] /\ copies[m] \in {0, 1, 2}
        /\ doubt \in [Mails -> {"none", "unsure", "reclaimed"}]
    <2>1. copies \in [Mails -> 0..2] /\ doubt \in [Mails -> {"none", "unsure", "reclaimed"}]
      BY DEF TypeOK
    <2>2. copies[m] \in {0, 1, 2}
      BY <2>1
    <2> QED
      BY <2>1, <2>2
  <1>2. PICK accepted \in BOOLEAN :
          /\ result = "none" => accepted
          /\ copies' = [copies EXCEPT ![m] =
               IF accepted /\ (@ = 0 \/ (@ = 1 /\ doubt[m] = "none")) THEN @ + 1 ELSE @]
          /\ IF accepted /\ result # "none" THEN Doubts(m) ELSE UNCHANGED doubt
    BY DEF SendEmail
  <1>3. /\ \A n \in Mails \ {m} : copies'[n] = copies[n]
        /\ copies'[m] = IF accepted /\ (copies[m] = 0 \/ (copies[m] = 1 /\ doubt[m] = "none"))
                        THEN copies[m] + 1 ELSE copies[m]
    BY <1>1, <1>2
  <1>4. /\ \A n \in Mails \ {m} : doubt'[n] = doubt[n]
        /\ doubt'[m] = IF accepted /\ result # "none" /\ doubt[m] = "none"
                       THEN "unsure" ELSE doubt[m]
    BY <1>1, <1>2 DEF Doubts
  <1> HIDE <1>2
  <1>5. CASE accepted
    BY <1>1, <1>2, <1>3, <1>4, <1>5
  <1>6. CASE ~accepted
    BY <1>1, <1>2, <1>3, <1>4, <1>6
  <1> QED
    BY <1>5, <1>6

LEMMA SendStep ==
  ASSUME IInv, TypeOK', NEW w \in Workers, Send(w)
  PROVE  Claims'
  <1>1. TypeOK /\ WorkersOK /\ (\A x \in Workers : RecordsOK(x)) /\ \A m \in Mails : MailOK(m)
    BY TypeIsParts DEF IInv
  <1>2. at[w] = "send" /\ UNCHANGED <<mail, batch, todo>>
    BY DEF Send
  <1>3. PICK n \in Mails : n = Current(w).mail /\ Holds(w, n)
    BY <1>1, <1>2, InHand DEF InWork
  <1>4. PICK result \in Faults \cup {"none"} :
          SendEmail(n, result) /\ Goto(w, IF result = "none" THEN "mark" ELSE "settle")
    BY <1>3 DEF Send
  <1>5. PICK place \in {"mark", "settle"} :
          Goto(w, place) /\ (result = "none" <=> place = "mark")
    BY <1>4
  <1>6. /\ \A m \in Mails \ {n} : copies'[m] = copies[m] /\ doubt'[m] = doubt[m]
        /\ copies'[n] >= copies[n]
        /\ copies[n] > 0 => copies'[n] > 0
        /\ result = "none" => copies'[n] > 0
        /\ doubt[n] = "reclaimed" => doubt'[n] = "reclaimed"
        /\ doubt'[n] = "reclaimed" => doubt[n] = "reclaimed"
        /\ doubt'[n] = "none" =>
             /\ doubt[n] = "none"
             /\ copies[n] = 0 => /\ copies'[n] <= 1
                                 /\ result # "none" => copies'[n] = 0
    BY <1>1, <1>4, <1>3, SendEmailEffect
  <1>7. /\ Others(w) /\ at'[w] = place
        /\ \A m : Holds(w, m)' <=> Holds(w, m)
        /\ \A m : Marking(w, m)' <=> place = "mark" /\ n = m
    <2>1. place \in InWork /\ at[w] \in InWork
      BY <1>2 DEF InWork
    <2> QED
      BY <1>1, <1>2, <1>5, <1>3, <2>1, StayHolds
  <1>8. \A m \in Mails : /\ doubt[m] = "reclaimed" => doubt'[m] = "reclaimed"
                         /\ copies[m] > 0 => copies'[m] > 0
    BY <1>6
  <1>9. ASSUME NEW x \in Workers PROVE RecordsOK(x)'
    <2>1. CASE x = w
      <3>1. at'[w] = "mark" => copies'[Current(w).mail] > 0
        BY <1>5, <1>3, <1>6, <1>7
      <3> QED
        BY <1>1, <1>2, <1>8, <2>1, <3>1, StayRecords
    <2>2. CASE x # w
      BY <1>1, <1>7, <1>8, <2>2, OthersRecords
    <2> QED
      BY <2>1, <2>2
  <1>10. MailOK(n)'
    <2>1. ~Marking(w, n)
      BY <1>2 DEF Marking
    <2>2. doubt[n] = "none" => copies[n] = 0
      BY <1>1, <1>3, <2>1 DEF MailOK, HeldOK
    <2>3. mail'[n] = mail[n] /\ MailOK(n)
      BY <1>1, <1>2, <1>3
    <2>4. mail[n].status = "SENT" => copies'[n] > 0
      BY <1>6, <2>3 DEF MailOK
    <2>5. doubt'[n] = "none" => /\ doubt[n] = "none" /\ copies'[n] <= 1
                                /\ ~Marking(w, n)' => copies'[n] = 0
      BY <1>5, <1>6, <1>7, <2>2
    <2> QED
      BY <1>1, <1>3, <1>6, <1>7, <2>3, <2>4, <2>5, KeptInHand
  <1>11. ASSUME NEW m \in Mails \ {n} PROVE MailOK(m)'
    <2>1. ASSUME NEW x \in Workers, Holds(x, m)'
          PROVE  Holds(x, m) /\ (Marking(x, m)' <=> Marking(x, m))
      <3>1. ~Marking(w, m)
        BY <1>2 DEF Marking
      <3> QED
        BY <1>7, <2>1, <3>1, OthersHold
    <2> QED
      BY <1>1, <1>2, <1>6, <2>1, Untouched
  <1> QED
    BY <1>9, <1>10, <1>11 DEF Claims

LEMMA MarkSentStep ==
  ASSUME IInv, TypeOK', NEW w \in Workers, MarkSent(w)
  PROVE  Claims'
  <1>1. TypeOK /\ WorkersOK /\ (\A x \in Workers : RecordsOK(x)) /\ \A m \in Mails : MailOK(m)
    BY TypeIsParts DEF IInv
  <1>2. at[w] = "mark" /\ UNCHANGED copies
    BY DEF MarkSent
  <1>3. PICK n \in Mails : n = Current(w).mail /\ Holds(w, n) /\ Marking(w, n)
    BY <1>1, <1>2, InHand DEF InWork, Marking
  <1>4. PICK marked \in [Mails -> Row] :
          /\ \A m \in Mails \ {n} : marked[m] = mail[m]
          /\ marked[n].status = "SENT" /\ marked[n].attempts = mail[n].attempts
          /\ \/ /\ mail' = marked
                /\ Advance(w)
                /\ UNCHANGED doubt
             \/ /\ mail' = mail \/ mail' = marked
                /\ Doubts(n)
                /\ Goto(w, "settle")
                /\ UNCHANGED <<batch, todo>>
    <2> DEFINE marked == [m \in Mails |-> IF m \in Marked(w) THEN Moved(mail[m], "SENT", FALSE)
                                          ELSE mail[m]]
    <2>1. mail \in [Mails -> Row]
      BY <1>1 DEF TypeOK
    <2>2. \A m \in Mails : /\ Moved(mail[m], "SENT", FALSE) \in Row
                           /\ Moved(mail[m], "SENT", FALSE).status = "SENT"
                           /\ Moved(mail[m], "SENT", FALSE).attempts = mail[m].attempts
      BY <2>1, MovedRow DEF Stored
    <2>3. /\ marked \in [Mails -> Row]
          /\ \A m \in Mails \ {n} : marked[m] = mail[m]
          /\ marked[n].status = "SENT" /\ marked[n].attempts = mail[n].attempts
      BY <1>3, <2>1, <2>2 DEF Marked
    <2>4. \/ /\ mail' = marked
             /\ Advance(w)
             /\ UNCHANGED doubt
          \/ /\ mail' = mail \/ mail' = marked
             /\ Doubts(n)
             /\ Goto(w, "settle")
             /\ UNCHANGED <<batch, todo>>
      BY <1>3 DEF MarkSent
    <2> HIDE DEF marked
    <2> QED
      BY <2>3, <2>4
  <1>5. copies[n] > 0
    BY <1>1, <1>2, <1>3 DEF RecordsOK
  <1>6. CASE mail' = marked /\ Advance(w) /\ UNCHANGED doubt
    <2>1. /\ Others(w)
          /\ \A m \in Mails : Holds(w, m)' => Holds(w, m) /\ m # n
          /\ \A m : ~Marking(w, m)'
          /\ RecordsOK(w)'
      BY <1>1, <1>2, <1>3, <1>6, AdvanceHolds
    <2>2. ASSUME NEW x \in Workers PROVE RecordsOK(x)'
      BY <1>1, <1>2, <1>6, <2>1, OthersRecords
    <2>3. MailOK(n)'
      BY <1>1, <1>2, <1>3, <1>4, <1>5, <1>6, <2>1, GivenUp
    <2>4. ASSUME NEW m \in Mails \ {n} PROVE MailOK(m)'
      <3>1. ASSUME NEW x \in Workers, Holds(x, m)'
            PROVE  Holds(x, m) /\ (Marking(x, m)' <=> Marking(x, m))
        BY <1>3, <2>1, <3>1, OthersHold DEF Marking
      <3> QED
        BY <1>1, <1>2, <1>4, <1>6, <3>1, Untouched
    <2> QED
      BY <2>2, <2>3, <2>4 DEF Claims
  <1>7. CASE /\ mail' = mail \/ mail' = marked
             /\ Doubts(n)
             /\ Goto(w, "settle")
             /\ UNCHANGED <<batch, todo>>
    <2>1. /\ Others(w) /\ at'[w] = "settle"
          /\ \A m : Holds(w, m)' <=> Holds(w, m)
      <3>1. at[w] \in InWork /\ "settle" \in InWork
        BY <1>2 DEF InWork
      <3> QED
        BY <1>1, <1>7, <3>1, StayHolds
    <2>2. /\ \A m \in Mails \ {n} : doubt'[m] = doubt[m]
          /\ doubt'[n] # "none"
          /\ doubt'[n] = "reclaimed" <=> doubt[n] = "reclaimed"
      BY <1>1, <1>7 DEF TypeOK, Doubts
    <2>3. ASSUME NEW x \in Workers PROVE RecordsOK(x)'
      <3>1. \A m \in Mails : doubt[m] = "reclaimed" => doubt'[m] = "reclaimed"
        BY <2>2
      <3>2. CASE x = w
        BY <1>1, <1>7, <2>1, <3>1, <3>2, StayRecords
      <3>3. CASE x # w
        BY <1>1, <1>2, <2>1, <3>1, <3>3, OthersRecords
      <3> QED
        BY <3>2, <3>3
    <2>4. MailOK(n)'
      <3>1. /\ mail'[n].attempts = mail[n].attempts
            /\ mail'[n].status = mail[n].status \/ (mail'[n].status = "SENT" /\ doubt'[n] # "none")
        BY <1>4, <1>7, <2>2
      <3>2. copies'[n] >= copies[n] /\ copies'[n] > 0
        <4>1. copies[n] \in 0..2
          BY <1>1 DEF TypeOK
        <4> QED
          BY <1>2, <1>5, <4>1
      <3>3. Holds(w, n)'
        BY <1>3, <2>1
      <3> QED
        BY <1>1, <1>3, <2>1, <2>2, <3>1, <3>2, <3>3, KeptInHand
    <2>5. ASSUME NEW m \in Mails \ {n} PROVE MailOK(m)'
      <3>1. ASSUME NEW x \in Workers, Holds(x, m)'
            PROVE  Holds(x, m) /\ (Marking(x, m)' <=> Marking(x, m))
        <4>1. CASE x = w
          <5>1. ~Marking(w, m) /\ ~Marking(w, m)'
            BY <1>3, <2>1 DEF Marking
          <5> QED
            BY <2>1, <3>1, <4>1, <5>1
        <4>2. CASE x # w
          BY <2>1, <3>1, <4>2, OthersHold
        <4> QED
          BY <4>1, <4>2
      <3>2. mail'[m] = mail[m] /\ copies'[m] = copies[m] /\ doubt'[m] = doubt[m]
        BY <1>2, <1>4, <1>7, <2>2
      <3> QED
        BY <1>1, <3>1, <3>2, Untouched
    <2> QED
      BY <2>3, <2>4, <2>5 DEF Claims
  <1> QED
    BY <1>4, <1>6, <1>7

\* The failure of the current mail is recorded, and the worker has done with it.
LEMMA SettledMail ==
  ASSUME IInv, NEW w \in Workers, at[w] = "settle", mail' = Settled(w), UNCHANGED history,
         Others(w), RecordsOK(w)',
         \A m \in Mails : Holds(w, m)' => Holds(w, m) /\ m # Current(w).mail,
         \A m : ~Marking(w, m)'
  PROVE  Claims'
  <1>1. TypeOK /\ (\A x \in Workers : RecordsOK(x)) /\ \A m \in Mails : MailOK(m)
    BY DEF IInv
  <1>2. PICK n \in Mails :
          n = Current(w).mail /\ Holds(w, n) /\ Current(w) = todo[w][1] /\ 1 \in DOMAIN todo[w]
    BY <1>1, InHand DEF InWork
  <1>3. /\ \A m \in Mails : m # n => mail'[m] = mail[m]
        /\ mail'[n].attempts = Current(w).attempts + 1
        /\ mail'[n].status = IF RetryAgain(w) THEN "RETRYING" ELSE "FAILED"
    BY <1>1, <1>2, SettledRow
  <1>4. Current(w).attempts \in Nat /\ MaxAttempts \in Nat
    BY <1>1, CurrentType, OutboxAssumption DEF WorkingAt
  <1>5. doubt[n] # "reclaimed" => Current(w).attempts < MaxAttempts
    BY <1>1, <1>2 DEF RecordsOK
  <1>6. RetryAgain(w) => Current(w).attempts + 1 < MaxAttempts
    BY DEF RetryAgain, MayRetry
  <1>7. copies' = copies /\ doubt' = doubt
    BY DEF history
  <1>8. MailOK(n)'
    <2>1. /\ mail'[n].status \in {"RETRYING", "FAILED"}
          /\ doubt[n] # "reclaimed" =>
               /\ mail'[n].attempts <= MaxAttempts
               /\ mail'[n].status = "RETRYING" => mail'[n].attempts < MaxAttempts
      BY <1>3, <1>4, <1>5, <1>6
    <2>2. ~Marking(w, n) /\ ~Holds(w, n)'
      BY <1>2 DEF Marking
    <2> QED
      BY <1>1, <1>2, <1>7, <2>1, <2>2, GivenUp
  <1>9. ASSUME NEW m \in Mails \ {n} PROVE MailOK(m)'
    <2>1. ASSUME NEW x \in Workers, Holds(x, m)'
          PROVE  Holds(x, m) /\ (Marking(x, m)' <=> Marking(x, m))
      <3>1. ~Marking(w, m)
        BY DEF Marking
      <3> QED
        BY <2>1, <3>1, OthersHold
    <2> QED
      BY <1>1, <1>3, <1>7, <2>1, Untouched
  <1>10. ASSUME NEW x \in Workers PROVE RecordsOK(x)'
    BY <1>1, <1>7, OthersRecords
  <1> QED
    BY <1>8, <1>9, <1>10 DEF Claims

LEMMA SettleStep ==
  ASSUME IInv, NEW w \in Workers, SettleFailure(w)
  PROVE  Claims'
  <1>1. TypeOK /\ WorkersOK /\ RecordsOK(w)
    BY TypeIsParts DEF IInv
  <1>2. at[w] = "settle" /\ UNCHANGED history
    BY DEF SettleFailure
  <1>3. CASE Finish(w) /\ UNCHANGED mail
    <2>1. /\ Others(w) /\ RecordsOK(w)'
          /\ \A m : ~Holds(w, m)'
      BY <1>1, <1>3, FinishHolds DEF Finish
    <2> QED
      BY <1>2, <1>3, <2>1, QuietStep
  <1>4. CASE mail' = Settled(w) /\ Goto(w, "throttle") /\ UNCHANGED <<batch, todo>>
    <2>1. at' = [at EXCEPT ![w] = "throttle"]
      BY <1>4 DEF Goto
    <2>2. Others(w) /\ at'[w] = "throttle" /\ todo'[w] = todo[w] /\ batch'[w] = batch[w]
      BY <1>1, <1>4, <2>1 DEF Others, WorkersOK
    <2>3. RecordsOK(w)'
      BY <1>1, <1>2, <2>2, StayRecords DEF history
    <2>4. ASSUME NEW m \in Mails, Holds(w, m)'
          PROVE  Holds(w, m) /\ m # Current(w).mail
      <3>1. batch[w] = {} /\ Current(w) = todo[w][1] /\ 1 \in DOMAIN todo[w]
        BY <1>1, <1>2, CurrentType, InHand DEF WorkingAt, InWork
      <3>2. PICK i \in DOMAIN todo[w] : todo[w][i].mail = m /\ i # 1
        BY <2>2, <2>4, <3>1 DEF Holds, InWork
      <3> QED
        BY <1>1, <3>1, <3>2 DEF Holds, RecordsOK
    <2>5. \A m : ~Marking(w, m)'
      BY <2>2 DEF Marking
    <2> QED
      BY <1>2, <1>4, <2>2, <2>3, <2>4, <2>5, SettledMail
  <1>5. CASE mail' = Settled(w) /\ Advance(w)
    <2>1. /\ Others(w)
          /\ \A m \in Mails : Holds(w, m)' => Holds(w, m) /\ m # Current(w).mail
          /\ \A m : ~Marking(w, m)'
          /\ RecordsOK(w)'
      BY <1>1, <1>2, <1>5, AdvanceHolds DEF history
    <2> QED
      BY <1>2, <1>5, <2>1, SettledMail
  <1> QED
    BY <1>3, <1>4, <1>5 DEF SettleFailure

LEMMA FailureStep ==
  ASSUME IInv, NEW w \in Workers, StatementFails(w)
  PROVE  Claims'
  <1>1. WorkersOK
    BY TypeIsParts DEF IInv
  <1>2. /\ Others(w) /\ RecordsOK(w)'
        /\ \A m : ~Holds(w, m)' /\ ~Marking(w, m)'
    BY <1>1, FinishHolds DEF StatementFails, Finish
  <1>3. CASE UNCHANGED mail
    BY <1>2, <1>3, QuietStep DEF StatementFails
  <1>4. CASE at[w] = "settle" /\ mail' = Settled(w)
    BY <1>2, <1>4, SettledMail DEF StatementFails
  <1> QED
    BY <1>3, <1>4 DEF StatementFails

LEMMA DeferStep ==
  ASSUME IInv, NEW w \in Workers, DeferTail(w)
  PROVE  Claims'
  <1>1. TypeOK /\ WorkersOK /\ (\A x \in Workers : RecordsOK(x)) /\ \A m \in Mails : MailOK(m)
    BY TypeIsParts DEF IInv
  <1>2. /\ at[w] = "defer" /\ copies' = copies /\ doubt' = doubt
        /\ mail' = [m \in Mails |-> IF m \in Tailing(w) /\ IsStored(m)
                                    THEN Moved(mail[m], "RETRYING", FALSE) ELSE mail[m]]
    BY DEF DeferTail, history
  <1>3. /\ Others(w) /\ RecordsOK(w)'
        /\ \A m : ~Holds(w, m)' /\ ~Marking(w, m)'
    BY <1>1, FinishHolds DEF DeferTail, Finish
  <1>4. ASSUME NEW x \in Workers PROVE RecordsOK(x)'
    BY <1>1, <1>2, <1>3, OthersRecords
  <1>5. ASSUME NEW m \in Mails PROVE MailOK(m)'
    <2>1. CASE m \in Tailing(w) /\ IsStored(m)
      <3>1. Holds(w, m)
        <4>1. todo[w] \in Seq(Record) /\ Len(todo[w]) \in Nat
          BY <1>1, <1>2, CurrentType DEF WorkingAt
        <4>2. PICK i \in 2..Len(todo[w]) : todo[w][i].mail = m
          BY <2>1 DEF Tailing
        <4>3. i \in DOMAIN todo[w] /\ i # 1
          BY <4>1, <4>2
        <4> QED
          BY <4>2, <4>3 DEF Holds
      <3>2. mail'[m].status = "RETRYING" /\ mail'[m].attempts = mail[m].attempts
        <4>1. mail[m] \in Row
          BY <1>1 DEF TypeOK
        <4>2. mail'[m] = Moved(mail[m], "RETRYING", FALSE)
          BY <1>2, <2>1
        <4>3. /\ Moved(mail[m], "RETRYING", FALSE).status = "RETRYING"
              /\ Moved(mail[m], "RETRYING", FALSE).attempts = mail[m].attempts
          BY <4>1 DEF Moved, Row
        <4> QED
          BY <4>2, <4>3
      <3>3. doubt[m] # "reclaimed" => mail[m].attempts < MaxAttempts /\ mail[m].attempts <= MaxAttempts
        BY <1>1, <3>1 DEF MailOK, HeldOK, RowOK
      <3>4. ~Marking(w, m)
        BY <1>2 DEF Marking
      <3>5. ~Holds(w, m)' /\ copies'[m] = copies[m] /\ doubt'[m] = doubt[m]
        BY <1>2, <1>3
      <3> QED
        BY <1>1, <1>3, <3>1, <3>2, <3>3, <3>4, <3>5, GivenUp
    <2>2. CASE ~(m \in Tailing(w) /\ IsStored(m))
      <3>1. mail'[m] = mail[m]
        BY <1>2, <2>2
      <3>2. \A x \in Workers : Holds(x, m)' => Holds(x, m) /\ (Marking(x, m)' <=> Marking(x, m))
        BY <1>3, OthersHold
      <3> QED
        BY <1>1, <1>2, <3>1, <3>2, Untouched
    <2> QED
      BY <2>1, <2>2
  <1> QED
    BY <1>4, <1>5 DEF Claims

\* A claim takes only rows that wait, which nobody holds; one whose old claim it takes
\* back is in doubt from then on.
LEMMA ClaimStep ==
  ASSUME IInv, NEW w \in Workers, ClaimDueOutboxItems(w)
  PROVE  Claims'
  <1> DEFINE swept == [m \in Mails |-> Expired(Reclaimed(mail[m]))]
             claimable == {m \in Mails : Claimable(swept[m])}
  <1>1. TypeOK /\ WorkersOK /\ (\A x \in Workers : RecordsOK(x)) /\ \A m \in Mails : MailOK(m)
    BY TypeIsParts DEF IInv
  <1>2. PICK S \in SUBSET claimable :
          /\ mail' = [m \in Mails |-> IF m \in S THEN Moved(swept[m], "PROCESSING", FALSE)
                                      ELSE swept[m]]
          /\ IF S = {} THEN Finish(w)
             ELSE batch' = [batch EXCEPT ![w] = S] /\ Goto(w, "fetch") /\ UNCHANGED todo
    BY DEF ClaimDueOutboxItems
  <1>3. /\ at[w] = "claim" /\ copies' = copies
        /\ doubt' = [m \in Mails |-> IF IsStale(mail[m]) THEN "reclaimed" ELSE doubt[m]]
    BY DEF ClaimDueOutboxItems
  <1>4. ASSUME NEW m \in Mails
        PROVE  /\ swept[m] \in Row /\ swept[m].attempts = mail[m].attempts
               /\ \/ swept[m].status = mail[m].status
                  \/ swept[m].status = "FAILED" /\ mail[m].status \in Open
                  \/ IsStale(mail[m])
               /\ m \in S => Claimable(swept[m])
               /\ mail'[m] = IF m \in S THEN Moved(swept[m], "PROCESSING", FALSE) ELSE swept[m]
    <2>1. mail[m] \in Row
      BY <1>1 DEF TypeOK
    <2>2. swept[m] = Expired(Reclaimed(mail[m]))
      OBVIOUS
    <2> QED
      BY <1>2, <2>1, <2>2, SweptRow
  <1>5. batch[w] = {} /\ todo[w] = << >>
    BY <1>1, <1>3 DEF WorkersOK, Placed, WorkingAt
  <1>6. /\ Others(w) /\ at'[w] # "mark" /\ todo'[w] = << >>
        /\ \A m : Holds(w, m)' <=> m \in S
    <2>1. CASE S = {}
      <3>1. /\ at' = [at EXCEPT ![w] = "release"] /\ batch' = [batch EXCEPT ![w] = {}]
            /\ todo' = [todo EXCEPT ![w] = << >>]
        BY <1>2, <2>1 DEF Finish, Goto
      <3> QED
        BY <1>1, <2>1, <3>1 DEF WorkersOK, Others, Holds
    <2>2. CASE S # {}
      <3>1. /\ at' = [at EXCEPT ![w] = "fetch"] /\ batch' = [batch EXCEPT ![w] = S]
            /\ todo' = todo
        BY <1>2, <2>2 DEF Goto
      <3> QED
        BY <1>1, <1>5, <3>1 DEF WorkersOK, Others, Holds
    <2> QED
      BY <2>1, <2>2
  <1> HIDE DEF swept, claimable
  <1>7. ASSUME NEW x \in Workers PROVE RecordsOK(x)'
    <2>1. CASE x = w
      BY <1>6, <2>1 DEF RecordsOK
    <2>2. CASE x # w
      <3>1. \A m \in Mails : doubt[m] = "reclaimed" => doubt'[m] = "reclaimed"
        BY <1>3
      <3> QED
        BY <1>1, <1>3, <1>6, <2>2, <3>1, OthersRecords
    <2> QED
      BY <2>1, <2>2
  <1>8. ASSUME NEW m \in Mails PROVE MailOK(m)'
    <2>0. mail'[m].attempts = mail[m].attempts /\ (m \in S => mail'[m].status = "PROCESSING")
      <3>1. /\ Moved(swept[m], "PROCESSING", FALSE).status = "PROCESSING"
            /\ Moved(swept[m], "PROCESSING", FALSE).attempts = swept[m].attempts
        BY <1>4 DEF Moved, Row
      <3> QED
        BY <1>4, <3>1
    <2>1. CASE IsStale(mail[m])
      <3>1. doubt'[m] = "reclaimed"
        BY <1>3, <2>1
      <3>2. mail'[m].status \notin {"SENT", "DIRECT", "NEW"}
        <4>1. Expired(Reclaimed(mail[m])).status \in {"RETRYING", "FAILED"}
          <5>1. mail[m] \in Row
            BY <1>1 DEF TypeOK
          <5>2. Reclaimed(mail[m]) \in Row /\ Reclaimed(mail[m]).status = "RETRYING"
            BY <2>1, <5>1, MovedRow DEF Reclaimed, Stored, Open
          <5> QED
            BY <5>2, MovedRow DEF Expired, Stored, Open
        <4>2. swept[m].status \in {"RETRYING", "FAILED"}
          BY <4>1 DEF swept
        <4> QED
          BY <1>4, <2>0, <4>2
      <3> QED
        BY <3>1, <3>2 DEF MailOK
    <2>2. CASE ~IsStale(mail[m]) /\ m \notin S
      <3>1. \A x \in Workers : Holds(x, m)' => Holds(x, m) /\ (Marking(x, m)' <=> Marking(x, m))
        BY <1>6, <2>2, OthersHold
      <3>2. doubt'[m] = doubt[m] /\ copies'[m] = copies[m]
        BY <1>3, <2>2
      <3>3. \/ mail'[m].status = mail[m].status
            \/ mail'[m].status = "FAILED" /\ mail[m].status \in Open
        BY <1>4, <2>2
      <3> QED
        BY <1>1, <2>0, <3>1, <3>2, <3>3, Untouched
    <2>3. CASE ~IsStale(mail[m]) /\ m \in S
      <3>1. mail[m].status \in {"PENDING", "RETRYING"} /\ mail[m].attempts < MaxAttempts
        BY <1>4, <2>3 DEF Claimable
      <3>2. doubt'[m] = doubt[m] /\ copies'[m] = copies[m]
        BY <1>3, <2>3
      <3>3. mail'[m].status = "PROCESSING"
        BY <2>0, <2>3
      <3>4. ASSUME doubt[m] # "reclaimed"
            PROVE  /\ \A x \in Workers : Holds(x, m)' => x = w
                   /\ doubt[m] = "none" => copies[m] = 0
                   /\ RowOK(m)
        <4>1. \A x \in Workers : ~Holds(x, m)
          BY <1>1, <3>1, <3>4 DEF MailOK, HeldOK
        <4>2. RowOK(m)
          BY <1>1, <3>4 DEF MailOK
        <4> QED
          BY <1>6, <3>1, <4>1, <4>2, OthersHold DEF RowOK
      <3>5. ~Marking(w, m)'
        BY <1>6 DEF Marking
      <3>6. doubt[m] # "reclaimed" => RowOK(m)' /\ \A x \in Workers : HeldOK(x, m)'
        BY <2>0, <3>1, <3>2, <3>3, <3>4 DEF RowOK, HeldOK
      <3> QED
        BY <3>2, <3>3, <3>4, <3>6 DEF MailOK
    <2> QED
      BY <2>1, <2>2, <2>3
  <1> QED
    BY <1>7, <1>8 DEF Claims

LEMMA SendWithRecoveryStep ==
  ASSUME IInv, NEW n \in Mails, SendEmailWithRecovery(n)
  PROVE  Claims'
  <1>1. TypeOK /\ (\A x \in Workers : RecordsOK(x)) /\ \A m \in Mails : MailOK(m)
    BY DEF IInv
  <1>2. mail[n].status = "NEW" /\ UNCHANGED <<at, batch, todo>>
    BY DEF SendEmailWithRecovery, workerVars
  <1>3. PICK result \in Faults \cup {"none"} :
          /\ SendEmail(n, result)
          /\ \E status \in CASE result = "none"      -> {"DIRECT"}
                             [] result = "permanent" -> {"REFUSED"}
                             [] OTHER                -> {"PENDING", "REFUSED"} :
               mail' = [mail EXCEPT ![n] = Moved(@, status, status = "PENDING")]
    BY DEF SendEmailWithRecovery
  <1>4. PICK status \in {"DIRECT", "REFUSED", "PENDING"} :
          /\ mail' = [mail EXCEPT ![n] = Moved(mail[n], status, status = "PENDING")]
          /\ result = "none" <=> status = "DIRECT"
    <2>1. mail \in [Mails -> Row]
      BY <1>1 DEF TypeOK
    <2>2. CASE result = "none"
      BY <1>3, <2>1, <2>2
    <2>3. CASE result # "none"
      <3>1. PICK status \in {"PENDING", "REFUSED"} :
              mail' = [mail EXCEPT ![n] = Moved(@, status, status = "PENDING")]
        BY <1>3, <2>3
      <3> QED
        BY <2>1, <2>3, <3>1
    <2> QED
      BY <2>2, <2>3
  <1>5. /\ \A m \in Mails \ {n} : mail'[m] = mail[m]
        /\ mail'[n].status = status /\ mail'[n].attempts = mail[n].attempts
    <2>1. mail \in [Mails -> Row]
      BY <1>1 DEF TypeOK
    <2>2. /\ Moved(mail[n], status, status = "PENDING").status = status
          /\ Moved(mail[n], status, status = "PENDING").attempts = mail[n].attempts
      BY <2>1, MovedRow DEF Stored, Open, Unstored
    <2> QED
      BY <1>4, <2>1, <2>2
  <1>6. /\ \A m \in Mails \ {n} : copies'[m] = copies[m] /\ doubt'[m] = doubt[m]
        /\ copies[n] > 0 => copies'[n] > 0
        /\ result = "none" => copies'[n] > 0
        /\ doubt[n] = "reclaimed" => doubt'[n] = "reclaimed"
        /\ doubt'[n] = "none" =>
             (copies[n] = 0 => copies'[n] <= 1 /\ (result # "none" => copies'[n] = 0))
    BY <1>1, <1>3, SendEmailEffect
  <1>7. \A x \in Workers : \A m : (Holds(x, m)' <=> Holds(x, m)) /\ (Marking(x, m)' <=> Marking(x, m))
    BY <1>2 DEF Holds, Marking, Current
  <1>8. ASSUME NEW x \in Workers PROVE RecordsOK(x)'
    <2>1. \A m \in Mails : /\ doubt[m] = "reclaimed" => doubt'[m] = "reclaimed"
                           /\ copies[m] > 0 => copies'[m] > 0
      BY <1>6
    <2>2. at[x] = "mark" => Current(x).mail \in Mails
      BY <1>1, CurrentType DEF WorkingAt
    <2> QED
      BY <1>1, <1>2, <2>1, <2>2, StayRecords DEF RecordsOK
  <1>9. MailOK(n)'
    <2>1. doubt[n] = "none" /\ mail[n].attempts = 0 /\ copies[n] = 0
      BY <1>1, <1>2 DEF MailOK, RowOK
    <2>2. \A x \in Workers : ~Holds(x, n)
      BY <1>1, <1>2, <2>1 DEF MailOK, HeldOK
    <2>3. RowOK(n)'
      BY <1>4, <1>5, <1>6, <2>1, OutboxAssumption DEF RowOK
    <2>4. \A x \in Workers : ~Holds(x, n)'
      BY <1>7, <2>2
    <2> QED
      BY <1>4, <1>5, <1>6, <2>3, <2>4 DEF MailOK, HeldOK
  <1>10. ASSUME NEW m \in Mails \ {n} PROVE MailOK(m)'
    BY <1>1, <1>5, <1>6, <1>7, Untouched
  <1> QED
    BY <1>8, <1>9, <1>10 DEF Claims

LEMMA TimeStep ==
  ASSUME IInv,
         \/ CleanupEmailOutbox \/ LockExpires \/ ThrottleEnds
         \/ \E m \in Mails : BecomesDue(m) \/ GoesStale(m) \/ Expires(m)
  PROVE  Claims'
  <1>1. TypeOK /\ (\A x \in Workers : RecordsOK(x)) /\ \A m \in Mails : MailOK(m)
    BY DEF IInv
  <1>2. UNCHANGED <<at, batch, todo, copies, doubt>>
    BY DEF CleanupEmailOutbox, LockExpires, ThrottleEnds, BecomesDue, GoesStale, Expires, Ticks,
           workerVars, history
  <1>3. \A x \in Workers : \A m : (Holds(x, m)' <=> Holds(x, m)) /\ (Marking(x, m)' <=> Marking(x, m))
    BY <1>2 DEF Holds, Marking, Current
  <1>4. mail \in [Mails -> Row]
    BY <1>1 DEF TypeOK
  <1>5. ASSUME NEW m \in Mails
        PROVE  /\ mail'[m].attempts = mail[m].attempts
               /\ mail'[m].status = mail[m].status \/ mail'[m].status = "DELETED"
    <2>1. CASE CleanupEmailOutbox
      <3>1. mail'[m] = mail[m] \/ mail'[m] = Moved(mail[m], "DELETED", FALSE)
        BY <2>1 DEF CleanupEmailOutbox
      <3>2. /\ Moved(mail[m], "DELETED", FALSE).status = "DELETED"
            /\ Moved(mail[m], "DELETED", FALSE).attempts = mail[m].attempts
        BY <1>4 DEF Moved, Row
      <3> QED
        BY <3>1, <3>2
    <2>2. CASE LockExpires \/ ThrottleEnds
      BY <2>2 DEF LockExpires, ThrottleEnds
    <2>3. ASSUME NEW n \in Mails, BecomesDue(n) \/ GoesStale(n) \/ Expires(n)
          PROVE  mail'[m].attempts = mail[m].attempts /\ mail'[m].status = mail[m].status
      <3>1. mail[n] \in Row
        BY <1>4
      <3> QED
        BY <1>4, <2>3, <3>1 DEF BecomesDue, GoesStale, Expires, Ticks, Row
    <2> QED
      BY <2>1, <2>2, <2>3
  <1>6. ASSUME NEW m \in Mails PROVE MailOK(m)'
    BY <1>1, <1>2, <1>3, <1>5, Untouched
  <1>7. ASSUME NEW x \in Workers PROVE RecordsOK(x)'
    BY <1>1, <1>2 DEF RecordsOK, Current
  <1> QED
    BY <1>6, <1>7 DEF Claims

LEMMA InvStep == ASSUME IInv, [Next]_vars PROVE IInv'
  <1>1. TypeOK'
    BY TypeStep DEF IInv
  <1>2. CASE UNCHANGED vars
    BY <1>1, <1>2 DEF IInv, RecordsOK, MailOK, HeldOK, RowOK, Holds, Marking, Current,
                      vars, workerVars, history
  <1>3. ASSUME NEW w \in Workers, Batch(w) PROVE Claims'
    BY <1>1, <1>3, WalkStep, ClaimStep, FetchStep, SendStep, MarkSentStep, SettleStep,
       ThrottleStep, DeferStep DEF Batch
  <1>4. CASE Next
    <2>1. ASSUME \E m \in Mails : SendEmailWithRecovery(m) \/ BecomesDue(m) \/ GoesStale(m) \/ Expires(m)
          PROVE  Claims'
      BY <2>1, SendWithRecoveryStep, TimeStep
    <2>2. ASSUME \E w \in Workers : Batch(w) \/ StatementFails(w) \/ Crash(w)
          PROVE  Claims'
      BY <1>3, <2>2, FailureStep, CrashStep
    <2>3. ASSUME CleanupEmailOutbox \/ LockExpires \/ ThrottleEnds
          PROVE  Claims'
      BY <2>3, TimeStep
    <2>4. Claims'
      BY <1>4, <2>1, <2>2, <2>3 DEF Next
    <2> QED
      BY <1>1, <2>4 DEF IInv, Claims
  <1> QED
    BY <1>2, <1>4

\* The inductive invariant holds in every state: claims are apart as long as none is
\* taken back, and what a worker read agrees with the row.
THEOREM IInvCorrect == Spec => []IInv
  <1>1. Init => IInv
    BY InitType, InitInv
  <1> QED
    BY <1>1, InvStep, PTL DEF Spec

-----------------------------------------------------------------------------
(* What follows *)

\* A mail recorded as sent was accepted by the provider.
THEOREM SentWasAcceptedCorrect == Spec => []SentWasAccepted
  <1>1. IInv => SentWasAccepted
    BY DEF IInv, MailOK, SentWasAccepted
  <1> QED
    BY <1>1, IInvCorrect, PTL

\* A second copy is sent only after a failed call or update, or a claim taken back.
THEOREM SecondCopyHasReasonCorrect == Spec => []SecondCopyHasReason
  <1>1. ASSUME IInv, NEW m \in Mails, copies[m] > 1 PROVE doubt[m] # "none"
    <2>1. copies[m] \in 0..2
      BY <1>1 DEF IInv, TypeOK
    <2> QED
      BY <1>1, <2>1 DEF IInv, MailOK, RowOK
  <1>2. IInv => SecondCopyHasReason
    BY <1>1 DEF SecondCopyHasReason
  <1> QED
    BY <1>2, IInvCorrect, PTL

\* A waiting mail has an attempt left, unless its claim was taken back.
THEOREM WaitingHasAttemptsCorrect == Spec => []WaitingHasAttempts
  <1>1. ASSUME IInv, NEW m \in Mails, doubt[m] # "reclaimed"
        PROVE  /\ ~(mail[m].attempts > MaxAttempts)
               /\ mail[m].status \in {"PENDING", "RETRYING"} => ~(mail[m].attempts >= MaxAttempts)
    <2>1. mail[m].attempts \in Nat /\ MaxAttempts \in Nat
      BY <1>1, OutboxAssumption DEF IInv, TypeOK, Row
    <2> QED
      BY <1>1, <2>1 DEF IInv, MailOK, RowOK
  <1>2. IInv => WaitingHasAttempts
    BY <1>1 DEF WaitingHasAttempts
  <1> QED
    BY <1>2, IInvCorrect, PTL

\* A mail marked SENT is queued or failed again only if its claim had been taken back or
\* the answer to the marking got lost.
THEOREM SentIsFinalCorrect == Spec => SentIsFinal
  <1> DEFINE Final == \A m \in Mails :
       mail[m].status = "SENT" /\ mail'[m].status # "SENT" =>
         mail'[m].status = "DELETED" \/ doubt[m] # "none"
  <1>1. ASSUME IInv, [Next]_vars PROVE [Final]_vars
    <2>1. SUFFICES ASSUME NEW n \in Mails, mail[n].status = "SENT", mail'[n].status # "SENT",
                          mail'[n].status # "DELETED"
                   PROVE  doubt[n] # "none"
      OBVIOUS
    <2>2. TypeOK /\ MailOK(n) /\ mail \in [Mails -> Row] /\ mail[n] \in Row
      BY <1>1 DEF IInv, TypeOK
    <2>3. ASSUME NEW w \in Workers, Holds(w, n) PROVE doubt[n] # "none"
      BY <2>1, <2>2, <2>3 DEF MailOK, HeldOK
    <2>4. Next
      BY <1>1, <2>1 DEF vars
    <2>5. ASSUME NEW w \in Workers, at[w] = "settle", mail' = Settled(w) PROVE doubt[n] # "none"
      <3>1. Current(w).mail = n
        BY <2>1, <2>2, <2>5, SettledRow
      <3> QED
        BY <2>2, <2>3, <2>5, <3>1, InHand DEF InWork
    <2>6. ASSUME NEW w \in Workers, Batch(w) \/ StatementFails(w) \/ Crash(w)
          PROVE  doubt[n] # "none"
      <3>1. CASE \/ Start(w) \/ AcquireWorkerLock(w) \/ FetchRecords(w) \/ Send(w) \/ Crash(w)
                 \/ SetGlobalThrottlePause(w) \/ ReleaseWorkerLock(w) \/ DeleteWorkerLock(w)
        <4>1. mail' = mail
          BY <3>1 DEF Start, AcquireWorkerLock, FetchRecords, Send, Crash,
                      SetGlobalThrottlePause, ReleaseWorkerLock, DeleteWorkerLock
        <4> QED
          BY <2>1, <4>1
      <3>2. CASE ClaimDueOutboxItems(w)
        <4>1. Expired(Reclaimed(mail[n])).status = "SENT"
          BY <2>1, <2>2, SweptRow DEF IsStale, Open
        <4>2. ~Claimable(Expired(Reclaimed(mail[n])))
          BY <4>1 DEF Claimable
        <4>3. mail'[n] = Expired(Reclaimed(mail[n]))
          BY <3>2, <4>2 DEF ClaimDueOutboxItems
        <4> QED
          BY <2>1, <4>1, <4>3
      <3>3. CASE MarkSent(w)
        <4>1. mail'[n] = mail[n] \/ mail'[n] = Moved(mail[n], "SENT", FALSE)
          BY <3>3 DEF MarkSent
        <4> QED
          BY <2>1, <2>2, <4>1, MovedRow DEF Stored
      <3>4. CASE SettleFailure(w)
        BY <2>1, <2>5, <3>4 DEF SettleFailure
      <3>5. CASE StatementFails(w)
        BY <2>1, <2>5, <3>5 DEF StatementFails
      <3>6. CASE DeferTail(w)
        <4>1. n \in Tailing(w)
          BY <2>1, <3>6 DEF DeferTail
        <4>2. todo[w] \in Seq(Record) /\ Len(todo[w]) \in Nat
          BY <2>2, <3>6, CurrentType DEF DeferTail, WorkingAt
        <4>3. PICK i \in 2..Len(todo[w]) : todo[w][i].mail = n
          BY <4>1 DEF Tailing
        <4>4. i \in DOMAIN todo[w] /\ i # 1
          BY <4>2, <4>3
        <4> QED
          BY <2>3, <4>3, <4>4 DEF Holds
      <3> QED
        BY <2>6, <3>1, <3>2, <3>3, <3>4, <3>5, <3>6 DEF Batch
    <2>7. ASSUME NEW m \in Mails,
                 SendEmailWithRecovery(m) \/ BecomesDue(m) \/ GoesStale(m) \/ Expires(m)
          PROVE  FALSE
      <3>1. m # n => mail'[n] = mail[n]
        BY <2>2, <2>7 DEF SendEmailWithRecovery, BecomesDue, GoesStale, Expires, Ticks
      <3>2. mail[m].status # "SENT"
        BY <2>7 DEF SendEmailWithRecovery, BecomesDue, GoesStale, Expires, Open
      <3> QED
        BY <2>1, <3>1, <3>2
    <2>8. CASE CleanupEmailOutbox
      <3>1. mail'[n] = mail[n] \/ mail'[n] = Moved(mail[n], "DELETED", FALSE)
        BY <2>8 DEF CleanupEmailOutbox
      <3> QED
        BY <2>1, <2>2, <3>1, MovedRow DEF Unstored
    <2>9. CASE LockExpires \/ ThrottleEnds
      BY <2>1, <2>9 DEF LockExpires, ThrottleEnds
    <2> QED
      BY <2>4, <2>6, <2>7, <2>8, <2>9 DEF Next
  <1> QED
    BY <1>1, IInvCorrect, PTL DEF Spec, SentIsFinal
=============================================================================
