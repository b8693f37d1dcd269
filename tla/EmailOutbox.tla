---------------------------- MODULE EmailOutbox ----------------------------
(***************************************************************************)
(* The e-mail outbox: a mail is sent at once, and stored when the provider *)
(* fails in a way that may pass; a cron job claims stored mails in batches *)
(* and sends them one by one; a second job deletes old rows.               *)
(*                                                                         *)
(* Several batches can run at once: in one process (a batch may outlast    *)
(* the cron interval) or in several.  A Redis lock keeps them apart, but   *)
(* it has a lifetime, its release is a GET and then a DEL, and nobody      *)
(* takes it while Redis is away.  What really keeps them apart is the claim: one        *)
(* transaction that turns due rows into PROCESSING.  A claim that is older *)
(* than the processing timeout is taken back, whether its worker is dead   *)
(* or only slow.  After the claim a worker writes rows by id alone.        *)
(*                                                                         *)
(* Time is abstract: a row is due or not, its claim stale or not, the mail *)
(* expired or not, and the clock turns these on.  A worker that claims a   *)
(* mail never finds it expired later (worker.js:238), because it compares  *)
(* with the time at which its batch began.                                 *)
(***************************************************************************)
EXTENDS Naturals, FiniteSets, Sequences, SequencesExt

CONSTANTS
  Mails,         \* the mails the application wants to send
  Workers,       \* bound: batches that can run at the same time
  NoWorker,      \* the lock key does not exist
  DeadWorker,    \* the lock holds the token of a batch that is gone
  RedisOpen,     \* what a call may find: Redis enabled and its client open, or not
  MaxAttempts,   \* env.emailOutboxMaxAttempts
  BatchSize,     \* env.emailOutboxBatchSize
  MaxFailures    \* bound: crashes and database failures of a behaviour

ASSUME OutboxAssumption ==
  /\ NoWorker \notin Workers /\ DeadWorker \notin Workers /\ NoWorker # DeadWorker
  /\ RedisOpen \in (SUBSET BOOLEAN) \ {{}}
  /\ MaxAttempts \in Nat \ {0}
  /\ BatchSize \in Nat \ {0}
  /\ MaxFailures \in Nat
  /\ IsFiniteSet(Mails)   \* a table counts its rows

VARIABLES
  mail,       \* the email_outbox table, and what became of unstored mails
  lock,       \* value of the worker lock key
  throttled,  \* the throttle key exists
  at,         \* where each worker is
  batch,      \* ids it claimed
  todo,       \* records it read and has not finished
  fault,      \* how its last statement failed
  failures,   \* crashes and database failures so far
  copies,     \* how often the provider accepted a mail: counted up to the first doubt
  doubt       \* mails accepted without the row saying so, or reclaimed

workerVars == <<at, batch, todo, fault>>
history    == <<copies, doubt>>
vars == <<mail, lock, throttled, workerVars, failures, history>>

Open     == {"PENDING", "PROCESSING", "RETRYING"}
Stored   == Open \cup {"SENT", "FAILED"}
Unstored == {"NEW", "DIRECT", "REFUSED", "DELETED"}
Faults   == {"throttle", "recoverable", "permanent"}
Places   == {"idle", "lock", "claim", "fetch", "send", "mark", "settle",
             "throttle", "defer", "release", "del"}

Row    == [status : Stored \cup Unstored, attempts : Nat,
           due : BOOLEAN, stale : BOOLEAN, expired : BOOLEAN]
Record == [mail : Mails, attempts : Nat]

Init ==
  /\ mail = [m \in Mails |-> [status |-> "NEW", attempts |-> 0, due |-> FALSE,
                              stale |-> FALSE, expired |-> FALSE]]
  /\ lock = NoWorker
  /\ throttled = FALSE
  /\ at    = [w \in Workers |-> "idle"]
  /\ batch = [w \in Workers |-> {}]
  /\ todo  = [w \in Workers |-> << >>]
  /\ fault = [w \in Workers |-> "none"]
  /\ failures = 0
  /\ copies = [m \in Mails |-> 0]
  /\ doubt = [m \in Mails |-> "none"]

IsStored(m) == mail[m].status \in Stored

\* A row in another status: processing_started is cleared with it.
Moved(row, status, due) == [row EXCEPT !.status = status, !.due = due, !.stale = FALSE]

Fails == failures < MaxFailures /\ failures' = failures + 1

-----------------------------------------------------------------------------
(* Sending.  The provider may accept a mail and the call fail all the same. *)

Doubts(m) == doubt' = [doubt EXCEPT ![m] = IF @ = "none" THEN "unsure" ELSE @]

SendEmail(m, result) == \E accepted \in BOOLEAN :
  /\ result = "none" => accepted
  /\ copies' = [copies EXCEPT ![m] =
       IF accepted /\ (@ = 0 \/ (@ = 1 /\ doubt[m] = "none")) THEN @ + 1 ELSE @]
  /\ IF accepted /\ result # "none" THEN Doubts(m) ELSE UNCHANGED doubt

\* The caller of a send that fails for good, or cannot be stored, gets the error.
SendEmailWithRecovery(m) ==
  /\ mail[m].status = "NEW"
  /\ \E result \in Faults \cup {"none"} :
       /\ SendEmail(m, result)
       /\ \E status \in CASE result = "none"      -> {"DIRECT"}
                          [] result = "permanent" -> {"REFUSED"}
                          [] OTHER                -> {"PENDING", "REFUSED"} :
            mail' = [mail EXCEPT ![m] = Moved(@, status, status = "PENDING")]
  /\ UNCHANGED <<lock, throttled, workerVars, failures>>

-----------------------------------------------------------------------------
(* A batch: processEmailOutboxBatch *)

Goto(w, place) == at' = [at EXCEPT ![w] = place]

\* The batch is over, or an error leaves the loop: what it claimed and did not finish
\* stays PROCESSING.
Finish(w) ==
  /\ Goto(w, "release")
  /\ batch' = [batch EXCEPT ![w] = {}]
  /\ todo'  = [todo EXCEPT ![w] = << >>]

Start(w) ==
  /\ at[w] = "idle"
  /\ throttled => FALSE \in RedisOpen
  /\ Goto(w, "lock")
  /\ UNCHANGED <<mail, lock, throttled, batch, todo, fault, failures, history>>

AcquireWorkerLock(w) ==
  /\ at[w] = "lock"
  /\ \/ FALSE \in RedisOpen /\ Goto(w, "claim") /\ UNCHANGED lock
     \/ TRUE \in RedisOpen /\ lock = NoWorker /\ lock' = w /\ Goto(w, "claim")
     \/ TRUE \in RedisOpen /\ lock # NoWorker /\ Goto(w, "idle") /\ UNCHANGED lock
  /\ UNCHANGED <<mail, throttled, batch, todo, fault, failures, history>>

IsStale(row) == row.status = "PROCESSING" /\ row.stale

Reclaimed(row) == IF IsStale(row) THEN Moved(row, "RETRYING", TRUE) ELSE row

\* Mutant: a mail waiting for its retry never expires.
ExpiredUnlessRetrying(row) ==
  IF row.status \in {"PENDING", "PROCESSING"} /\ row.expired
  THEN Moved(row, "FAILED", FALSE) ELSE row

\* Mutant: the status filter of the sweep is lost.
ExpiredWhateverStatus(row) ==
  IF row.status \in Stored /\ row.expired THEN Moved(row, "FAILED", FALSE) ELSE row

Expired(row) ==
  IF row.status \in Open /\ row.expired THEN Moved(row, "FAILED", FALSE) ELSE row

\* Mutant: rows in PROCESSING are claimed as well.
ClaimableTwice(row) ==
  /\ row.status \in Open
  /\ row.due \/ row.status = "PROCESSING"
  /\ ~row.expired
  /\ row.attempts < MaxAttempts

Claimable(row) ==
  /\ row.status \in {"PENDING", "RETRYING"}
  /\ row.due
  /\ ~row.expired
  /\ row.attempts < MaxAttempts

\* Take back stale claims, fail what has expired, claim what is due.
ClaimDueOutboxItems(w) ==
  /\ at[w] = "claim"
  /\ LET swept     == [m \in Mails |-> Expired(Reclaimed(mail[m]))]
         claimable == {m \in Mails : Claimable(swept[m])}
     IN  \E S \in SUBSET claimable :
           /\ \/ Cardinality(S) = BatchSize
              \/ S = claimable /\ Cardinality(S) < BatchSize
           /\ mail' = [m \in Mails |-> IF m \in S THEN Moved(swept[m], "PROCESSING", FALSE)
                                       ELSE swept[m]]
           /\ IF S = {} THEN Finish(w)
              ELSE batch' = [batch EXCEPT ![w] = S] /\ Goto(w, "fetch") /\ UNCHANGED todo
  /\ doubt' = [m \in Mails |-> IF IsStale(mail[m]) THEN "reclaimed" ELSE doubt[m]]
  /\ UNCHANGED <<lock, throttled, fault, failures, copies>>

\* The records are read after the claim, by id, in some order.
FetchRecords(w) ==
  /\ at[w] = "fetch"
  /\ \E order \in SetToSeqs({m \in batch[w] : IsStored(m)}) :
       IF order = << >> THEN Finish(w)
       ELSE /\ todo' = [todo EXCEPT ![w] = [i \in DOMAIN order |->
                          [mail |-> order[i], attempts |-> mail[order[i]].attempts]]]
            /\ batch' = [batch EXCEPT ![w] = {}]
            /\ Goto(w, "send")
  /\ UNCHANGED <<mail, lock, throttled, fault, failures, history>>

Current(w) == Head(todo[w])
Tailing(w) == {todo[w][i].mail : i \in 2..Len(todo[w])}

Advance(w) ==
  IF Len(todo[w]) = 1 THEN Finish(w)
  ELSE todo' = [todo EXCEPT ![w] = Tail(@)] /\ Goto(w, "send") /\ UNCHANGED batch

Send(w) ==
  /\ at[w] = "send"
  /\ \E result \in Faults \cup {"none"} :
       /\ SendEmail(Current(w).mail, result)
       /\ fault' = [fault EXCEPT ![w] = result]
       /\ Goto(w, IF result = "none" THEN "mark" ELSE "settle")
  /\ UNCHANGED <<mail, lock, throttled, batch, todo, failures>>

\* Mutant: every mail of the batch is marked.
MarkAll(w) == {todo[w][i].mail : i \in DOMAIN todo[w]}

Marked(w) == {Current(w).mail}

\* The row is marked in the same try as the send: when that fails, because the row is
\* gone, the database is, or its answer got lost, the mail counts as not sent.
MarkSent(w) ==
  LET m      == Current(w).mail
      marked == [n \in Mails |-> IF n \in Marked(w) THEN Moved(mail[n], "SENT", FALSE)
                                 ELSE mail[n]]
  IN  /\ at[w] = "mark"
      /\ \/ /\ IsStored(m)
            /\ mail' = marked
            /\ Advance(w)
            /\ UNCHANGED <<fault, failures, doubt>>
         \/ /\ \/ ~IsStored(m) /\ UNCHANGED <<mail, failures>>
               \/ IsStored(m) /\ Fails /\ mail' \in {mail, marked}
            /\ \E f \in {"throttle", "permanent"} : fault' = [fault EXCEPT ![w] = f]
            /\ Doubts(m)
            /\ Goto(w, "settle")
            /\ UNCHANGED <<batch, todo>>
      /\ UNCHANGED <<lock, throttled, copies>>

\* Mutant: one attempt too many.
MayRetryOnceMore(f, attempts) == f # "permanent" /\ attempts <= MaxAttempts

MayRetry(f, attempts) == f # "permanent" /\ attempts < MaxAttempts

RetryAgain(w) == MayRetry(fault[w], Current(w).attempts + 1)

Settled(w) ==
  [mail EXCEPT ![Current(w).mail] =
     [Moved(@, IF RetryAgain(w) THEN "RETRYING" ELSE "FAILED", FALSE)
        EXCEPT !.attempts = Current(w).attempts + 1]]

\* A row that was deleted meanwhile cannot be updated, and that ends the batch.
SettleFailure(w) ==
  /\ at[w] = "settle"
  /\ IF ~IsStored(Current(w).mail) THEN Finish(w) /\ UNCHANGED mail
     ELSE /\ mail' = Settled(w)
          /\ IF RetryAgain(w) /\ fault[w] = "throttle"
             THEN Goto(w, "throttle") /\ UNCHANGED <<batch, todo>>
             ELSE Advance(w)
  /\ fault' = [fault EXCEPT ![w] = "none"]
  /\ UNCHANGED <<lock, throttled, failures, history>>

\* A pause that would already be over is not set, nor is one set without Redis.
SetGlobalThrottlePause(w) ==
  /\ at[w] = "throttle"
  /\ \/ UNCHANGED throttled
     \/ TRUE \in RedisOpen /\ throttled' = TRUE
  /\ IF Tailing(w) = {} THEN Finish(w) ELSE Goto(w, "defer") /\ UNCHANGED <<batch, todo>>
  /\ UNCHANGED <<mail, lock, fault, failures, history>>

\* The rest of the batch is put off by id, whatever its rows say by now.
DeferTail(w) ==
  /\ at[w] = "defer"
  /\ mail' = [m \in Mails |-> IF m \in Tailing(w) /\ IsStored(m)
                              THEN Moved(mail[m], "RETRYING", FALSE) ELSE mail[m]]
  /\ Finish(w)
  /\ UNCHANGED <<lock, throttled, fault, failures, history>>

\* A statement of the batch fails (or only its answer is lost), and nothing but the
\* finally block runs.
StatementFails(w) ==
  /\ at[w] \in {"claim", "fetch", "settle", "throttle", "defer"}
  /\ Fails
  /\ Finish(w)
  /\ fault' = [fault EXCEPT ![w] = "none"]
  /\ \/ at[w] = "settle" /\ IsStored(Current(w).mail) /\ mail' = Settled(w)
     \/ UNCHANGED mail
  /\ UNCHANGED <<lock, throttled, history>>

\* The release compares the token with a GET ...
ReleaseWorkerLock(w) ==
  /\ at[w] = "release"
  /\ Goto(w, IF lock = w THEN "del" ELSE "idle")
  /\ UNCHANGED <<mail, lock, throttled, batch, todo, fault, failures, history>>

\* ... and deletes the key in another command, whoever holds it by then.
DeleteWorkerLock(w) ==
  /\ at[w] = "del"
  /\ lock' = NoWorker
  /\ Goto(w, "idle")
  /\ UNCHANGED <<mail, throttled, batch, todo, fault, failures, history>>

\* The process dies, or the lock cannot be released: what it held stays.
Crash(w) ==
  /\ at[w] # "idle"
  /\ Fails
  /\ Goto(w, "idle")
  /\ batch' = [batch EXCEPT ![w] = {}]
  /\ todo'  = [todo EXCEPT ![w] = << >>]
  /\ fault' = [fault EXCEPT ![w] = "none"]
  /\ lock' = IF lock = w THEN DeadWorker ELSE lock
  /\ UNCHANGED <<mail, throttled, history>>

-----------------------------------------------------------------------------
(* The daily cleanup, and time *)

\* Expired rows go whatever their status; sent and failed ones after their retention.
CleanupEmailOutbox == \E old \in SUBSET {m \in Mails : mail[m].status \in {"SENT", "FAILED"}} :
  /\ mail' = [m \in Mails |-> IF IsStored(m) /\ (mail[m].expired \/ m \in old)
                              THEN Moved(mail[m], "DELETED", FALSE) ELSE mail[m]]
  /\ UNCHANGED <<lock, throttled, workerVars, failures, history>>

Ticks(m, row) ==
  mail' = [mail EXCEPT ![m] = row] /\ UNCHANGED <<lock, throttled, workerVars, failures, history>>

BecomesDue(m) ==
  mail[m].status = "RETRYING" /\ ~mail[m].due /\ Ticks(m, [mail[m] EXCEPT !.due = TRUE])

GoesStale(m) ==
  mail[m].status = "PROCESSING" /\ ~mail[m].stale /\ Ticks(m, [mail[m] EXCEPT !.stale = TRUE])

Expires(m) ==
  mail[m].status \in Open /\ ~mail[m].expired /\ Ticks(m, [mail[m] EXCEPT !.expired = TRUE])

LockExpires ==
  /\ lock # NoWorker
  /\ lock' = NoWorker
  /\ UNCHANGED <<mail, throttled, workerVars, failures, history>>

ThrottleEnds ==
  /\ throttled
  /\ throttled' = FALSE
  /\ UNCHANGED <<mail, lock, workerVars, failures, history>>

-----------------------------------------------------------------------------
Batch(w) ==
  \/ Start(w) \/ AcquireWorkerLock(w) \/ ClaimDueOutboxItems(w) \/ FetchRecords(w)
  \/ Send(w) \/ MarkSent(w) \/ SettleFailure(w)
  \/ SetGlobalThrottlePause(w) \/ DeferTail(w)
  \/ ReleaseWorkerLock(w) \/ DeleteWorkerLock(w)

Next ==
  \/ \E m \in Mails : SendEmailWithRecovery(m) \/ BecomesDue(m) \/ GoesStale(m) \/ Expires(m)
  \/ \E w \in Workers : Batch(w) \/ StatementFails(w) \/ Crash(w)
  \/ CleanupEmailOutbox \/ LockExpires \/ ThrottleEnds

Spec == Init /\ [][Next]_vars

\* The cron job starts a batch every minute, a started batch goes on (the mail library
\* gives up on a silent provider), and time passes.  Nothing is assumed of what the
\* provider answers, of the application or of the cleanup.
Fairness ==
  /\ \A w \in Workers : WF_vars(Batch(w))
  /\ \A m \in Mails : WF_vars(BecomesDue(m)) /\ WF_vars(GoesStale(m)) /\ WF_vars(Expires(m))
  /\ WF_vars(LockExpires) /\ WF_vars(ThrottleEnds)

FairSpec == Spec /\ Fairness

-----------------------------------------------------------------------------
\* Every variable holds a value of its type, and a worker has records and an error only
\* where its batch uses them.
TypeOK ==
  /\ mail \in [Mails -> Row]
  /\ lock \in Workers \cup {NoWorker, DeadWorker}
  /\ throttled \in BOOLEAN
  /\ at \in [Workers -> Places]
  /\ batch \in [Workers -> SUBSET Mails]
  /\ todo \in [Workers -> Seq(Record)]
  /\ fault \in [Workers -> Faults \cup {"none"}]
  /\ \A w \in Workers :
       /\ batch[w] # {} <=> at[w] = "fetch"
       /\ todo[w] # << >> <=> at[w] \in {"send", "mark", "settle", "throttle", "defer"}
       /\ fault[w] # "none" <=> at[w] = "settle"
  /\ failures \in 0..MaxFailures
  /\ copies \in [Mails -> 0..2]
  /\ doubt \in [Mails -> {"none", "unsure", "reclaimed"}]

\* A mail recorded as sent was accepted by the provider, whichever worker recorded it.
SentWasAccepted ==
  \A m \in Mails : mail[m].status \in {"SENT", "DIRECT"} => copies[m] > 0

\* A mail is delivered twice only where sending at least once cannot avoid it (the call
\* or the update after it failed), or when its claim was taken back from a slow worker:
\* never because two batches ran without a lock.
SecondCopyHasReason ==
  \A m \in Mails : copies[m] > 1 => doubt[m] # "none"

\* A mail waiting to be sent has an attempt left, unless a slow worker put off a mail
\* that another one had already given up.
WaitingHasAttempts ==
  \A m \in Mails :
    /\ mail[m].attempts > MaxAttempts => doubt[m] = "reclaimed"
    /\ mail[m].status \in {"PENDING", "RETRYING"} /\ mail[m].attempts >= MaxAttempts =>
         doubt[m] = "reclaimed"

\* A mail marked SENT is never queued again or failed, unless its claim had been taken
\* back or the answer to the marking got lost.
SentIsFinal ==
  [][\A m \in Mails :
       mail[m].status = "SENT" /\ mail'[m].status # "SENT" =>
         mail'[m].status = "DELETED" \/ doubt[m] # "none"]_vars

\* Every stored mail is at last sent, failed or deleted, and stays so: whatever crashes,
\* is throttled, put off, or left in PROCESSING by a batch that broke off.
EveryMailSettles == \A m \in Mails : <>[](mail[m].status \notin Open)
=============================================================================
