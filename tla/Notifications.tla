----------------------------- MODULE Notifications -----------------------------
(***************************************************************************)
(* Notifications of one channel, sent by Celery tasks through a provider.  *)
(* A task's message is acknowledged when a worker takes it (the default),  *)
(* so a worker that dies loses it.  A failed send is retried by a new      *)
(* message; when the retries are used up Celery raises the send's own      *)
(* error, and the branch that sets FAILED is never reached.                *)
(***************************************************************************)
EXTENDS Integers, FiniteSets, FiniteSetsExt

CONSTANTS
    MaxNotes,      \* bound on the notifications; numbered as they are created
    Workers,
    Sweepers,      \* runs of process_scheduled_notifications
    MaxRetries,    \* max_retries of send_notification_task
    MaxMessages,   \* bound on equal messages in the queue
    MaxAccepted    \* bound on what the provider takes of one notification

VARIABLES
    note,          \* rows of Notification
    owed,          \* <<caller, n>>: committed, the caller's delay() still to come
    queue,         \* messages of a notification, by their number of retries
    worker,
    listed,        \* what each sweep has read and not yet dealt with
    bulk,          \* rows of a bulk call between its insert and its refetch
    accepted,      \* how often the provider took each notification
    lost,          \* a process died, retries ran out, or a bulk call missed it
    doubled        \* sent again by hand, by another caller, or after a fault

noteVars == <<note, owed, queue, worker, listed, bulk, accepted, lost, doubled>>

Notes == 1..MaxNotes
NoNote == [status |-> "none"]
Idle == [at |-> "idle"]

Init ==
    /\ note = [n \in Notes |-> NoNote]
    /\ owed = {}
    /\ queue = [n \in Notes |-> [t \in 0..MaxRetries |-> 0]]
    /\ worker = [w \in Workers |-> Idle]
    /\ listed = [s \in Sweepers |-> {}]
    /\ bulk = {}
    /\ accepted = [n \in Notes |-> 0]
    /\ lost = {} /\ doubled = {}

Pending == {n \in Notes : note[n].status = "pending"}
Unused == {n \in Notes : note[n] = NoNote}
Row(s) == [status |-> s]

(* Rows are inserted in the order of their numbers.                        *)
Insert(S, s) ==
    /\ S # {} /\ S \subseteq Unused
    /\ \A n \in S, m \in Unused \ S : n < m
    /\ note' = [n \in Notes |-> IF n \in S THEN Row(s) ELSE note[n]]

CreateNotification(n, scheduled) ==
    /\ Insert({n}, IF scheduled THEN "scheduled" ELSE "pending")
    /\ owed' = IF scheduled THEN owed ELSE owed \union {<<"create", n>>}
    /\ UNCHANGED <<queue, worker, listed, bulk, accepted, lost, doubled>>

BulkCreate(S) ==
    /\ bulk = {}
    /\ Insert(S, "pending")
    /\ bulk' = S
    /\ UNCHANGED <<owed, queue, worker, listed, accepted, lost, doubled>>

(* "Refetch created notifications": the latest pending ones, whoever       *)
(* created them, at most as many as were inserted.                         *)
Latest(S, k) == {n \in S : Cardinality({m \in S : m > n}) < k}

BulkRefetch ==
    /\ bulk # {}
    /\ LET found == Latest(Pending, Cardinality(bulk)) IN
       /\ owed' = owed \union {<<"bulk", n>> : n \in found}
       /\ doubled' = doubled \union (found \ bulk)
       /\ lost' = lost \union (bulk \ found)
    /\ bulk' = {}
    /\ UNCHANGED <<note, queue, worker, listed, accepted>>

Put(n, t) ==
    /\ queue[n][t] < MaxMessages
    /\ queue' = [queue EXCEPT ![n][t] = @ + 1]

(* on_commit hooks, and the delay() that follows a sweep's save.           *)
Delay(c, n) ==
    /\ <<c, n>> \in owed
    /\ Put(n, 0)
    /\ owed' = owed \ {<<c, n>>}
    /\ UNCHANGED <<note, worker, listed, bulk, accepted, lost, doubled>>

(* The caller dies, or the broker refuses the message.                     *)
DelayFails(c, n) ==
    /\ <<c, n>> \in owed
    /\ owed' = owed \ {<<c, n>>}
    /\ lost' = lost \union {n}
    /\ UNCHANGED <<note, queue, worker, listed, bulk, accepted, doubled>>

(* The retry action of the API reads the status without a lock; bound: a   *)
(* notification already sent again by somebody is left alone.              *)
Retry(n) ==
    /\ n \notin doubled
    /\ note[n].status \in {"pending", "scheduled", "queued"}
    /\ Put(n, 0)
    /\ doubled' = doubled \union {n}
    /\ UNCHANGED <<note, owed, worker, listed, bulk, accepted, lost>>

(* Whichever rows are due.                                                 *)
ListScheduled(s, S) ==
    /\ listed[s] = {} /\ S # {}
    /\ \A n \in S : note[n].status = "scheduled"
    /\ listed' = [listed EXCEPT ![s] = S]
    /\ doubled' = doubled \union (S \intersect UNION {listed[r] : r \in Sweepers})
    /\ UNCHANGED <<note, owed, queue, worker, bulk, accepted, lost>>

(* The message first, and no change of status.                             *)
LeaveScheduled(s, n) ==
    /\ n \in listed[s]
    /\ \A m \in Notes : <<s, m>> \notin owed
    /\ listed' = [listed EXCEPT ![s] = @ \ {n}]
    /\ owed' = owed \union {<<s, n>>}
    /\ UNCHANGED <<note, queue, worker, bulk, accepted, lost, doubled>>

MarkPending(s, n) ==
    /\ n \in listed[s]
    /\ \A m \in Notes : <<s, m>> \notin owed
    /\ note' = [note EXCEPT ![n].status = "pending"]
    /\ listed' = [listed EXCEPT ![s] = @ \ {n}]
    /\ owed' = owed \union {<<s, n>>}
    /\ UNCHANGED <<queue, worker, bulk, accepted, lost, doubled>>

SweepEnds(s) ==
    /\ listed[s] # {}
    /\ listed' = [listed EXCEPT ![s] = {}]
    /\ UNCHANGED <<note, owed, queue, worker, bulk, accepted, lost, doubled>>

Goes(w, stage) == worker' = [worker EXCEPT ![w].at = stage]
Stops(w) == worker' = [worker EXCEPT ![w] = Idle]

AlreadySent(n) == note[n].status = "sent"

Take(w, n, t) ==
    /\ worker[w] = Idle
    /\ queue[n][t] > 0
    /\ queue' = [queue EXCEPT ![n][t] = @ - 1]
    /\ worker' = [worker EXCEPT ![w] =
                    IF AlreadySent(n) THEN Idle
                    ELSE [at |-> "read", of |-> n, retries |-> t]]
    /\ UNCHANGED <<note, owed, listed, bulk, accepted, lost, doubled>>

MarkQueued(w) ==
    /\ worker[w].at = "read"
    /\ note' = [note EXCEPT ![worker[w].of].status = "queued"]
    /\ Goes(w, "sending")
    /\ UNCHANGED <<owed, queue, listed, bulk, accepted, lost, doubled>>

(* The provider takes it, refuses it, or takes it and fails to say so.     *)
Send(w, took, answered) ==
    /\ worker[w].at = "sending"
    /\ took => accepted[worker[w].of] < MaxAccepted
    /\ answered => took
    /\ accepted' = [accepted EXCEPT ![worker[w].of] = @ + (IF took THEN 1 ELSE 0)]
    /\ doubled' = IF took /\ ~answered THEN doubled \union {worker[w].of} ELSE doubled
    /\ Goes(w, IF answered THEN "accepted" ELSE "failed")
    /\ UNCHANGED <<note, owed, queue, listed, bulk, lost>>

MarkSent(w) ==
    /\ worker[w].at = "accepted"
    /\ note' = [note EXCEPT ![worker[w].of].status = "sent"]
    /\ Stops(w)
    /\ UNCHANGED <<owed, queue, listed, bulk, accepted, lost, doubled>>

(* The save itself fails: the task treats it as a send that failed.        *)
MarkSentFails(w) ==
    /\ worker[w].at = "accepted"
    /\ doubled' = doubled \union {worker[w].of}
    /\ Goes(w, "failed")
    /\ UNCHANGED <<note, owed, queue, listed, bulk, accepted, lost>>

(* A retry that is counted and not queued.                                 *)
RetryNever(w) ==
    /\ worker[w].at = "failed"
    /\ lost' = IF worker[w].retries < MaxRetries THEN lost ELSE lost \union {worker[w].of}
    /\ Stops(w)
    /\ UNCHANGED <<note, owed, queue, listed, bulk, accepted, doubled>>

(* Also counts the retry in the row; nothing reads that count.             *)
RetryLater(w) ==
    /\ worker[w].at = "failed"
    /\ IF worker[w].retries < MaxRetries
       THEN Put(worker[w].of, worker[w].retries + 1) /\ lost' = lost
       ELSE queue' = queue /\ lost' = lost \union {worker[w].of}
    /\ Stops(w)
    /\ UNCHANGED <<note, owed, listed, bulk, accepted, doubled>>

WorkerDies(w) ==
    /\ worker[w] # Idle
    /\ lost' = lost \union {worker[w].of}
    /\ Stops(w)
    /\ UNCHANGED <<note, owed, queue, listed, bulk, accepted, doubled>>

Callers == {"create", "bulk"} \union Sweepers

Next ==
    \/ \E n \in Notes, b \in BOOLEAN : CreateNotification(n, b)
    \/ \E S \in SUBSET Notes : BulkCreate(S)
    \/ BulkRefetch
    \/ \E c \in Callers, n \in Notes : Delay(c, n) \/ DelayFails(c, n)
    \/ \E n \in Notes : Retry(n)
    \/ \E s \in Sweepers, S \in SUBSET Notes : ListScheduled(s, S)
    \/ \E s \in Sweepers, n \in Notes : MarkPending(s, n)
    \/ \E s \in Sweepers : SweepEnds(s)
    \/ \E w \in Workers, n \in Notes, t \in 0..MaxRetries : Take(w, n, t)
    \/ \E w \in Workers : MarkQueued(w) \/ MarkSent(w) \/ MarkSentFails(w)
                          \/ RetryLater(w) \/ WorkerDies(w)
    \/ \E w \in Workers, took, answered \in BOOLEAN : Send(w, took, answered)

Spec == Init /\ [][Next]_noteVars

(* A notification goes out once, unless it was retried by hand, picked up  *)
(* by two callers, or the provider or the last save failed half-way: the   *)
(* sweep's PENDING keeps the next sweep off it, a retry follows only a     *)
(* failed attempt.                                                         *)
SentOnce == \A n \in Notes : accepted[n] > 1 => n \in doubled

InHand(n) ==
    \/ n \in bulk
    \/ \E c \in Callers : <<c, n>> \in owed
    \/ \E t \in 0..MaxRetries : queue[n][t] > 0
    \/ \E w \in Workers : worker[w] # Idle /\ worker[w].of = n

(* A notification shown as on its way is in somebody's hands: only a crash *)
(* or the last retry leaves one pending or queued for ever.                *)
NoneForgotten ==
    \A n \in Notes : note[n].status \in {"pending", "queued"} /\ n \notin lost => InHand(n)
=============================================================================
