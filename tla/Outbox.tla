------------------------------- MODULE Outbox -------------------------------
(***************************************************************************)
(* The transactional outbox.  A service stores an event in the transaction *)
(* that causes it; after the commit a Celery task hands the event to one   *)
(* task per registered handler.                                            *)
(*                                                                         *)
(* Workers acknowledge a message when its task has ended (ACKS_LATE), so a *)
(* worker that dies gives its message back to the broker.  A task that     *)
(* raises has ended.  Time is left out: a sweep may find an event "older   *)
(* than a minute", and a countdown may be over, at any moment.             *)
(***************************************************************************)
EXTENDS Integers, FiniteSets

CONSTANTS
    Events,         \* domain events services may publish
    Handlers,       \* handlers registered for them
    Workers,        \* Celery worker processes
    MaxRetries,     \* max_retries of execute_handler
    MaxFaults,      \* bound on crashes and broker outages together
    MaxCopies       \* bound on messages of one event that wait in the queue

ASSUME OutboxAssumption ==
    /\ IsFiniteSet(Handlers)
    /\ MaxRetries \in Nat
    /\ MaxFaults \in Nat
    /\ MaxCopies \in Nat \ {0}

VARIABLES
    status,         \* the outbox row of each event; "none" before its commit
    sweep,          \* events a running sweep has still to queue
    dispatchQ,      \* waiting dispatch_event_to_handlers messages of each event
    handleQ,        \* waiting execute_handler messages
    retries,        \* retries the message of a handler carries
    consumed,       \* EventConsumption rows
    effects,        \* how often a handler's work was done for an event
    gaveUp,         \* handler tasks that ended in failure
    worker,         \* what each worker does
    faults          \* crashes and outages so far

vars == <<status, sweep, dispatchQ, handleQ, retries, consumed, effects, gaveUp,
          worker, faults>>

Tasks == Events \X Handlers

OutboxEventStatus == {"pending", "in_progress", "processed"}

Idle == [pc |-> "idle"]
DispatchJobs == [pc : {"taken", "fan"}, event : Events, todo : SUBSET Handlers]
HandleJobs   == [pc : {"start", "run", "failed", "ran"}, task : Tasks]

Init ==
    /\ status    = [e \in Events |-> "none"]
    /\ sweep     = {}
    /\ dispatchQ = [e \in Events |-> 0]
    /\ handleQ   = {}
    /\ retries   = [t \in Tasks |-> 0]
    /\ consumed  = {}
    /\ effects   = [t \in Tasks |-> 0]
    /\ gaveUp    = {}
    /\ worker    = [w \in Workers |-> Idle]
    /\ faults    = 0

-----------------------------------------------------------------------------

Becomes(w, job) == worker' = [worker EXCEPT ![w] = job]
At(w, p) == worker[w].pc = p

Fault == faults < MaxFaults /\ faults' = faults + 1
NoFault == UNCHANGED faults

Send(e) == dispatchQ' = [dispatchQ EXCEPT ![e] = @ + 1]

\* dispatch(): the row commits with the business change, then the message is
\* sent, unless the broker is down or the process dies in between.
Publish(e) ==
    /\ status[e] = "none"
    /\ status' = [status EXCEPT ![e] = "pending"]
    /\ \/ Send(e) /\ NoFault
       \/ Fault /\ UNCHANGED dispatchQ
    /\ UNCHANGED <<sweep, handleQ, retries, consumed, effects, gaveUp, worker>>

\* process_outbox_sweep: select the stuck events, then queue each again.
SweepSelect ==
    /\ sweep = {}
    /\ sweep' = {e \in Events : status[e] \in {"pending", "in_progress"}}
    /\ sweep' # {}
    /\ UNCHANGED <<status, dispatchQ, handleQ, retries, consumed, effects, gaveUp,
                   worker, faults>>

SweepSend(e) ==
    /\ e \in sweep
    /\ sweep' = sweep \ {e}
    /\ IF dispatchQ[e] < MaxCopies THEN Send(e) ELSE UNCHANGED dispatchQ
    /\ UNCHANGED <<status, handleQ, retries, consumed, effects, gaveUp, worker, faults>>

-----------------------------------------------------------------------------
(* dispatch_event_to_handlers *)

TakeDispatch(w, e) ==
    /\ At(w, "idle") /\ dispatchQ[e] > 0
    /\ dispatchQ' = [dispatchQ EXCEPT ![e] = @ - 1]
    /\ Becomes(w, [pc |-> "taken", event |-> e, todo |-> Handlers])
    /\ UNCHANGED <<status, sweep, handleQ, retries, consumed, effects, gaveUp, faults>>

\* An event in progress or processed is skipped; else this worker claims it.
ClaimEvent(w) ==
    /\ At(w, "taken")
    /\ LET e == worker[w].event
       IN  IF status[e] \in {"in_progress", "processed"}
           THEN Becomes(w, Idle) /\ UNCHANGED status
           ELSE /\ status' = [status EXCEPT ![e] = "in_progress"]
                /\ Becomes(w, [worker[w] EXCEPT !.pc = "fan"])
    /\ UNCHANGED <<sweep, dispatchQ, handleQ, retries, consumed, effects, gaveUp, faults>>

\* One message per handler; an outage raises and ends the task.
QueueHandler(w, h) ==
    /\ At(w, "fan") /\ h \in worker[w].todo
    /\ \/ /\ handleQ' = handleQ \union {<<worker[w].event, h>>}
          /\ Becomes(w, [worker[w] EXCEPT !.todo = @ \ {h}])
          /\ NoFault
       \/ Fault /\ Becomes(w, Idle) /\ UNCHANGED handleQ
    /\ UNCHANGED <<status, sweep, dispatchQ, retries, consumed, effects, gaveUp>>

\* An event marked before its handlers have their messages.
MarkProcessedEarly(w) ==
    /\ At(w, "fan")
    /\ status' = [status EXCEPT ![worker[w].event] = "processed"]
    /\ Becomes(w, IF worker[w].todo = {} THEN Idle ELSE worker[w])
    /\ UNCHANGED <<sweep, dispatchQ, handleQ, retries, consumed, effects, gaveUp, faults>>

MarkProcessed(w) ==
    /\ At(w, "fan") /\ worker[w].todo = {}
    /\ status' = [status EXCEPT ![worker[w].event] = "processed"]
    /\ Becomes(w, Idle)
    /\ UNCHANGED <<sweep, dispatchQ, handleQ, retries, consumed, effects, gaveUp, faults>>

-----------------------------------------------------------------------------
(* execute_handler *)

TakeHandle(w, t) ==
    /\ At(w, "idle") /\ t \in handleQ
    /\ handleQ' = handleQ \ {t}
    /\ Becomes(w, [pc |-> "start", task |-> t])
    /\ UNCHANGED <<status, sweep, dispatchQ, retries, consumed, effects, gaveUp, faults>>

\* A task that runs the handler whether or not the row existed.
ClaimTaskAlways(w) ==
    /\ At(w, "start")
    /\ consumed' = consumed \union {worker[w].task}
    /\ Becomes(w, [worker[w] EXCEPT !.pc = "run"])
    /\ UNCHANGED <<status, sweep, dispatchQ, handleQ, retries, effects, gaveUp, faults>>

\* The unique EventConsumption row decides who runs the handler.
ClaimTask(w) ==
    /\ At(w, "start")
    /\ consumed' = consumed \union {worker[w].task}
    /\ Becomes(w, IF worker[w].task \in consumed THEN Idle
                  ELSE [worker[w] EXCEPT !.pc = "run"])
    /\ UNCHANGED <<status, sweep, dispatchQ, handleQ, retries, effects, gaveUp, faults>>

\* The handler does its work, or raises before it did.
RunHandler(w) ==
    /\ At(w, "run")
    /\ \/ /\ effects' = [effects EXCEPT ![worker[w].task] = @ + 1]
          /\ Becomes(w, [worker[w] EXCEPT !.pc = "ran"])
       \/ /\ Becomes(w, [worker[w] EXCEPT !.pc = "failed"])
          /\ UNCHANGED effects
    /\ UNCHANGED <<status, sweep, dispatchQ, handleQ, retries, consumed, gaveUp, faults>>

Acknowledge(w) ==
    /\ At(w, "ran")
    /\ Becomes(w, Idle)
    /\ UNCHANGED <<status, sweep, dispatchQ, handleQ, retries, consumed, effects, gaveUp,
                   faults>>

\* One retry more than max_retries.
RetryableOnceMore(t) == retries[t] <= MaxRetries

Retryable(t) == retries[t] < MaxRetries

\* The EventConsumption row of a failed handler survives.
KeepRow(t) == UNCHANGED consumed

DeleteRow(t) == consumed' = consumed \ {t}

\* The row is deleted and the task queued again, unless the broker is down.
\* After the last retry self.retry(exc=exc) raises the handler's own error, not
\* MaxRetriesExceededError: the task ends and no DeadLetterEvent is written.
RetryHandler(w) ==
    /\ At(w, "failed")
    /\ LET t == worker[w].task
       IN  /\ DeleteRow(t)
           /\ \/ /\ Retryable(t) /\ NoFault
                 /\ retries' = [retries EXCEPT ![t] = @ + 1]
                 /\ handleQ' = handleQ \union {t}
                 /\ UNCHANGED gaveUp
              \/ /\ IF Retryable(t) THEN Fault ELSE NoFault
                 /\ gaveUp' = gaveUp \union {t}
                 /\ UNCHANGED <<retries, handleQ>>
    /\ Becomes(w, Idle)
    /\ UNCHANGED <<status, sweep, dispatchQ, effects>>

\* A worker dies; its message goes back to the queue.
Crash(w) ==
    /\ ~At(w, "idle")
    /\ Fault
    /\ Becomes(w, Idle)
    /\ IF worker[w].pc \in {"taken", "fan"}
       THEN Send(worker[w].event) /\ UNCHANGED handleQ
       ELSE handleQ' = handleQ \union {worker[w].task} /\ UNCHANGED dispatchQ
    /\ UNCHANGED <<status, sweep, retries, consumed, effects, gaveUp>>

Proceed(w) ==
    \/ ClaimEvent(w) \/ MarkProcessed(w) \/ \E h \in Handlers : QueueHandler(w, h)
    \/ ClaimTask(w) \/ RunHandler(w) \/ Acknowledge(w) \/ RetryHandler(w)

Dispatch(e) == \E w \in Workers : TakeDispatch(w, e)
Handle(t)   == \E w \in Workers : TakeHandle(w, t)

Next ==
    \/ \E e \in Events : Publish(e) \/ SweepSend(e) \/ Dispatch(e)
    \/ SweepSelect
    \/ \E t \in Tasks : Handle(t)
    \/ \E w \in Workers : Proceed(w) \/ Crash(w)

Spec == Init /\ [][Next]_vars

\* Workers run on and the broker hands out its messages in turn.  No entry of
\* CELERY_BEAT_SCHEDULE starts the sweep, so nothing says that it runs.
Fairness ==
    /\ \A w \in Workers : WF_vars(Proceed(w))
    /\ \A e \in Events : SF_vars(Dispatch(e))
    /\ \A t \in Tasks : SF_vars(Handle(t))

FairSpec == Spec /\ Fairness

-----------------------------------------------------------------------------
(* Properties *)

Working(p) == {worker[w].task : w \in {v \in Workers : worker[v].pc \in p}}

TypeOK ==
    /\ status \in [Events -> OutboxEventStatus \union {"none"}]
    /\ sweep \subseteq Events
    /\ dispatchQ \in [Events -> Nat]
    /\ handleQ \subseteq Tasks
    /\ retries \in [Tasks -> 0..MaxRetries]
    /\ consumed \subseteq Tasks
    /\ effects \in [Tasks -> Nat]
    /\ gaveUp \subseteq Tasks
    /\ worker \in [Workers -> DispatchJobs \union HandleJobs \union {Idle}]
    /\ faults \in 0..MaxFaults

\* Whatever is redelivered after a crash, swept twice or retried, the work of a
\* handler is done at most once for an event (execute_handler's consumption row).
EffectAtMostOnce == \A t \in Tasks : effects[t] <= 1

\* A processed event has left none of its handlers behind: each has a message,
\* is being run, was run or has failed (dispatch_event_to_handlers).
NoTaskForgotten ==
    \A e \in Events : status[e] = "processed" =>
        \A h \in Handlers :
            <<e, h>> \in handleQ \union consumed \union gaveUp \union Working({"start"})

\* While no worker dies and the broker is up, a published event reaches every
\* handler: its work is done or it has failed MaxRetries + 1 times.
HandledUnlessFault ==
    \A e \in Events : status[e] = "pending" ~>
        \/ faults > 0
        \/ \A h \in Handlers : effects[<<e, h>>] > 0 \/ <<e, h>> \in gaveUp
=============================================================================
