-------------------------- MODULE Background_proofs --------------------------
(***************************************************************************)
(* Proofs about what happens in the background: the outbox, for any events, *)
(* handlers, workers and retries and any number of faults; the billing      *)
(* cycle, for any tenants, runs of the task, gateway orders and webhooks;   *)
(* and sign-ups beside the super admin's edits, for any visitors.           *)
(***************************************************************************)
EXTENDS MCBackground, TLAPS, SequenceTheorems, FiniteSetTheorems

-----------------------------------------------------------------------------
(* The outbox *)

\* A worker inside dispatch_event_to_handlers carries an event and the handlers
\* it has still to queue.
LEMMA DispatchJob ==
    ASSUME TypeOK, NEW w \in Workers, worker[w].pc \in {"taken", "fan"}
    PROVE  worker[w] \in DispatchJobs
  BY DEF TypeOK, DispatchJobs, HandleJobs, Idle

\* A worker inside execute_handler carries its task.
LEMMA HandleJob ==
    ASSUME TypeOK, NEW w \in Workers, worker[w].pc \in {"start", "run", "failed", "ran"}
    PROVE  worker[w] \in HandleJobs
  BY DEF TypeOK, DispatchJobs, HandleJobs, Idle

\* What a worker turns to is a job again.
LEMMA WorkerTyped ==
    ASSUME TypeOK, NEW w \in Workers, NEW job \in DispatchJobs \union HandleJobs \union {Idle},
           Becomes(w, job)
    PROVE  worker' \in [Workers -> DispatchJobs \union HandleJobs \union {Idle}]
  BY DEF TypeOK, Becomes

\* Init and every step of Next keep the rows, queues and workers well typed.
LEMMA TypeStep == TypeOK /\ [Next]_vars => TypeOK'
<1> SUFFICES ASSUME TypeOK, [Next]_vars PROVE TypeOK'
  OBVIOUS
<1> USE OutboxAssumption
<1>1. ASSUME NEW e \in Events, Publish(e) PROVE TypeOK'
  BY <1>1 DEF Publish, Send, Fault, NoFault, TypeOK, OutboxEventStatus
<1>2. ASSUME NEW e \in Events, SweepSend(e) PROVE TypeOK'
  BY <1>2 DEF SweepSend, Send, TypeOK
<1>3. CASE SweepSelect
  BY <1>3 DEF SweepSelect, TypeOK
<1>4. ASSUME NEW e \in Events, NEW w \in Workers, TakeDispatch(w, e) PROVE TypeOK'
  <2>1. [pc |-> "taken", event |-> e, todo |-> Handlers] \in DispatchJobs
    BY DEF DispatchJobs
  <2>2. worker' \in [Workers -> DispatchJobs \union HandleJobs \union {Idle}]
    BY <1>4, <2>1, WorkerTyped DEF TakeDispatch
  <2> QED BY <1>4, <2>2 DEF TakeDispatch, TypeOK
<1>5. ASSUME NEW t \in Tasks, NEW w \in Workers, TakeHandle(w, t) PROVE TypeOK'
  <2>1. [pc |-> "start", task |-> t] \in HandleJobs
    BY DEF HandleJobs
  <2>2. worker' \in [Workers -> DispatchJobs \union HandleJobs \union {Idle}]
    BY <1>5, <2>1, WorkerTyped DEF TakeHandle
  <2> QED BY <1>5, <2>2 DEF TakeHandle, TypeOK
<1>6. ASSUME NEW w \in Workers, ClaimEvent(w) PROVE TypeOK'
  <2>1. worker[w] \in DispatchJobs
    BY <1>6, DispatchJob DEF ClaimEvent, At
  <2>2. [worker[w] EXCEPT !.pc = "fan"] \in DispatchJobs
    BY <2>1 DEF DispatchJobs
  <2>3. worker' \in [Workers -> DispatchJobs \union HandleJobs \union {Idle}]
    BY <1>6, <2>2, WorkerTyped DEF ClaimEvent
  <2>4. worker[w].event \in Events
    BY <2>1 DEF DispatchJobs
  <2> QED BY <1>6, <2>3, <2>4 DEF ClaimEvent, TypeOK, OutboxEventStatus
<1>7. ASSUME NEW w \in Workers, NEW h \in Handlers, QueueHandler(w, h) PROVE TypeOK'
  <2>1. worker[w] \in DispatchJobs
    BY <1>7, DispatchJob DEF QueueHandler, At
  <2>2. [worker[w] EXCEPT !.todo = @ \ {h}] \in DispatchJobs
    BY <2>1 DEF DispatchJobs
  <2>3. worker' \in [Workers -> DispatchJobs \union HandleJobs \union {Idle}]
    BY <1>7, <2>2, WorkerTyped DEF QueueHandler
  <2>4. <<worker[w].event, h>> \in Tasks
    BY <2>1 DEF DispatchJobs, Tasks
  <2> QED BY <1>7, <2>3, <2>4 DEF QueueHandler, Fault, NoFault, TypeOK
<1>8. ASSUME NEW w \in Workers, MarkProcessed(w) PROVE TypeOK'
  <2>1. worker[w] \in DispatchJobs
    BY <1>8, DispatchJob DEF MarkProcessed, At
  <2>2. worker' \in [Workers -> DispatchJobs \union HandleJobs \union {Idle}]
    BY <1>8, WorkerTyped DEF MarkProcessed
  <2>3. worker[w].event \in Events
    BY <2>1 DEF DispatchJobs
  <2> QED BY <1>8, <2>2, <2>3 DEF MarkProcessed, TypeOK, OutboxEventStatus
<1>9. ASSUME NEW w \in Workers, ClaimTask(w) PROVE TypeOK'
  <2>1. worker[w] \in HandleJobs
    BY <1>9, HandleJob DEF ClaimTask, At
  <2>2. [worker[w] EXCEPT !.pc = "run"] \in HandleJobs /\ worker[w].task \in Tasks
    BY <2>1 DEF HandleJobs
  <2>3. worker' \in [Workers -> DispatchJobs \union HandleJobs \union {Idle}]
    BY <1>9, <2>2, WorkerTyped DEF ClaimTask
  <2> QED BY <1>9, <2>2, <2>3 DEF ClaimTask, TypeOK
<1>10. ASSUME NEW w \in Workers, RunHandler(w) PROVE TypeOK'
  <2>1. worker[w] \in HandleJobs
    BY <1>10, HandleJob DEF RunHandler, At
  <2>2. /\ [worker[w] EXCEPT !.pc = "ran"] \in HandleJobs
        /\ [worker[w] EXCEPT !.pc = "failed"] \in HandleJobs
        /\ worker[w].task \in Tasks
    BY <2>1 DEF HandleJobs
  <2>3. worker' \in [Workers -> DispatchJobs \union HandleJobs \union {Idle}]
    BY <1>10, <2>2, WorkerTyped DEF RunHandler
  <2> QED BY <1>10, <2>2, <2>3 DEF RunHandler, TypeOK
<1>11. ASSUME NEW w \in Workers, Acknowledge(w) PROVE TypeOK'
  <2>1. worker' \in [Workers -> DispatchJobs \union HandleJobs \union {Idle}]
    BY <1>11, WorkerTyped DEF Acknowledge
  <2> QED BY <1>11, <2>1 DEF Acknowledge, TypeOK
<1>12. ASSUME NEW w \in Workers, RetryHandler(w) PROVE TypeOK'
  <2>1. worker[w].task \in Tasks
    BY <1>12, HandleJob DEF RetryHandler, At, HandleJobs
  <2>2. worker' \in [Workers -> DispatchJobs \union HandleJobs \union {Idle}]
    BY <1>12, WorkerTyped DEF RetryHandler
  <2>3. /\ retries' \in [Tasks -> 0..MaxRetries] /\ handleQ' \subseteq Tasks
        /\ gaveUp' \subseteq Tasks /\ consumed' \subseteq Tasks
        /\ faults' \in 0..MaxFaults
    BY <1>12, <2>1 DEF RetryHandler, DeleteRow, Retryable, Fault, NoFault, TypeOK
  <2> QED BY <1>12, <2>2, <2>3 DEF RetryHandler, TypeOK
<1>13. ASSUME NEW w \in Workers, Crash(w) PROVE TypeOK'
  <2>1. worker' \in [Workers -> DispatchJobs \union HandleJobs \union {Idle}]
    BY <1>13, WorkerTyped DEF Crash
  <2>2. CASE worker[w].pc \in {"taken", "fan"}
    <3>1. worker[w].event \in Events
      BY <2>2, DispatchJob DEF DispatchJobs
    <3> QED BY <1>13, <2>1, <2>2, <3>1 DEF Crash, Send, Fault, TypeOK
  <2>3. CASE worker[w].pc \notin {"taken", "fan"}
    <3>1. worker[w].task \in Tasks
      BY <1>13, <2>3 DEF Crash, At, TypeOK, DispatchJobs, HandleJobs, Idle
    <3> QED BY <1>13, <2>1, <2>3, <3>1 DEF Crash, Fault, TypeOK
  <2> QED BY <2>2, <2>3
<1>14. CASE UNCHANGED vars
  BY <1>14 DEF vars, TypeOK
<1> QED
  BY <1>1, <1>2, <1>3, <1>4, <1>5, <1>6, <1>7, <1>8, <1>9, <1>10, <1>11, <1>12,
     <1>13, <1>14 DEF Next, Dispatch, Handle, Proceed

\* The outbox, its queues and its workers stay well typed (events/tasks.py).
THEOREM TypeCorrect == Spec => []TypeOK
<1>1. Init => TypeOK
  BY OutboxAssumption DEF Init, TypeOK, Idle, Tasks
<1> QED BY <1>1, TypeStep, PTL DEF Spec

-----------------------------------------------------------------------------
(* A handler works at most once for an event *)

Runs(w, t) == worker[w].pc \in {"run", "failed"} /\ worker[w].task = t

\* One worker at most runs a task, it holds the task's consumption row, and once
\* the work is done the row stays and nobody runs the task.
Once ==
    \A t \in Tasks :
        /\ effects[t] <= 1
        /\ effects[t] # 0 => t \in consumed /\ \A w \in Workers : ~Runs(w, t)
        /\ \A w \in Workers : Runs(w, t) =>
             t \in consumed /\ \A v \in Workers : Runs(v, t) => v = w

\* A step that starts no handler and touches neither rows nor effects keeps it.
LEMMA OnceKept ==
    ASSUME Once, UNCHANGED <<effects, consumed>>,
           \A w \in Workers : \A t \in Tasks : Runs(w, t)' => Runs(w, t)
    PROVE  Once'
  BY DEF Once

\* A worker that turns to a job outside run and failed runs nothing.
LEMMA NotRunning ==
    ASSUME TypeOK, NEW w \in Workers, NEW job, job.pc \notin {"run", "failed"},
           Becomes(w, job)
    PROVE  \A v \in Workers : \A t \in Tasks : Runs(v, t)' => Runs(v, t) /\ v # w
  BY DEF TypeOK, Becomes, Runs

\* ClaimTask: only the worker that inserts the row starts to run.
LEMMA OnceClaim ==
    ASSUME TypeOK, Once, NEW w \in Workers, ClaimTask(w)
    PROVE  Once'
<1> DEFINE k == worker[w].task
<1>1. worker[w] \in HandleJobs
  BY HandleJob DEF ClaimTask, At
<1>2. k \in Tasks
  BY <1>1 DEF HandleJobs
<1>3. CASE k \in consumed
  <2>1. Becomes(w, Idle) /\ UNCHANGED <<effects, consumed>>
    BY <1>3 DEF ClaimTask
  <2>2. \A v \in Workers : \A t \in Tasks : Runs(v, t)' => Runs(v, t)
    BY <2>1, NotRunning DEF Idle
  <2> QED BY <2>1, <2>2, OnceKept
<1>4. CASE k \notin consumed
  <2>1. \A v \in Workers : ~Runs(v, k)
    BY <1>2, <1>4 DEF Once
  <2>2. effects[k] = 0
    BY <1>2, <1>4 DEF Once
  <2>3. worker' = [worker EXCEPT ![w] = [worker[w] EXCEPT !.pc = "run"]]
    BY <1>4 DEF ClaimTask, Becomes
  <2>4. worker'[w].task = k
    BY <2>3, <1>1 DEF TypeOK, HandleJobs
  <2>5. \A v \in Workers : \A t \in Tasks : Runs(v, t)' => (v = w /\ t = k) \/ Runs(v, t)
    BY <2>3, <2>4 DEF Runs, TypeOK
  <2>6. consumed' = consumed \union {k} /\ effects' = effects
    BY DEF ClaimTask
  <2> HIDE DEF k
  <2> QED BY <2>1, <2>2, <2>5, <2>6, <1>4 DEF Once
<1> QED BY <1>3, <1>4

\* RunHandler: the work is done once, by the only worker that runs the task.
LEMMA OnceRun ==
    ASSUME TypeOK, Once, NEW w \in Workers, RunHandler(w)
    PROVE  Once'
<1> DEFINE k == worker[w].task
<1>1. worker[w] \in HandleJobs /\ worker[w].pc = "run"
  BY HandleJob DEF RunHandler, At
<1>2. k \in Tasks /\ Runs(w, k)
  BY <1>1 DEF HandleJobs, Runs
<1>3. consumed' = consumed
  BY DEF RunHandler
<1>4. ASSUME effects' = [effects EXCEPT ![k] = @ + 1],
             Becomes(w, [worker[w] EXCEPT !.pc = "ran"])
      PROVE  Once'
  <2>1. [worker[w] EXCEPT !.pc = "ran"].pc = "ran"
    BY <1>1 DEF HandleJobs
  <2>2. \A v \in Workers : \A t \in Tasks : Runs(v, t)' => Runs(v, t) /\ v # w
    BY <2>1, <1>4, NotRunning
  <2>3. k \in consumed /\ effects[k] = 0 /\ \A v \in Workers : Runs(v, k) => v = w
    BY <1>2 DEF Once, TypeOK
  <2>4. effects \in [Tasks -> Nat]
    BY DEF TypeOK
  <2> HIDE DEF k
  <2>5. effects'[k] = 1 /\ \A t \in Tasks \ {k} : effects'[t] = effects[t]
    BY <1>2, <1>4, <2>3, <2>4
  <2> QED BY <1>2, <1>3, <2>2, <2>3, <2>5 DEF Once
<1>5. ASSUME effects' = effects,
             Becomes(w, [worker[w] EXCEPT !.pc = "failed"])
      PROVE  Once'
  <2>1. \A v \in Workers : \A t \in Tasks : Runs(v, t)' => Runs(v, t)
    BY <1>1, <1>5 DEF Becomes, Runs, TypeOK, HandleJobs
  <2> QED BY <1>3, <1>5, <2>1, OnceKept
<1> QED BY <1>4, <1>5 DEF RunHandler

\* RetryHandler: the row goes with the worker that held it.
LEMMA OnceRetry ==
    ASSUME TypeOK, Once, NEW w \in Workers, RetryHandler(w)
    PROVE  Once'
<1> DEFINE k == worker[w].task
<1>1. worker[w] \in HandleJobs /\ worker[w].pc = "failed"
  BY HandleJob DEF RetryHandler, At
<1>2. k \in Tasks /\ Runs(w, k)
  BY <1>1 DEF HandleJobs, Runs
<1>3. consumed' = consumed \ {k} /\ effects' = effects
  BY DEF RetryHandler, DeleteRow
<1>4. \A v \in Workers : \A t \in Tasks : Runs(v, t)' => Runs(v, t) /\ v # w
  BY NotRunning DEF RetryHandler, Idle
<1>5. effects[k] = 0 /\ \A v \in Workers : Runs(v, k) => v = w
  BY <1>2 DEF Once
<1> HIDE DEF k
<1> QED BY <1>2, <1>3, <1>4, <1>5 DEF Once

\* Every step of Next keeps it.
LEMMA OnceStep == TypeOK /\ Once /\ [Next]_vars => Once'
<1> SUFFICES ASSUME TypeOK, Once, [Next]_vars PROVE Once'
  OBVIOUS
<1> DEFINE NoneStarts == \A v \in Workers : \A t \in Tasks : Runs(v, t)' => Runs(v, t)
<1>1. ASSUME NEW e \in Events, Publish(e) \/ SweepSend(e) PROVE Once'
  BY <1>1, OnceKept DEF Publish, SweepSend, Runs
<1>2. CASE SweepSelect
  BY <1>2, OnceKept DEF SweepSelect, Runs
<1>3. ASSUME NEW w \in Workers, NEW e \in Events, TakeDispatch(w, e) PROVE Once'
  <2>1. NoneStarts
    BY <1>3, NotRunning DEF TakeDispatch
  <2> QED BY <1>3, <2>1, OnceKept DEF TakeDispatch
<1>4. ASSUME NEW w \in Workers, NEW t \in Tasks, TakeHandle(w, t) PROVE Once'
  <2>1. NoneStarts
    BY <1>4, NotRunning DEF TakeHandle
  <2> QED BY <1>4, <2>1, OnceKept DEF TakeHandle
<1>5. ASSUME NEW w \in Workers, ClaimEvent(w) PROVE Once'
  <2>1. worker[w] \in DispatchJobs
    BY <1>5, DispatchJob DEF ClaimEvent, At
  <2>2. [worker[w] EXCEPT !.pc = "fan"].pc = "fan"
    BY <2>1 DEF DispatchJobs
  <2>3. NoneStarts
    BY <1>5, <2>2, NotRunning DEF ClaimEvent, Idle
  <2> QED BY <1>5, <2>3, OnceKept DEF ClaimEvent
<1>6. ASSUME NEW w \in Workers, NEW h \in Handlers, QueueHandler(w, h) PROVE Once'
  <2>1. worker[w] \in DispatchJobs /\ worker[w].pc = "fan"
    BY <1>6, DispatchJob DEF QueueHandler, At
  <2>2. [worker[w] EXCEPT !.todo = @ \ {h}].pc = "fan"
    BY <2>1 DEF DispatchJobs
  <2>3. NoneStarts
    BY <1>6, <2>2, NotRunning DEF QueueHandler, Idle
  <2> QED BY <1>6, <2>3, OnceKept DEF QueueHandler
<1>7. ASSUME NEW w \in Workers, MarkProcessed(w) \/ Acknowledge(w) \/ Crash(w) PROVE Once'
  <2>1. NoneStarts
    BY <1>7, NotRunning DEF MarkProcessed, Acknowledge, Crash, Idle
  <2> QED BY <1>7, <2>1, OnceKept DEF MarkProcessed, Acknowledge, Crash
<1>8. CASE UNCHANGED vars
  BY <1>8, OnceKept DEF vars, Runs
<1> QED
  BY <1>1, <1>2, <1>3, <1>4, <1>5, <1>6, <1>7, <1>8, OnceClaim, OnceRun, OnceRetry
  DEF Next, Dispatch, Handle, Proceed

\* Redeliveries, sweeps and retries included, no handler does its work twice for
\* one event (the unique EventConsumption row of execute_handler).
THEOREM EffectsOnce == Spec => []EffectAtMostOnce
<1>1. Init => Once
  BY DEF Init, Once, Runs, Idle
<1>2. Once => EffectAtMostOnce
  BY DEF Once, EffectAtMostOnce
<1>3. Init => TypeOK
  BY OutboxAssumption DEF Init, TypeOK, Idle, Tasks
<1> QED BY <1>1, <1>2, <1>3, TypeStep, OnceStep, PTL DEF Spec

-----------------------------------------------------------------------------
(* A processed event has left no handler behind *)

Held(t) ==
    \/ t \in handleQ \/ t \in consumed \/ t \in gaveUp
    \/ \E w \in Workers : worker[w].pc = "start" /\ worker[w].task = t

\* A worker that dispatches has seen to the handlers it no longer has to do.
FanOK(w) ==
    /\ worker[w].pc = "taken" => worker[w].todo = Handlers
    /\ worker[w].pc = "fan" =>
         \A h \in Handlers \ worker[w].todo : Held(<<worker[w].event, h>>)

Fanned == \A w \in Workers : FanOK(w)

Processed == \A e \in Events : status[e] = "processed" => \A h \in Handlers : Held(<<e, h>>)

\* A task changes hands between queue, worker, consumption row and failure, and
\* is never dropped.
LEMMA HeldStays ==
    ASSUME TypeOK, [Next]_vars, NEW t \in Tasks, Held(t)
    PROVE  Held(t)'
<1>1. ASSUME NEW e \in Events, Publish(e) \/ SweepSend(e) PROVE Held(t)'
  BY <1>1 DEF Publish, SweepSend, Held
<1>2. CASE SweepSelect
  BY <1>2 DEF SweepSelect, Held
<1>3. ASSUME NEW w \in Workers, NEW e \in Events, TakeDispatch(w, e) PROVE Held(t)'
  BY <1>3 DEF TakeDispatch, At, Becomes, Held, TypeOK
<1>4. ASSUME NEW w \in Workers, NEW u \in Tasks, TakeHandle(w, u) PROVE Held(t)'
  BY <1>4 DEF TakeHandle, At, Becomes, Held, TypeOK
<1>5. ASSUME NEW w \in Workers, ClaimEvent(w) PROVE Held(t)'
  BY <1>5 DEF ClaimEvent, At, Becomes, Held, TypeOK
<1>6. ASSUME NEW w \in Workers, NEW h \in Handlers, QueueHandler(w, h) PROVE Held(t)'
  BY <1>6 DEF QueueHandler, At, Becomes, Held, TypeOK
<1>7. ASSUME NEW w \in Workers, MarkProcessed(w) PROVE Held(t)'
  BY <1>7 DEF MarkProcessed, At, Becomes, Held, TypeOK
<1>8. ASSUME NEW w \in Workers, ClaimTask(w) PROVE Held(t)'
  BY <1>8 DEF ClaimTask, At, Becomes, Held, TypeOK
<1>9. ASSUME NEW w \in Workers, RunHandler(w) PROVE Held(t)'
  BY <1>9 DEF RunHandler, At, Becomes, Held, TypeOK
<1>10. ASSUME NEW w \in Workers, Acknowledge(w) PROVE Held(t)'
  BY <1>10 DEF Acknowledge, At, Becomes, Held, TypeOK
<1>11. ASSUME NEW w \in Workers, RetryHandler(w) PROVE Held(t)'
  BY <1>11 DEF RetryHandler, DeleteRow, At, Becomes, Held, TypeOK
<1>12. ASSUME NEW w \in Workers, Crash(w) PROVE Held(t)'
  BY <1>12 DEF Crash, At, Becomes, Held, TypeOK
<1>13. CASE UNCHANGED vars
  BY <1>13 DEF vars, Held
<1> QED
  BY <1>1, <1>2, <1>3, <1>4, <1>5, <1>6, <1>7, <1>8, <1>9, <1>10, <1>11, <1>12,
     <1>13 DEF Next, Dispatch, Handle, Proceed

\* The worker that steps is the only one whose dispatch can change.
LEMMA FannedKept ==
    ASSUME TypeOK, Fanned, [Next]_vars, NEW w \in Workers,
           \A v \in Workers \ {w} : worker'[v] = worker[v],
           FanOK(w)'
    PROVE  Fanned'
<1> SUFFICES ASSUME NEW v \in Workers \ {w} PROVE FanOK(v)'
  BY DEF Fanned
<1>1. worker'[v] = worker[v] /\ FanOK(v)
  BY DEF Fanned
<1>2. CASE worker[v].pc = "fan"
  <2>1. PICK e \in Events : worker[v].event = e
    BY <1>2, DispatchJob DEF DispatchJobs
  <2>2. ASSUME NEW h \in Handlers \ worker[v].todo PROVE Held(<<e, h>>)'
    <3>1. <<e, h>> \in Tasks /\ Held(<<e, h>>)
      BY <1>1, <1>2, <2>1, <2>2 DEF FanOK, Tasks
    <3> QED BY <3>1, HeldStays
  <2>3. worker'[v].event = e /\ worker'[v].pc = "fan"
    BY <1>1, <1>2, <2>1
  <2>4. \A h \in Handlers \ worker'[v].todo : Held(<<e, h>>)'
    BY <1>1, <2>2
  <2> QED BY <2>3, <2>4 DEF FanOK
<1>3. CASE worker[v].pc # "fan"
  BY <1>1, <1>3 DEF FanOK
<1> QED BY <1>2, <1>3

\* A worker that is not dispatching, or only starts to, has nothing to account for.
LEMMA NotFanning ==
    ASSUME TypeOK, NEW w \in Workers, NEW job, Becomes(w, job),
           job.pc # "fan", job.pc = "taken" => job.todo = Handlers
    PROVE  FanOK(w)' /\ \A v \in Workers \ {w} : worker'[v] = worker[v]
  BY DEF TypeOK, Becomes, FanOK

\* Claiming an event starts with every handler to do; queueing one holds it.
LEMMA FannedStep == TypeOK /\ Fanned /\ [Next]_vars => Fanned'
<1> SUFFICES ASSUME TypeOK, Fanned, [Next]_vars PROVE Fanned'
  OBVIOUS
<1>1. ASSUME UNCHANGED worker PROVE Fanned'
  <2>1. CASE \E w \in Workers : TRUE
    <3>1. PICK w \in Workers : TRUE
      BY <2>1
    <3>2. CASE worker[w].pc = "fan"
      <4>1. PICK e \in Events : worker[w].event = e
        BY <3>2, DispatchJob DEF DispatchJobs
      <4>2. \A h \in Handlers \ worker[w].todo : <<e, h>> \in Tasks /\ Held(<<e, h>>)
        BY <3>1, <3>2, <4>1 DEF Fanned, FanOK, Tasks
      <4>3. \A h \in Handlers \ worker[w].todo : Held(<<e, h>>)'
        BY <4>2, HeldStays
      <4>4. FanOK(w)'
        BY <1>1, <3>2, <4>1, <4>3 DEF FanOK
      <4> QED BY <1>1, <4>4, FannedKept
    <3>3. CASE worker[w].pc # "fan"
      <4>1. FanOK(w)'
        BY <1>1, <3>3 DEF Fanned, FanOK
      <4> QED BY <1>1, <4>1, FannedKept
    <3> QED BY <3>2, <3>3
  <2>2. CASE ~\E w \in Workers : TRUE
    BY <2>2 DEF Fanned
  <2> QED BY <2>1, <2>2
<1>2. ASSUME NEW w \in Workers, NEW e \in Events, TakeDispatch(w, e) PROVE Fanned'
  BY <1>2, NotFanning, FannedKept DEF TakeDispatch
<1>3. ASSUME NEW w \in Workers, NEW t \in Tasks, TakeHandle(w, t) PROVE Fanned'
  BY <1>3, NotFanning, FannedKept DEF TakeHandle
<1>4. ASSUME NEW w \in Workers, ClaimEvent(w) PROVE Fanned'
  <2>1. worker[w] \in DispatchJobs /\ worker[w].todo = Handlers
    BY <1>4, DispatchJob DEF ClaimEvent, At, Fanned, FanOK
  <2>2. CASE Becomes(w, Idle)
    BY <2>2, NotFanning, FannedKept DEF Idle
  <2>3. CASE Becomes(w, [worker[w] EXCEPT !.pc = "fan"])
    <3>1. worker'[w].todo = Handlers /\ worker'[w].pc = "fan"
      BY <2>1, <2>3 DEF Becomes, TypeOK, DispatchJobs
    <3>2. FanOK(w)' /\ \A v \in Workers \ {w} : worker'[v] = worker[v]
      BY <2>3, <3>1 DEF FanOK, Becomes, TypeOK
    <3> QED BY <3>2, FannedKept
  <2> QED BY <1>4, <2>2, <2>3 DEF ClaimEvent
<1>5. ASSUME NEW w \in Workers, NEW h \in Handlers, QueueHandler(w, h) PROVE Fanned'
  <2>1. worker[w] \in DispatchJobs /\ worker[w].pc = "fan"
    BY <1>5, DispatchJob DEF QueueHandler, At
  <2>2. CASE Becomes(w, Idle)
    BY <2>2, NotFanning, FannedKept DEF Idle
  <2>3. CASE /\ handleQ' = handleQ \union {<<worker[w].event, h>>}
             /\ Becomes(w, [worker[w] EXCEPT !.todo = @ \ {h}])
    <3>1. PICK e \in Events : worker[w].event = e
      BY <2>1 DEF DispatchJobs
    <3>2. /\ worker'[w].event = e /\ worker'[w].pc = "fan"
          /\ worker'[w].todo = worker[w].todo \ {h}
      BY <2>1, <2>3, <3>1 DEF Becomes, TypeOK, DispatchJobs
    <3>3. ASSUME NEW g \in Handlers \ worker'[w].todo PROVE Held(<<e, g>>)'
      <4>1. CASE g = h
        BY <2>3, <3>1, <4>1 DEF Held
      <4>2. CASE g # h
        <5>1. <<e, g>> \in Tasks /\ Held(<<e, g>>)
          BY <2>1, <3>1, <3>2, <3>3, <4>2 DEF Fanned, FanOK, Tasks
        <5> QED BY <5>1, HeldStays
      <4> QED BY <4>1, <4>2
    <3>4. FanOK(w)'
      BY <3>2, <3>3 DEF FanOK
    <3>5. \A v \in Workers \ {w} : worker'[v] = worker[v]
      BY <2>3 DEF Becomes, TypeOK
    <3> QED BY <3>4, <3>5, FannedKept
  <2> QED BY <1>5, <2>2, <2>3 DEF QueueHandler
<1>6. ASSUME NEW w \in Workers,
             MarkProcessed(w) \/ Acknowledge(w) \/ RetryHandler(w) \/ Crash(w)
      PROVE  Fanned'
  BY <1>6, NotFanning, FannedKept DEF MarkProcessed, Acknowledge, RetryHandler, Crash, Idle
<1>7. ASSUME NEW w \in Workers, ClaimTask(w) PROVE Fanned'
  <2>1. worker[w] \in HandleJobs
    BY <1>7, HandleJob DEF ClaimTask, At
  <2>2. [worker[w] EXCEPT !.pc = "run"].pc = "run"
    BY <2>1 DEF HandleJobs
  <2> QED BY <1>7, <2>2, NotFanning, FannedKept DEF ClaimTask, Idle
<1>8. ASSUME NEW w \in Workers, RunHandler(w) PROVE Fanned'
  <2>1. worker[w] \in HandleJobs
    BY <1>8, HandleJob DEF RunHandler, At
  <2>2. /\ [worker[w] EXCEPT !.pc = "ran"].pc = "ran"
        /\ [worker[w] EXCEPT !.pc = "failed"].pc = "failed"
    BY <2>1 DEF HandleJobs
  <2> QED BY <1>8, <2>2, NotFanning, FannedKept DEF RunHandler
<1>9. ASSUME NEW e \in Events, Publish(e) \/ SweepSend(e) PROVE Fanned'
  BY <1>1, <1>9 DEF Publish, SweepSend
<1>10. CASE SweepSelect \/ UNCHANGED vars
  BY <1>1, <1>10 DEF SweepSelect, vars
<1> QED
  BY <1>2, <1>3, <1>4, <1>5, <1>6, <1>7, <1>8, <1>9, <1>10
  DEF Next, Dispatch, Handle, Proceed

\* Only MarkProcessed closes an event, and its worker has no handler left to do.
LEMMA ProcessedStep == TypeOK /\ Fanned /\ Processed /\ [Next]_vars => Processed'
<1> SUFFICES ASSUME TypeOK, Fanned, Processed, [Next]_vars,
                    NEW e \in Events, status'[e] = "processed", NEW h \in Handlers
             PROVE  Held(<<e, h>>)'
  BY DEF Processed
<1>1. <<e, h>> \in Tasks
  BY DEF Tasks
<1>2. status[e] = "processed" \/ \E w \in Workers : MarkProcessed(w) /\ worker[w].event = e
  BY DEF Next, vars, Proceed, Dispatch, Handle, Publish, SweepSend, SweepSelect,
     TakeDispatch, TakeHandle, ClaimEvent, QueueHandler, MarkProcessed, ClaimTask,
     RunHandler, Acknowledge, RetryHandler, Crash, TypeOK
<1>3. Held(<<e, h>>)
  BY <1>2 DEF Processed, MarkProcessed, At, Fanned, FanOK
<1> QED BY <1>1, <1>3, HeldStays

\* An event marked processed has left no handler behind, whatever crashed on the
\* way (dispatch_event_to_handlers marks the event after its last message).
THEOREM NoneForgotten == Spec => []NoTaskForgotten
<1>1. Init => TypeOK /\ Fanned /\ Processed
  BY OutboxAssumption DEF Init, TypeOK, Idle, Tasks, Fanned, FanOK, Processed
<1>2. Processed => NoTaskForgotten
  BY DEF Processed, Held, NoTaskForgotten, Working
<1> QED BY <1>1, <1>2, TypeStep, FannedStep, ProcessedStep, PTL DEF Spec

-----------------------------------------------------------------------------
(* The billing cycle beside the gateway's webhooks *)

LEMMA BillingSteps == BackgroundSpec => Billing!Init /\ [][Billing!Next]_billingVars
<1>1. BackgroundInit => Billing!Init
    BY DEF BackgroundInit
<1>2. [BackgroundNext]_<<part, outboxVars, billingVars, signupVars>> => [Billing!Next]_billingVars
    BY DEF BackgroundNext, billingVars
<1>3. BackgroundSpec => BackgroundInit /\ [][BackgroundNext]_<<part, outboxVars, billingVars, signupVars>>
    BY PTL DEF BackgroundSpec
<1>4. QED
    BY <1>1, <1>2, <1>3, PTL

LEMMA BillingNumbers ==
    /\ Period \in Nat \ {0} /\ Prices \subseteq Nat /\ Trials \subseteq Nat /\ Grace \in Nat
    /\ OrderOf \in [BillingEvents -> GatewayOrders]
<1>1. Billing!SubscriptionsAssumption
    BY BillingAssumption, Zenon DEF BillingAssumption
<1>2. QED
    BY <1>1, Zenon DEF Billing!SubscriptionsAssumption

SubStatuses == {"trialing", "active", "past_due", "canceled", "expired"}

IsSub(x) ==
    /\ x = [status |-> x.status, price |-> x.price, start |-> x.start, end |-> x.end,
            trialEnd |-> x.trialEnd, grace |-> x.grace, autoRenew |-> x.autoRenew]
    /\ x.status \in SubStatuses /\ x.price \in Nat
    /\ x.start \in Int /\ x.end \in Int /\ x.trialEnd \in Int

InvoiceRows == [tenant : Tenants, start : Int, end : Int, total : Int, status : {"open", "paid"}]

SubsTyped ==
    /\ now \in Int
    /\ DOMAIN sub = Tenants
    /\ \A t \in Tenants : sub[t].status = "none" \/ IsSub(sub[t])

\* A run of the task, with subscriptions that it listed.
IsRun(x) ==
    /\ x = [pc |-> x.pc, now |-> x.now, lastSeen |-> x.lastSeen, batch |-> x.batch, full |-> x.full]
    /\ x.batch \subseteq Tenants

RunsTyped == DOMAIN cycle = Cycles /\ \A c \in Cycles : IsRun(cycle[c])

\* Who has an invoice has begun, and is in its last period or a later one.
Begun ==
    \A i \in DOMAIN invoices :
        /\ invoices[i].end = invoices[i].start + Period
        /\ IsSub(sub[invoices[i].tenant]) /\ sub[invoices[i].tenant].status # "trialing"
        /\ invoices[i].start <= sub[invoices[i].tenant].start

\* No period of a tenant begins after one that is still to be paid.
OpenIsLast ==
    \A i, j \in DOMAIN invoices :
        invoices[i].tenant = invoices[j].tenant /\ invoices[i].status = "open"
            => invoices[j].start <= invoices[i].start

\* Orders of the gateway lead to different invoices, and a paid one has the payment
\* that the gateway knows its order by.
Linked ==
    /\ DOMAIN invoiceOf = GatewayOrders
    /\ \A o \in GatewayOrders : invoiceOf[o] = 0 \/ invoiceOf[o] \in DOMAIN invoices
    /\ \A o, p \in GatewayOrders : invoiceOf[o] = invoiceOf[p] /\ invoiceOf[o] # 0 => o = p
    /\ \A e \in BillingEvents : hook[e] # "idle" => invoiceOf[OrderOf[e]] # 0
    /\ DOMAIN hook = BillingEvents

PaidByEvent ==
    \A i \in DOMAIN invoices : invoices[i].status = "paid" =>
        \E e \in BillingEvents, p \in payments :
            p.payment = PaymentOf[e] /\ invoiceOf[OrderOf[e]] = i

BillingInv ==
    /\ SubsTyped /\ invoices \in Seq(InvoiceRows) /\ RunsTyped
    /\ Begun /\ OpenIsLast /\ Linked /\ PaidByEvent
    /\ Billing!InvoicedOnce /\ Billing!StatusMatchesInvoice

LEMMA BillingInit == Billing!Init => BillingInv
<1> SUFFICES ASSUME Billing!Init PROVE BillingInv
    OBVIOUS
<1>1. invoices = <<>> /\ now = 0 /\ payments = {}
    BY DEF Billing!Init
<1>2. DOMAIN invoices = {}
    BY <1>1
<1>3. invoices \in Seq(InvoiceRows)
    BY <1>1
<1>4. DOMAIN sub = Tenants /\ \A t \in Tenants : sub[t].status = "none"
    BY DEF Billing!Init, Billing!NoSubscription
<1>5. PICK run : run = Billing!IdleRun
    OBVIOUS
<1>6. IsRun(run)
    BY <1>5 DEF Billing!IdleRun, IsRun
<1>7. RunsTyped
    BY <1>5, <1>6 DEF Billing!Init, RunsTyped
<1>8. Linked
    BY BillingNumbers DEF Billing!Init, Linked
<1>9. SubsTyped /\ Billing!StatusMatchesInvoice
    BY <1>1, <1>4 DEF SubsTyped, Billing!StatusMatchesInvoice
<1>10. QED
    BY <1>2, <1>3, <1>7, <1>8, <1>9 DEF BillingInv, Begun, OpenIsLast, PaidByEvent, Billing!InvoicedOnce

\* One row of the subscriptions is written.
Rewritten(t, new) ==
    /\ DOMAIN sub' = Tenants /\ sub'[t] = new
    /\ \A u \in Tenants \ {t} : sub'[u] = sub[u]

\* A row with some columns written is a row with those columns.
LEMMA RenewalRow ==
    ASSUME BillingInv, NEW t \in Tenants, IsSub(sub[t]), NEW start \in Int,
           Billing!OpenRenewal(t, start)
    PROVE  \E new : /\ IsSub(new) /\ new.status = "past_due" /\ new.start = start
                    /\ new.end = start + Period /\ Rewritten(t, new)
<1>1. PICK row : row = sub[t]
    OBVIOUS
<1>2. PICK new : new = [status |-> "past_due", price |-> row.price, start |-> start,
                        end |-> start + Period, trialEnd |-> row.trialEnd,
                        grace |-> start + Grace, autoRenew |-> row.autoRenew]
    OBVIOUS
<1>3. IsSub(new) /\ new.status = "past_due" /\ new.start = start /\ new.end = start + Period
    BY <1>1, <1>2, BillingNumbers DEF IsSub, SubStatuses
<1>4. sub' = [sub EXCEPT ![t].status = "past_due", ![t].start = start,
                         ![t].end = start + Period, ![t].grace = start + Grace]
    BY DEF Billing!OpenRenewal
<1>5. Rewritten(t, new)
    BY <1>1, <1>2, <1>4 DEF BillingInv, SubsTyped, IsSub, Rewritten
<1>6. QED
    BY <1>3, <1>5

LEMMA ExpiredRow ==
    ASSUME BillingInv, NEW t \in Tenants, IsSub(sub[t]), Billing!Expire(t)
    PROVE  \E new : /\ IsSub(new) /\ new.status = "expired" /\ new.start = sub[t].start
                    /\ Rewritten(t, new)
<1>1. PICK row : row = sub[t]
    OBVIOUS
<1>2. PICK new : new = [status |-> "expired", price |-> row.price, start |-> row.start,
                        end |-> row.end, trialEnd |-> row.trialEnd,
                        grace |-> row.grace, autoRenew |-> row.autoRenew]
    OBVIOUS
<1>3. IsSub(new) /\ new.status = "expired" /\ new.start = sub[t].start
    BY <1>1, <1>2 DEF IsSub, SubStatuses
<1>4. sub' = [sub EXCEPT ![t].status = "expired"]
    BY DEF Billing!Expire
<1>5. Rewritten(t, new)
    BY <1>1, <1>2, <1>4 DEF BillingInv, SubsTyped, IsSub, Rewritten
<1>6. QED
    BY <1>3, <1>5

LEMMA CancelledRow ==
    ASSUME BillingInv, NEW t \in Tenants, IsSub(sub[t]), Billing!Cancel(t)
    PROVE  \E new : /\ IsSub(new) /\ new.status \in {"canceled", "expired"}
                    /\ new.start = sub[t].start /\ Rewritten(t, new)
<1>1. PICK row : row = sub[t]
    OBVIOUS
<1>2. PICK no \in BOOLEAN, s \in {"canceled", "expired"} :
        sub' = [sub EXCEPT ![t].autoRenew = no, ![t].status = s]
    BY DEF Billing!Cancel
<1>3. PICK new : new = [status |-> s, price |-> row.price, start |-> row.start,
                        end |-> row.end, trialEnd |-> row.trialEnd,
                        grace |-> row.grace, autoRenew |-> no]
    OBVIOUS
<1>4. IsSub(new) /\ new.status = s /\ new.start = sub[t].start
    BY <1>1, <1>3 DEF IsSub, SubStatuses
<1>5. Rewritten(t, new)
    BY <1>1, <1>2, <1>3 DEF BillingInv, SubsTyped, IsSub, Rewritten
<1>6. QED
    BY <1>4, <1>5

LEMMA ActivatedRow ==
    ASSUME BillingInv, NEW i \in DOMAIN invoices, NEW t \in Tenants, t = invoices[i].tenant,
           IsSub(sub[t]), Billing!Activate(t, i)
    PROVE  \E new : /\ IsSub(new) /\ new.status = "active" /\ new.start = invoices[i].start
                    /\ new.end = invoices[i].end /\ Rewritten(t, new)
<1>1. PICK row : row = sub[t]
    OBVIOUS
<1>2. PICK new : new = [status |-> "active", price |-> row.price, start |-> invoices[i].start,
                        end |-> invoices[i].end, trialEnd |-> row.trialEnd,
                        grace |-> Billing!NoGrace, autoRenew |-> row.autoRenew]
    OBVIOUS
<1>3. invoices[i] \in InvoiceRows
    BY DEF BillingInv
<1>4. /\ IsSub(new) /\ new.status = "active" /\ new.start = invoices[i].start
      /\ new.end = invoices[i].end
    BY <1>1, <1>2, <1>3 DEF IsSub, SubStatuses, InvoiceRows
<1>5. sub' = [sub EXCEPT ![t].start = invoices[i].start, ![t].end = invoices[i].end,
                         ![t].status = "active", ![t].grace = Billing!NoGrace]
    BY DEF Billing!Activate
<1>6. Rewritten(t, new)
    BY <1>1, <1>2, <1>5 DEF BillingInv, SubsTyped, IsSub, Rewritten
<1>7. QED
    BY <1>4, <1>6

\* A row is written that keeps its period, or had none, and is neither active nor due.
LEMMA StatusWritten ==
    ASSUME BillingInv, NEW t \in Tenants, NEW new, Rewritten(t, new), IsSub(new),
           new.status \notin {"active", "past_due"},
           sub[t].status # "none" => sub[t].start = new.start /\ new.status # "trialing",
           UNCHANGED <<now, invoices, payments, invoiceOf, hook>>, RunsTyped'
    PROVE  BillingInv'
<1>1. SubsTyped'
    BY DEF BillingInv, SubsTyped, Rewritten
<1>2. ASSUME NEW i \in DOMAIN invoices
      PROVE  /\ IsSub(sub'[invoices[i].tenant]) /\ sub'[invoices[i].tenant].status # "trialing"
             /\ invoices[i].start <= sub'[invoices[i].tenant].start
    <2>1. /\ IsSub(sub[invoices[i].tenant]) /\ sub[invoices[i].tenant].status # "trialing"
          /\ invoices[i].start <= sub[invoices[i].tenant].start
        BY DEF BillingInv, Begun
    <2>2. invoices[i].tenant \in Tenants
        <3>1. invoices[i] \in InvoiceRows
            BY DEF BillingInv
        <3>2. QED
            BY <3>1 DEF InvoiceRows
    <2>3. CASE invoices[i].tenant = t
        BY <2>1, <2>3 DEF Rewritten, IsSub, SubStatuses
    <2>4. CASE invoices[i].tenant # t
        BY <2>1, <2>2, <2>4 DEF Rewritten
    <2>5. QED
        BY <2>3, <2>4
<1>3. Begun'
    BY <1>2 DEF BillingInv, Begun
<1>4. OpenIsLast' /\ Linked' /\ PaidByEvent' /\ Billing!InvoicedOnce'
    BY DEF BillingInv, OpenIsLast, Linked, PaidByEvent, Billing!InvoicedOnce
<1>5. Billing!StatusMatchesInvoice'
    BY DEF BillingInv, Rewritten, Billing!StatusMatchesInvoice
<1>6. QED
    BY <1>1, <1>3, <1>4, <1>5 DEF BillingInv

\* A period begins, after all the others, which are paid.
LEMMA PeriodBegun ==
    ASSUME BillingInv, NEW t \in Tenants, NEW start \in Int, NEW total \in Int,
           NEW new, Rewritten(t, new), IsSub(new),
           new.status = "past_due", new.start = start, new.end = start + Period,
           \A i \in DOMAIN invoices : invoices[i].tenant = t =>
               invoices[i].status = "paid" /\ invoices[i].start < start,
           invoices' = Billing!OpenInvoice(t, start, total),
           UNCHANGED <<now, payments, invoiceOf, hook>>, RunsTyped'
    PROVE  BillingInv'
<1>1. PICK x : x = [tenant |-> t, start |-> start, end |-> start + Period, total |-> total, status |-> "open"]
    OBVIOUS
<1>2. x \in InvoiceRows
    BY <1>1, BillingNumbers DEF InvoiceRows
<1>3. PICK n \in Nat : n = Len(invoices) /\ DOMAIN invoices = 1..n
    BY DEF BillingInv
<1>4. invoices' = Append(invoices, x)
    BY <1>1 DEF Billing!OpenInvoice
<1>5. /\ invoices' \in Seq(InvoiceRows) /\ DOMAIN invoices' = 1..(n + 1)
      /\ \A i \in 1..n : invoices'[i] = invoices[i]
      /\ invoices'[n + 1] = x
    <2>1. /\ Append(invoices, x) \in Seq(InvoiceRows)
          /\ Len(Append(invoices, x)) = Len(invoices) + 1
          /\ \A i \in 1..Len(invoices) : Append(invoices, x)[i] = invoices[i]
          /\ Append(invoices, x)[Len(invoices) + 1] = x
        BY <1>2, AppendProperties DEF BillingInv
    <2>2. QED
        BY <1>3, <1>4, <2>1
<1>6. \A i \in 1..n : invoices[i] \in InvoiceRows
    BY <1>3 DEF BillingInv
<1>7. SubsTyped'
    BY DEF BillingInv, SubsTyped, Rewritten
<1>8. ASSUME NEW i \in 1..n
      PROVE  /\ invoices[i].end = invoices[i].start + Period
             /\ IsSub(sub'[invoices[i].tenant]) /\ sub'[invoices[i].tenant].status # "trialing"
             /\ invoices[i].start <= sub'[invoices[i].tenant].start
    <2>1. /\ invoices[i].end = invoices[i].start + Period
          /\ IsSub(sub[invoices[i].tenant]) /\ sub[invoices[i].tenant].status # "trialing"
          /\ invoices[i].start <= sub[invoices[i].tenant].start
        BY <1>3 DEF BillingInv, Begun
    <2>2. invoices[i].tenant \in Tenants /\ invoices[i].start \in Int
        BY <1>6 DEF InvoiceRows
    <2>3. CASE invoices[i].tenant = t
        BY <1>3, <2>1, <2>2, <2>3 DEF Rewritten
    <2>4. CASE invoices[i].tenant # t
        BY <2>1, <2>2, <2>4 DEF Rewritten
    <2>5. QED
        BY <2>3, <2>4
<1>9. Begun'
    <2>1. ASSUME NEW i \in DOMAIN invoices'
          PROVE  /\ invoices'[i].end = invoices'[i].start + Period
                 /\ IsSub(sub'[invoices'[i].tenant]) /\ sub'[invoices'[i].tenant].status # "trialing"
                 /\ invoices'[i].start <= sub'[invoices'[i].tenant].start
        <3>1. CASE i \in 1..n
            BY <1>5, <1>8, <3>1
        <3>2. CASE i = n + 1
            BY <1>1, <1>5, <3>2 DEF Rewritten
        <3>3. QED
            BY <1>5, <3>1, <3>2
    <2>2. QED
        BY <2>1 DEF Begun
<1>10. OpenIsLast'
    <2>1. ASSUME NEW i \in DOMAIN invoices', NEW j \in DOMAIN invoices',
                 invoices'[i].tenant = invoices'[j].tenant, invoices'[i].status = "open"
          PROVE  invoices'[j].start <= invoices'[i].start
        <3>1. CASE i = n + 1 /\ j = n + 1
            BY <1>1, <1>5, <3>1
        <3>2. CASE i = n + 1 /\ j \in 1..n
            BY <1>1, <1>3, <1>5, <1>6, <2>1, <3>2 DEF InvoiceRows
        <3>3. CASE i \in 1..n /\ j = n + 1
            BY <1>1, <1>3, <1>5, <2>1, <3>3
        <3>4. CASE i \in 1..n /\ j \in 1..n
            BY <1>3, <1>5, <2>1, <3>4 DEF BillingInv, OpenIsLast
        <3>5. QED
            BY <1>5, <3>1, <3>2, <3>3, <3>4
    <2>2. QED
        BY <2>1 DEF OpenIsLast
<1>11. Linked'
    <2>1. \A i \in DOMAIN invoices : i \in DOMAIN invoices'
        BY <1>3, <1>5
    <2>2. QED
        BY <2>1 DEF BillingInv, Linked
<1>12. PaidByEvent'
    BY <1>1, <1>3, <1>5 DEF BillingInv, PaidByEvent
<1>13. Billing!InvoicedOnce'
    <2>1. ASSUME NEW i \in DOMAIN invoices', NEW j \in DOMAIN invoices',
                 invoices'[i].tenant = invoices'[j].tenant, invoices'[i].start = invoices'[j].start
          PROVE  i = j
        <3>1. CASE i = n + 1 /\ j \in 1..n
            BY <1>1, <1>3, <1>5, <2>1, <3>1
        <3>2. CASE i \in 1..n /\ j = n + 1
            BY <1>1, <1>3, <1>5, <2>1, <3>2
        <3>3. CASE i \in 1..n /\ j \in 1..n
            BY <1>3, <1>5, <2>1, <3>3 DEF BillingInv, Billing!InvoicedOnce
        <3>4. QED
            BY <1>5, <3>1, <3>2, <3>3
    <2>2. QED
        BY <2>1 DEF Billing!InvoicedOnce
<1>14. Billing!StatusMatchesInvoice'
    <2>1. ASSUME NEW u \in Tenants, sub'[u].status \in {"active", "past_due"}
          PROVE  \E i \in DOMAIN invoices' :
                    /\ invoices'[i].tenant = u
                    /\ invoices'[i].start = sub'[u].start /\ invoices'[i].end = sub'[u].end
                    /\ invoices'[i].status = IF sub'[u].status = "active" THEN "paid" ELSE "open"
        <3>1. CASE u = t
            <4>1. n + 1 \in DOMAIN invoices'
                BY <1>5
            <4>2. QED
                BY <1>1, <1>5, <3>1, <4>1 DEF Rewritten
        <3>2. CASE u # t
            <4>1. sub'[u] = sub[u]
                BY <3>2 DEF Rewritten
            <4>2. PICK i \in DOMAIN invoices :
                    /\ invoices[i].tenant = u
                    /\ invoices[i].start = sub[u].start /\ invoices[i].end = sub[u].end
                    /\ invoices[i].status = IF sub[u].status = "active" THEN "paid" ELSE "open"
                BY <2>1, <4>1 DEF BillingInv, Billing!StatusMatchesInvoice
            <4>3. i \in DOMAIN invoices' /\ invoices'[i] = invoices[i]
                BY <1>3, <1>5
            <4>4. QED
                BY <4>1, <4>2, <4>3
        <3>3. QED
            BY <3>1, <3>2
    <2>2. QED
        BY <2>1 DEF Billing!StatusMatchesInvoice
<1>15. QED
    BY <1>5, <1>7, <1>9, <1>10, <1>11, <1>12, <1>13, <1>14 DEF BillingInv

\* Whose trial or paid period is over owes nothing, and no invoice of his is as late.
LEMMA OverIsPaid ==
    ASSUME BillingInv, NEW t \in Tenants, sub[t].status = "active"
    PROVE  \A i \in DOMAIN invoices : invoices[i].tenant = t =>
               invoices[i].status = "paid" /\ invoices[i].start < sub[t].end
<1>1. PICK k \in DOMAIN invoices :
        /\ invoices[k].tenant = t
        /\ invoices[k].start = sub[t].start /\ invoices[k].end = sub[t].end
        /\ invoices[k].status = "paid"
    BY DEF BillingInv, Billing!StatusMatchesInvoice
<1>2. invoices[k].end = invoices[k].start + Period /\ invoices[k].start \in Int
    <2>1. invoices[k] \in InvoiceRows
        BY DEF BillingInv
    <2>2. QED
        BY <2>1 DEF BillingInv, Begun, InvoiceRows
<1>3. ASSUME NEW i \in DOMAIN invoices, invoices[i].tenant = t
      PROVE  invoices[i].status = "paid" /\ invoices[i].start < sub[t].end
    <2>1. invoices[i] \in InvoiceRows /\ invoices[i].start <= sub[t].start
        BY <1>3 DEF BillingInv, Begun
    <2>2. invoices[i].start < sub[t].end
        BY <1>1, <1>2, <2>1, BillingNumbers DEF InvoiceRows
    <2>3. CASE invoices[i].status = "open"
        <3>1. invoices[k].start <= invoices[i].start
            BY <1>1, <1>3, <2>3 DEF BillingInv, OpenIsLast
        <3>2. invoices[k].start = invoices[i].start
            BY <1>1, <1>2, <2>1, <3>1 DEF InvoiceRows
        <3>3. i = k
            BY <1>1, <1>3, <3>2 DEF BillingInv, Billing!InvoicedOnce
        <3>4. QED
            BY <1>1, <2>3, <3>3
    <2>4. QED
        BY <2>1, <2>2, <2>3 DEF InvoiceRows
<1>4. QED
    BY <1>3

LEMMA TrialHasNone ==
    ASSUME BillingInv, NEW t \in Tenants, sub[t].status \in {"none", "trialing"}
    PROVE  \A i \in DOMAIN invoices : invoices[i].tenant # t
BY DEF BillingInv, Begun, IsSub, SubStatuses

\* An event settles an invoice that is still open.
LEMMA SettlesOpen ==
    ASSUME BillingInv, NEW e \in BillingEvents, NEW i \in DOMAIN invoices,
           i = invoiceOf[OrderOf[e]], Billing!PaymentAccepted(e)
    PROVE  invoices[i].status = "open"
<1>1. OrderOf[e] \in GatewayOrders /\ PaymentOf[e] # Billing!NoPayment
    BY BillingNumbers, BillingAssumption, Zenon DEF BillingAssumption
<1>2. \A p \in payments : p.payment # PaymentOf[e]
    BY <1>1 DEF Billing!PaymentAccepted
<1>3. invoices[i] \in InvoiceRows /\ i # 0
    BY DEF BillingInv
<1>4. SUFFICES ASSUME invoices[i].status = "paid" PROVE FALSE
    BY <1>3 DEF InvoiceRows
<1>5. PICK f \in BillingEvents, p \in payments : p.payment = PaymentOf[f] /\ invoiceOf[OrderOf[f]] = i
    BY <1>4 DEF BillingInv, PaidByEvent
<1>6. OrderOf[f] = OrderOf[e]
    BY <1>1, <1>3, <1>5, BillingNumbers DEF BillingInv, Linked
<1>7. PaymentOf[f] = PaymentOf[e]
    BY <1>6, BillingAssumption, Zenon DEF BillingAssumption
<1>8. QED
    BY <1>2, <1>5, <1>7

\* A run of the task goes on with subscriptions that it lists.
LEMMA RunWritten ==
    ASSUME RunsTyped, NEW c \in Cycles, NEW new, IsRun(new), cycle' = [cycle EXCEPT ![c] = new]
    PROVE  RunsTyped'
BY DEF RunsTyped

LEMMA IdleIsRun == IsRun(Billing!IdleRun)
<1>1. PICK run : run = Billing!IdleRun
    OBVIOUS
<1>2. IsRun(run)
    BY <1>1 DEF Billing!IdleRun, IsRun
<1>3. QED
    BY <1>1, <1>2

LEMMA BatchIsRun ==
    ASSUME NEW run, IsRun(run), NEW batch \in SUBSET Tenants
    PROVE  IsRun(Billing!WithBatch(run, batch))
<1>1. CASE batch = {}
    BY <1>1, IdleIsRun DEF Billing!WithBatch
<1>2. CASE batch # {}
    <2>1. PICK b : b = (Billing!Cardinality(batch) = BatchSize)
        OBVIOUS
    <2>2. PICK y : y = [run EXCEPT !.pc = "process", !.batch = batch, !.full = b]
        OBVIOUS
    <2>3. y = [pc |-> "process", now |-> run.now, lastSeen |-> run.lastSeen, batch |-> batch, full |-> b]
        BY <2>2 DEF IsRun
    <2>4. IsRun(y)
        BY <2>3 DEF IsRun
    <2>5. Billing!WithBatch(run, batch) = y
        BY <1>2, <2>1, <2>2, Zenon DEF Billing!WithBatch
    <2>6. QED
        BY <2>4, <2>5
<1>3. QED
    BY <1>1, <1>2

\* A run once it is through with a tenant.
Through(run, t) ==
    IF run.batch \ {t} # {} \/ run.full
    THEN [run EXCEPT !.batch = run.batch \ {t}, !.lastSeen = t,
                     !.pc = IF run.batch \ {t} = {} THEN "list" ELSE "process"]
    ELSE Billing!IdleRun

LEMMA ThroughIsRun ==
    ASSUME NEW run, IsRun(run), NEW t
    PROVE  IsRun(Through(run, t))
<1>1. PICK y : y = [run EXCEPT !.batch = run.batch \ {t}, !.lastSeen = t,
                               !.pc = IF run.batch \ {t} = {} THEN "list" ELSE "process"]
    OBVIOUS
<1>2. PICK at : at = IF run.batch \ {t} = {} THEN "list" ELSE "process"
    OBVIOUS
<1>3. y = [pc |-> at, now |-> run.now, lastSeen |-> t, batch |-> run.batch \ {t}, full |-> run.full]
    BY <1>1, <1>2 DEF IsRun
<1>4. IsRun(y)
    BY <1>3 DEF IsRun
<1>5. Through(run, t) = y \/ Through(run, t) = Billing!IdleRun
    BY <1>1, Zenon DEF Through
<1>6. QED
    BY <1>4, <1>5, IdleIsRun

LEMMA ListedAreTenants == ASSUME NEW last PROVE Billing!Listed(last) \in SUBSET Tenants
BY DEF Billing!Listed

LEMMA BillingNext == BillingInv /\ [Billing!Next]_billingVars => BillingInv'
<1> SUFFICES ASSUME BillingInv, [Billing!Next]_billingVars PROVE BillingInv'
    OBVIOUS
<1>t. /\ SubsTyped /\ invoices \in Seq(InvoiceRows) /\ RunsTyped
      /\ \A i \in DOMAIN invoices : invoices[i] \in InvoiceRows
    BY DEF BillingInv
<1>0. ASSUME UNCHANGED <<now, sub, invoices, payments, invoiceOf, hook>>, RunsTyped' PROVE BillingInv'
    BY <1>0 DEF BillingInv, SubsTyped, Begun, OpenIsLast, Linked, PaidByEvent, Billing!InvoicedOnce,
       Billing!StatusMatchesInvoice
<1>u. UNCHANGED cycle => RunsTyped'
    BY <1>t DEF RunsTyped
<1>1. CASE UNCHANGED billingVars
    BY <1>1, <1>0, <1>u DEF billingVars
<1>2. ASSUME NEW t \in Tenants, Billing!CreateSubscription(t) PROVE BillingInv'
    <2>1. /\ sub[t].status = "none" /\ UNCHANGED <<now, payments, invoiceOf, hook>> /\ RunsTyped'
          /\ now \in Int
        BY <1>2, <1>t, <1>u DEF Billing!CreateSubscription, Billing!NoSubscription, SubsTyped
    <2>2. PICK length \in Trials, price \in Prices :
            IF length > 0
            THEN /\ sub' = [sub EXCEPT ![t] = [status |-> "trialing", price |-> price, start |-> now,
                                               end |-> now + length, trialEnd |-> now + length,
                                               grace |-> now + length + Grace, autoRenew |-> TRUE]]
                 /\ UNCHANGED invoices
            ELSE /\ sub' = [sub EXCEPT ![t] = [status |-> "past_due", price |-> price, start |-> now,
                                               end |-> now + Period, trialEnd |-> now + length,
                                               grace |-> now + Grace, autoRenew |-> TRUE]]
                 /\ invoices' = Billing!OpenInvoice(t, now, price)
        BY <1>2, Zenon DEF Billing!CreateSubscription
    <2>3. length \in Nat /\ price \in Nat /\ Period \in Nat
        BY BillingNumbers
    <2>4. PICK yes : yes = TRUE
        OBVIOUS
    <2>5. CASE length > 0
        <3>1. PICK new : new = [status |-> "trialing", price |-> price, start |-> now,
                                end |-> now + length, trialEnd |-> now + length,
                                grace |-> now + length + Grace, autoRenew |-> yes]
            OBVIOUS
        <3>2. sub' = [sub EXCEPT ![t] = new] /\ UNCHANGED invoices
            BY <2>2, <2>4, <2>5, <3>1
        <3>3. IsSub(new) /\ new.status = "trialing"
            BY <2>1, <2>3, <3>1 DEF IsSub, SubStatuses
        <3>4. Rewritten(t, new)
            BY <1>t, <3>2 DEF SubsTyped, Rewritten
        <3>5. QED
            BY <2>1, <3>2, <3>3, <3>4, StatusWritten
    <2>6. CASE ~(length > 0)
        <3>1. PICK new : new = [status |-> "past_due", price |-> price, start |-> now,
                                end |-> now + Period, trialEnd |-> now + length,
                                grace |-> now + Grace, autoRenew |-> yes]
            OBVIOUS
        <3>2. sub' = [sub EXCEPT ![t] = new] /\ invoices' = Billing!OpenInvoice(t, now, price)
            BY <2>2, <2>4, <2>6, <3>1
        <3>3. IsSub(new) /\ new.status = "past_due" /\ new.start = now /\ new.end = now + Period
            BY <2>1, <2>3, <3>1 DEF IsSub, SubStatuses
        <3>4. Rewritten(t, new)
            BY <1>t, <3>2 DEF SubsTyped, Rewritten
        <3>5. \A i \in DOMAIN invoices : invoices[i].tenant # t
            BY <2>1, TrialHasNone
        <3>6. QED
            BY <2>1, <2>3, <3>2, <3>3, <3>4, <3>5, PeriodBegun
    <2>7. QED
        BY <2>5, <2>6
<1>3. ASSUME NEW t \in Tenants, Billing!Cancel(t) PROVE BillingInv'
    <2>1. /\ sub[t].status \in {"trialing", "active", "past_due"}
          /\ UNCHANGED <<now, invoices, payments, invoiceOf, hook>> /\ RunsTyped'
        BY <1>3, <1>u DEF Billing!Cancel, Billing!Occupied
    <2>2. IsSub(sub[t])
        BY <1>t, <2>1 DEF SubsTyped
    <2>3. PICK new : /\ IsSub(new) /\ new.status \in {"canceled", "expired"}
                     /\ new.start = sub[t].start /\ Rewritten(t, new)
        BY <1>3, <2>2, CancelledRow
    <2>4. QED
        BY <2>1, <2>3, StatusWritten
<1>4. ASSUME NEW c \in Cycles, Billing!StartCycle(c) PROVE BillingInv'
    <2>1. PICK run : run = [Billing!IdleRun EXCEPT !.now = now]
        OBVIOUS
    <2>2. IsRun(run)
        BY <2>1, IdleIsRun DEF IsRun
    <2>3. PICK new : new = Billing!WithBatch(run, Billing!Listed(0))
        OBVIOUS
    <2>4. IsRun(new)
        BY <2>2, <2>3, BatchIsRun, ListedAreTenants
    <2>5. cycle' = [cycle EXCEPT ![c] = new]
        BY <1>4, <2>1, <2>3 DEF Billing!StartCycle
    <2>6. RunsTyped'
        BY <1>t, <2>4, <2>5, RunWritten
    <2>7. QED
        BY <1>0, <1>4, <2>6 DEF Billing!StartCycle
<1>5. ASSUME NEW c \in Cycles, Billing!NextBatch(c) PROVE BillingInv'
    <2>1. PICK run : run = cycle[c]
        OBVIOUS
    <2>2. IsRun(run)
        BY <1>t, <2>1 DEF RunsTyped
    <2>3. PICK new : new = Billing!WithBatch(run, Billing!Listed(run.lastSeen))
        OBVIOUS
    <2>4. IsRun(new)
        BY <2>2, <2>3, BatchIsRun, ListedAreTenants
    <2>5. cycle' = [cycle EXCEPT ![c] = new]
        BY <1>5, <2>1, <2>3 DEF Billing!NextBatch
    <2>6. RunsTyped'
        BY <1>t, <2>4, <2>5, RunWritten
    <2>7. QED
        BY <1>0, <1>5, <2>6 DEF Billing!NextBatch
<1>6. ASSUME NEW c \in Cycles, Billing!Process(c) PROVE BillingInv'
    <2>1. IsRun(cycle[c])
        BY <1>t DEF RunsTyped
    <2>2. PICK t \in cycle[c].batch :
            /\ Billing!ProcessRow(t, cycle[c].now) \/ UNCHANGED <<sub, invoices>>
            /\ cycle' = [cycle EXCEPT ![c] = Through(cycle[c], t)]
        BY <1>6, Zenon DEF Billing!Process, Through
    <2>3. t \in Tenants
        BY <2>1, <2>2 DEF IsRun
    <2>4. RunsTyped'
        <3>1. PICK next : next = Through(cycle[c], t)
            OBVIOUS
        <3>2. IsRun(next)
            BY <2>1, <3>1, ThroughIsRun
        <3>3. QED
            BY <1>t, <2>2, <3>1, <3>2, RunWritten
    <2>5. UNCHANGED <<now, payments, invoiceOf, hook>>
        BY <1>6 DEF Billing!Process
    <2>6. CASE UNCHANGED <<sub, invoices>>
        BY <1>0, <2>4, <2>5, <2>6
    <2>7. CASE Billing!ProcessRow(t, cycle[c].now)
        <3>1. sub[t].status \in SubStatuses
            BY <2>7 DEF Billing!ProcessRow, SubStatuses
        <3>2. IsSub(sub[t])
            BY <1>t, <2>3, <3>1 DEF SubsTyped, SubStatuses
        <3>3. CASE Billing!Expire(t)
            <4>1. PICK new : /\ IsSub(new) /\ new.status = "expired" /\ new.start = sub[t].start
                             /\ Rewritten(t, new)
                BY <2>3, <3>2, <3>3, ExpiredRow
            <4>2. UNCHANGED invoices
                BY <3>3 DEF Billing!Expire
            <4>3. QED
                BY <2>3, <2>4, <2>5, <4>1, <4>2, StatusWritten
        <3>4. ASSUME NEW start \in Int, Billing!OpenRenewal(t, start),
                     \A i \in DOMAIN invoices : invoices[i].tenant = t =>
                         invoices[i].status = "paid" /\ invoices[i].start < start
              PROVE  BillingInv'
            <4>1. PICK new : /\ IsSub(new) /\ new.status = "past_due" /\ new.start = start
                             /\ new.end = start + Period /\ Rewritten(t, new)
                BY <2>3, <3>2, <3>4, RenewalRow
            <4>2. invoices' = Billing!OpenInvoice(t, start, sub[t].price) /\ sub[t].price \in Int
                BY <3>2, <3>4 DEF Billing!OpenRenewal, IsSub
            <4>3. QED
                BY <2>3, <2>4, <2>5, <3>4, <4>1, <4>2, PeriodBegun
        <3>5. CASE sub[t].status = "trialing" /\ Billing!OpenRenewal(t, sub[t].trialEnd)
            <4>1. \A i \in DOMAIN invoices : invoices[i].tenant # t
                BY <2>3, <3>5, TrialHasNone
            <4>2. sub[t].trialEnd \in Int
                BY <3>2 DEF IsSub
            <4>3. QED
                BY <3>4, <3>5, <4>1, <4>2
        <3>6. CASE sub[t].status = "active" /\ Billing!OpenRenewal(t, sub[t].end)
            <4>1. sub[t].end \in Int
                BY <3>2 DEF IsSub
            <4>2. QED
                BY <2>3, <3>4, <3>6, <4>1, OverIsPaid
        <3>7. QED
            BY <2>7, <3>3, <3>5, <3>6 DEF Billing!ProcessRow
    <2>8. QED
        BY <2>2, <2>6, <2>7
<1>7. ASSUME NEW c \in Cycles, Billing!CycleDies(c) PROVE BillingInv'
    BY <1>0, <1>7, <1>t, RunWritten, IdleIsRun DEF Billing!CycleDies
<1>8. ASSUME NEW o \in GatewayOrders, NEW i \in DOMAIN invoices, Billing!LinkOrder(o, i) PROVE BillingInv'
    <2>1. /\ invoiceOf[o] = 0 /\ invoiceOf' = [invoiceOf EXCEPT ![o] = i]
          /\ \A p \in GatewayOrders : invoiceOf[p] # i
          /\ UNCHANGED <<now, sub, invoices, payments, hook, cycle>>
        BY <1>8 DEF Billing!LinkOrder
    <2>2. SubsTyped' /\ Begun' /\ OpenIsLast' /\ Billing!InvoicedOnce' /\ Billing!StatusMatchesInvoice' /\ RunsTyped'
        BY <1>t, <1>u, <2>1 DEF BillingInv, SubsTyped, Begun, OpenIsLast, Billing!InvoicedOnce, Billing!StatusMatchesInvoice
    <2>3. i # 0
        BY <1>t
    <2>4. /\ DOMAIN invoiceOf' = GatewayOrders /\ invoiceOf'[o] = i
          /\ \A p \in GatewayOrders : p # o => invoiceOf'[p] = invoiceOf[p]
        BY <2>1 DEF BillingInv, Linked
    <2>5. Linked'
        BY <2>1, <2>3, <2>4, BillingNumbers DEF BillingInv, Linked
    <2>6. PaidByEvent'
        <3>1. ASSUME NEW j \in DOMAIN invoices', invoices'[j].status = "paid"
              PROVE  \E e \in BillingEvents, p \in payments' :
                        p.payment = PaymentOf[e] /\ invoiceOf'[OrderOf[e]] = j
            <4>1. PICK e \in BillingEvents, p \in payments : p.payment = PaymentOf[e] /\ invoiceOf[OrderOf[e]] = j
                BY <2>1, <3>1 DEF BillingInv, PaidByEvent
            <4>2. j # 0 /\ OrderOf[e] \in GatewayOrders
                BY <1>t, <2>1, BillingNumbers
            <4>3. invoiceOf'[OrderOf[e]] = j
                BY <2>1, <2>4, <4>1, <4>2
            <4>4. QED
                BY <2>1, <4>1, <4>3
        <3>2. QED
            BY <3>1 DEF PaidByEvent
    <2>7. QED
        BY <1>t, <2>1, <2>2, <2>5, <2>6 DEF BillingInv
<1>h. ASSUME NEW e \in BillingEvents, NEW at, hook' = [hook EXCEPT ![e] = at],
             at # "idle" => invoiceOf[OrderOf[e]] # 0,
             UNCHANGED <<now, sub, invoices, payments, invoiceOf, cycle>>
      PROVE  BillingInv'
    <2>1. SubsTyped' /\ Begun' /\ OpenIsLast' /\ Billing!InvoicedOnce' /\ Billing!StatusMatchesInvoice' /\ RunsTyped'
        BY <1>h, <1>t, <1>u DEF BillingInv, SubsTyped, Begun, OpenIsLast, Billing!InvoicedOnce, Billing!StatusMatchesInvoice
    <2>2. Linked' /\ PaidByEvent'
        BY <1>h DEF BillingInv, Linked, PaidByEvent
    <2>3. QED
        BY <1>h, <1>t, <2>1, <2>2 DEF BillingInv
<1>9. ASSUME NEW e \in BillingEvents, Billing!ReceiveEvent(e) PROVE BillingInv'
    <2>1. UNCHANGED <<now, sub, invoices, payments, invoiceOf, cycle>>
        BY <1>9 DEF Billing!ReceiveEvent
    <2>2. \/ UNCHANGED hook
          \/ invoiceOf[OrderOf[e]] # 0 /\ \E at : hook' = [hook EXCEPT ![e] = at]
        BY <1>9 DEF Billing!ReceiveEvent
    <2>3. QED
        BY <1>0, <1>h, <1>u, <2>1, <2>2
<1>10. ASSUME NEW e \in BillingEvents, Billing!RecordProcessed(e) PROVE BillingInv'
    BY <1>10, <1>h DEF Billing!RecordProcessed
<1>11. ASSUME NEW e \in BillingEvents, Billing!HookDies(e) PROVE BillingInv'
    BY <1>11, <1>h DEF Billing!HookDies
<1>12. ASSUME NEW e \in BillingEvents, Billing!MarkPaid(e) PROVE BillingInv'
    <2>1. PICK i : i = invoiceOf[OrderOf[e]]
        OBVIOUS
    <2>2. i \in DOMAIN invoices /\ OrderOf[e] \in GatewayOrders
        <3>1. hook[e] = "settle"
            BY <1>12 DEF Billing!MarkPaid
        <3>2. QED
            BY <2>1, <3>1, BillingNumbers DEF BillingInv, Linked
    <2>3. CASE ~Billing!PaymentAccepted(e)
        BY <1>12, <1>h, <2>3 DEF Billing!MarkPaid
    <2>4. CASE Billing!PaymentAccepted(e)
        <3>1. PICK t \in Tenants : t = invoices[i].tenant
            BY <1>t, <2>2 DEF InvoiceRows
        <3>2. PICK paid : paid = [invoice |-> i, payment |-> PaymentOf[e], event |-> e]
            OBVIOUS
        <3>3. /\ payments' = payments \union {paid}
              /\ invoices' = [invoices EXCEPT ![i].status = "paid"]
              /\ Billing!Activate(t, i)
              /\ hook' = [hook EXCEPT ![e] = "record"]
              /\ UNCHANGED <<now, invoiceOf, cycle>>
            BY <1>12, <2>1, <2>4, <3>1, <3>2 DEF Billing!MarkPaid
        <3>4. invoices[i].status = "open"
            BY <2>1, <2>2, <2>4, SettlesOpen
        <3>5. IsSub(sub[t]) /\ invoices[i].end = invoices[i].start + Period
            BY <2>2, <3>1 DEF BillingInv, Begun
        <3>6. PICK new : /\ IsSub(new) /\ new.status = "active" /\ new.start = invoices[i].start
                         /\ new.end = invoices[i].end /\ Rewritten(t, new)
            BY <2>2, <3>1, <3>3, <3>5, ActivatedRow
        <3>7. PICK x : x = [invoices[i] EXCEPT !.status = "paid"]
            OBVIOUS
        <3>8. /\ x \in InvoiceRows /\ x.tenant = t /\ x.start = invoices[i].start
              /\ x.end = invoices[i].end /\ x.status = "paid"
            BY <1>t, <2>2, <3>1, <3>7 DEF InvoiceRows
        <3>9. /\ invoices' \in Seq(InvoiceRows) /\ DOMAIN invoices' = DOMAIN invoices
              /\ \A j \in DOMAIN invoices : invoices'[j] = IF j = i THEN x ELSE invoices[j]
            <4>1. invoices' = [invoices EXCEPT ![i] = x]
                BY <3>3, <3>7
            <4>2. i \in 1..Len(invoices)
                BY <1>t, <2>2
            <4>3. /\ [invoices EXCEPT ![i] = x] \in Seq(InvoiceRows)
                  /\ Len([invoices EXCEPT ![i] = x]) = Len(invoices)
                  /\ \A j \in 1..Len(invoices) : [invoices EXCEPT ![i] = x][j] = IF j = i THEN x ELSE invoices[j]
                BY <1>t, <3>8, <4>2, ExceptSeq
            <4>4. QED
                BY <1>t, <4>1, <4>3
        <3>10. \A j \in DOMAIN invoices : /\ invoices'[j].tenant = invoices[j].tenant
                                          /\ invoices'[j].start = invoices[j].start
                                          /\ invoices'[j].end = invoices[j].end
                                          /\ invoices'[j].status = IF j = i THEN "paid" ELSE invoices[j].status
            BY <3>1, <3>8, <3>9
        <3>11. SubsTyped' /\ RunsTyped'
            BY <1>t, <1>u, <3>3, <3>6 DEF SubsTyped, Rewritten
        <3>12. Begun'
            <4>1. ASSUME NEW j \in DOMAIN invoices
                  PROVE  /\ invoices[j].end = invoices[j].start + Period
                         /\ IsSub(sub'[invoices[j].tenant]) /\ sub'[invoices[j].tenant].status # "trialing"
                         /\ invoices[j].start <= sub'[invoices[j].tenant].start
                <5>1. /\ invoices[j].end = invoices[j].start + Period
                      /\ IsSub(sub[invoices[j].tenant]) /\ sub[invoices[j].tenant].status # "trialing"
                      /\ invoices[j].start <= sub[invoices[j].tenant].start
                    BY DEF BillingInv, Begun
                <5>2. invoices[j].tenant \in Tenants
                    BY <1>t DEF InvoiceRows
                <5>3. CASE invoices[j].tenant = t
                    <6>1. invoices[j].start <= invoices[i].start
                        BY <2>2, <3>1, <3>4, <5>3 DEF BillingInv, OpenIsLast
                    <6>2. QED
                        BY <3>6, <5>1, <5>3, <6>1 DEF Rewritten
                <5>4. CASE invoices[j].tenant # t
                    BY <3>6, <5>1, <5>2, <5>4 DEF Rewritten
                <5>5. QED
                    BY <5>3, <5>4
            <4>2. QED
                BY <3>9, <3>10, <4>1 DEF Begun
        <3>13. OpenIsLast' /\ Billing!InvoicedOnce'
            BY <3>9, <3>10 DEF BillingInv, OpenIsLast, Billing!InvoicedOnce
        <3>14. Linked'
            BY <2>1, <2>2, <3>3, <3>9, <1>t DEF BillingInv, Linked
        <3>15. PaidByEvent'
            <4>1. ASSUME NEW j \in DOMAIN invoices, j # i, invoices[j].status = "paid"
                  PROVE  \E f \in BillingEvents, p \in payments' :
                            p.payment = PaymentOf[f] /\ invoiceOf'[OrderOf[f]] = j
                BY <3>3, <4>1 DEF BillingInv, PaidByEvent
            <4>2. paid \in payments' /\ paid.payment = PaymentOf[e] /\ invoiceOf'[OrderOf[e]] = i
                BY <2>1, <3>2, <3>3
            <4>3. QED
                BY <3>9, <3>10, <4>1, <4>2 DEF PaidByEvent
        <3>16. Billing!StatusMatchesInvoice'
            <4>1. ASSUME NEW u \in Tenants, sub'[u].status \in {"active", "past_due"}
                  PROVE  \E j \in DOMAIN invoices' :
                            /\ invoices'[j].tenant = u
                            /\ invoices'[j].start = sub'[u].start /\ invoices'[j].end = sub'[u].end
                            /\ invoices'[j].status = IF sub'[u].status = "active" THEN "paid" ELSE "open"
                <5>1. CASE u = t
                    BY <2>2, <3>1, <3>6, <3>9, <3>10, <5>1 DEF Rewritten
                <5>2. CASE u # t
                    <6>1. sub'[u] = sub[u]
                        BY <3>6, <5>2 DEF Rewritten
                    <6>2. PICK j \in DOMAIN invoices :
                            /\ invoices[j].tenant = u
                            /\ invoices[j].start = sub[u].start /\ invoices[j].end = sub[u].end
                            /\ invoices[j].status = IF sub[u].status = "active" THEN "paid" ELSE "open"
                        BY <4>1, <6>1 DEF BillingInv, Billing!StatusMatchesInvoice
                    <6>3. j # i
                        BY <3>1, <5>2, <6>2
                    <6>4. QED
                        BY <3>9, <3>10, <6>1, <6>2, <6>3
                <5>3. QED
                    BY <5>1, <5>2
            <4>2. QED
                BY <4>1 DEF Billing!StatusMatchesInvoice
        <3>17. QED
            BY <3>9, <3>11, <3>12, <3>13, <3>14, <3>15, <3>16 DEF BillingInv
    <2>5. QED
        BY <2>3, <2>4
<1>13. ASSUME Billing!Tick PROVE BillingInv'
    <2>1. now' \in Int /\ UNCHANGED <<sub, invoices, payments, invoiceOf, hook, cycle>>
        BY <1>13, <1>t DEF Billing!Tick, SubsTyped
    <2>2. QED
        BY <1>u, <1>t, <2>1 DEF BillingInv, SubsTyped, Begun, OpenIsLast, Linked, PaidByEvent, Billing!InvoicedOnce,
           Billing!StatusMatchesInvoice
<1>n. CASE Billing!Next
    BY <1>n, <1>2, <1>3, <1>4, <1>5, <1>6, <1>7, <1>8, <1>9, <1>10, <1>11, <1>12, <1>13
    DEF Billing!Next, Billing!CycleStep, Billing!HookStep
<1> QED
    BY <1>1, <1>n

\* For any tenants, runs of the cycle, gateway orders and events: no run that overlaps
\* another, dies or meets a payment makes a tenant owe a period twice, and the row of a
\* subscription and the invoice of its period tell the same (lifecycle.run_billing_cycle,
\* mark_paid).
THEOREM PeriodsInvoiced == BackgroundSpec => []PeriodsAreInvoiced
<1>1. BillingInv => PeriodsAreInvoiced
    BY DEF BillingInv, PeriodsAreInvoiced
<1>2. QED
    BY <1>1, BillingInit, BillingNext, BillingSteps, PTL

-----------------------------------------------------------------------------
(* Sign-ups beside the super admin *)

LEMMA SignupSteps == BackgroundSpec => Onboarding!Init /\ [][Onboarding!Next]_signupVars
<1>1. BackgroundInit => Onboarding!Init
    BY DEF BackgroundInit
<1>2. [BackgroundNext]_<<part, outboxVars, billingVars, signupVars>> => [Onboarding!Next]_signupVars
    BY DEF BackgroundNext, signupVars
<1>3. BackgroundSpec => BackgroundInit /\ [][BackgroundNext]_<<part, outboxVars, billingVars, signupVars>>
    BY PTL DEF BackgroundSpec
<1>4. QED
    BY <1>1, <1>2, <1>3, PTL

\* What a visitor's request carries at each of its steps.
Visit(x) ==
    \/ x = Onboarding!Away
    \/ /\ x = [step |-> x.step, email |-> x.email, coupon |-> x.coupon, excused |-> x.excused,
               shown |-> x.shown]
       /\ x.step \in {"form", "user", "slug"}
    \/ /\ x = [step |-> x.step, email |-> x.email, coupon |-> x.coupon, excused |-> x.excused,
               shown |-> x.shown, slug |-> x.slug]
       /\ x.step \in {"tenant", "plan"}
    \/ /\ x = [step |-> x.step, email |-> x.email, slug |-> x.slug, shown |-> x.shown,
               charged |-> x.charged, deducted |-> x.deducted, trial |-> x.trial,
               excused |-> x.excused]
       /\ x.step = "subscribed"

Trying == {"slug", "tenant", "plan", "subscribed"}
Before == {"form", "user", "slug", "tenant", "plan"}

\* Whoever is past the insert of the user has the address for himself, and past the
\* insert of the tenant the slug.
AddressesOwn ==
    \A v \in Visitors : signup[v].step \in Trying =>
        /\ \A w \in workspace : w.email # signup[v].email
        /\ \A u \in Visitors \ {v} : signup[u].step \in Trying => signup[u].email # signup[v].email

SlugsOwn ==
    \A v \in Visitors : signup[v].step \in {"plan", "subscribed"} =>
        /\ \A w \in workspace : w.slug # signup[v].slug
        /\ \A u \in Visitors \ {v} :
              signup[u].step \in {"plan", "subscribed"} => signup[u].slug # signup[v].slug

\* Until his subscription an unexcused visitor could be shown the same price again.
ShownStill(x) ==
    IF x.coupon THEN Onboarding!DialogAccepts /\ x.shown = Onboarding!DialogPrice
    ELSE x.shown = plan.price

\* Whoever is about to use the coupon has counted its usages as they are now.
UsesLeft == recreated \/ crossed \/ coupon.rule.limit = NoPrice \/ Cardinality(usages) < coupon.rule.limit

VisitRight(x) ==
    /\ Visit(x)
    /\ x.step \in Before => x.excused \/ ShownStill(x)
    /\ x.step = "subscribed" =>
         /\ plan.here
         /\ x.excused \/ x.charged = x.shown
         /\ x.deducted > 0 /\ ~x.trial => UsesLeft

OfferRows ==
    /\ plan = [here |-> plan.here, status |-> plan.status, price |-> plan.price, row |-> plan.row]
    /\ plan.price \in Nat
    /\ coupon = [here |-> coupon.here, active |-> coupon.active, rule |-> coupon.rule]
    /\ coupon.rule.limit = NoPrice \/ coupon.rule.limit \in Int
    /\ IsFiniteSet(usages) /\ usages \subseteq Onboarding!TakenEmails
    /\ DOMAIN signup = Visitors

OfferInv ==
    /\ OfferRows /\ AddressesOwn /\ SlugsOwn
    /\ \A v \in Visitors : VisitRight(signup[v])
    /\ Onboarding!WorkspacesAreWhole /\ Onboarding!ShownIsCharged /\ Onboarding!LimitHolds

LEMMA CountedAlike ==
    ASSUME NEW S
    PROVE  Onboarding!Cardinality(S) = Cardinality(S)
BY DEF Onboarding!Cardinality, Cardinality

LEMMA RuleLimits ==
    \A r \in Coupons : r.limit = NoPrice \/ r.limit \in Nat
BY OffersAssumption DEF OffersAssumption

LEMMA OfferInit == Onboarding!Init => OfferInv
<1> SUFFICES ASSUME Onboarding!Init PROVE OfferInv
    OBVIOUS
<1>1. \A v \in Visitors : signup[v] = Onboarding!Away /\ signup[v].step = "away"
    BY DEF Onboarding!Init, Onboarding!Away
<1>2. DOMAIN signup = Visitors /\ workspace = {} /\ usages = {}
    BY DEF Onboarding!Init
<1>3. /\ plan = [here |-> plan.here, status |-> plan.status, price |-> plan.price, row |-> plan.row]
      /\ plan.price \in Nat
    BY OffersAssumption DEF Onboarding!Init, OffersAssumption
<1>4. /\ coupon = [here |-> coupon.here, active |-> coupon.active, rule |-> coupon.rule]
      /\ coupon.rule \in Coupons
    BY DEF Onboarding!Init
<1>5. coupon.rule.limit = NoPrice \/ coupon.rule.limit \in Nat
    BY <1>4, RuleLimits
<1>6. IsFiniteSet(usages) /\ Cardinality(usages) = 0
    BY <1>2, FS_EmptySet
<1>7. OfferRows
    BY <1>2, <1>3, <1>4, <1>5, <1>6 DEF OfferRows
<1>8. AddressesOwn /\ SlugsOwn /\ \A v \in Visitors : VisitRight(signup[v])
    BY <1>1 DEF AddressesOwn, SlugsOwn, VisitRight, Visit, Trying, Before
<1>9. Onboarding!WorkspacesAreWhole /\ Onboarding!ShownIsCharged
    BY <1>2 DEF Onboarding!WorkspacesAreWhole, Onboarding!ShownIsCharged
<1>10. Onboarding!LimitHolds
    BY <1>5, <1>6, CountedAlike DEF Onboarding!LimitHolds
<1>11. QED
    BY <1>7, <1>8, <1>9, <1>10 DEF OfferInv

\* One visitor's request moves and nothing is stored.
LEMMA VisitorMoves ==
    ASSUME OfferInv, NEW v \in Visitors, NEW x, signup' = [signup EXCEPT ![v] = x],
           VisitRight(x),
           UNCHANGED <<plan, coupon, usages, workspace, recreated, crossed>>,
           x.step \in Trying =>
             /\ \A w \in workspace : w.email # x.email
             /\ \A u \in Visitors \ {v} : signup[u].step \in Trying => signup[u].email # x.email,
           x.step \in {"plan", "subscribed"} =>
             /\ \A w \in workspace : w.slug # x.slug
             /\ \A u \in Visitors \ {v} :
                   signup[u].step \in {"plan", "subscribed"} => signup[u].slug # x.slug
    PROVE  OfferInv'
<1>1. DOMAIN signup' = Visitors /\ signup'[v] = x /\ \A u \in Visitors \ {v} : signup'[u] = signup[u]
    BY DEF OfferInv, OfferRows
<1>2. OfferRows'
    BY <1>1 DEF OfferInv, OfferRows, Onboarding!TakenEmails
<1>3. \A y : VisitRight(y) => VisitRight(y)'
    BY DEF VisitRight, ShownStill, UsesLeft, Onboarding!DialogAccepts, Onboarding!DialogPrice, Onboarding!IsValidNow
<1>4. \A u \in Visitors : VisitRight(signup[u])'
    BY <1>1, <1>3 DEF OfferInv
<1>5. AddressesOwn' /\ SlugsOwn'
    BY <1>1 DEF OfferInv, AddressesOwn, SlugsOwn
<1>6. Onboarding!WorkspacesAreWhole' /\ Onboarding!ShownIsCharged' /\ Onboarding!LimitHolds'
    BY DEF OfferInv, Onboarding!WorkspacesAreWhole, Onboarding!ShownIsCharged, Onboarding!LimitHolds
<1>7. QED
    BY <1>2, <1>4, <1>5, <1>6 DEF OfferInv

\* A request that goes one step on carries what it did.
LEMMA StepMoves ==
    ASSUME NEW x, Visit(x), NEW s, NEW y, y = [x EXCEPT !.step = s],
           \/ x.step \in {"form", "user"} /\ s \in {"user", "slug"}
           \/ x.step = "tenant" /\ s = "plan"
    PROVE  /\ Visit(y) /\ y.step = s /\ y.email = x.email /\ y.coupon = x.coupon
           /\ y.excused = x.excused /\ y.shown = x.shown
           /\ s = "plan" => y.slug = x.slug
<1>1. x.step # "away"
    OBVIOUS
<1>2. x # Onboarding!Away
    BY <1>1 DEF Onboarding!Away
<1>3. CASE x.step \in {"form", "user"} /\ s \in {"user", "slug"}
    <2>1. x = [step |-> x.step, email |-> x.email, coupon |-> x.coupon, excused |-> x.excused,
               shown |-> x.shown]
        BY <1>2, <1>3 DEF Visit
    <2>2. y = [step |-> s, email |-> x.email, coupon |-> x.coupon, excused |-> x.excused,
               shown |-> x.shown]
        BY <2>1
    <2>3. QED
        BY <1>3, <2>2 DEF Visit
<1>4. CASE x.step = "tenant" /\ s = "plan"
    <2>1. x = [step |-> x.step, email |-> x.email, coupon |-> x.coupon, excused |-> x.excused,
               shown |-> x.shown, slug |-> x.slug]
        BY <1>2, <1>4 DEF Visit
    <2>2. y = [step |-> s, email |-> x.email, coupon |-> x.coupon, excused |-> x.excused,
               shown |-> x.shown, slug |-> x.slug]
        BY <2>1
    <2>3. QED
        BY <1>4, <2>2 DEF Visit
<1>5. QED
    BY <1>3, <1>4

\* A request that is excused is otherwise the same.
LEMMA ExcusedVisit ==
    \A x, yes, y : Visit(x) /\ x.step \in Before /\ y = [x EXCEPT !.excused = yes] =>
        /\ Visit(y) /\ y.step = x.step /\ y.email = x.email /\ y.excused = yes
        /\ x.step \in {"tenant", "plan"} => y.slug = x.slug
<1> SUFFICES ASSUME NEW x, Visit(x), x.step \in Before, NEW yes,
                    NEW y, y = [x EXCEPT !.excused = yes]
             PROVE  /\ Visit(y) /\ y.step = x.step /\ y.email = x.email /\ y.excused = yes
                    /\ x.step \in {"tenant", "plan"} => y.slug = x.slug
    OBVIOUS
<1>1. x # Onboarding!Away
    BY DEF Onboarding!Away, Before
<1>2. CASE x.step \in {"form", "user", "slug"}
    <2>1. x = [step |-> x.step, email |-> x.email, coupon |-> x.coupon, excused |-> x.excused,
               shown |-> x.shown]
        BY <1>1, <1>2 DEF Visit
    <2>2. y = [step |-> x.step, email |-> x.email, coupon |-> x.coupon, excused |-> yes,
               shown |-> x.shown]
        BY <2>1
    <2>3. QED
        BY <1>2, <2>2 DEF Visit
<1>3. CASE x.step \in {"tenant", "plan"}
    <2>1. x = [step |-> x.step, email |-> x.email, coupon |-> x.coupon, excused |-> x.excused,
               shown |-> x.shown, slug |-> x.slug]
        BY <1>1, <1>3 DEF Visit
    <2>2. y = [step |-> x.step, email |-> x.email, coupon |-> x.coupon, excused |-> yes,
               shown |-> x.shown, slug |-> x.slug]
        BY <2>1
    <2>3. QED
        BY <1>3, <2>2 DEF Visit
<1>4. QED
    BY <1>2, <1>3 DEF Before

LEMMA AwayRight == VisitRight(Onboarding!Away) /\ Onboarding!Away.step = "away"
BY DEF VisitRight, Visit, Onboarding!Away, Before

\* The dialog and the subscription reckon alike where no row and no cap is in between.
LEMMA ChargedAsShown ==
    ASSUME NEW x, ShownStill(x), plan.price \in Nat, plan.row = NoPrice,
           Onboarding!Capped(coupon.rule, Onboarding!SignupAmount)
              = Onboarding!Deduction(coupon.rule, Onboarding!SignupAmount)
    PROVE  Onboarding!AtLeastZero(Onboarding!SignupAmount - Onboarding!SignupDeduction(x.coupon)) = x.shown
<1>1. Onboarding!SignupAmount = plan.price
    BY DEF Onboarding!SignupAmount
<1>2. CASE x.coupon
    <2>1. Onboarding!SignupDeduction(x.coupon) = Onboarding!Deduction(coupon.rule, plan.price)
        BY <1>1, <1>2 DEF Onboarding!SignupDeduction, ShownStill, Onboarding!DialogAccepts
    <2>2. QED
        BY <1>1, <1>2, <2>1 DEF ShownStill, Onboarding!DialogPrice
<1>3. CASE ~x.coupon
    <2>1. Onboarding!SignupDeduction(x.coupon) = 0
        BY <1>3 DEF Onboarding!SignupDeduction
    <2>2. QED
        BY <1>1, <1>3, <2>1 DEF ShownStill, Onboarding!AtLeastZero
<1>4. QED
    BY <1>2, <1>3

LEMMA WizardKeeps ==
    ASSUME OfferInv, NEW v \in Visitors,
           \/ \E e \in Emails, withCoupon \in BOOLEAN : Onboarding!ChoosePlan(v, e, withCoupon)
           \/ Onboarding!Submit(v) \/ Onboarding!RollBack(v)
    PROVE  OfferInv'
<1>r. VisitRight(signup[v]) /\ Visit(signup[v])
    BY DEF OfferInv, VisitRight
<1>f. UNCHANGED <<plan, coupon, usages, workspace, recreated, crossed>>
    BY DEF Onboarding!ChoosePlan, Onboarding!Submit, Onboarding!RollBack, Onboarding!shop, Onboarding!books
<1>1. ASSUME NEW e \in Emails, NEW withCoupon \in BOOLEAN, Onboarding!ChoosePlan(v, e, withCoupon)
      PROVE  OfferInv'
    <2>1. PICK price, no : /\ price = IF withCoupon THEN Onboarding!DialogPrice ELSE plan.price
                           /\ no = FALSE
        OBVIOUS
    <2>2. PICK x : x = [step |-> "form", email |-> e, coupon |-> withCoupon, excused |-> no, shown |-> price]
        OBVIOUS
    <2>3. signup' = [signup EXCEPT ![v] = x] /\ (withCoupon => Onboarding!DialogAccepts)
        BY <1>1, <2>1, <2>2 DEF Onboarding!ChoosePlan
    <2>4. Visit(x) /\ x.step = "form" /\ x.coupon = withCoupon /\ x.shown = price
        BY <2>2 DEF Visit
    <2>5. ShownStill(x)
        BY <2>1, <2>3, <2>4 DEF ShownStill
    <2>6. VisitRight(x)
        BY <2>4, <2>5 DEF VisitRight
    <2>7. QED
        BY <1>f, <2>3, <2>4, <2>6, VisitorMoves DEF Trying
<1>2. CASE signup' = [signup EXCEPT ![v] = Onboarding!Away]
    <2>1. PICK x : x = Onboarding!Away
        OBVIOUS
    <2>2. VisitRight(x) /\ x.step = "away" /\ signup' = [signup EXCEPT ![v] = x]
        BY <1>2, <2>1, AwayRight
    <2>3. QED
        BY <1>f, <2>2, VisitorMoves DEF Trying
<1>3. CASE signup[v].step = "form" /\ signup' = [signup EXCEPT ![v] = [@ EXCEPT !.step = "user"]]
    <2>1. PICK x : x = [signup[v] EXCEPT !.step = "user"]
        OBVIOUS
    <2>2. /\ Visit(x) /\ x.step = "user" /\ x.email = signup[v].email /\ x.coupon = signup[v].coupon
          /\ x.excused = signup[v].excused /\ x.shown = signup[v].shown
        BY <1>3, <1>r, <2>1, StepMoves
    <2>3. VisitRight(x)
        BY <1>3, <1>r, <2>2 DEF VisitRight, ShownStill, Before
    <2>4. QED
        BY <1>3, <1>f, <2>1, <2>2, <2>3, VisitorMoves DEF Trying
<1>4. QED
    BY <1>1, <1>2, <1>3 DEF Onboarding!Submit, Onboarding!RollBack

\* The inserts that wait for whoever has the same address or slug.
LEMMA InsertsKeep ==
    ASSUME OfferInv, NEW v \in Visitors,
           Onboarding!CreateUser(v) \/ Onboarding!UniqueTenantSlug(v) \/ Onboarding!CreateTenant(v)
    PROVE  OfferInv'
<1>r. VisitRight(signup[v]) /\ Visit(signup[v])
    BY DEF OfferInv, VisitRight
<1>f. UNCHANGED <<plan, coupon, usages, workspace, recreated, crossed>>
    BY DEF Onboarding!CreateUser, Onboarding!UniqueTenantSlug, Onboarding!CreateTenant, Onboarding!shop, Onboarding!books
<1>2. CASE signup' = [signup EXCEPT ![v] = Onboarding!Away]
    <2>1. PICK x : x = Onboarding!Away
        OBVIOUS
    <2>2. VisitRight(x) /\ x.step = "away" /\ signup' = [signup EXCEPT ![v] = x]
        BY <1>2, <2>1, AwayRight
    <2>3. QED
        BY <1>f, <2>2, VisitorMoves DEF Trying
<1>3. CASE Onboarding!CreateUser(v) /\ signup[v].email \notin Onboarding!TakenEmails
    <2>1. PICK x : x = [signup[v] EXCEPT !.step = "slug"]
        OBVIOUS
    <2>2. /\ Visit(x) /\ x.step = "slug" /\ x.email = signup[v].email /\ x.coupon = signup[v].coupon
          /\ x.excused = signup[v].excused /\ x.shown = signup[v].shown
        BY <1>3, <1>r, <2>1, StepMoves DEF Onboarding!CreateUser
    <2>3. VisitRight(x)
        BY <1>3, <1>r, <2>2 DEF VisitRight, ShownStill, Before, Onboarding!CreateUser
    <2>4. signup' = [signup EXCEPT ![v] = x]
        BY <1>3, <2>1 DEF Onboarding!CreateUser
    <2>5. /\ \A w \in workspace : w.email # x.email
          /\ \A u \in Visitors \ {v} : signup[u].step \in Trying => signup[u].email # x.email
        BY <1>3, <2>2 DEF Onboarding!CreateUser, Onboarding!Others, Onboarding!AfterUser, Onboarding!TakenEmails, Trying
    <2>6. QED
        BY <1>f, <2>2, <2>3, <2>4, <2>5, VisitorMoves
<1>4. CASE Onboarding!UniqueTenantSlug(v)
    <2>0. PICK was : was = signup[v]
        OBVIOUS
    <2>1. PICK x, slug : /\ x = [step |-> "tenant", email |-> was.email, coupon |-> was.coupon,
                                 excused |-> was.excused, shown |-> was.shown, slug |-> slug]
                         /\ signup' = [signup EXCEPT ![v] = x]
        BY <1>4, <2>0 DEF Onboarding!UniqueTenantSlug
    <2>2. /\ Visit(x) /\ x.step = "tenant" /\ x.email = was.email /\ x.coupon = was.coupon
          /\ x.excused = was.excused /\ x.shown = was.shown
        BY <2>1 DEF Visit
    <2>3. was.step = "slug" /\ VisitRight(was)
        BY <1>4, <1>r, <2>0 DEF Onboarding!UniqueTenantSlug
    <2>4. VisitRight(x)
        BY <2>2, <2>3 DEF VisitRight, ShownStill, Before
    <2>5. /\ \A w \in workspace : w.email # x.email
          /\ \A u \in Visitors \ {v} : signup[u].step \in Trying => signup[u].email # x.email
        BY <2>0, <2>2, <2>3 DEF OfferInv, AddressesOwn, Trying
    <2>6. QED
        BY <1>f, <2>1, <2>2, <2>4, <2>5, VisitorMoves
<1>5. CASE Onboarding!CreateTenant(v) /\ signup[v].slug \notin Onboarding!TakenSlugs
    <2>1. PICK x : x = [signup[v] EXCEPT !.step = "plan"]
        OBVIOUS
    <2>2. /\ Visit(x) /\ x.step = "plan" /\ x.email = signup[v].email /\ x.coupon = signup[v].coupon
          /\ x.excused = signup[v].excused /\ x.shown = signup[v].shown /\ x.slug = signup[v].slug
        BY <1>5, <1>r, <2>1, StepMoves DEF Onboarding!CreateTenant
    <2>3. VisitRight(x)
        BY <1>5, <1>r, <2>2 DEF VisitRight, ShownStill, Before, Onboarding!CreateTenant
    <2>4. signup' = [signup EXCEPT ![v] = x] /\ signup[v].step = "tenant"
        BY <1>5, <2>1 DEF Onboarding!CreateTenant
    <2>5. /\ \A w \in workspace : w.slug # x.slug
          /\ \A u \in Visitors \ {v} : signup[u].step \in {"plan", "subscribed"} => signup[u].slug # x.slug
        BY <1>5, <2>2 DEF Onboarding!CreateTenant, Onboarding!Others, Onboarding!TakenSlugs
    <2>6. /\ \A w \in workspace : w.email # x.email
          /\ \A u \in Visitors \ {v} : signup[u].step \in Trying => signup[u].email # x.email
        BY <2>2, <2>4 DEF OfferInv, AddressesOwn, Trying
    <2>7. QED
        BY <1>f, <2>2, <2>3, <2>4, <2>5, <2>6, VisitorMoves
<1>6. QED
    BY <1>2, <1>3, <1>4, <1>5 DEF Onboarding!CreateUser, Onboarding!CreateTenant

LEMMA SubscriptionKeeps ==
    ASSUME OfferInv, NEW v \in Visitors, Onboarding!CreateSubscription(v)
    PROVE  OfferInv'
<1>1. PICK was : was = signup[v] /\ VisitRight(was) /\ was.step = "plan"
    BY DEF OfferInv, Onboarding!CreateSubscription
<1>f. UNCHANGED <<plan, coupon, usages, workspace, recreated, crossed>>
    BY DEF Onboarding!CreateSubscription, Onboarding!shop, Onboarding!books
<1>2. CASE ~plan.here \/ plan.status = "inactive"
    <2>1. PICK x : x = Onboarding!Away
        OBVIOUS
    <2>2. signup' = [signup EXCEPT ![v] = x]
        BY <1>2, <2>1 DEF Onboarding!CreateSubscription
    <2>3. VisitRight(x) /\ x.step = "away"
        BY <2>1, AwayRight
    <2>4. QED
        BY <1>f, <2>2, <2>3, VisitorMoves DEF Trying
<1>3. CASE ~(~plan.here \/ plan.status = "inactive")
    <2>1. PICK deducted : deducted = Onboarding!SignupDeduction(was.coupon)
        OBVIOUS
    <2>2. PICK charged : charged = Onboarding!AtLeastZero(Onboarding!SignupAmount - deducted)
        OBVIOUS
    <2>3. PICK excused \in BOOLEAN :
            excused <=> \/ was.excused \/ plan.row # NoPrice
                        \/ Onboarding!Capped(coupon.rule, Onboarding!SignupAmount)
                             # Onboarding!Deduction(coupon.rule, Onboarding!SignupAmount)
        OBVIOUS
    <2>4. PICK with : with = (was.excused \/ plan.row # NoPrice
                                \/ Onboarding!Capped(coupon.rule, Onboarding!SignupAmount)
                                     # Onboarding!Deduction(coupon.rule, Onboarding!SignupAmount))
        OBVIOUS
    <2>5. PICK x : x = [step |-> "subscribed", email |-> was.email, slug |-> was.slug,
                        shown |-> was.shown, charged |-> charged, deducted |-> deducted,
                        trial |-> trial, excused |-> with]
        OBVIOUS
    <2>6. signup' = [signup EXCEPT ![v] = x]
        BY <1>1, <1>3, <2>1, <2>2, <2>4, <2>5 DEF Onboarding!CreateSubscription
    <2>7. /\ Visit(x) /\ x.step = "subscribed" /\ x.email = was.email /\ x.slug = was.slug
          /\ x.shown = was.shown /\ x.charged = charged /\ x.deducted = deducted
          /\ (x.excused <=> excused)
        BY <2>3, <2>4, <2>5 DEF Visit
    <2>8. x.excused \/ x.charged = x.shown
        <3>1. SUFFICES ASSUME ~excused PROVE charged = was.shown
            BY <2>7
        <3>2. ShownStill(was)
            BY <1>1, <2>3, <3>1 DEF VisitRight, Before
        <3>3. QED
            BY <2>1, <2>2, <2>3, <3>1, <3>2, ChargedAsShown DEF OfferInv, OfferRows
    <2>9. x.deducted > 0 => UsesLeft
        <3>1. SUFFICES ASSUME deducted > 0 PROVE UsesLeft
            BY <2>7
        <3>2. Onboarding!IsValidNow({Onboarding!SignupAmount}, "new")
            BY <2>1, <3>1 DEF Onboarding!SignupDeduction
        <3>3. QED
            BY <3>2, CountedAlike DEF Onboarding!IsValidNow, UsesLeft
    <2>10. VisitRight(x)
        BY <1>3, <2>7, <2>8, <2>9 DEF VisitRight, Before
    <2>11. /\ \A w \in workspace : w.email # x.email
           /\ \A u \in Visitors \ {v} : signup[u].step \in Trying => signup[u].email # x.email
        BY <1>1, <2>7 DEF OfferInv, AddressesOwn, Trying
    <2>12. /\ \A w \in workspace : w.slug # x.slug
           /\ \A u \in Visitors \ {v} : signup[u].step \in {"plan", "subscribed"} => signup[u].slug # x.slug
        BY <1>1, <2>7 DEF OfferInv, SlugsOwn
    <2>13. QED
        BY <1>f, <2>6, <2>10, <2>11, <2>12, VisitorMoves
<1>4. QED
    BY <1>2, <1>3

LEMMA CommitKeeps ==
    ASSUME OfferInv, NEW v \in Visitors, Onboarding!CommitWorkspace(v)
    PROVE  OfferInv'
<1>1. PICK was : was = signup[v] /\ VisitRight(was) /\ was.step = "subscribed"
    BY DEF OfferInv, Onboarding!CommitWorkspace
<1>2. PICK w : w = [c \in {"email", "slug", "shown", "charged", "deducted", "trial", "excused"} |-> signup[v][c]]
    OBVIOUS
<1>3. /\ w.email = was.email /\ w.slug = was.slug /\ w.shown = was.shown /\ w.charged = was.charged
      /\ w.deducted = was.deducted /\ w.trial = was.trial /\ w.excused = was.excused
    BY <1>1, <1>2
<1>4. PICK uses \in BOOLEAN : uses <=> was.deducted > 0 /\ ~was.trial
    OBVIOUS
<1>5. /\ workspace' = workspace \union {w}
      /\ usages' = IF uses THEN usages \union {was.email} ELSE usages
      /\ crossed' <=> (crossed \/ (uses /\ Onboarding!Others(v, {"subscribed"}) # {}))
      /\ signup' = [Onboarding!Excused(IF uses THEN Visitors ELSE {}) EXCEPT ![v] = Onboarding!Away]
      /\ UNCHANGED <<plan, coupon, recreated>>
    BY <1>1, <1>2, <1>4 DEF Onboarding!CommitWorkspace, Onboarding!shop
<1>v. \A u \in Visitors : VisitRight(signup[u]) /\ Visit(signup[u])
    BY DEF OfferInv, VisitRight
<1>6. DOMAIN signup' = Visitors /\ signup'[v] = Onboarding!Away
    BY <1>5 DEF Onboarding!Excused
<1>7. ASSUME NEW u \in Visitors \ {v}
      PROVE  \/ signup'[u] = signup[u] /\ (uses => signup[u].step \in {"away", "subscribed"})
             \/ uses /\ signup[u].step \in Before /\ signup'[u] = [signup[u] EXCEPT !.excused = TRUE]
    <2>1. signup'[u] = Onboarding!Excused(IF uses THEN Visitors ELSE {})[u]
        BY <1>5 DEF Onboarding!Excused
    <2>2. signup[u].step \in Before \union {"away", "subscribed"}
        <3>1. PICK x : x = signup[u] /\ Visit(x)
            BY <1>v
        <3>2. x.step \in Before \union {"away", "subscribed"}
            BY <3>1 DEF Visit, Before, Onboarding!Away
        <3>3. QED
            BY <3>1, <3>2
    <2>3. QED
        BY <2>1, <2>2 DEF Onboarding!Excused, Before
<1>8. ASSUME NEW u \in Visitors \ {v}
      PROVE  /\ signup'[u].step = signup[u].step
             /\ signup[u].step \in Trying => signup'[u].email = signup[u].email
             /\ signup[u].step \in {"plan", "subscribed"} => signup'[u].slug = signup[u].slug
    <2>1. PICK yes : yes = TRUE
        OBVIOUS
    <2>2. CASE signup'[u] = signup[u]
        BY <2>2
    <2>3. CASE signup[u].step \in Before /\ signup'[u] = [signup[u] EXCEPT !.excused = TRUE]
        <3>1. PICK y : y = [signup[u] EXCEPT !.excused = yes]
            OBVIOUS
        <3>2. /\ y.step = signup[u].step /\ y.email = signup[u].email
              /\ signup[u].step \in {"tenant", "plan"} => y.slug = signup[u].slug
            BY <1>v, <2>1, <2>3, <3>1, ExcusedVisit
        <3>3. signup'[u] = y
            BY <2>1, <2>3, <3>1
        <3>4. QED
            BY <2>3, <3>2, <3>3 DEF Before
    <2>4. QED
        BY <1>7, <2>2, <2>3
<1>9. AddressesOwn'
    <2>1. \A u \in Visitors : signup[u].step \in Trying /\ u # v => signup[u].email # w.email
        BY <1>1, <1>3 DEF OfferInv, AddressesOwn, Trying
    <2>2. QED
        BY <1>5, <1>6, <1>8, <2>1, AwayRight DEF OfferInv, AddressesOwn, Trying
<1>10. SlugsOwn'
    <2>1. \A u \in Visitors : signup[u].step \in {"plan", "subscribed"} /\ u # v => signup[u].slug # w.slug
        BY <1>1, <1>3 DEF OfferInv, SlugsOwn
    <2>2. QED
        BY <1>5, <1>6, <1>8, <2>1, AwayRight DEF OfferInv, SlugsOwn
<1>u. IsFiniteSet(usages) /\ usages \subseteq Onboarding!TakenEmails /\ Cardinality(usages) \in Nat
    BY FS_CardinalityType DEF OfferInv, OfferRows
<1>e. \A x \in workspace : x.email # w.email /\ x.slug # w.slug
    BY <1>1, <1>3 DEF OfferInv, AddressesOwn, SlugsOwn, Trying
<1>11. OfferRows'
    <2>1. IsFiniteSet(usages')
        BY <1>5, <1>u, FS_AddElement
    <2>2. usages' \subseteq {x.email : x \in workspace'}
        BY <1>3, <1>5, <1>u DEF Onboarding!TakenEmails
    <2>3. QED
        BY <1>5, <1>6, <2>1, <2>2 DEF OfferInv, OfferRows, Onboarding!TakenEmails
<1>12. ASSUME NEW u \in Visitors PROVE VisitRight(signup[u])'
    <2>1. CASE u = v
        BY <1>6, <2>1, AwayRight DEF VisitRight, Visit, Before
    <2>2. CASE u # v /\ uses /\ signup[u].step \in Before /\ signup'[u] = [signup[u] EXCEPT !.excused = TRUE]
        <3>1. PICK yes : yes = TRUE
            OBVIOUS
        <3>2. PICK y : y = [signup[u] EXCEPT !.excused = yes]
            OBVIOUS
        <3>3. Visit(y) /\ y.step = signup[u].step /\ y.excused = yes
            <4>1. Visit(signup[u]) /\ signup[u].step \in Before
                BY <1>v, <2>2
            <4>2. QED
                BY <3>2, <4>1, ExcusedVisit
        <3>4. signup'[u] = y
            BY <2>2, <3>1, <3>2
        <3>5. QED
            BY <2>2, <3>1, <3>3, <3>4 DEF VisitRight, Before
    <2>3. CASE u # v /\ signup'[u] = signup[u] /\ (uses => signup[u].step \in {"away", "subscribed"})
        <3>1. PICK x : x = signup[u] /\ x = signup'[u] /\ VisitRight(x)
            BY <1>v, <2>3
        <3>2. x.step \in Before => x.excused \/ ShownStill(x)'
            <4>1. SUFFICES ASSUME ~uses, ShownStill(x) PROVE ShownStill(x)'
                BY <2>3, <3>1 DEF VisitRight, Before
            <4>2. QED
                BY <1>5, <4>1 DEF ShownStill, Onboarding!DialogAccepts, Onboarding!DialogPrice, Onboarding!IsValidNow
        <3>3. x.step = "subscribed" /\ UsesLeft => UsesLeft'
            <4>1. CASE uses /\ x.step = "subscribed"
                <5>1. u \in Onboarding!Others(v, {"subscribed"})
                    BY <2>3, <3>1, <4>1 DEF Onboarding!Others
                <5>2. QED
                    BY <1>5, <4>1, <5>1 DEF UsesLeft
            <4>2. CASE ~uses
                BY <1>5, <4>2 DEF UsesLeft
            <4>3. QED
                BY <4>1, <4>2
        <3>4. VisitRight(x)'
            BY <1>5, <3>1, <3>2, <3>3 DEF VisitRight
        <3>5. QED
            BY <3>1, <3>4
    <2>4. QED
        BY <1>7, <2>1, <2>2, <2>3
<1>13. Onboarding!WorkspacesAreWhole'
    <2>1. plan.here
        BY <1>1 DEF VisitRight
    <2>2. QED
        BY <1>5, <1>e, <2>1 DEF OfferInv, Onboarding!WorkspacesAreWhole
<1>14. Onboarding!ShownIsCharged'
    <2>1. w.charged = w.shown \/ w.excused
        BY <1>1, <1>3 DEF VisitRight
    <2>2. w.email \notin usages
        BY <1>e, <1>u DEF Onboarding!TakenEmails
    <2>3. w.email \in usages' <=> w.deducted > 0 /\ ~w.trial
        BY <1>3, <1>4, <1>5, <2>2
    <2>4. \A x \in workspace : x.email \in usages' <=> x.email \in usages
        BY <1>3, <1>5, <1>e
    <2>5. QED
        BY <1>5, <2>1, <2>3, <2>4 DEF OfferInv, Onboarding!ShownIsCharged
<1>15. Onboarding!LimitHolds'
    <2>1. CASE ~uses
        BY <1>5, <2>1 DEF OfferInv, Onboarding!LimitHolds
    <2>2. CASE uses
        <3>1. UsesLeft
            BY <1>1, <1>4, <2>2 DEF VisitRight
        <3>2. IsFiniteSet(usages') /\ Cardinality(usages') <= Cardinality(usages) + 1
            BY <1>5, <1>u, <2>2, FS_AddElement
        <3>3. Cardinality(usages') \in Nat
            BY <3>2, FS_CardinalityType
        <3>4. coupon.rule.limit = NoPrice \/ coupon.rule.limit \in Int
            BY DEF OfferInv, OfferRows
        <3>5. recreated \/ crossed \/ coupon.rule.limit = NoPrice \/ Cardinality(usages') <= coupon.rule.limit
            BY <1>u, <3>1, <3>2, <3>3, <3>4 DEF UsesLeft
        <3>6. Onboarding!Cardinality(usages') = Cardinality(usages')
            BY CountedAlike
        <3>7. QED
            BY <1>5, <3>5, <3>6 DEF Onboarding!LimitHolds
    <2>3. QED
        BY <2>1, <2>2
<1>16. QED
    BY <1>9, <1>10, <1>11, <1>12, <1>13, <1>14, <1>15 DEF OfferInv

\* An edit of the plan or the coupon excuses whoever is on his way.
LEMMA AllExcused ==
    ASSUME OfferInv, signup' = Onboarding!Excused(Visitors)
    PROVE  /\ DOMAIN signup' = Visitors
           /\ \A u \in Visitors :
                /\ Visit(signup'[u]) /\ signup'[u].step = signup[u].step
                /\ signup[u].step \in Trying => signup'[u].email = signup[u].email
                /\ signup[u].step \in {"plan", "subscribed"} => signup'[u].slug = signup[u].slug
                /\ signup[u].step \in Before => signup'[u].excused
                /\ signup[u].step = "subscribed" => signup'[u] = signup[u]
<1>1. ASSUME NEW u \in Visitors
      PROVE  /\ Visit(signup'[u]) /\ signup'[u].step = signup[u].step
             /\ signup[u].step \in Trying => signup'[u].email = signup[u].email
             /\ signup[u].step \in {"plan", "subscribed"} => signup'[u].slug = signup[u].slug
             /\ signup[u].step \in Before => signup'[u].excused
             /\ signup[u].step = "subscribed" => signup'[u] = signup[u]
    <2>1. PICK x, yes : x = signup[u] /\ Visit(x) /\ yes = TRUE
        BY DEF OfferInv, VisitRight
    <2>2. x.step \in Before \union {"away", "subscribed"}
        BY <2>1 DEF Visit, Before, Onboarding!Away
    <2>3. CASE x.step \in {"away", "subscribed"}
        <3>1. signup'[u] = x
            BY <2>1, <2>3 DEF Onboarding!Excused
        <3>2. QED
            BY <2>1, <2>3, <3>1 DEF Before
    <2>4. CASE x.step \in Before
        <3>1. PICK y : y = [x EXCEPT !.excused = yes]
            OBVIOUS
        <3>2. /\ Visit(y) /\ y.step = x.step /\ y.email = x.email /\ y.excused = yes
              /\ x.step \in {"tenant", "plan"} => y.slug = x.slug
            BY <2>1, <2>4, <3>1, ExcusedVisit
        <3>3. signup'[u] = y
            BY <2>1, <2>4, <3>1 DEF Onboarding!Excused, Before
        <3>4. QED
            BY <2>1, <2>4, <3>2, <3>3 DEF Before
    <2>5. QED
        BY <2>2, <2>3, <2>4
<1>2. QED
    BY <1>1 DEF Onboarding!Excused

LEMMA AdminKeeps ==
    ASSUME OfferInv,
           \/ Onboarding!SavePlan \/ Onboarding!DeletePlan \/ Onboarding!SaveTrialConfig
           \/ Onboarding!SaveCoupon \/ Onboarding!DeleteCoupon \/ Onboarding!SaveDiscount
    PROVE  OfferInv'
<1>v. \A u \in Visitors : VisitRight(signup[u])
    BY DEF OfferInv
<1>c. UNCHANGED <<workspace, crossed>>
    BY DEF Onboarding!SavePlan, Onboarding!DeletePlan, Onboarding!SaveTrialConfig, Onboarding!SaveCoupon,
       Onboarding!DeleteCoupon, Onboarding!SaveDiscount, Onboarding!Edit, Onboarding!books
<1>0. CASE UNCHANGED <<plan, coupon, usages, recreated, signup>>
    <2>1. \A y : VisitRight(y) => VisitRight(y)'
        BY <1>0, <1>c DEF VisitRight, ShownStill, UsesLeft, Onboarding!DialogAccepts, Onboarding!DialogPrice, Onboarding!IsValidNow
    <2>2. \A u \in Visitors : VisitRight(signup[u])'
        BY <1>0, <1>v, <2>1
    <2>3. QED
        BY <1>0, <1>c, <2>2 DEF OfferInv, OfferRows, AddressesOwn, SlugsOwn, Onboarding!TakenEmails,
           Onboarding!WorkspacesAreWhole, Onboarding!ShownIsCharged, Onboarding!LimitHolds
<1>e. ASSUME signup' = Onboarding!Excused(Visitors), OfferRows', UsesLeft => UsesLeft',
             plan.here => plan'.here,
             Onboarding!ShownIsCharged', Onboarding!LimitHolds'
      PROVE  OfferInv'
    <2>1. \A u \in Visitors :
            /\ Visit(signup'[u]) /\ signup'[u].step = signup[u].step
            /\ signup[u].step \in Trying => signup'[u].email = signup[u].email
            /\ signup[u].step \in {"plan", "subscribed"} => signup'[u].slug = signup[u].slug
            /\ signup[u].step \in Before => signup'[u].excused
            /\ signup[u].step = "subscribed" => signup'[u] = signup[u]
        BY <1>e, AllExcused
    <2>2. AddressesOwn' /\ SlugsOwn'
        BY <1>c, <2>1 DEF OfferInv, AddressesOwn, SlugsOwn
    <2>3. ASSUME NEW u \in Visitors PROVE VisitRight(signup[u])'
        <3>1. PICK x, y : x = signup[u] /\ y = signup'[u] /\ VisitRight(x)
            BY <1>v
        <3>2. /\ Visit(y) /\ y.step = x.step /\ (x.step \in Before => y.excused)
              /\ x.step = "subscribed" => y = x
            BY <2>1, <3>1
        <3>3. VisitRight(y)'
            BY <1>e, <3>1, <3>2 DEF VisitRight, Before
        <3>4. QED
            BY <3>1, <3>3
    <2>4. Onboarding!WorkspacesAreWhole'
        BY <1>c, <1>e DEF OfferInv, Onboarding!WorkspacesAreWhole
    <2>5. QED
        BY <1>e, <2>2, <2>3, <2>4 DEF OfferInv
<1>1. CASE Onboarding!SavePlan
    <2>1. PICK yes : yes = TRUE
        OBVIOUS
    <2>2. PICK shown, price, listed :
            price \in Nat /\ plan' = [here |-> yes, status |-> shown, price |-> price, row |-> listed]
        BY <1>1, <2>1, OffersAssumption DEF Onboarding!SavePlan, OffersAssumption
    <2>3. signup' = Onboarding!Excused(Visitors) /\ UNCHANGED <<coupon, usages, recreated>>
        BY <1>1 DEF Onboarding!SavePlan, Onboarding!books
    <2>4. OfferRows'
        BY <1>c, <2>2, <2>3, AllExcused DEF OfferInv, OfferRows, Onboarding!TakenEmails
    <2>5. plan'.here /\ (UsesLeft => UsesLeft')
        BY <1>c, <2>1, <2>2, <2>3 DEF UsesLeft
    <2>6. Onboarding!ShownIsCharged' /\ Onboarding!LimitHolds'
        BY <1>c, <2>3 DEF OfferInv, Onboarding!ShownIsCharged, Onboarding!LimitHolds
    <2>7. QED
        BY <1>e, <2>3, <2>4, <2>5, <2>6
<1>2. CASE Onboarding!DeletePlan
    <2>1. PICK no : no = FALSE
        OBVIOUS
    <2>2. plan' = [plan EXCEPT !.here = no]
        BY <1>2, <2>1 DEF Onboarding!DeletePlan
    <2>3. /\ workspace = {} /\ \A v \in Visitors : signup[v].step # "subscribed"
          /\ UNCHANGED <<coupon, usages, recreated, signup>>
        BY <1>2 DEF Onboarding!DeletePlan, Onboarding!books
    <2>4. plan' = [here |-> no, status |-> plan.status, price |-> plan.price, row |-> plan.row]
        BY <2>2 DEF OfferInv, OfferRows
    <2>5. OfferRows'
        BY <1>c, <2>3, <2>4 DEF OfferInv, OfferRows, Onboarding!TakenEmails
    <2>6. ASSUME NEW u \in Visitors PROVE VisitRight(signup[u])'
        <3>1. PICK x : x = signup[u] /\ x = signup'[u] /\ VisitRight(x) /\ x.step # "subscribed"
            BY <1>v, <2>3
        <3>2. ShownStill(x) => ShownStill(x)'
            BY <2>3, <2>4 DEF ShownStill, Onboarding!DialogAccepts, Onboarding!DialogPrice, Onboarding!IsValidNow
        <3>3. VisitRight(x)'
            BY <3>1, <3>2 DEF VisitRight
        <3>4. QED
            BY <3>1, <3>3
    <2>7. AddressesOwn' /\ SlugsOwn' /\ Onboarding!WorkspacesAreWhole' /\ Onboarding!ShownIsCharged' /\ Onboarding!LimitHolds'
        BY <1>c, <2>3 DEF OfferInv, AddressesOwn, SlugsOwn, Onboarding!WorkspacesAreWhole,
           Onboarding!ShownIsCharged, Onboarding!LimitHolds
    <2>8. QED
        BY <2>5, <2>6, <2>7 DEF OfferInv
<1>3. CASE Onboarding!SaveTrialConfig \/ Onboarding!SaveDiscount
    BY <1>0, <1>3 DEF Onboarding!SaveTrialConfig, Onboarding!SaveDiscount, Onboarding!books
<1>4. ASSUME recreated' = TRUE, signup' = Onboarding!Excused(Visitors), UNCHANGED plan, OfferRows'
      PROVE  OfferInv'
    BY <1>c, <1>e, <1>4 DEF OfferInv, UsesLeft, Onboarding!ShownIsCharged, Onboarding!LimitHolds
<1>5. CASE Onboarding!SaveCoupon
    <2>1. recreated' = TRUE /\ signup' = Onboarding!Excused(Visitors) /\ UNCHANGED <<plan, usages>>
        BY <1>5 DEF Onboarding!SaveCoupon
    <2>2. \E here, active, rule : /\ coupon' = [here |-> here, active |-> active, rule |-> rule]
                                  /\ rule \in Coupons \/ rule = coupon.rule
        <3>1. \/ \E rule \in Coupons, on \in BOOLEAN : coupon' = [here |-> TRUE, active |-> on, rule |-> rule]
              \/ coupon' = [coupon EXCEPT !.active = ~@]
            BY <1>5 DEF Onboarding!SaveCoupon
        <3>2. ASSUME coupon' = [coupon EXCEPT !.active = ~@]
              PROVE  \E here, active, rule : /\ coupon' = [here |-> here, active |-> active, rule |-> rule]
                                             /\ rule \in Coupons \/ rule = coupon.rule
            <4>1. PICK b : b = ~coupon.active
                OBVIOUS
            <4>2. coupon' = [coupon EXCEPT !.active = b]
                BY <3>2, <4>1
            <4>3. coupon' = [here |-> coupon.here, active |-> b, rule |-> coupon.rule]
                BY <4>2 DEF OfferInv, OfferRows
            <4>4. QED
                BY <4>3
        <3>3. QED
            BY <3>1, <3>2
    <2>3. PICK here, active, rule : /\ coupon' = [here |-> here, active |-> active, rule |-> rule]
                                    /\ rule \in Coupons \/ rule = coupon.rule
        BY <2>2
    <2>4. rule.limit = NoPrice \/ rule.limit \in Int
        BY <2>3, RuleLimits DEF OfferInv, OfferRows
    <2>5. OfferRows'
        BY <1>c, <2>1, <2>3, <2>4, AllExcused DEF OfferInv, OfferRows, Onboarding!TakenEmails
    <2>6. QED
        BY <1>4, <2>1, <2>5
<1>6. CASE Onboarding!DeleteCoupon
    <2>1. recreated' = TRUE /\ signup' = Onboarding!Excused(Visitors) /\ UNCHANGED plan /\ usages' = {}
        BY <1>6 DEF Onboarding!DeleteCoupon
    <2>2. PICK no : no = FALSE /\ coupon' = [coupon EXCEPT !.here = no]
        BY <1>6 DEF Onboarding!DeleteCoupon
    <2>3. coupon' = [here |-> no, active |-> coupon.active, rule |-> coupon.rule]
        BY <2>2 DEF OfferInv, OfferRows
    <2>4. OfferRows'
        BY <1>c, <2>1, <2>3, AllExcused, FS_EmptySet DEF OfferInv, OfferRows, Onboarding!TakenEmails
    <2>5. QED
        BY <1>4, <2>1, <2>4
<1>7. QED
    BY <1>1, <1>2, <1>3, <1>5, <1>6

LEMMA OfferNext == OfferInv /\ [Onboarding!Next]_signupVars => OfferInv'
<1> SUFFICES ASSUME OfferInv, [Onboarding!Next]_signupVars PROVE OfferInv'
    OBVIOUS
<1>1. CASE UNCHANGED signupVars
    <2>1. UNCHANGED <<plan, coupon, usages, signup, workspace, recreated, crossed>>
        BY <1>1 DEF signupVars
    <2>2. \A y : VisitRight(y) => VisitRight(y)'
        BY <2>1 DEF VisitRight, ShownStill, UsesLeft, Onboarding!DialogAccepts, Onboarding!DialogPrice, Onboarding!IsValidNow
    <2>3. \A u \in Visitors : VisitRight(signup[u])'
        BY <2>1, <2>2 DEF OfferInv
    <2>4. QED
        BY <2>1, <2>3 DEF OfferInv, OfferRows, AddressesOwn, SlugsOwn, Onboarding!TakenEmails,
           Onboarding!WorkspacesAreWhole, Onboarding!ShownIsCharged, Onboarding!LimitHolds
<1>2. CASE Onboarding!Next
    <2>1. ASSUME NEW tenant \in Emails,
                 \/ \E withCoupon \in BOOLEAN : Onboarding!Quote(tenant, withCoupon)
                 \/ Onboarding!Upgrade(tenant) \/ Onboarding!VerifyPayment(tenant)
          PROVE  UNCHANGED signupVars
        BY <2>1 DEF Onboarding!Quote, Onboarding!Upgrade, Onboarding!VerifyPayment, Onboarding!RenewOrUpgrade,
           Onboarding!vars, signupVars
    <2>2. QED
        BY <1>1, <1>2, <2>1, WizardKeeps, InsertsKeep, SubscriptionKeeps, CommitKeeps, AdminKeeps DEF Onboarding!Next
<1>3. QED
    BY <1>1, <1>2

\* The sign-up and the upgrade screen deduct alike.
LEMMA DeductAlike == Onboarding!PricesAgree
<1> SUFFICES ASSUME NEW tenant \in Emails, override = NoPrice, plan.row = NoPrice,
                    \A d \in discounts : ~Onboarding!IsValidFor(d, tenant),
                    Onboarding!Capped(coupon.rule, plan.price) = Onboarding!Deduction(coupon.rule, plan.price),
                    Onboarding!EngineAccepts(tenant, plan.price), Onboarding!SignupDeduction(TRUE) > 0,
                    NEW p \in Onboarding!EffectivePrice(tenant, TRUE)
             PROVE  p.before = Onboarding!AtLeastZero(Onboarding!SignupAmount - Onboarding!SignupDeduction(TRUE))
    BY DEF Onboarding!PricesAgree
<1>1. Onboarding!SignupAmount = plan.price
    BY DEF Onboarding!SignupAmount
<1>2. Onboarding!SignupDeduction(TRUE) = Onboarding!Deduction(coupon.rule, plan.price)
    BY <1>1 DEF Onboarding!SignupDeduction
<1>3. p.before = Onboarding!AtLeastZero(plan.price - Onboarding!Deduction(coupon.rule, plan.price))
    BY DEF Onboarding!EffectivePrice
<1>4. QED
    BY <1>1, <1>2, <1>3

\* For any visitors, addresses, names, prices, coupons, discounts and edits by the super
\* admin, and without the run's choice of first states: committed workspaces are whole and at the price that was shown, a coupon stays within its limit, and the two
\* reckonings of a price agree, save for the exceptions they list
\* (provision_workspace, create_subscription, PricingEngine).
THEOREM OffersKept == Onboarding!Init /\ [][Onboarding!Next]_signupVars => []OffersAreKept
<1>1. OfferInv => OffersAreKept
    BY DeductAlike DEF OfferInv, OffersAreKept, Onboarding!OffersAreKept
<1>2. QED
    BY <1>1, OfferInit, OfferNext, PTL

\* The same of the run's own specification, whose first states are some of these.
COROLLARY OffersKeptInBackground == BackgroundSpec => []OffersAreKept
BY OffersKept, SignupSteps, PTL
=============================================================================
