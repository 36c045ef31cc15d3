----------------------------- MODULE Dispatcher -----------------------------
(***************************************************************************)
(* The asynchronous dispatchers of the storage engine: mirror replication  *)
(* (internal/storage/sync.go) and webhooks (webhook.go) are the same       *)
(* machine.  Requests put events into a bounded queue; a pool of workers,  *)
(* started with the first event, makes the first attempt of each; a failed *)
(* attempt schedules the next one on a timer of its own.  Shutdown closes  *)
(* the queue and waits on a WaitGroup for workers and timers.              *)
(*                                                                         *)
(* What an attempt does (an HTTP request to the mirror or the webhook) is  *)
(* reduced to whether it succeeds.                                         *)
(***************************************************************************)
EXTENDS Naturals, Sequences, FiniteSets

CONSTANTS Events,      \* calls of MirrorSync / triggerWebhook
          Workers,     \* worker goroutines (syncWorkerCount)
          Stoppers,    \* calls of StopSyncDispatcher / StopWebhookDispatcher
          QueueSize,   \* capacity of the channel
          MaxRetries,  \* attempts after the first one
          None

(* Goroutine <<e, n>> is the timer that makes the n-th retry of event e.   *)
Timers == Events \X (1..MaxRetries)
Goroutines == Workers \cup Timers

ASSUME DispatcherAssumption ==
    /\ IsFiniteSet(Events) /\ IsFiniteSet(Workers) /\ Workers # {}
    /\ Workers \cap Timers = {}
    /\ QueueSize \in Nat /\ MaxRetries \in Nat
    /\ None \notin Events

VARIABLES outcome,   \* outcome[e]: what has become of the event
          queue,     \* fs.syncQueue / fs.webhookQueue
          closed,    \* the channel is closed
          shutting,  \* isSyncShuttingDown / isWebhookShuttingDown
          started,   \* syncOnce / webhookOnce has run
          state,     \* state[g]: where goroutine g is
          task,      \* task[g]: the event g is working on
          wg,        \* the counter of syncWG / webhookWG
          stop       \* stop[s]: progress of a Stop call

vars == <<outcome, queue, closed, shutting, started, state, task, wg, stop>>

(* The goroutines the WaitGroup counts.  An idle worker and a timer that   *)
(* has not fired yet are both "waiting".                                   *)
Live == {g \in Goroutines : state[g] \in {"waiting", "attempting", "retrying", "leaving"}}

Init ==
    /\ outcome = [e \in Events |-> "new"]
    /\ queue = <<>>
    /\ closed = FALSE /\ shutting = FALSE /\ started = FALSE
    /\ state = [g \in Goroutines |-> "off"]
    /\ task = [g \in Goroutines |-> IF g \in Timers THEN g[1] ELSE None]
    /\ wg = 0
    /\ stop = [s \in Stoppers |-> "new"]

(* syncMu / webhookMu is held by the call that is about to send. *)
MutexFree == \A e \in Events : outcome[e] # "sending"
-----------------------------------------------------------------------------
(***************************************************************************)
(* MirrorSync / triggerWebhook, under the mutex: refuse once shutdown has  *)
(* begun, start the workers with the first event,                          *)
(***************************************************************************)
Trigger(e) ==
    /\ outcome[e] = "new"
    /\ MutexFree
    /\ IF shutting
       THEN /\ outcome' = [outcome EXCEPT ![e] = "refused"]
            /\ UNCHANGED <<started, state, wg>>
       ELSE /\ outcome' = [outcome EXCEPT ![e] = "sending"]
            /\ started' = TRUE
            /\ IF started
               THEN UNCHANGED <<state, wg>>
               ELSE /\ state' = [g \in Goroutines |-> IF g \in Workers THEN "waiting" ELSE state[g]]
                    /\ wg' = wg + Cardinality(Workers)
    /\ UNCHANGED <<queue, closed, shutting, task, stop>>

(* and send without blocking: a full queue drops the event.  (Sending on a *)
(* closed channel would panic: NoSendOnClosed.)                            *)
Enqueue(e) ==
    /\ outcome[e] = "sending"
    /\ IF Len(queue) < QueueSize
       THEN /\ queue' = Append(queue, e)
            /\ outcome' = [outcome EXCEPT ![e] = "accepted"]
       ELSE /\ outcome' = [outcome EXCEPT ![e] = "dropped"]
            /\ UNCHANGED queue
    /\ UNCHANGED <<closed, shutting, started, state, task, wg, stop>>
-----------------------------------------------------------------------------
(***************************************************************************)
(* The worker loop: for task := range queue.                               *)
(***************************************************************************)
Take(w) ==
    /\ w \in Workers /\ state[w] = "waiting"
    /\ queue # <<>>
    /\ task' = [task EXCEPT ![w] = Head(queue)]
    /\ queue' = Tail(queue)
    /\ state' = [state EXCEPT ![w] = "attempting"]
    /\ UNCHANGED <<outcome, closed, shutting, started, wg, stop>>

ExitUndrained(w) ==
    /\ w \in Workers /\ state[w] = "waiting"
    /\ closed
    /\ state' = [state EXCEPT ![w] = "gone"]
    /\ wg' = wg - 1
    /\ UNCHANGED <<outcome, queue, closed, shutting, started, task, stop>>

Exit(w) ==
    /\ w \in Workers /\ state[w] = "waiting"
    /\ closed /\ queue = <<>>
    /\ state' = [state EXCEPT ![w] = "gone"]
    /\ wg' = wg - 1
    /\ UNCHANGED <<outcome, queue, closed, shutting, started, task, stop>>

(* time.AfterFunc runs the retry. *)
Fire(g) ==
    /\ g \in Timers /\ state[g] = "waiting"
    /\ state' = [state EXCEPT ![g] = "attempting"]
    /\ UNCHANGED <<outcome, queue, closed, shutting, started, task, wg, stop>>

(* After its attempt a worker goes back to its loop, a timer to its        *)
(* deferred Done.                                                          *)
Rest(g) == IF g \in Workers THEN "waiting" ELSE "leaving"
Forget(g) == task' = [task EXCEPT ![g] = IF g \in Workers THEN None ELSE @]

Settle(g, result) ==
    /\ outcome' = [outcome EXCEPT ![task[g]] = result]
    /\ state' = [state EXCEPT ![g] = Rest(g)]
    /\ Forget(g)

Succeed(g) ==
    /\ state[g] = "attempting"
    /\ Settle(g, "delivered")
    /\ UNCHANGED <<queue, closed, shutting, started, wg, stop>>

(* The attempt failed: attemptSync / sendWebhookEvent gives up during      *)
(* shutdown and after the last retry,                                      *)
Attempt(g) == IF g \in Workers THEN 0 ELSE g[2]

Fail(g) ==
    /\ state[g] = "attempting"
    /\ IF shutting \/ Attempt(g) >= MaxRetries
       THEN Settle(g, "failed")
       ELSE /\ state' = [state EXCEPT ![g] = "retrying"]
            /\ UNCHANGED <<outcome, task>>
    /\ UNCHANGED <<queue, closed, shutting, started, wg, stop>>

(* and otherwise counts in and starts the timer of the next attempt.       *)
ScheduleUncounted(g) ==
    /\ state[g] = "retrying"
    /\ LET next == <<task[g], Attempt(g) + 1>>
       IN  state' = [state EXCEPT ![g] = Rest(g), ![next] = "waiting"]
    /\ Forget(g)
    /\ UNCHANGED <<outcome, queue, closed, shutting, started, wg, stop>>

Schedule(g) ==
    /\ state[g] = "retrying"
    /\ wg' = wg + 1
    /\ LET next == <<task[g], Attempt(g) + 1>>
       IN  state' = [state EXCEPT ![g] = Rest(g), ![next] = "waiting"]
    /\ Forget(g)
    /\ UNCHANGED <<outcome, queue, closed, shutting, started, stop>>

DoneForgotten(g) ==
    /\ state[g] = "leaving"
    /\ state' = [state EXCEPT ![g] = "gone"]
    /\ UNCHANGED <<outcome, queue, closed, shutting, started, task, wg, stop>>

Done(g) ==
    /\ state[g] = "leaving"
    /\ state' = [state EXCEPT ![g] = "gone"]
    /\ wg' = wg - 1
    /\ UNCHANGED <<outcome, queue, closed, shutting, started, task, stop>>
-----------------------------------------------------------------------------
(***************************************************************************)
(* StopSyncDispatcher / StopWebhookDispatcher: the flag is swapped under   *)
(* the mutex; only the first call goes on, and only if there is a queue.   *)
(***************************************************************************)
BeginUnlocked(s) ==
    /\ stop[s] = "new"
    /\ shutting' = TRUE
    /\ stop' = [stop EXCEPT ![s] = IF shutting \/ ~started THEN "skipped" ELSE "closing"]
    /\ UNCHANGED <<outcome, queue, closed, started, state, task, wg>>

Begin(s) ==
    /\ stop[s] = "new"
    /\ MutexFree
    /\ shutting' = TRUE
    /\ stop' = [stop EXCEPT ![s] = IF shutting \/ ~started THEN "skipped" ELSE "closing"]
    /\ UNCHANGED <<outcome, queue, closed, started, state, task, wg>>

(* close(q), outside the mutex. *)
CloseQueue(s) ==
    /\ stop[s] = "closing"
    /\ closed' = TRUE
    /\ stop' = [stop EXCEPT ![s] = "waiting"]
    /\ UNCHANGED <<outcome, queue, shutting, started, state, task, wg>>

(* Wait returns. *)
Wait(s) ==
    /\ stop[s] = "waiting"
    /\ wg = 0
    /\ stop' = [stop EXCEPT ![s] = "returned"]
    /\ UNCHANGED <<outcome, queue, closed, shutting, started, state, task, wg>>

(* Every event has been triggered and every stopper has returned. *)
Over == /\ \A e \in Events : outcome[e] # "new"
        /\ \A s \in Stoppers : stop[s] \in {"returned", "skipped"}
        /\ Live = {}
        /\ UNCHANGED vars

Step(g) == \/ Take(g) \/ Exit(g) \/ Fire(g)
           \/ Succeed(g) \/ Fail(g) \/ Schedule(g) \/ Done(g)

Next == \/ \E e \in Events : Trigger(e) \/ Enqueue(e)
        \/ \E g \in Goroutines : Step(g)
        \/ \E s \in Stoppers : Begin(s) \/ CloseQueue(s) \/ Wait(s)
        \/ Over

Spec == Init /\ [][Next]_vars

(* Goroutines run, timers fire, and an attempt ends: the HTTP clients have *)
(* timeouts.  Nothing makes a request trigger an event, or a stop begin.   *)
Fairness ==
    /\ \A e \in Events : WF_vars(Enqueue(e))
    /\ \A g \in Goroutines : WF_vars(Step(g))
    /\ \A s \in Stoppers : WF_vars(CloseQueue(s) \/ Wait(s))

FairSpec == Spec /\ Fairness
-----------------------------------------------------------------------------
(* Every variable keeps its type; the WaitGroup counter never drops below  *)
(* zero and the queue never exceeds its capacity.                          *)
TypeOK ==
    /\ outcome \in [Events -> {"new", "refused", "sending", "dropped", "accepted",
                               "delivered", "failed"}]
    /\ queue \in Seq(Events) /\ Len(queue) <= QueueSize
    /\ closed \in BOOLEAN /\ shutting \in BOOLEAN /\ started \in BOOLEAN
    /\ state \in [Goroutines -> {"off", "waiting", "attempting", "retrying", "leaving", "gone"}]
    /\ task \in [Goroutines -> Events \cup {None}]
    /\ wg \in Nat
    /\ stop \in [Stoppers -> {"new", "skipped", "closing", "waiting", "returned"}]

(* A request that triggers an event while another goroutine shuts the      *)
(* dispatcher down never sends on the closed channel, which would panic,   *)
(* although the channel is closed outside the mutex.                       *)
NoSendOnClosed == closed => MutexFree

(* "engine.Close() must not return before that scheduled attempt has run": *)
(* when Stop returns, no accepted event is unsettled and no worker, timer  *)
(* or attempt is left that could use the engine.                           *)
StopWaits ==
    \A s \in Stoppers : stop[s] = "returned" =>
        /\ \A e \in Events : outcome[e] # "accepted"
        /\ Live = {}

(* "flushes remaining notifications": an event the queue has accepted is   *)
(* attempted until it is delivered or given up, also when the dispatcher   *)
(* is shut down meanwhile.                                                 *)
EveryEventSettles ==
    \A e \in Events : (outcome[e] = "accepted") ~> (outcome[e] \in {"delivered", "failed"})

(* Shutdown ends: nobody waits for ever for the workers and the retries.   *)
StopReturns == \A s \in Stoppers : (stop[s] = "closing") ~> (stop[s] = "returned")
=============================================================================
