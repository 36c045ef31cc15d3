--------------------------- MODULE ShutdownProofs ---------------------------
(***************************************************************************)
(* What shutdown waits for: in the dispatchers, in the server, and in both *)
(* together, for any number of events, workers, stop calls and retries,    *)
(* and of requests, log targets and callers of Shutdown.                   *)
(*                                                                         *)
(* The dispatchers: an accepted event is at one place, in the queue or     *)
(* with one goroutine (Carried, Chain), so the timer a failed attempt      *)
(* starts is a new one and the WaitGroup counts the live goroutines        *)
(* exactly (Counted).  When the counter is zero the workers are gone,      *)
(* which they are only after the closed queue was empty (Drained).         *)
(*                                                                         *)
(* The server: one call of Shutdown moves (OneOwner), what is closed       *)
(* follows from where it is (Gates), and what may still run follows from   *)
(* what is closed and whether the deadline has passed (Deadline,           *)
(* LogDrained, Reported).                                                  *)
(***************************************************************************)
EXTENDS Dispatcher, Server, FiniteSetTheorems, TLAPS

(* Goroutine g is responsible for its event. *)
Active(g) == \/ state[g] \in {"attempting", "retrying"}
             \/ g \in Timers /\ state[g] = "waiting"

(* Nobody has attempted event e yet. *)
Untried(e) == /\ \A g \in Goroutines : Active(g) => task[g] # e
              /\ \A g \in Timers : g[1] = e => state[g] = "off"

Locals ==
    /\ \A g \in Timers : task[g] = g[1]
    /\ \A g \in Goroutines : /\ Active(g) => task[g] \in Events
                             /\ state[g] = "retrying" => Attempt(g) < MaxRetries
    /\ \A w \in Workers : state[w] # "leaving"

Guards ==
    /\ closed => shutting
    /\ shutting => MutexFree
    /\ \A s \in Stoppers :
          /\ stop[s] \in {"closing", "waiting", "returned"} => shutting /\ started
          /\ stop[s] \in {"waiting", "returned"} => closed
    /\ ~started => /\ \A g \in Goroutines : state[g] = "off"
                   /\ MutexFree /\ ~closed

Chain ==
    /\ \A e \in Events : outcome[e] \in {"new", "sending"} =>
          Untried(e) /\ \A i \in 1..Len(queue) : queue[i] # e
    /\ \A i \in 1..Len(queue) : Untried(queue[i])
    /\ \A i, j \in 1..Len(queue) : queue[i] = queue[j] => i = j
    /\ \A g, h \in Goroutines : Active(g) /\ Active(h) /\ task[g] = task[h] => g = h
    /\ \A g \in Goroutines, h \in Timers :
          Active(g) /\ h[1] = task[g] /\ h[2] > Attempt(g) => state[h] = "off"

Counted == wg = Cardinality(Live)

Carried == \A e \in Events : outcome[e] = "accepted" =>
              \/ \E i \in 1..Len(queue) : queue[i] = e
              \/ \E g \in Goroutines : Active(g) /\ task[g] = e

Drained == \A w \in Workers : /\ state[w] = "gone" => closed /\ queue = <<>>
                              /\ started => state[w] # "off"

Stopped == \A s \in Stoppers : stop[s] = "returned" => Live = {}

Inv == /\ TypeOK /\ Locals /\ Guards /\ Chain
       /\ Counted /\ Carried /\ Drained /\ Stopped
-----------------------------------------------------------------------------
LEMMA LiveFinite == IsFiniteSet(Live)
  <1>0. 1 \in Int /\ MaxRetries \in Int
    BY DispatcherAssumption
  <1>1. IsFiniteSet(1..MaxRetries)
    BY <1>0, FS_Interval
  <1>2. IsFiniteSet(Timers)
    BY <1>1, FS_Product, DispatcherAssumption DEF Timers
  <1>3. IsFiniteSet(Goroutines)
    BY <1>2, FS_Union, DispatcherAssumption DEF Goroutines
  <1> QED
    BY <1>3, FS_Subset DEF Live

LEMMA InitInv == Init => Inv
  <1> SUFFICES ASSUME Init PROVE Inv
    OBVIOUS
  <1> USE DispatcherAssumption
  <1>1. TypeOK
    <2>1. queue \in Seq(Events) /\ Len(queue) <= QueueSize
      BY DEF Init
    <2>2. task \in [Goroutines -> Events \cup {None}]
      <3>1. \A g \in Timers : g[1] \in Events
        BY DEF Timers
      <3> QED
        BY <3>1 DEF Init
    <2> QED
      BY <2>1, <2>2 DEF Init, TypeOK
  <1>2. Live = {}
    BY DEF Init, Live
  <1>3. Locals /\ Guards /\ Carried /\ Drained /\ Stopped
    BY <1>2 DEF Init, Locals, Guards, Carried, Drained, Stopped, Active, MutexFree, Goroutines
  <1>4. Chain
    BY DEF Init, Chain, Active, Untried, Goroutines
  <1>5. Counted
    BY <1>2, FS_EmptySet DEF Init, Counted
  <1> QED
    BY <1>1, <1>3, <1>4, <1>5 DEF Inv

(* Steps of requests and stop calls, which leave the goroutines alone. *)
LEMMA EnqueueInv == ASSUME Inv, NEW e \in Events, Enqueue(e) PROVE Inv'
  <1> USE DispatcherAssumption DEF Inv, Enqueue
  <1>1. TypeOK'
    <2>1. queue' \in Seq(Events) /\ Len(queue') <= QueueSize
      <3>1. queue \in Seq(Events) /\ Len(queue) \in Nat /\ Len(queue) <= QueueSize
        BY DEF TypeOK
      <3>2. CASE Len(queue) < QueueSize
        <4>1. queue' = Append(queue, e)
          BY <3>2
        <4>2. Append(queue, e) \in Seq(Events) /\ Len(Append(queue, e)) = Len(queue) + 1
          BY <3>1
        <4> QED
          BY <3>1, <3>2, <4>1, <4>2
      <3>3. CASE ~(Len(queue) < QueueSize)
        BY <3>1, <3>3
      <3> QED
        BY <3>2, <3>3
    <2>2. \E r \in {"accepted", "dropped"} : outcome' = [outcome EXCEPT ![e] = r]
      OBVIOUS
    <2> QED
      BY <2>1, <2>2 DEF TypeOK
  <1>2. /\ Live' = Live
        /\ \A g \in Goroutines : Active(g)' = Active(g)
        /\ \A f : Untried(f)' = Untried(f)
    BY DEF Live, Active, Untried
  <1>3. ~closed /\ started /\ ~shutting
    BY DEF Guards, MutexFree
  <1>4. Locals' /\ Guards'
    BY <1>2, <1>3 DEF Locals, Guards, MutexFree, TypeOK, Attempt
  <1>5. Counted' /\ Stopped'
    BY <1>2 DEF Counted, Stopped
  <1>6. Drained'
    BY <1>3 DEF Drained
  <1>7. CASE Len(queue) < QueueSize
    <2>1. /\ queue \in Seq(Events)
          /\ queue' = Append(queue, e)
          /\ outcome' = [outcome EXCEPT ![e] = "accepted"]
      BY <1>7 DEF TypeOK
    <2>2. /\ Len(queue') = Len(queue) + 1
          /\ \A i \in 1..Len(queue) : queue'[i] = queue[i]
          /\ queue'[Len(queue) + 1] = e
      BY <2>1
    <2>3. Chain'
      BY <1>2, <2>1, <2>2 DEF Chain, TypeOK, Attempt
    <2>4. Carried'
      BY <1>2, <2>1, <2>2 DEF Carried, TypeOK
    <2> QED
      BY <1>1, <1>4, <1>5, <1>6, <2>3, <2>4
  <1>8. CASE ~(Len(queue) < QueueSize)
    <2>1. queue' = queue /\ outcome' = [outcome EXCEPT ![e] = "dropped"]
      BY <1>8
    <2>2. Chain' /\ Carried'
      BY <1>2, <2>1 DEF Chain, Carried, TypeOK, Attempt
    <2> QED
      BY <1>1, <1>4, <1>5, <1>6, <2>2
  <1> QED
    BY <1>7, <1>8

LEMMA TriggerInv == ASSUME Inv, NEW e \in Events, Trigger(e) PROVE Inv'
  <1> USE DispatcherAssumption DEF Inv
  <1>1. CASE shutting \/ started
    <2>1. /\ UNCHANGED <<queue, closed, shutting, state, task, wg, stop, started>>
          /\ outcome' = [outcome EXCEPT ![e] = IF shutting THEN "refused" ELSE "sending"]
      BY <1>1 DEF Trigger, TypeOK
    <2>2. /\ Live' = Live
          /\ \A g \in Goroutines : Active(g)' = Active(g)
          /\ \A f : Untried(f)' = Untried(f)
      BY <2>1 DEF Live, Active, Untried
    <2>3. TypeOK' /\ Locals' /\ Counted' /\ Stopped' /\ Drained'
      BY <2>1, <2>2 DEF TypeOK, Locals, Counted, Stopped, Drained, Attempt
    <2>4. Guards'
      BY <1>1, <2>1, <2>2 DEF Guards, MutexFree, TypeOK
    <2>5. Chain' /\ Carried'
      BY <2>1, <2>2 DEF Chain, Carried, TypeOK, Attempt, Trigger
    <2> QED
      BY <2>3, <2>4, <2>5
  <1>2. CASE ~shutting /\ ~started
    <2>1. /\ UNCHANGED <<queue, closed, shutting, task, stop>>
          /\ started'
          /\ outcome' = [outcome EXCEPT ![e] = "sending"]
          /\ state' = [g \in Goroutines |-> IF g \in Workers THEN "waiting" ELSE state[g]]
          /\ wg' = wg + Cardinality(Workers)
      BY <1>2 DEF Trigger
    <2>2. \A g \in Goroutines : state[g] = "off"
      BY <1>2 DEF Guards
    <2>3. Live = {} /\ Live' = Workers
      BY <2>1, <2>2 DEF Live, Goroutines
    <2>4. wg = 0 /\ Cardinality(Workers) \in Nat
      BY <2>3, FS_EmptySet, FS_CardinalityType DEF Counted
    <2>5. TypeOK'
      BY <2>1, <2>4 DEF TypeOK
    <2>6. \A g \in Goroutines : ~Active(g) /\ ~Active(g)'
      BY <2>1, <2>2 DEF Active, Goroutines
    <2>7. \A f : Untried(f)'
      BY <2>1, <2>2, <2>6 DEF Untried, Goroutines
    <2>8. Locals' /\ Drained'
      BY <2>1, <2>2, <2>6 DEF Locals, Drained, Goroutines
    <2>9. Guards' /\ Stopped'
      BY <1>2, <2>1 DEF Guards, MutexFree, TypeOK, Stopped
    <2>10. Chain' /\ Carried'
      BY <2>1, <2>6, <2>7 DEF Chain, Carried, TypeOK, Trigger
    <2>11. Counted'
      BY <2>1, <2>3, <2>4 DEF Counted
    <2> QED
      BY <2>5, <2>8, <2>9, <2>10, <2>11
  <1> QED
    BY <1>1, <1>2

LEMMA StopInv ==
    ASSUME Inv, NEW s \in Stoppers, Begin(s) \/ CloseQueue(s) \/ Wait(s)
    PROVE  Inv'
  <1> USE DispatcherAssumption DEF Inv
  <1>1. UNCHANGED <<outcome, queue, started, state, task, wg>>
    BY DEF Begin, CloseQueue, Wait
  <1>2. /\ Live' = Live
        /\ \A g \in Goroutines : Active(g)' = Active(g)
        /\ \A f : Untried(f)' = Untried(f)
    BY <1>1 DEF Live, Active, Untried
  <1>3. TypeOK'
    BY <1>1 DEF TypeOK, Begin, CloseQueue, Wait
  <1>4. Locals' /\ Counted' /\ Chain' /\ Carried'
    BY <1>1, <1>2 DEF Locals, Counted, Chain, Carried, Attempt
  <1>5. Guards' /\ Drained'
    BY <1>1 DEF Guards, Drained, MutexFree, Begin, CloseQueue, Wait, TypeOK
  <1>6. wg = 0 => Live = {}
    BY LiveFinite, FS_EmptySet DEF Counted
  <1>7. Stopped'
    BY <1>1, <1>2, <1>6 DEF Stopped, Begin, CloseQueue, Wait, TypeOK
  <1> QED
    BY <1>3, <1>4, <1>5, <1>7
-----------------------------------------------------------------------------
(* A worker takes the head of the queue, which nobody has tried. *)
LEMMA TakeInv == ASSUME Inv, NEW w \in Goroutines, Take(w) PROVE Inv'
  <1> USE DispatcherAssumption DEF Inv
  <1> DEFINE e == Head(queue)
  <1>1. /\ w \in Workers /\ w \notin Timers /\ state[w] = "waiting"
        /\ queue \in Seq(Events) /\ queue # <<>> /\ Len(queue) <= QueueSize
        /\ task' = [task EXCEPT ![w] = e]
        /\ queue' = Tail(queue)
        /\ state' = [state EXCEPT ![w] = "attempting"]
        /\ UNCHANGED <<outcome, closed, shutting, started, wg, stop>>
    BY DEF Take, TypeOK
  <1>2. /\ e \in Events /\ e = queue[1]
        /\ Tail(queue) \in Seq(Events)
        /\ Len(queue) \in Nat \ {0} /\ Len(queue') = Len(queue) - 1
        /\ \A i \in 1..Len(queue') : queue'[i] = queue[i + 1]
    BY <1>1
  <1>3. TypeOK'
    BY <1>1, <1>2 DEF TypeOK
  <1>4. Live' = Live
    BY <1>1 DEF Live, TypeOK
  <1>5. /\ \A g \in Goroutines \ {w} : Active(g)' = Active(g) /\ task'[g] = task[g]
        /\ Active(w)' /\ ~Active(w) /\ task'[w] = e
    BY <1>1 DEF Active, TypeOK
  <1>6. Untried(e)
    BY <1>2 DEF Chain
  <1>7. \A f : f # e /\ Untried(f) => Untried(f)'
    BY <1>1, <1>5 DEF Untried, TypeOK, Goroutines
  <1>8. Locals'
    BY <1>1, <1>2, <1>5 DEF Locals, Attempt, TypeOK
  <1>9. Guards'
    BY <1>1 DEF Guards, MutexFree, TypeOK
  <1>10. Counted' /\ Stopped'
    BY <1>1, <1>4 DEF Counted, Stopped
  <1>11. Drained'
    BY <1>1 DEF Drained, TypeOK
  <1>12. Chain'
    <2>1. ASSUME NEW f \in Events, outcome'[f] \in {"new", "sending"}
          PROVE  Untried(f)' /\ \A i \in 1..Len(queue') : queue'[i] # f
      BY <1>1, <1>2, <1>7, <2>1 DEF Chain
    <2>a. \A i, j \in 1..Len(queue) : queue[i] = queue[j] => i = j
      BY DEF Chain
    <2>b. \A i \in 1..Len(queue') : i + 1 \in 1..Len(queue) /\ queue'[i] = queue[i + 1] /\ i + 1 # 1
      BY <1>2
    <2>2. \A f : (\E i \in 1..Len(queue') : f = queue'[i]) => Untried(f)'
      BY <1>2, <1>7, <2>a, <2>b DEF Chain
    <2>3. \A i, j \in 1..Len(queue') : queue'[i] = queue'[j] => i = j
      <3> SUFFICES ASSUME NEW i \in 1..Len(queue'), NEW j \in 1..Len(queue'),
                          queue'[i] = queue'[j]
                   PROVE  i = j
        OBVIOUS
      <3>1. i + 1 = j + 1
        BY <2>a, <2>b
      <3>2. i \in Int /\ j \in Int
        BY <1>2
      <3> QED
        BY <3>1, <3>2
    <2>4. \A g, h \in Goroutines : Active(g)' /\ Active(h)' /\ task'[g] = task'[h] => g = h
      BY <1>5, <1>6 DEF Chain, Untried
    <2>5. \A g \in Goroutines, h \in Timers :
             Active(g)' /\ h[1] = task'[g] /\ h[2] > Attempt(g) => state'[h] = "off"
      BY <1>1, <1>5, <1>6 DEF Chain, Untried, TypeOK, Goroutines
    <2> QED
      BY <2>1, <2>2, <2>3, <2>4, <2>5 DEF Chain, Attempt
  <1>13. Carried'
    <2> SUFFICES ASSUME NEW f \in Events, outcome'[f] = "accepted"
                 PROVE  \/ \E i \in 1..Len(queue') : queue'[i] = f
                        \/ \E g \in Goroutines : Active(g)' /\ task'[g] = f
      BY DEF Carried
    <2>1. CASE \E g \in Goroutines : Active(g) /\ task[g] = f
      BY <1>5, <2>1
    <2>2. ASSUME NEW i \in 1..Len(queue), queue[i] = f
          PROVE  \/ \E j \in 1..Len(queue') : queue'[j] = f
                 \/ \E g \in Goroutines : Active(g)' /\ task'[g] = f
      <3>1. CASE i = 1
        BY <1>2, <1>5, <2>2, <3>1
      <3>2. CASE i # 1
        <4>1. i - 1 \in 1..Len(queue') /\ queue'[i - 1] = f
          BY <1>2, <2>2, <3>2
        <4> QED
          BY <4>1
      <3> QED
        BY <3>1, <3>2
    <2> QED
      BY <1>1, <2>1, <2>2 DEF Carried
  <1> QED
    BY <1>3, <1>8, <1>9, <1>10, <1>11, <1>12, <1>13

(* A worker leaves, or a timer after its attempt: one live goroutine less. *)
LEMMA LeaveInv == ASSUME Inv, NEW x \in Goroutines, Exit(x) \/ Done(x) PROVE Inv'
  <1> USE DispatcherAssumption DEF Inv
  <1>1. /\ x \in Live /\ ~Active(x)
        /\ state[x] # "off"
        /\ state' = [state EXCEPT ![x] = "gone"]
        /\ wg' = wg - 1
        /\ UNCHANGED <<outcome, queue, closed, shutting, started, task, stop>>
    BY DEF Exit, Done, Live, Active, Goroutines
  <1>2. Live' = Live \ {x}
    BY <1>1 DEF Live, TypeOK
  <1>3. Counted' /\ wg' \in Nat
    <2>1. IsFiniteSet(Live \ {x}) /\ Cardinality(Live \ {x}) = Cardinality(Live) - 1
      BY <1>1, LiveFinite, FS_RemoveElement
    <2>2. Cardinality(Live \ {x}) \in Nat
      BY <2>1, FS_CardinalityType
    <2> QED
      BY <1>1, <1>2, <2>1, <2>2 DEF Counted
  <1>4. TypeOK'
    BY <1>1, <1>3 DEF TypeOK
  <1>5. \A g \in Goroutines : Active(g)' = Active(g)
    BY <1>1 DEF Active, TypeOK
  <1>6. \A f : Untried(f)' = Untried(f)
    BY <1>1, <1>5 DEF Untried, TypeOK, Goroutines
  <1>7. Locals' /\ Carried' /\ Stopped'
    BY <1>1, <1>2, <1>5 DEF Locals, Carried, Stopped, TypeOK, Attempt
  <1>8. Guards'
    <2>1. started
      BY <1>1 DEF Guards
    <2>2. MutexFree' = MutexFree
      BY <1>1 DEF MutexFree
    <2> QED
      BY <1>1, <2>1, <2>2 DEF Guards
  <1>9. Chain'
    <2>1. \A e \in Events : (outcome[e])' \in {"new", "sending"} =>
             Untried(e)' /\ \A i \in 1..Len(queue') : (queue[i])' # e
      BY <1>1, <1>6 DEF Chain
    <2>2. /\ \A i \in 1..Len(queue') : Untried(queue[i])'
          /\ \A i, j \in 1..Len(queue') : (queue[i])' = (queue[j])' => i = j
      <3>1. queue' = queue /\ \A i \in 1..Len(queue) : Untried(queue[i])' = Untried(queue[i])
        BY <1>1, <1>5 DEF Untried, TypeOK, Goroutines
      <3> QED
        BY <3>1 DEF Chain
    <2>3. \A h \in Timers : h \in Goroutines /\ (state[h] = "off" => (state[h])' = "off")
      BY <1>1 DEF TypeOK, Goroutines
    <2>4. /\ \A g, h \in Goroutines :
                Active(g)' /\ Active(h)' /\ (task[g])' = (task[h])' => g = h
          /\ \A g \in Goroutines, h \in Timers :
                Active(g)' /\ h[1] = (task[g])' /\ h[2] > Attempt(g) => (state[h])' = "off"
      BY <1>1, <1>5, <2>3 DEF Chain
    <2> QED
      BY <2>1, <2>2, <2>4 DEF Chain, Attempt
  <1>10. Drained'
    BY <1>1 DEF Drained, Exit, Done, Locals, TypeOK
  <1> QED
    BY <1>3, <1>4, <1>7, <1>8, <1>9, <1>10

(* The timer fires, or an attempt fails and is to be repeated: the same    *)
(* goroutine stays responsible.                                            *)
LEMMA StayInv ==
    ASSUME Inv, NEW x \in Goroutines, Active(x), Active(x)',
           NEW y \in {"attempting", "retrying"}, state' = [state EXCEPT ![x] = y],
           y = "retrying" => Attempt(x) < MaxRetries,
           UNCHANGED <<outcome, queue, closed, shutting, started, task, wg, stop>>
    PROVE  Inv'
  <1> USE DispatcherAssumption DEF Inv
  <1>1. TypeOK'
    BY DEF TypeOK
  <1>2. \A g \in Goroutines : Active(g)' = Active(g)
    BY DEF Active, TypeOK
  <1>3. state[x] # "off"
    BY DEF Active
  <1>4. \A f : Untried(f)' = Untried(f)
    BY <1>2, <1>3 DEF Untried, TypeOK, Goroutines
  <1>5. Live' = Live
    BY DEF Live, TypeOK, Active
  <1>6. Locals' /\ Carried' /\ Stopped' /\ Counted'
    BY <1>2, <1>5 DEF Locals, Carried, Stopped, Counted, TypeOK, Attempt
  <1>7. Guards' /\ Drained'
    BY <1>3 DEF Guards, Drained, MutexFree, TypeOK
  <1>8. Chain'
    BY <1>2, <1>3, <1>4 DEF Chain, TypeOK, Goroutines, Attempt
  <1> QED
    BY <1>1, <1>6, <1>7, <1>8

(* An attempt ends the chain: the event is settled. *)
LEMMA SettleInv ==
    ASSUME Inv, NEW x \in Goroutines, state[x] = "attempting",
           NEW r \in {"delivered", "failed"}, Settle(x, r),
           UNCHANGED <<queue, closed, shutting, started, wg, stop>>
    PROVE  Inv'
  <1> USE DispatcherAssumption DEF Inv
  <1>1. /\ Active(x) /\ task[x] \in Events
        /\ outcome' = [outcome EXCEPT ![task[x]] = r]
        /\ state' = [state EXCEPT ![x] = Rest(x)]
        /\ task' = [task EXCEPT ![x] = IF x \in Workers THEN None ELSE @]
    BY DEF Active, Settle, Forget, Locals
  <1>2. Rest(x) \in {"waiting", "leaving"} /\ (x \in Workers <=> Rest(x) = "waiting")
    BY DEF Rest
  <1>3. TypeOK'
    BY <1>1, <1>2 DEF TypeOK
  <1>4. /\ \A g \in Goroutines \ {x} : Active(g)' = Active(g) /\ task'[g] = task[g]
        /\ ~Active(x)'
    BY <1>1, <1>2 DEF Active, TypeOK, Goroutines
  <1>5. \A f : Untried(f) => Untried(f)'
    BY <1>1, <1>4 DEF Untried, TypeOK, Goroutines
  <1>6. Live' = Live
    BY <1>1, <1>2 DEF Live, TypeOK
  <1>7. Locals'
    BY <1>1, <1>2, <1>4 DEF Locals, TypeOK, Attempt
  <1>8. Guards'
    BY <1>1, <1>2 DEF Guards, MutexFree, TypeOK
  <1>9. Drained' /\ Counted' /\ Stopped'
    BY <1>1, <1>2, <1>6 DEF Drained, Counted, Stopped, TypeOK
  <1>10. Chain'
    BY <1>1, <1>4, <1>5 DEF Chain, TypeOK, Goroutines, Attempt
  <1>11. Carried'
    BY <1>1, <1>4 DEF Carried, TypeOK
  <1> QED
    BY <1>3, <1>7, <1>8, <1>9, <1>10, <1>11

(* The next attempt's timer is new, so it is one live goroutine more, and  *)
(* it takes the event over.                                                *)
LEMMA ScheduleInv == ASSUME Inv, NEW x \in Goroutines, Schedule(x) PROVE Inv'
  <1> USE DispatcherAssumption DEF Inv
  <1>a. PICK e \in Events : e = task[x]
    BY DEF Schedule, Active, Locals
  <1>1. Active(x) /\ task[x] = e /\ Attempt(x) < MaxRetries /\ state[x] = "retrying"
    BY <1>a DEF Schedule, Active, Locals
  <1>2. Attempt(x) \in Nat
    BY DEF Attempt, Goroutines, Timers
  <1>b. PICK y \in Timers : y = <<e, Attempt(x) + 1>>
    <2>1. Attempt(x) + 1 \in 1..MaxRetries
      BY <1>1, <1>2
    <2>2. <<e, Attempt(x) + 1>> \in Timers
      BY <2>1 DEF Timers
    <2> QED
      BY <2>2
  <1>3. y \in Timers /\ y \notin Workers /\ y \in Goroutines /\ y[1] = e /\ y[2] = Attempt(x) + 1
    BY <1>b DEF Goroutines
  <1>4. state[y] = "off" /\ y # x /\ task[y] = e
    BY <1>1, <1>2, <1>3 DEF Chain, Locals
  <1>5. /\ wg' = wg + 1
        /\ state' = [state EXCEPT ![x] = Rest(x), ![y] = "waiting"]
        /\ task' = [task EXCEPT ![x] = IF x \in Workers THEN None ELSE @]
        /\ UNCHANGED <<outcome, queue, closed, shutting, started, stop>>
    BY <1>1, <1>b DEF Schedule, Forget
  <1>6. Rest(x) \in {"waiting", "leaving"} /\ (x \in Workers <=> Rest(x) = "waiting")
    BY DEF Rest
  <1>7. /\ state'[x] = Rest(x) /\ state'[y] = "waiting"
        /\ \A g \in Goroutines \ {x, y} : state'[g] = state[g]
        /\ \A g \in Goroutines \ {x} : task'[g] = task[g]
    BY <1>3, <1>4, <1>5 DEF TypeOK
  <1>8. Live' = Live \cup {y} /\ y \notin Live
    BY <1>1, <1>3, <1>4, <1>6, <1>7 DEF Live
  <1>9. Counted' /\ wg' \in Nat
    <2>1. IsFiniteSet(Live \cup {y}) /\ Cardinality(Live \cup {y}) = Cardinality(Live) + 1
      BY <1>8, LiveFinite, FS_AddElement
    <2>2. Cardinality(Live \cup {y}) \in Nat
      BY <2>1, FS_CardinalityType
    <2> QED
      BY <1>5, <1>8, <2>1, <2>2 DEF Counted
  <1>10. TypeOK'
    BY <1>3, <1>5, <1>6, <1>9 DEF TypeOK
  <1>11. /\ \A g \in Goroutines \ {x, y} : Active(g)' = Active(g)
         /\ ~Active(x)' /\ Active(y)' /\ ~Active(y)
    <2>1. \A g \in Goroutines \ {x, y} : Active(g)' = Active(g)
      BY <1>7 DEF Active
    <2>2. ~Active(x)'
      BY <1>6, <1>7 DEF Active
    <2>3. Active(y)' /\ ~Active(y)
      BY <1>3, <1>4, <1>7 DEF Active
    <2> QED
      BY <2>1, <2>2, <2>3
  <1>12. \A f : Untried(f) => f # e /\ Untried(f)'
    BY <1>1, <1>3, <1>4, <1>7, <1>11 DEF Untried, Goroutines
  <1>13. Locals'
    BY <1>1, <1>3, <1>4, <1>5, <1>6, <1>7, <1>11 DEF Locals, TypeOK, Attempt, Goroutines
  <1>14. Guards'
    BY <1>1, <1>5 DEF Guards, MutexFree, TypeOK
  <1>15. Drained'
    BY <1>3, <1>5, <1>6, <1>7 DEF Drained, Goroutines
  <1>16. Stopped'
    BY <1>1, <1>5 DEF Stopped, Live
  <1>17. Chain'
    <2>1. \A f \in Events : outcome'[f] \in {"new", "sending"} =>
             Untried(f)' /\ \A i \in 1..Len(queue') : queue'[i] # f
      BY <1>5, <1>12 DEF Chain
    <2>2. /\ \A f : (\E i \in 1..Len(queue') : f = queue'[i]) => Untried(f)'
          /\ \A i, j \in 1..Len(queue') : queue'[i] = queue'[j] => i = j
      BY <1>5, <1>12 DEF Chain
    <2>3. \A g, h \in Goroutines : Active(g)' /\ Active(h)' /\ task'[g] = task'[h] => g = h
      BY <1>1, <1>3, <1>4, <1>7, <1>11 DEF Chain
    <2>4. ASSUME NEW g \in Goroutines, NEW h \in Timers,
                 Active(g)', h[1] = task'[g], h[2] > Attempt(g)
          PROVE  state'[h] = "off"
      <3>1. g # x /\ h \in Goroutines
        BY <1>11, <2>4 DEF Goroutines
      <3>2. CASE g = y
        <4>1. h[1] = e /\ h[2] > Attempt(x) + 1
          BY <1>3, <1>4, <1>7, <2>4, <3>1, <3>2 DEF Attempt
        <4>2. h # y /\ state[h] = "off"
          BY <1>1, <1>2, <1>3, <4>1 DEF Chain, Timers
        <4> QED
          BY <1>1, <1>7, <3>1, <4>2
      <3>3. CASE g # y
        <4>1. Active(g) /\ task'[g] = task[g] /\ task[g] # e
          BY <1>1, <1>7, <1>11, <2>4, <3>1, <3>3 DEF Chain
        <4>2. state[h] = "off" /\ h # y
          BY <1>3, <2>4, <4>1 DEF Chain
        <4> QED
          BY <1>1, <1>7, <3>1, <4>2
      <3> QED
        BY <3>2, <3>3
    <2> QED
      BY <2>1, <2>2, <2>3, <2>4 DEF Chain, Attempt
  <1>18. Carried'
    <2> SUFFICES ASSUME NEW f \in Events, outcome'[f] = "accepted"
                 PROVE  \/ \E i \in 1..Len(queue') : queue'[i] = f
                        \/ \E g \in Goroutines : Active(g)' /\ task'[g] = f
      BY DEF Carried
    <2>1. CASE f = e
      BY <1>3, <1>4, <1>7, <1>11, <2>1
    <2>2. CASE f # e
      BY <1>1, <1>4, <1>5, <1>7, <1>11, <2>2 DEF Carried
    <2> QED
      BY <2>1, <2>2
  <1> QED
    BY <1>9, <1>10, <1>13, <1>14, <1>15, <1>16, <1>17, <1>18

LEMMA StepInv == ASSUME Inv, NEW g \in Goroutines, Step(g) PROVE Inv'
  <1>1. CASE Take(g)
    BY <1>1, TakeInv
  <1>2. CASE Exit(g) \/ Done(g)
    BY <1>2, LeaveInv
  <1>3. CASE Fire(g)
    <2>1. /\ Active(g) /\ Active(g)'
          /\ state' = [state EXCEPT ![g] = "attempting"]
          /\ UNCHANGED <<outcome, queue, closed, shutting, started, task, wg, stop>>
      BY <1>3 DEF Fire, Active, Inv, TypeOK
    <2> QED
      BY <2>1, StayInv
  <1>4. CASE Succeed(g)
    BY <1>4, SettleInv DEF Succeed
  <1>5. CASE Fail(g)
    <2>1. CASE shutting \/ Attempt(g) >= MaxRetries
      BY <1>5, <2>1, SettleInv DEF Fail
    <2>2. CASE ~(shutting \/ Attempt(g) >= MaxRetries)
      <3>1. Attempt(g) < MaxRetries
        BY <2>2, DispatcherAssumption DEF Attempt, Goroutines, Timers
      <3>2. /\ Active(g) /\ Active(g)'
            /\ state' = [state EXCEPT ![g] = "retrying"]
            /\ UNCHANGED <<outcome, queue, closed, shutting, started, task, wg, stop>>
        BY <1>5, <2>2 DEF Fail, Active, Inv, TypeOK
      <3> QED
        BY <3>1, <3>2, StayInv
    <2> QED
      BY <2>1, <2>2
  <1>6. CASE Schedule(g)
    BY <1>6, ScheduleInv
  <1> QED
    BY <1>1, <1>2, <1>3, <1>4, <1>5, <1>6 DEF Step

LEMMA NextInv == Inv /\ [Next]_vars => Inv'
  <1> SUFFICES ASSUME Inv, [Next]_vars PROVE Inv'
    OBVIOUS
  <1>1. CASE \E e \in Events : Trigger(e) \/ Enqueue(e)
    BY <1>1, TriggerInv, EnqueueInv
  <1>2. CASE \E g \in Goroutines : Step(g)
    BY <1>2, StepInv
  <1>3. CASE \E s \in Stoppers : Begin(s) \/ CloseQueue(s) \/ Wait(s)
    BY <1>3, StopInv
  <1>4. CASE UNCHANGED vars
    <2>1. /\ Live' = Live
          /\ \A g \in Goroutines : Active(g)' = Active(g) /\ Attempt(g)' = Attempt(g)
          /\ \A f : Untried(f)' = Untried(f)
      BY <1>4 DEF Live, Active, Untried, Attempt, vars
    <2> QED
      BY <1>4, <2>1 DEF Inv, TypeOK, Locals, Guards, Chain, Counted, Carried, Drained, Stopped,
                        MutexFree, vars
  <1> QED
    BY <1>1, <1>2, <1>3, <1>4 DEF Next, Over

LEMMA Invariance == Spec => []Inv
  BY InitInv, NextInv, PTL DEF Spec
-----------------------------------------------------------------------------
(* The WaitGroup counter of a dispatcher never drops below zero.           *)
THEOREM TypeCorrect == Spec => []TypeOK
  <1>1. Inv => TypeOK
    BY DEF Inv
  <1> QED
    BY <1>1, Invariance, PTL

(* No request sends on the queue that Stop has closed.                     *)
THEOREM Sends == Spec => []NoSendOnClosed
  <1>1. Inv => NoSendOnClosed
    BY DEF Inv, Guards, NoSendOnClosed
  <1> QED
    BY <1>1, Invariance, PTL

LEMMA StopReturned == Inv => StopWaits
  <1> SUFFICES ASSUME Inv, NEW s \in Stoppers, stop[s] = "returned"
               PROVE  Live = {} /\ \A e \in Events : outcome[e] # "accepted"
    BY DEF StopWaits
  <1>1. Live = {} /\ started
    BY DEF Inv, Stopped, Guards
  <1>2. \A g \in Goroutines : ~Active(g)
    BY <1>1 DEF Live, Active
  <1>3. \A w \in Workers : state[w] = "gone"
    BY <1>1 DEF Live, Goroutines, Inv, Drained, TypeOK
  <1>4. queue = <<>>
    BY <1>3, DispatcherAssumption DEF Inv, Drained
  <1> QED
    BY <1>1, <1>2, <1>4 DEF Inv, Carried

(* Stop returns only when every accepted event is settled and every worker *)
(* and retry timer has ended.                                              *)
THEOREM StopComplete == Spec => []StopWaits
  BY StopReturned, Invariance, PTL
-----------------------------------------------------------------------------
(***************************************************************************)
(* Shutdown of the process.  Where the call that runs shutdownOnce is:     *)
(***************************************************************************)
PastEngine == {"return", "done"}
PastConsole == PastEngine \cup {"engine"}
ConsoleShut == PastConsole \cup {"console wait"}
PastLog == ConsoleShut \cup {"console"}
PastClose == PastLog \cup {"log"}
PastRequests == PastClose \cup {"close"}
PastS3 == PastRequests \cup {"requests"}
S3Shut == PastS3 \cup {"s3 wait"}
Stages == S3Shut \cup {"stop", "s3"}

At(S) == owner # Nobody /\ pc[owner] \in S

ServerTypeOK ==
    /\ listening \subseteq {"s3", "console"}
    /\ req \in [Requests -> {"none", "headers", "serving", "logging", "done"}]
    /\ console \in [ConsoleRequests -> {"none", "serving", "done"}]
    /\ logChan \in Seq(Requests \X Targets) /\ Len(logChan) <= QueueCap
    /\ open \in BOOLEAN
    /\ lines \in [Targets -> SUBSET Requests]
    /\ worker \in {"run", "flush", "last", "stopped"}
    /\ flushing \subseteq Targets
    /\ cleanupStop \in BOOLEAN /\ sweep \in {"waiting", "sweeping", "stopped"}
    /\ engine \in {"open", "closed"} /\ expired \in BOOLEAN
    /\ pc \in [Callers -> Stages \cup {"none", "once"}]
    /\ owner \in Callers \cup {Nobody}
    /\ errs \in BOOLEAN /\ result \in [Callers -> {"none", "nil", "error"}]
    /\ settled \subseteq Requests /\ panicked \subseteq Requests /\ late \subseteq Requests
    /\ cut \subseteq Requests \cup ConsoleRequests

(* sync.Once: one call does the work, and nobody returns before it has.    *)
OneOwner ==
    /\ owner = Nobody => \A c \in Callers : pc[c] = "none"
    /\ owner # Nobody => pc[owner] \in Stages
    /\ \A c \in Callers : c # owner => /\ pc[c] \in {"none", "once", "done"}
                                       /\ pc[c] = "done" => At({"done"})
    /\ \A c \in Callers : result[c] # "none" => pc[c] = "done"

(* What has been closed by when. *)
Gates ==
    /\ "s3" \in listening <=> ~At(S3Shut)
    /\ "console" \in listening <=> ~At(ConsoleShut)
    /\ open <=> ~At(PastClose)
    /\ engine = "closed" <=> At(PastEngine)

(* A request that is read after the deadline is late; before the deadline  *)
(* nothing outlives the wait for its port, and nothing but a late request  *)
(* outlives the wait for the active requests.                              *)
Deadline ==
    /\ ~expired => late = {} /\ cut = {}
    /\ expired => /\ "s3" \notin listening
                  /\ \A r \in Requests : req[r] = "headers" => r \in late
    /\ At(PastS3) /\ ~expired => ~Busy("s3")
    /\ At(PastConsole) /\ ~expired => ~Busy("console")
    /\ At(PastRequests) => ActiveReqs \subseteq late
    /\ panicked \subseteq late

(* The worker leaves only when the closed channel is empty, and between    *)
(* that and its end every target is flushed.                               *)
LogDrained ==
    /\ worker \in {"run", "stopped"} => flushing = {}
    /\ worker \in {"last", "stopped"} => ~open /\ logChan = <<>>
    /\ worker = "last" => \A t \in Targets : lines[t] # {} => t \in flushing
    /\ worker = "stopped" => \A t \in Targets : lines[t] = {}
    /\ At(PastLog) => worker = "stopped"

(* A port that was given up is reported. *)
Reported ==
    /\ ~errs /\ At(PastS3) => ~Busy("s3")
    /\ ~errs /\ At(PastConsole) => ~Busy("console")
    /\ ~errs /\ At(PastEngine) => cut = {}
    /\ owner # Nobody /\ result[owner] = "nil" => ~errs

ServerInv == ServerTypeOK /\ OneOwner /\ Gates /\ Deadline /\ LogDrained /\ Reported

-----------------------------------------------------------------------------
(* The order of the stages. *)
InOrder ==
    /\ At(PastEngine) => At(PastConsole)
    /\ At(PastConsole) => At(ConsoleShut)
    /\ At(ConsoleShut) => At(PastLog)
    /\ At(PastLog) => At(PastClose)
    /\ At(PastClose) => At(PastRequests)
    /\ At(PastRequests) => At(PastS3)
    /\ At(PastS3) => At(S3Shut)

LEMMA Stage == InOrder /\ InOrder'
  BY DEF InOrder, At, PastConsole, ConsoleShut, PastLog, PastClose, PastRequests, PastS3, S3Shut

LEMMA Positions ==
    /\ "stop" \in Stages \ S3Shut /\ "s3" \in Stages \ S3Shut
    /\ "s3 wait" \in S3Shut \ PastS3
    /\ "requests" \in PastS3 \ PastRequests
    /\ "close" \in PastRequests \ PastClose
    /\ "log" \in PastClose \ PastLog
    /\ "console" \in PastLog \ ConsoleShut
    /\ "console wait" \in ConsoleShut \ PastConsole
    /\ "engine" \in PastConsole \ PastEngine
    /\ "return" \in PastEngine /\ "done" \in PastEngine
    /\ \A x \in {"stop", "s3", "s3 wait", "requests", "close", "log", "console",
                 "console wait", "engine", "return"} : x \in Stages \ {"done"}
    /\ "done" \in Stages
    /\ "none" \notin Stages /\ "once" \notin Stages
  BY DEF Stages, S3Shut, PastS3, PastRequests, PastClose, PastLog, ConsoleShut, PastConsole, PastEngine

LEMMA ServerInitInv == ServerInit => ServerInv
  <1> SUFFICES ASSUME ServerInit PROVE ServerInv
    OBVIOUS
  <1> USE ServerAssumption DEF ServerInit
  <1>1. ~\E S : At(S)
    BY DEF At
  <1>2. ServerTypeOK
    <2>1. logChan \in Seq(Requests \X Targets) /\ Len(logChan) <= QueueCap
      OBVIOUS
    <2> QED
      BY <2>1 DEF ServerTypeOK
  <1>3. OneOwner /\ Gates
    BY <1>1 DEF OneOwner, Gates
  <1>4. Deadline /\ Reported /\ LogDrained
    BY <1>1 DEF Deadline, Reported, LogDrained
  <1> QED
    BY <1>2, <1>3, <1>4 DEF ServerInv

(* A step of a request on the S3 port that does not log. *)
LEMMA ClientInv == ASSUME ServerInv, NEW r \in Requests, Client(r) PROVE ServerInv'
  <1> USE DEF ServerInv
  <1>1. /\ UNCHANGED <<listening, console, panicked, log, sweep, engine, shutdown>>
        /\ \/ "s3" \in listening /\ req' = [req EXCEPT ![r] = "headers"]
           \/ req[r] = "headers" /\ req' = [req EXCEPT ![r] = "done"]
           \/ req[r] = "headers" /\ req' = [req EXCEPT ![r] = "serving"]
           \/ req[r] = "serving" /\ req' = [req EXCEPT ![r] = "logging"]
           \/ req[r] = "serving" /\ req' = [req EXCEPT ![r] = "done"]
    BY DEF Client, Connect, HeadersNeverCome, ServeHTTP, Handled, Goto
  <1> USE <1>1
  <1>2. \A S : At(S)' = At(S)
    BY DEF At, shutdown
  <1>3. ServerTypeOK'
    BY DEF ServerTypeOK, log, shutdown
  <1>4. OneOwner'
    BY <1>2 DEF OneOwner, shutdown
  <1>5. Gates'
    BY <1>2 DEF Gates, log
  <1>6. LogDrained'
    BY <1>2 DEF LogDrained, log
  <1>7. Deadline'
    BY <1>2, Stage DEF InOrder, Deadline, shutdown, Gates, Busy, ActiveReqs, ServerTypeOK
  <1>8. Reported'
    BY <1>2, Stage DEF InOrder, Reported, shutdown, Gates, Busy, ServerTypeOK
  <1> QED
    BY <1>3, <1>4, <1>5, <1>6, <1>7, <1>8


(* A request counts among the active ones until it has sent its line. *)
LEMMA LogAccessInv ==
    ASSUME ServerInv, NEW r \in Requests, NEW t \in Targets, LogAccess(r, t) PROVE ServerInv'
  <1> USE DEF ServerInv
  <1>1. /\ req[r] = "logging" /\ req' = [req EXCEPT ![r] = "done"]
        /\ UNCHANGED <<listening, console, open, lines, worker, flushing, sweep, engine, shutdown>>
    BY DEF LogAccess, Goto
  <1>2. \/ ~open /\ panicked' = panicked \cup {r} /\ UNCHANGED <<logChan, settled>>
        \/ /\ open /\ Len(logChan) < QueueCap
           /\ logChan' = Append(logChan, <<r, t>>) /\ UNCHANGED <<panicked, settled>>
        \/ settled' = settled \cup {r} /\ UNCHANGED <<logChan, panicked>>
    BY DEF LogAccess
  <1> USE <1>1
  <1>3. \A S : At(S)' = At(S)
    BY DEF At, shutdown
  <1>4. ServerTypeOK'
    <2>1. logChan' \in Seq(Requests \X Targets) /\ Len(logChan') <= QueueCap
      <3>1. <<r, t>> \in Requests \X Targets
        OBVIOUS
      <3>2. Append(logChan, <<r, t>>) \in Seq(Requests \X Targets)
        BY <3>1 DEF ServerTypeOK
      <3>3. Len(Append(logChan, <<r, t>>)) = Len(logChan) + 1 /\ Len(logChan) \in Nat
        BY <3>1 DEF ServerTypeOK
      <3>4. CASE logChan' = Append(logChan, <<r, t>>) /\ Len(logChan) < QueueCap
        <4>1. Len(logChan') <= QueueCap
          BY <3>3, <3>4, ServerAssumption
        <4> QED
          BY <3>2, <3>4, <4>1
      <3> QED
        BY <1>2, <3>4 DEF ServerTypeOK
    <2>2. settled' \subseteq Requests /\ panicked' \subseteq Requests
      BY <1>2 DEF ServerTypeOK
    <2> QED
      BY <2>1, <2>2 DEF ServerTypeOK, shutdown
  <1>5. OneOwner'
    BY <1>3 DEF OneOwner, shutdown
  <1>6. Gates'
    BY <1>3 DEF Gates
  <1>7. LogDrained'
    BY <1>2, <1>3 DEF LogDrained
  <1>8. panicked' \subseteq late
    BY <1>2, Stage DEF InOrder, Deadline, Gates, ActiveReqs
  <1>9. Deadline'
    BY <1>3, <1>8 DEF Deadline, shutdown, Busy, ActiveReqs, ServerTypeOK
  <1>10. Reported'
    BY <1>3 DEF Reported, shutdown, Busy, ServerTypeOK
  <1> QED
    BY <1>4, <1>5, <1>6, <1>7, <1>9, <1>10

LEMMA ConsoleInv ==
    ASSUME ServerInv, NEW r \in ConsoleRequests, ConsoleServe(r) \/ ConsoleDone(r) PROVE ServerInv'
  <1> USE DEF ServerInv
  <1>1. /\ UNCHANGED <<listening, req, panicked, log, sweep, engine, shutdown>>
        /\ \/ "console" \in listening /\ console' = [console EXCEPT ![r] = "serving"]
           \/ console' = [console EXCEPT ![r] = "done"]
    BY DEF ConsoleServe, ConsoleDone
  <1> USE <1>1
  <1>2. \A S : At(S)' = At(S)
    BY DEF At, shutdown
  <1>3. ServerTypeOK'
    BY DEF ServerTypeOK, log, shutdown
  <1>4. OneOwner'
    BY <1>2 DEF OneOwner, shutdown
  <1>5. Gates' /\ LogDrained'
    BY <1>2 DEF Gates, LogDrained, log
  <1>6. Deadline'
    BY <1>2, Stage DEF InOrder, Deadline, shutdown, Gates, Busy, ActiveReqs, ServerTypeOK
  <1>7. Reported'
    BY <1>2, Stage DEF InOrder, Reported, shutdown, Gates, Busy, ServerTypeOK
  <1> QED
    BY <1>3, <1>4, <1>5, <1>6, <1>7

(* The log worker touches only the log. *)
LEMMA LogFrame ==
    ASSUME ServerInv, UNCHANGED <<listening, requests, open, sweep, engine, shutdown>>,
           ServerTypeOK', LogDrained'
    PROVE  ServerInv'
  <1> USE DEF ServerInv
  <1>1. \A S : At(S)' = At(S)
    BY DEF At, shutdown
  <1>2. OneOwner' /\ Gates'
    BY <1>1 DEF OneOwner, Gates, shutdown
  <1>3. Deadline' /\ Reported'
    BY <1>1 DEF Deadline, Reported, shutdown, requests, Busy, ActiveReqs
  <1> QED
    BY <1>2, <1>3

LEMMA ReceiveInv == ASSUME ServerInv, Receive PROVE ServerInv'
  <1> USE DEF ServerInv
  <1> DEFINE r == Head(logChan)[1]
             t == Head(logChan)[2]
  <1>1. /\ worker = "run" /\ logChan # <<>> /\ logChan' = Tail(logChan)
        /\ lines' = [lines EXCEPT ![t] = @ \cup {r}]
        /\ \/ worker' = "flush" /\ flushing' = {t}
           \/ UNCHANGED <<worker, flushing>>
        /\ UNCHANGED <<listening, requests, open, settled, sweep, engine, shutdown>>
    BY DEF Receive
  <1>2. r \in Requests /\ t \in Targets
    <2>1. Head(logChan) \in Requests \X Targets
      BY <1>1 DEF ServerTypeOK
    <2> QED
      BY <2>1
  <1> HIDE DEF r, t
  <1>3. ServerTypeOK'
    <2>1. logChan' \in Seq(Requests \X Targets) /\ Len(logChan') <= QueueCap
      BY <1>1, ServerAssumption DEF ServerTypeOK
    <2>2. lines' \in [Targets -> SUBSET Requests]
      BY <1>1, <1>2 DEF ServerTypeOK
    <2> QED
      BY <1>1, <1>2, <2>1, <2>2 DEF ServerTypeOK, requests, shutdown
  <1>4. ~At(PastLog) /\ At(PastLog)' = At(PastLog)
    BY <1>1 DEF LogDrained, At, shutdown
  <1>5. LogDrained'
    BY <1>1, <1>4 DEF LogDrained
  <1> QED
    BY <1>1, <1>3, <1>5, LogFrame

LEMMA LogWorkerInv == ASSUME ServerInv, LogWorker PROVE ServerInv'
  <1> USE DEF ServerInv
  <1>1. CASE Receive
    BY <1>1, ReceiveInv
  <1>2. CASE Tick \/ Flushed \/ ChannelClosed
    <2>1. /\ UNCHANGED <<listening, requests, logChan, open, lines, settled, sweep, engine, shutdown>>
          /\ At(PastLog)' = At(PastLog)
      BY <1>2 DEF Tick, Flushed, ChannelClosed, At, shutdown
    <2>2. ServerTypeOK'
      BY <1>2, <2>1 DEF Tick, Flushed, ChannelClosed, ServerTypeOK, requests, shutdown
    <2>3. LogDrained'
      BY <1>2, <2>1 DEF Tick, Flushed, ChannelClosed, LogDrained, ServerTypeOK
    <2> QED
      BY <2>1, <2>2, <2>3, LogFrame
  <1>3. ASSUME NEW t \in Targets, FlushBucketLogs(t) PROVE ServerInv'
    <2>1. /\ t \in flushing /\ flushing' = flushing \ {t}
          /\ settled' = settled \cup lines[t]
          /\ lines' = [lines EXCEPT ![t] = {}]
          /\ UNCHANGED <<listening, requests, logChan, open, worker, sweep, engine, shutdown>>
          /\ At(PastLog)' = At(PastLog)
      BY <1>3 DEF FlushBucketLogs, At, shutdown
    <2>2. ServerTypeOK'
      BY <2>1 DEF ServerTypeOK, requests, shutdown
    <2>3. LogDrained'
      BY <2>1 DEF LogDrained, ServerTypeOK
    <2> QED
      BY <2>1, <2>2, <2>3, LogFrame
  <1> QED
    BY <1>1, <1>2, <1>3 DEF LogWorker


LEMMA SweepInv == ASSUME ServerInv, Sweep \/ SweepDone \/ CleanupStopped PROVE ServerInv'
  <1> USE DEF ServerInv
  <1>1. /\ UNCHANGED <<listening, requests, log, engine, shutdown>>
        /\ sweep' \in {"waiting", "sweeping", "stopped"}
    BY DEF Sweep, SweepDone, CleanupStopped
  <1>2. \A S : At(S)' = At(S)
    BY <1>1 DEF At, shutdown
  <1>3. ServerTypeOK'
    BY <1>1 DEF ServerTypeOK, requests, log, shutdown
  <1>4. OneOwner' /\ Gates' /\ LogDrained'
    BY <1>1, <1>2 DEF OneOwner, Gates, LogDrained, log, shutdown
  <1>5. Deadline' /\ Reported'
    BY <1>1, <1>2 DEF Deadline, Reported, requests, shutdown, Busy, ActiveReqs
  <1> QED
    BY <1>3, <1>4, <1>5

(* When the deadline passes, the requests whose headers are unread are the *)
(* late ones; a Shutdown that is past the S3 port leaves none.             *)
LEMMA ExpireInv == ASSUME ServerInv, Expire PROVE ServerInv'
  <1> USE DEF ServerInv
  <1>1. /\ ~expired /\ listening # {"s3", "console"} /\ expired' = TRUE
        /\ late' = {r \in Requests : req[r] = "headers"}
        /\ UNCHANGED <<listening, requests, log, sweep, engine, pc, owner, errs, result, cleanupStop, cut>>
    BY DEF Expire
  <1>2. \A S : At(S)' = At(S)
    BY <1>1 DEF At
  <1>3. ServerTypeOK'
    BY <1>1 DEF ServerTypeOK, requests, log
  <1>4. OneOwner' /\ Gates' /\ LogDrained'
    BY <1>1, <1>2 DEF OneOwner, Gates, LogDrained, log
  <1>5. "s3" \notin listening
    BY <1>1, Stage DEF InOrder, Gates, ServerTypeOK
  <1>6. Deadline'
    BY <1>1, <1>2, <1>5 DEF Deadline, requests, Busy, ActiveReqs
  <1>7. Reported'
    BY <1>1, <1>2 DEF Reported, requests, Busy
  <1> QED
    BY <1>3, <1>4, <1>6, <1>7
-----------------------------------------------------------------------------
(***************************************************************************)
(* The steps of Shutdown.                                                  *)
(***************************************************************************)
LEMMA CallInv == ASSUME ServerInv, NEW c \in Callers, Call(c) PROVE ServerInv'
  <1> USE ServerAssumption DEF ServerInv
  <1>1. /\ pc[c] = "none"
        /\ pc' = [pc EXCEPT ![c] = IF owner = Nobody THEN "stop" ELSE "once"]
        /\ owner' = IF owner = Nobody THEN c ELSE owner
        /\ UNCHANGED <<listening, requests, log, sweep, engine, errs, result, cleanupStop, expired, late, cut>>
    BY DEF Call
  <1>2. owner = c => FALSE
    BY <1>1 DEF OneOwner, Stages, S3Shut, PastS3, PastRequests, PastClose, PastLog, ConsoleShut,
                PastConsole, PastEngine
  <1>3. \A S \in SUBSET S3Shut : At(S)' = At(S)
    BY <1>1, <1>2 DEF At, ServerTypeOK, S3Shut, PastS3, PastRequests, PastClose, PastLog,
                      ConsoleShut, PastConsole, PastEngine
  <1>4. /\ At(PastEngine)' = At(PastEngine) /\ At(PastConsole)' = At(PastConsole)
        /\ At(ConsoleShut)' = At(ConsoleShut) /\ At(PastLog)' = At(PastLog)
        /\ At(PastClose)' = At(PastClose) /\ At(PastRequests)' = At(PastRequests)
        /\ At(PastS3)' = At(PastS3) /\ At(S3Shut)' = At(S3Shut)
        /\ At({"done"})' = At({"done"})
    BY <1>3 DEF S3Shut, PastS3, PastRequests, PastClose, PastLog, ConsoleShut, PastConsole, PastEngine
  <1>5. ServerTypeOK'
    BY <1>1 DEF ServerTypeOK, Stages, requests, log
  <1>6. OneOwner'
    BY <1>1, <1>2, <1>4 DEF OneOwner, ServerTypeOK, Stages
  <1>7. Gates' /\ LogDrained'
    BY <1>1, <1>4 DEF Gates, LogDrained, log
  <1>8. Deadline'
    BY <1>1, <1>4 DEF Deadline, requests, Busy, ActiveReqs
  <1>9. Reported'
    BY <1>1, <1>2, <1>4 DEF Reported, requests, Busy, OneOwner
  <1> QED
    BY <1>5, <1>6, <1>7, <1>8, <1>9


(* Only the owner moves between the stages. *)
LEMMA OwnerMoves ==
    ASSUME ServerInv, NEW c \in Callers, NEW from \in Stages \ {"done"}, NEW to \in Stages,
           Advance(c, from, to), owner' = owner
    PROVE  /\ owner = c /\ pc' \in [Callers -> Stages \cup {"none", "once"}]
           /\ \A S : (At(S) <=> from \in S) /\ (At(S)' <=> to \in S)
  <1> USE ServerAssumption DEF ServerInv, ServerTypeOK, Advance
  <1>1. owner = c
    BY Positions DEF OneOwner
  <1> QED
    BY <1>1 DEF At

LEMMA OwnerAlone ==
    ASSUME ServerInv, NEW c \in Callers, NEW from \in Stages \ {"done"}, NEW to \in Stages,
           Advance(c, from, to), owner' = owner, result' = result
    PROVE  OneOwner'
  <1>1. /\ owner = c /\ pc' \in [Callers -> Stages \cup {"none", "once"}]
        /\ \A S : (At(S) <=> from \in S) /\ (At(S)' <=> to \in S)
    BY OwnerMoves
  <1>2. pc[c] = from /\ pc' = [pc EXCEPT ![c] = to]
    BY DEF Advance
  <1> QED
    BY <1>1, <1>2, ServerAssumption DEF ServerInv, ServerTypeOK, OneOwner

LEMMA StopCleanupInv == ASSUME ServerInv, NEW c \in Callers, StopCleanup(c) PROVE ServerInv'
  <1> USE DEF ServerInv
  <1>1. /\ Advance(c, "stop", "s3") /\ cleanupStop' = TRUE
        /\ UNCHANGED <<listening, requests, log, sweep, engine, owner, errs, result, expired, late, cut>>
    BY DEF StopCleanup
  <1>2. /\ owner = c /\ pc' \in [Callers -> Stages \cup {"none", "once"}]
        /\ \A S : (At(S) <=> "stop" \in S) /\ (At(S)' <=> "s3" \in S)
    BY <1>1, OwnerMoves DEF Stages
  <1>3. OneOwner'
    BY <1>1, OwnerAlone DEF Stages
  <1>4. ServerTypeOK'
    <2>1. pc' \in [Callers -> Stages \cup {"none", "once"}]
      BY <1>2
    <2> QED
      BY <1>1, <2>1 DEF ServerTypeOK, requests, log
  <1>5. ~At(S3Shut)' /\ ~At(S3Shut)
    BY <1>2, Positions
  <1>6. Gates' /\ LogDrained'
    BY <1>1, <1>5, Stage DEF InOrder, Gates, LogDrained, log
  <1>7. Deadline' /\ Reported'
    BY <1>1, <1>5, Stage DEF InOrder, Deadline, Reported, requests
  <1> QED
    BY <1>3, <1>4, <1>6, <1>7


(* From here on the port takes no more requests. *)
LEMMA CloseListenerInv ==
    ASSUME ServerInv, NEW c \in Callers, NEW port, CloseListener(c, port) PROVE ServerInv'
  <1> USE DEF ServerInv
  <1>1. /\ listening' = listening \ {port}
        /\ UNCHANGED <<requests, log, sweep, engine, owner, errs, result, cleanupStop, expired, late, cut>>
    BY DEF CloseListener
  <1>2. CASE port = "s3" /\ Advance(c, "s3", "s3 wait")
    <2>1. /\ owner = c /\ pc' \in [Callers -> Stages \cup {"none", "once"}]
          /\ \A S : (At(S) <=> "s3" \in S) /\ (At(S)' <=> "s3 wait" \in S)
      BY <1>1, <1>2, OwnerMoves, Positions
    <2>2. OneOwner'
      BY <1>1, <1>2, OwnerAlone, Positions
    <2>3. ServerTypeOK'
      <3>1. pc' \in [Callers -> Stages \cup {"none", "once"}]
        BY <2>1
      <3> QED
        BY <1>1, <3>1 DEF ServerTypeOK, requests, log
    <2>4. ~At(S3Shut) /\ At(S3Shut)' /\ ~At(PastS3)'
      BY <2>1, Positions
    <2>5. Gates' /\ LogDrained'
      BY <1>1, <1>2, <2>4, Stage DEF InOrder, Gates, LogDrained, log
    <2>6. Deadline' /\ Reported'
      BY <1>1, <1>2, <2>4, Stage DEF InOrder, Deadline, Reported, requests, Gates
    <2> QED
      BY <2>2, <2>3, <2>5, <2>6
  <1>3. CASE port = "console" /\ Advance(c, "console", "console wait")
    <2>1. /\ owner = c /\ pc' \in [Callers -> Stages \cup {"none", "once"}]
          /\ \A S : (At(S) <=> "console" \in S) /\ (At(S)' <=> "console wait" \in S)
      BY <1>1, <1>3, OwnerMoves, Positions
    <2>2. OneOwner'
      BY <1>1, <1>3, OwnerAlone, Positions
    <2>3. ServerTypeOK'
      <3>1. pc' \in [Callers -> Stages \cup {"none", "once"}]
        BY <2>1
      <3> QED
        BY <1>1, <3>1 DEF ServerTypeOK, requests, log
    <2>4. At(PastLog) /\ ~At(ConsoleShut) /\ At(ConsoleShut)' /\ ~At(PastConsole)'
      BY <2>1, Positions
    <2>5. Gates' /\ LogDrained'
      BY <1>1, <1>3, <2>4, Stage DEF InOrder, Gates, LogDrained, log
    <2>6. Deadline'
      BY <1>1, <1>3, <2>4, Stage DEF InOrder, Deadline, requests, Busy, ActiveReqs
    <2>7. Reported'
      BY <1>1, <1>3, <2>4, Stage DEF InOrder, Reported, requests, Busy
    <2> QED
      BY <2>2, <2>3, <2>5, <2>6, <2>7
  <1> QED
    BY <1>2, <1>3 DEF CloseListener

(* The wait for a port ends when it is idle, or at the deadline, which is  *)
(* an error.                                                               *)
LEMMA PortOverInv ==
    ASSUME ServerInv, NEW c \in Callers, NEW port, ServerIdle(c, port) \/ ServerTimeout(c, port)
    PROVE  ServerInv'
  <1> USE DEF ServerInv
  <1>1. /\ UNCHANGED <<listening, requests, log, sweep, engine, owner, result, cleanupStop, expired, late, cut>>
        /\ \/ ~Busy(port) /\ errs' = errs
           \/ expired /\ errs' = TRUE
    BY DEF ServerIdle, ServerTimeout
  <1>2. CASE port = "s3" /\ Advance(c, "s3 wait", "requests")
    <2>1. /\ owner = c /\ pc' \in [Callers -> Stages \cup {"none", "once"}]
          /\ \A S : (At(S) <=> "s3 wait" \in S) /\ (At(S)' <=> "requests" \in S)
      BY <1>1, <1>2, OwnerMoves, Positions
    <2>2. OneOwner'
      BY <1>1, <1>2, OwnerAlone, Positions
    <2>3. ServerTypeOK'
      <3>1. pc' \in [Callers -> Stages \cup {"none", "once"}]
        BY <2>1
      <3> QED
        BY <1>1, <3>1 DEF ServerTypeOK, requests, log
    <2>4. At(S3Shut) /\ ~At(PastS3) /\ At(S3Shut)' /\ ~At(PastRequests)'
      BY <2>1, Positions, Stage DEF InOrder
    <2>5. Gates' /\ LogDrained'
      BY <1>1, <1>2, <2>4, Stage DEF InOrder, Gates, LogDrained, log
    <2>6. Deadline'
      BY <1>1, <1>2, <2>4, Stage DEF InOrder, Deadline, requests, Busy, ActiveReqs
    <2>7. result[owner] = "none"
      BY <1>2, <2>1 DEF OneOwner, Advance
    <2>8. Reported'
      BY <1>1, <1>2, <2>4, <2>7, Stage DEF InOrder, Reported, requests, Busy
    <2> QED
      BY <2>2, <2>3, <2>5, <2>6, <2>8
  <1>3. CASE port = "console" /\ Advance(c, "console wait", "engine")
    <2>1. /\ owner = c /\ pc' \in [Callers -> Stages \cup {"none", "once"}]
          /\ \A S : (At(S) <=> "console wait" \in S) /\ (At(S)' <=> "engine" \in S)
      BY <1>1, <1>3, OwnerMoves, Positions
    <2>2. OneOwner'
      BY <1>1, <1>3, OwnerAlone, Positions
    <2>3. ServerTypeOK'
      <3>1. pc' \in [Callers -> Stages \cup {"none", "once"}]
        BY <2>1
      <3> QED
        BY <1>1, <3>1 DEF ServerTypeOK, requests, log
    <2>4. At(ConsoleShut) /\ ~At(PastConsole) /\ At(PastConsole)' /\ ~At(PastEngine)'
      BY <2>1, Positions
    <2>5. Gates' /\ LogDrained'
      BY <1>1, <1>3, <2>4, Stage DEF InOrder, Gates, LogDrained, log
    <2>6. Deadline'
      BY <1>1, <1>3, <2>4, Stage DEF InOrder, Deadline, requests, Busy, ActiveReqs
    <2>7. result[owner] = "none"
      BY <1>3, <2>1 DEF OneOwner, Advance
    <2>8. Reported'
      BY <1>1, <1>3, <2>4, <2>7, Stage DEF InOrder, Reported, requests, Busy
    <2> QED
      BY <2>2, <2>3, <2>5, <2>6, <2>8
  <1> QED
    BY <1>2, <1>3 DEF ServerIdle, ServerTimeout


(* Router.Close: the requests, the channel, the worker. *)
LEMMA RouterCloseInv ==
    ASSUME ServerInv, NEW c \in Callers, WaitRequests(c) \/ CloseLogChan(c) \/ WaitLogWorker(c)
    PROVE  ServerInv'
  <1> USE DEF ServerInv
  <1>1. /\ UNCHANGED <<listening, requests, logChan, lines, worker, flushing, settled, sweep, engine,
                       owner, errs, result, cleanupStop, expired, late, cut>>
        /\ open' = open \/ open' = FALSE
    BY DEF WaitRequests, CloseLogChan, WaitLogWorker, log
  <1>2. CASE WaitRequests(c)
    <2>1. Advance(c, "requests", "close") /\ ActiveReqs = {} /\ open' = open
      BY <1>2 DEF WaitRequests, log
    <2>2. /\ owner = c /\ pc' \in [Callers -> Stages \cup {"none", "once"}]
          /\ \A S : (At(S) <=> "requests" \in S) /\ (At(S)' <=> "close" \in S)
      BY <1>1, <2>1, OwnerMoves, Positions
    <2>3. OneOwner'
      BY <1>1, <2>1, OwnerAlone, Positions
    <2>4. ServerTypeOK'
      <3>1. pc' \in [Callers -> Stages \cup {"none", "once"}]
        BY <2>2
      <3> QED
        BY <1>1, <2>1, <3>1 DEF ServerTypeOK, requests
    <2>5. At(PastS3) /\ ~At(PastRequests) /\ At(PastRequests)' /\ ~At(PastClose)'
      BY <2>2, Positions
    <2>6. Gates' /\ LogDrained'
      BY <1>1, <2>1, <2>5, Stage DEF InOrder, Gates, LogDrained
    <2>7. Deadline'
      BY <1>1, <2>1, <2>5, Stage DEF InOrder, Deadline, requests, Busy, ActiveReqs
    <2>8. Reported'
      BY <1>1, <2>5, Stage DEF InOrder, Reported, requests, Busy
    <2> QED
      BY <2>3, <2>4, <2>6, <2>7, <2>8
  <1>3. CASE CloseLogChan(c)
    <2>1. Advance(c, "close", "log") /\ open' = FALSE
      BY <1>3 DEF CloseLogChan
    <2>2. /\ owner = c /\ pc' \in [Callers -> Stages \cup {"none", "once"}]
          /\ \A S : (At(S) <=> "close" \in S) /\ (At(S)' <=> "log" \in S)
      BY <1>1, <2>1, OwnerMoves, Positions
    <2>3. OneOwner'
      BY <1>1, <2>1, OwnerAlone, Positions
    <2>4. ServerTypeOK'
      <3>1. pc' \in [Callers -> Stages \cup {"none", "once"}]
        BY <2>2
      <3> QED
        BY <1>1, <2>1, <3>1 DEF ServerTypeOK, requests
    <2>5. At(PastRequests) /\ ~At(PastClose) /\ At(PastClose)' /\ ~At(PastLog)'
      BY <2>2, Positions
    <2>6. Gates' /\ LogDrained'
      BY <1>1, <2>1, <2>5, Stage DEF InOrder, Gates, LogDrained
    <2>7. Deadline'
      BY <1>1, <2>5, Stage DEF InOrder, Deadline, requests, Busy, ActiveReqs
    <2>8. Reported'
      BY <1>1, <2>5, Stage DEF InOrder, Reported, requests, Busy
    <2> QED
      BY <2>3, <2>4, <2>6, <2>7, <2>8
  <1>4. CASE WaitLogWorker(c)
    <2>1. Advance(c, "log", "console") /\ worker = "stopped" /\ open' = open
      BY <1>4 DEF WaitLogWorker, log
    <2>2. /\ owner = c /\ pc' \in [Callers -> Stages \cup {"none", "once"}]
          /\ \A S : (At(S) <=> "log" \in S) /\ (At(S)' <=> "console" \in S)
      BY <1>1, <2>1, OwnerMoves, Positions
    <2>3. OneOwner'
      BY <1>1, <2>1, OwnerAlone, Positions
    <2>4. ServerTypeOK'
      <3>1. pc' \in [Callers -> Stages \cup {"none", "once"}]
        BY <2>2
      <3> QED
        BY <1>1, <2>1, <3>1 DEF ServerTypeOK, requests
    <2>5. At(PastClose) /\ ~At(PastLog) /\ At(PastLog)' /\ ~At(ConsoleShut)'
      BY <2>2, Positions
    <2>6. Gates' /\ LogDrained'
      BY <1>1, <2>1, <2>5, Stage DEF InOrder, Gates, LogDrained
    <2>7. Deadline'
      BY <1>1, <2>5, Stage DEF InOrder, Deadline, requests, Busy, ActiveReqs
    <2>8. Reported'
      BY <1>1, <2>5, Stage DEF InOrder, Reported, requests, Busy
    <2> QED
      BY <2>3, <2>4, <2>6, <2>7, <2>8
  <1> QED
    BY <1>2, <1>3, <1>4

LEMMA CloseEngineInv == ASSUME ServerInv, NEW c \in Callers, CloseEngine(c) PROVE ServerInv'
  <1> USE DEF ServerInv
  <1>1. /\ Advance(c, "engine", "return") /\ engine' = "closed"
        /\ cut' = {r \in Requests : req[r] \in {"headers", "serving", "logging"}}
                  \cup {r \in ConsoleRequests : console[r] = "serving"}
        /\ errs' = errs \/ errs' = TRUE
        /\ UNCHANGED <<listening, requests, log, sweep, owner, result, cleanupStop, expired, late>>
    BY DEF CloseEngine
  <1>2. /\ owner = c /\ pc' \in [Callers -> Stages \cup {"none", "once"}]
        /\ \A S : (At(S) <=> "engine" \in S) /\ (At(S)' <=> "return" \in S)
    BY <1>1, OwnerMoves, Positions
  <1>3. OneOwner'
    BY <1>1, OwnerAlone, Positions
  <1>4. ServerTypeOK'
    <2>1. pc' \in [Callers -> Stages \cup {"none", "once"}]
      BY <1>2
    <2> QED
      BY <1>1, <2>1 DEF ServerTypeOK, requests, log
  <1>5. At(PastConsole) /\ ~At(PastEngine) /\ At(PastEngine)'
    BY <1>2, Positions
  <1>6. Gates' /\ LogDrained'
    BY <1>1, <1>5, Stage DEF InOrder, Gates, LogDrained, log
  <1>7. Deadline'
    BY <1>1, <1>5, Stage DEF InOrder, Deadline, requests, Busy, ActiveReqs
  <1>8. result[owner] = "none"
    BY <1>1, <1>2 DEF OneOwner, Advance
  <1>9. ~errs => cut' = {}
    BY <1>1, <1>5, Stage DEF InOrder, Reported, Busy
  <1>10. Reported'
    BY <1>1, <1>5, <1>8, <1>9, Stage DEF InOrder, Reported, requests, Busy
  <1> QED
    BY <1>3, <1>4, <1>6, <1>7, <1>10


LEMMA ReturnResultInv == ASSUME ServerInv, NEW c \in Callers, ReturnResult(c) PROVE ServerInv'
  <1> USE DEF ServerInv
  <1>1. /\ Advance(c, "return", "done")
        /\ result' = [result EXCEPT ![c] = IF errs THEN "error" ELSE "nil"]
        /\ UNCHANGED <<listening, requests, log, sweep, engine, owner, errs, cleanupStop, expired, late, cut>>
    BY DEF ReturnResult
  <1>2. /\ owner = c /\ pc' \in [Callers -> Stages \cup {"none", "once"}]
        /\ \A S : (At(S) <=> "return" \in S) /\ (At(S)' <=> "done" \in S)
    BY <1>1, OwnerMoves, Positions
  <1>3. ServerTypeOK'
    <2>1. pc' \in [Callers -> Stages \cup {"none", "once"}]
      BY <1>2
    <2> QED
      BY <1>1, <2>1 DEF ServerTypeOK, requests, log
  <1>4. OneOwner'
    <2>1. /\ pc' = [pc EXCEPT ![c] = "done"] /\ c = owner /\ owner # Nobody
          /\ \A d \in Callers : d # c => (pc[d])' = pc[d] /\ (result[d])' = result[d]
          /\ (pc[c])' = "done" /\ At({"done"})'
      BY <1>1, <1>2, ServerAssumption DEF Advance, ServerTypeOK
    <2> QED
      BY <1>1, <2>1, Positions DEF OneOwner
  <1>5. At(PastEngine) /\ At(PastEngine)'
    BY <1>2, Positions
  <1>6. Gates' /\ LogDrained'
    BY <1>1, <1>5, Stage DEF InOrder, Gates, LogDrained, log
  <1>7. Deadline'
    BY <1>1, <1>5, Stage DEF InOrder, Deadline, requests, Busy, ActiveReqs
  <1>8. Reported'
    BY <1>1, <1>2, <1>5, Stage DEF InOrder, Reported, requests, Busy, ServerTypeOK
  <1> QED
    BY <1>3, <1>4, <1>6, <1>7, <1>8

LEMMA ReturnLaterInv ==
    ASSUME ServerInv, NEW c \in Callers, owner # Nobody, ReturnLater(c) PROVE ServerInv'
  <1> USE DEF ServerInv
  <1>1. /\ pc[owner] = "done" /\ pc[c] = "once" /\ pc' = [pc EXCEPT ![c] = "done"]
        /\ result' = [result EXCEPT ![c] = "nil"]
        /\ UNCHANGED <<listening, requests, log, sweep, engine, owner, errs, cleanupStop, expired, late, cut>>
    BY DEF ReturnLater, Advance
  <1>2. owner \in Callers /\ owner # c
    BY <1>1 DEF ServerTypeOK
  <1>3. \A S : At(S)' = At(S)
    BY <1>1, <1>2 DEF At, ServerTypeOK
  <1>4. ServerTypeOK'
    BY <1>1, Positions DEF ServerTypeOK, requests, log
  <1>5. OneOwner'
    BY <1>1, <1>2, <1>3, Positions DEF OneOwner, ServerTypeOK, At
  <1>6. Gates' /\ LogDrained'
    BY <1>1, <1>3 DEF Gates, LogDrained, log
  <1>7. Deadline'
    BY <1>1, <1>3 DEF Deadline, requests, Busy, ActiveReqs
  <1>8. Reported'
    BY <1>1, <1>2, <1>3 DEF Reported, requests, Busy, ServerTypeOK
  <1> QED
    BY <1>4, <1>5, <1>6, <1>7, <1>8

LEMMA ServerNextInv == ServerInv /\ [ServerNext]_serverVars => ServerInv'
  <1> SUFFICES ASSUME ServerInv, [ServerNext]_serverVars PROVE ServerInv'
    OBVIOUS
  <1>1. ASSUME NEW r \in Requests, Client(r) \/ \E t \in Targets : LogAccess(r, t) PROVE ServerInv'
    BY <1>1, ClientInv, LogAccessInv
  <1>2. ASSUME NEW r \in ConsoleRequests, ConsoleServe(r) \/ ConsoleDone(r) PROVE ServerInv'
    BY <1>2, ConsoleInv
  <1>3. CASE LogWorker
    BY <1>3, LogWorkerInv
  <1>4. CASE Sweep \/ SweepDone \/ CleanupStopped
    BY <1>4, SweepInv
  <1>5. CASE Expire
    BY <1>5, ExpireInv
  <1>6. ASSUME NEW c \in Callers, Call(c) PROVE ServerInv'
    BY <1>6, CallInv
  <1>7. ASSUME NEW c \in Callers, Shutdown(c) PROVE ServerInv'
    BY <1>7, StopCleanupInv, CloseListenerInv, PortOverInv, RouterCloseInv, CloseEngineInv,
       ReturnResultInv, ReturnLaterInv DEF Shutdown
  <1>8. CASE UNCHANGED serverVars
    <2>1. UNCHANGED <<listening, requests, open, sweep, engine, shutdown, logChan, lines, worker,
                      flushing, settled>>
      BY <1>8 DEF serverVars, log
    <2>2. ServerTypeOK' /\ LogDrained'
      BY <2>1 DEF ServerInv, ServerTypeOK, LogDrained, At, requests, shutdown
    <2> QED
      BY <2>1, <2>2, LogFrame
  <1> QED
    BY <1>1, <1>2, <1>3, <1>4, <1>5, <1>6, <1>7, <1>8 DEF ServerNext, Finished

LEMMA ServerInvariance == ServerSpec => []ServerInv
  BY ServerInitInv, ServerNextInv, PTL DEF ServerSpec
-----------------------------------------------------------------------------
(* logChan never holds more than its capacity, and every variable of the   *)
(* server keeps its type.                                                  *)
THEOREM ServerTypeCorrect == ServerSpec => []ServerTypeOK
  <1>1. ServerInv => ServerTypeOK
    BY DEF ServerInv
  <1> QED
    BY <1>1, ServerInvariance, PTL

(* Router.Close closes the log channel only after every request that could *)
(* still send on it, except one whose headers came after the deadline.     *)
THEOREM LogSends == ServerSpec => []NoLogOnClosed
  <1>1. ServerInv => NoLogOnClosed
    BY DEF ServerInv, Deadline, NoLogOnClosed
  <1> QED
    BY <1>1, ServerInvariance, PTL

(* The storage engine is closed after the S3 requests and after the last   *)
(* log line has been handed to it.                                         *)
THEOREM EngineLast == ServerSpec => []EngineClosedLast
  <1>1. ServerInv => EngineClosedLast
    BY Stage DEF InOrder, ServerInv, Gates, Deadline, LogDrained, EngineClosedLast
  <1> QED
    BY <1>1, ServerInvariance, PTL

(* A request that the closing of the engine cuts off had its time until    *)
(* the deadline, and the call of Shutdown that did the work returns an     *)
(* error.  Of the nil that later calls return it says nothing.             *)
THEOREM CutsReported == ServerSpec => []CutIsReported
  <1>1. ServerInv => CutIsReported
    <2> SUFFICES ASSUME ServerInv, owner # Nobody, cut # {}
                 PROVE  expired /\ result[owner] # "nil"
      BY DEF CutIsReported
    <2>1. expired
      BY DEF ServerInv, Deadline
    <2>2. ASSUME result[owner] = "nil" PROVE FALSE
      <3>1. ~errs
        BY <2>2 DEF ServerInv, Reported
      <3>2. At(PastEngine)
        BY <2>2, Positions DEF ServerInv, ServerTypeOK, OneOwner, At
      <3> QED
        BY <3>1, <3>2 DEF ServerInv, Reported
    <2> QED
      BY <2>1, <2>2
  <1> QED
    BY <1>1, ServerInvariance, PTL

(* Nobody returns from Shutdown early: also a second caller, who did none  *)
(* of the work, finds the engine closed and the log written.               *)
ReturnedMeansClosed ==
    (\E c \in Callers : pc[c] = "done") =>
        /\ engine = "closed" /\ listening = {}
        /\ worker = "stopped" /\ logChan = <<>> /\ \A t \in Targets : lines[t] = {}

(* sync.Once makes every caller wait for the one that does the work.       *)
THEOREM EveryCallerWaits == ServerSpec => []ReturnedMeansClosed
  <1>1. ServerInv => ReturnedMeansClosed
    <2> SUFFICES ASSUME ServerInv, NEW c \in Callers, pc[c] = "done"
                 PROVE  /\ engine = "closed" /\ listening = {} /\ worker = "stopped"
                        /\ logChan = <<>> /\ \A t \in Targets : lines[t] = {}
      BY DEF ReturnedMeansClosed
    <2>1. At({"done"})
      BY DEF ServerInv, OneOwner, At
    <2>2. At(PastEngine)
      BY <2>1, Positions DEF At
    <2> QED
      BY <2>2, Stage DEF InOrder, ServerInv, ServerTypeOK, Gates, LogDrained
  <1> QED
    BY <1>1, ServerInvariance, PTL

-----------------------------------------------------------------------------
(***************************************************************************)
(* The two together: FilesystemEngine.Close stops the dispatchers before   *)
(* it closes the metadata store, so CloseEngine waits for every Stop.      *)
(***************************************************************************)
Ended(s) == stop[s] \in {"returned", "skipped"}

CloseStopsFirst == engine' # engine => \A s \in Stoppers : Ended(s)

Process == Spec /\ ServerSpec /\ [][CloseStopsFirst]_<<engine, stop>>

(* Stop returns without waiting for two reasons: another call waits, or    *)
(* there was never an event, and then there never will be one.             *)
Skips ==
    /\ ~started => queue = <<>>
    /\ shutting /\ started => \E s \in Stoppers : stop[s] \in {"closing", "waiting", "returned"}
    /\ \A s \in Stoppers : stop[s] = "skipped" => shutting

LEMMA SkipsInv == Inv /\ Skips /\ [Next]_vars => Skips'
  <1> SUFFICES ASSUME Inv, Skips, [Next]_vars PROVE Skips'
    OBVIOUS
  <1> USE DEF Skips, Inv
  <1>1. ASSUME NEW e \in Events, Trigger(e) PROVE Skips'
    <2>1. UNCHANGED <<queue, shutting, stop>>
      BY <1>1 DEF Trigger
    <2>2. CASE shutting
      BY <1>1, <2>1, <2>2 DEF Trigger
    <2>3. CASE ~shutting
      BY <1>1, <2>1, <2>3 DEF Trigger
    <2> QED
      BY <2>2, <2>3
  <1>2. ASSUME NEW e \in Events, Enqueue(e) PROVE Skips'
    <2>1. started /\ UNCHANGED <<shutting, started, stop>>
      BY <1>2 DEF Enqueue, Guards, MutexFree
    <2> QED
      BY <2>1
  <1>3. ASSUME NEW g \in Goroutines, Step(g) PROVE Skips'
    <2>1. UNCHANGED <<shutting, started, stop>> /\ (queue' = queue \/ started)
      BY <1>3 DEF Step, Take, Exit, Fire, Succeed, Fail, Schedule, Done, Guards, Goroutines
    <2> QED
      BY <2>1
  <1>4. ASSUME NEW s \in Stoppers, Begin(s) PROVE Skips'
    <2>1. /\ stop[s] = "new" /\ shutting' = TRUE /\ UNCHANGED <<queue, started>>
          /\ stop' = [stop EXCEPT ![s] = IF shutting \/ ~started THEN "skipped" ELSE "closing"]
      BY <1>4 DEF Begin
    <2> QED
      BY <2>1 DEF TypeOK
  <1>5. ASSUME NEW s \in Stoppers, CloseQueue(s) \/ Wait(s) PROVE Skips'
    <2>1. /\ stop[s] \in {"closing", "waiting"} /\ UNCHANGED <<queue, started, shutting>>
          /\ \E v \in {"waiting", "returned"} : stop' = [stop EXCEPT ![s] = v]
      BY <1>5 DEF CloseQueue, Wait
    <2> QED
      BY <2>1 DEF TypeOK
  <1>6. CASE UNCHANGED vars
    BY <1>6 DEF vars
  <1> QED
    BY <1>1, <1>2, <1>3, <1>4, <1>5, <1>6 DEF Next, Over

LEMMA SkipsInvariance == Spec => []Skips
  <1>1. Init => Skips
    BY DEF Init, Skips
  <1> QED
    BY <1>1, SkipsInv, Invariance, PTL DEF Spec

(* A Stop that has ended stays so. *)
LEMMA EndedStable == ASSUME Inv, [Next]_vars, NEW s \in Stoppers, Ended(s) PROVE Ended(s)'
  <1> USE DEF Ended, Inv
  <1>1. ASSUME NEW e \in Events, Trigger(e) \/ Enqueue(e) PROVE Ended(s)'
    BY <1>1 DEF Trigger, Enqueue
  <1>2. ASSUME NEW g \in Goroutines, Step(g) PROVE Ended(s)'
    BY <1>2 DEF Step, Take, Exit, Fire, Succeed, Fail, Schedule, Done
  <1>3. ASSUME NEW o \in Stoppers, Begin(o) \/ CloseQueue(o) \/ Wait(o) PROVE Ended(s)'
    <2>1. o # s /\ \E v : stop' = [stop EXCEPT ![o] = v]
      BY <1>3 DEF Begin, CloseQueue, Wait
    <2> QED
      BY <2>1 DEF TypeOK
  <1>4. CASE UNCHANGED vars
    BY <1>4 DEF vars
  <1> QED
    BY <1>1, <1>2, <1>3, <1>4 DEF Next, Over

(* With every Stop ended, no accepted event is unsettled and no goroutine  *)
(* of the dispatcher is left, also when there was nothing to wait for.     *)
LEMMA EndedQuiet ==
    ASSUME Inv, Skips, Stoppers # {}, \A s \in Stoppers : Ended(s)
    PROVE  Live = {} /\ \A e \in Events : outcome[e] # "accepted"
  <1> USE DEF Inv, Ended
  <1>1. CASE \E s \in Stoppers : stop[s] = "returned"
    BY <1>1, StopReturned DEF StopWaits
  <1>2. CASE \A s \in Stoppers : stop[s] = "skipped"
    <2>1. ~started /\ queue = <<>>
      BY <1>2 DEF Skips
    <2>2. \A g \in Goroutines : state[g] = "off" /\ ~Active(g)
      BY <2>1 DEF Guards, Active
    <2> QED
      BY <2>1, <2>2 DEF Live, Carried
  <1> QED
    BY <1>1, <1>2

(* The storage engine is closed only after everything that shutdown waits  *)
(* for: no mirror or webhook attempt is under way or scheduled, every      *)
(* accepted event is settled, the log worker has stopped and no S3 request *)
(* is being served but a late one.  (It does not wait for the clean-up     *)
(* worker, nor for a console request beyond the deadline.)                 *)
QuietOnClose ==
    engine = "closed" =>
        /\ Live = {} /\ \A e \in Events : outcome[e] # "accepted"
        /\ worker = "stopped" /\ ActiveReqs \subseteq late

(* The process with its dispatchers closes the engine only when it is      *)
(* quiet, provided that Close calls Stop at all.                           *)
THEOREM EngineClosesQuiet == ASSUME Stoppers # {} PROVE Process => []QuietOnClose
  <1> DEFINE Q == engine = "closed" => \A s \in Stoppers : Ended(s)
  <1>1. ServerInit => Q
    BY DEF ServerInit
  <1>2. Q /\ Inv /\ [Next]_vars /\ [CloseStopsFirst]_<<engine, stop>> => Q'
    <2> SUFFICES ASSUME Q, Inv, [Next]_vars, [CloseStopsFirst]_<<engine, stop>>, engine' = "closed",
                        NEW s \in Stoppers
                 PROVE  Ended(s)'
      OBVIOUS
    <2>1. Ended(s)
      BY DEF CloseStopsFirst
    <2> QED
      BY <2>1, EndedStable
  <1>3. Q /\ Inv /\ Skips /\ ServerInv => QuietOnClose
    <2> SUFFICES ASSUME Q, Inv, Skips, ServerInv, engine = "closed"
                 PROVE  /\ Live = {} /\ \A e \in Events : outcome[e] # "accepted"
                        /\ worker = "stopped" /\ ActiveReqs \subseteq late
      BY DEF QuietOnClose
    <2>1. Live = {} /\ \A e \in Events : outcome[e] # "accepted"
      BY EndedQuiet
    <2>2. worker = "stopped" /\ ActiveReqs \subseteq late
      BY Stage DEF InOrder, ServerInv, Gates, Deadline, LogDrained
    <2> QED
      BY <2>1, <2>2
  <1> HIDE DEF Q
  <1> QED
    BY <1>1, <1>2, <1>3, Invariance, SkipsInvariance, ServerInvariance, PTL DEF Process, Spec, ServerSpec
=============================================================================
