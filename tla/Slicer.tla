------------------------------- MODULE Slicer -------------------------------
(***************************************************************************)
(* diffs/core/slicer.{h,cpp}: slices of items that can only be read from   *)
(* start to end are requested while slicing is paused; resume_slicing()    *)
(* starts a worker thread for each such item, which reads it once, stores  *)
(* the requested slices as it passes them and wakes whoever fetches one.   *)
(*                                                                         *)
(* One client thread calls the slicer, another may cancel it.  A worker is *)
(* its item and the call of resume_slicing() that started it.  A thread    *)
(* that has tested the predicate of m_state_cv in vain keeps m_state_mutex *)
(* until it sleeps; the counters and m_state itself are changed without    *)
(* it where the code does so, and what is read of them may be old when it  *)
(* is acted on.  The content of m_store_cv's predicate only changes under  *)
(* m_store_mutex, so testing it and going to sleep is one step.  A worker  *)
(* that uses a null pointer ends the process: no thread takes a step then. *)
(***************************************************************************)
EXTENDS Integers, FiniteSets

CONSTANTS Items, Slices, NoSlice,
          Client,        \* the thread that calls the slicer
          Free,          \* of a mutex: held by no thread
          SizeOf,        \* of a slice
          Offers,        \* what may be requested: [item, offset, slice]
          Needs,         \* the slice that making the reader of an item fetches
          MaxRounds,     \* bound: calls of resume_slicing()
          MaxRequests,   \* bound: requests of one slice
          MayPause, MayCancel, MayFail

SlicerAssumption ==
    /\ IsFiniteSet(Items)
    /\ NoSlice \notin Slices
    /\ SizeOf \in [Slices -> Nat]
    /\ Offers \subseteq [item : Items, offset : Nat, slice : Slices]
    /\ Needs \in [Items -> Slices \union {NoSlice}]
    /\ MaxRounds \in Nat /\ MaxRequests \in Nat
    /\ {MayPause, MayCancel, MayFail} \subseteq BOOLEAN

ASSUME SlicerAssumption

Workers == Items \X (1 .. MaxRounds)
Threads == Workers \union {Client}

ASSUME ThreadAssumption == Client \notin Workers /\ Free \notin Threads

VARIABLES
    m_state,
    m_items_to_slices_requested,   \* item -> offers; {} where there is no entry
    m_item_to_slice_prepared,      \* items
    m_slice_item_request_counts,   \* slice -> count; 0 where there is no entry
    m_stored_slices,               \* slice -> count; 0 where there is no entry
    m_starting_thread_count, m_paused_thread_count, m_running_thread_count,
    m_state_mutex,                 \* the thread that is going to sleep, or Free
    m_state_cv, m_store_cv,        \* the threads that sleep
    pc, round,
    slices_requested,              \* worker -> offers still to be sliced
    prepared_item_to_slice,        \* the workers whose pointer is not null
    fetching,                      \* what the client fetches
    canceller,                     \* the other thread
    requests, fetches              \* history: how often, for each slice

requested == <<m_items_to_slices_requested, m_item_to_slice_prepared,
               m_slice_item_request_counts, requests>>
counters == <<m_starting_thread_count, m_paused_thread_count,
              m_running_thread_count>>
store == <<m_stored_slices, m_store_cv, fetching, fetches>>
waits == <<m_state_mutex, m_state_cv>>
passes == <<slices_requested, prepared_item_to_slice>>
threads == <<round, passes, canceller>>
others == <<m_state, requested, counters, store, waits, threads>>
vars == <<others, pc>>

Init ==
    /\ m_state = "paused"
    /\ m_items_to_slices_requested = [i \in Items |-> {}]
    /\ m_item_to_slice_prepared = {}
    /\ m_slice_item_request_counts = [s \in Slices |-> 0]
    /\ m_stored_slices = [s \in Slices |-> 0]
    /\ m_starting_thread_count = 0
    /\ m_paused_thread_count = 0
    /\ m_running_thread_count = 0
    /\ m_state_mutex = Free
    /\ m_state_cv = {}
    /\ m_store_cv = {}
    /\ pc = [t \in Threads |-> IF t = Client THEN "idle" ELSE "none"]
    /\ round = 0
    /\ slices_requested = [w \in Workers |-> {}]
    /\ prepared_item_to_slice = {}
    /\ fetching = NoSlice
    /\ canceller = "idle"
    /\ requests = [s \in Slices |-> 0]
    /\ fetches = [s \in Slices |-> 0]

Goto(t, step) == pc' = [pc EXCEPT ![t] = step]

-----------------------------------------------------------------------------
(* m_state_cv.                                                             *)

\* wait(): the predicate is tested with m_state_mutex held; when it is true
\* the thread goes on.
CanTest(t, step) == pc[t] = step /\ t \notin m_state_cv /\ m_state_mutex = Free

TestInVain(t, step) == CanTest(t, step) /\ m_state_mutex' = t

FallAsleep(t) ==
    /\ m_state_mutex = t
    /\ m_state_mutex' = Free
    /\ m_state_cv' = m_state_cv \union {t}
    /\ UNCHANGED <<m_state, requested, counters, store, pc, threads>>

\* A slip: notify_all() is left out.
NotifyNobody == UNCHANGED m_state_cv

NotifyState == m_state_cv' = {}

-----------------------------------------------------------------------------
(* request_slice().  A call that throws changes nothing.                   *)

\* check_overlap(): TRUE when there is none.
Disjoint(offset1, length1, offset2, length2) ==
    /\ offset1 < offset2 \/ offset1 >= offset2 + length2
    /\ offset2 < offset1 \/ offset2 >= offset1 + length1

Apart(r, q) == Disjoint(r.offset, SizeOf[r.slice], q.offset, SizeOf[q.slice])

\* A slip: only lower_bound() is looked at.
LowerBound(r, asked) ==
    {q \in asked : /\ q.offset >= r.offset
                   /\ \A p \in asked : p.offset >= r.offset => q.offset <= p.offset}

\* lower_bound() of the offset, and the entry before it.
Neighbours(r, asked) ==
    {q \in asked : \/ /\ q.offset >= r.offset
                      /\ \A p \in asked : p.offset >= r.offset => q.offset <= p.offset
                   \/ /\ q.offset < r.offset
                      /\ \A p \in asked : p.offset < r.offset => q.offset >= p.offset}

Acceptable(r) ==
    \A q \in Neighbours(r, m_items_to_slices_requested[r.item]) : Apart(r, q)

\* insert() keeps an entry with the same offset, which may be there when both
\* slices are empty.
Inserted(r, asked) ==
    IF \E q \in asked : q.offset = r.offset THEN asked ELSE asked \union {r}

MayRequest(r) ==
    /\ pc[Client] = "idle"
    /\ m_state = "paused"
    /\ m_state_mutex = Free
    /\ requests[r.slice] < MaxRequests
    /\ Needs[r.item] # NoSlice => requests[Needs[r.item]] > 0

CountRequest(s) ==
    /\ m_slice_item_request_counts' = [m_slice_item_request_counts EXCEPT ![s] = @ + 1]
    /\ requests' = [requests EXCEPT ![s] = @ + 1]

RequestAgain(r) ==
    /\ MayRequest(r)
    /\ m_slice_item_request_counts[r.slice] > 0
    /\ CountRequest(r.slice)
    /\ UNCHANGED <<m_state, m_items_to_slices_requested,
                   m_item_to_slice_prepared, counters, store, waits, pc,
                   threads>>

RequestSlice(r) ==
    /\ MayRequest(r)
    /\ m_slice_item_request_counts[r.slice] = 0
    /\ Acceptable(r)
    /\ m_item_to_slice_prepared' = m_item_to_slice_prepared \union {r.item}
    /\ m_items_to_slices_requested' =
           [m_items_to_slices_requested EXCEPT ![r.item] = Inserted(r, @)]
    /\ CountRequest(r.slice)
    /\ UNCHANGED <<m_state, counters, store, waits, pc, threads>>

-----------------------------------------------------------------------------
(* resume_slicing(), pause_slicing(), cancel_slicing().                    *)

Resume ==
    /\ pc[Client] = "idle"
    /\ m_state # "cancelled"
    /\ round < MaxRounds
    /\ Goto(Client, "resume")
    /\ UNCHANGED others

\* m_state is stored whatever has become of it since it was looked at.  The
\* threads start one by one; nobody looks at their number before all have.
ResumeRuns ==
    /\ pc[Client] = "resume"
    /\ m_state_mutex = Free
    /\ round < MaxRounds
    /\ m_state' = "running"
    /\ round' = round + 1
    /\ m_starting_thread_count' =
           m_starting_thread_count + Cardinality(m_item_to_slice_prepared)
    /\ pc' = [t \in Threads |->
                 IF t = Client THEN "await started"
                 ELSE IF t \in m_item_to_slice_prepared \X {round + 1} THEN "starting"
                 ELSE pc[t]]
    /\ UNCHANGED <<requested, m_paused_thread_count, m_running_thread_count,
                   store, waits, passes, canceller>>

\* A slip: the last thread is not waited for.
AllButOneStarted == m_starting_thread_count <= 1 \/ m_state = "cancelled"

AllStarted == m_starting_thread_count = 0 \/ m_state = "cancelled"

ResumeStarted ==
    /\ CanTest(Client, "await started")
    /\ AllStarted
    /\ m_item_to_slice_prepared' = {}
    /\ Goto(Client, "cleared")
    /\ UNCHANGED <<m_state, m_items_to_slices_requested,
                   m_slice_item_request_counts, requests, counters, store,
                   waits, threads>>

ResumeGoesOn ==
    /\ pc[Client] = "cleared"
    /\ Goto(Client, IF m_state = "cancelled" THEN "idle" ELSE "await unpaused")
    /\ UNCHANGED others

NonePaused == m_paused_thread_count = 0

ResumeReturns ==
    /\ CanTest(Client, "await unpaused")
    /\ NonePaused
    /\ Goto(Client, "idle")
    /\ UNCHANGED others

Pause ==
    /\ MayPause
    /\ pc[Client] = "idle"
    /\ m_state = "running"
    /\ Goto(Client, "pause")
    /\ UNCHANGED others

\* The store holds no mutex, and does not look at m_state again.
PauseStores ==
    /\ pc[Client] = "pause"
    /\ m_state' = "paused"
    /\ Goto(Client, "await quiet")
    /\ UNCHANGED <<requested, counters, store, waits, threads>>

\* A slip: the last thread is not waited for.
NoneOrOneRunning == m_running_thread_count <= 1 \/ m_state = "cancelled"

NoneRunning == m_running_thread_count = 0 \/ m_state = "cancelled"

PauseReturns ==
    /\ CanTest(Client, "await quiet")
    /\ NoneRunning
    /\ Goto(Client, "idle")
    /\ UNCHANGED others

ClientTestsInVain ==
    /\ \/ ~AllStarted /\ TestInVain(Client, "await started")
       \/ ~NonePaused /\ TestInVain(Client, "await unpaused")
       \/ ~NoneRunning /\ TestInVain(Client, "await quiet")
    /\ UNCHANGED <<m_state, requested, counters, store, m_state_cv, pc,
                   threads>>

\* cancel_slicing() on the other thread, at any time and as often as it likes.
Cancel ==
    /\ MayCancel
    /\ canceller = "idle"
    /\ pc[Client] \notin {"cancelling", "join", "destroyed"}
    /\ m_state_mutex = Free
    /\ m_state' = "cancelled"
    /\ canceller' = "notify"
    /\ UNCHANGED <<requested, counters, store, waits, pc, round, passes>>

CancelNotifies ==
    /\ canceller = "notify"
    /\ NotifyState
    /\ canceller' = "idle"
    /\ UNCHANGED <<m_state, requested, counters, store, m_state_mutex, pc,
                   round, passes>>

\* ~slicer(): cancel_slicing(), then every thread is joined.
Destroy ==
    /\ pc[Client] = "idle"
    /\ canceller # "notify"
    /\ m_state_mutex = Free
    /\ m_state' = "cancelled"
    /\ Goto(Client, "cancelling")
    /\ UNCHANGED <<requested, counters, store, waits, threads>>

DestroyNotifies ==
    /\ pc[Client] = "cancelling"
    /\ NotifyState
    /\ Goto(Client, "join")
    /\ UNCHANGED <<m_state, requested, counters, store, m_state_mutex, threads>>

Join ==
    /\ pc[Client] = "join"
    /\ \A w \in Workers : pc[w] \in {"none", "ended", "failed"}
    /\ Goto(Client, "destroyed")
    /\ UNCHANGED others

-----------------------------------------------------------------------------
(* fetch_slice(): by the client, and by a worker that makes its reader.    *)

Wanted(t) == IF t = Client THEN fetching ELSE Needs[t[1]]
Fetched(t) == Goto(t, IF t = Client THEN "idle" ELSE "loop")
FetchFailed(t) == Goto(t, IF t = Client THEN "idle" ELSE "failed")

\* The client fetches what it has requested, as often as it has.
Fetch(s) ==
    /\ pc[Client] = "idle"
    /\ fetches[s] < requests[s]
    /\ \A i \in Items : Needs[i] # s
    /\ fetching' = s
    /\ Goto(Client, "fetch")
    /\ UNCHANGED <<m_state, requested, counters, m_stored_slices, m_store_cv,
                   fetches, waits, threads>>

FetchThrows(t) ==
    /\ pc[t] = "fetch"
    /\ m_state # "running"
    /\ FetchFailed(t)
    /\ UNCHANGED others

\* The count is taken down in a copy of the entry (slicer.cpp:157).
LeftInStore(count) == IF count = 1 THEN 0 ELSE count

Consume(t) ==
    /\ pc[t] = "fetch"
    /\ m_state = "running"
    /\ m_stored_slices[Wanted(t)] > 0
    /\ m_stored_slices' = [m_stored_slices EXCEPT ![Wanted(t)] = LeftInStore(@)]
    /\ fetches' = [fetches EXCEPT ![Wanted(t)] = @ + 1]
    /\ Fetched(t)
    /\ UNCHANGED <<m_state, requested, counters, m_store_cv, fetching, waits,
                   threads>>

NotInStore(t) ==
    /\ pc[t] = "fetch"
    /\ m_state = "running"
    /\ m_stored_slices[Wanted(t)] = 0
    /\ Goto(t, "await slice")
    /\ UNCHANGED others

AwaitSlice(t) ==
    /\ pc[t] = "await slice"
    /\ t \notin m_store_cv
    /\ IF m_stored_slices[Wanted(t)] > 0
       THEN Goto(t, "fetch") /\ UNCHANGED m_store_cv
       ELSE m_store_cv' = m_store_cv \union {t} /\ UNCHANGED pc
    /\ UNCHANGED <<m_state, requested, counters, m_stored_slices, fetching,
                   fetches, waits, threads>>

InFetch(t) == FetchThrows(t) \/ Consume(t) \/ NotInStore(t) \/ AwaitSlice(t)

-----------------------------------------------------------------------------
(* slice_and_populate_slice_store(): a worker.                             *)

StartFails(w) ==
    /\ pc[w] = "starting"
    /\ m_state # "running"
    /\ Goto(w, "failed")
    /\ UNCHANGED others

Admit(w) ==
    /\ pc[w] = "starting"
    /\ m_state = "running"
    /\ Goto(w, "admitted")
    /\ UNCHANGED others

\* A slip: the slices are copied, and their item still asks for them.
CopyRequests(i) == UNCHANGED m_items_to_slices_requested

EraseRequests(i) ==
    m_items_to_slices_requested' = [m_items_to_slices_requested EXCEPT ![i] = {}]

\* swap() and erase() hold no mutex.  Without an entry the worker throws.
Take(w) ==
    /\ pc[w] = "admitted"
    /\ slices_requested' =
           [slices_requested EXCEPT ![w] = m_items_to_slices_requested[w[1]]]
    /\ EraseRequests(w[1])
    /\ Goto(w, IF m_items_to_slices_requested[w[1]] = {} THEN "failed" ELSE "taken")
    /\ UNCHANGED <<m_state, m_item_to_slice_prepared,
                   m_slice_item_request_counts, requests, counters, store,
                   waits, round, prepared_item_to_slice, canceller>>

\* operator[] inserts a null pointer where there is no entry.  It is not told
\* from the others: slicing was cancelled then and nobody looks there again.
LookUp(w) ==
    /\ pc[w] = "taken"
    /\ m_item_to_slice_prepared' = m_item_to_slice_prepared \union {w[1]}
    /\ prepared_item_to_slice' =
           IF w[1] \in m_item_to_slice_prepared
           THEN prepared_item_to_slice \union {w} ELSE prepared_item_to_slice
    /\ Goto(w, "looked up")
    /\ UNCHANGED <<m_state, m_items_to_slices_requested,
                   m_slice_item_request_counts, requests, counters, store,
                   waits, round, slices_requested, canceller>>

Started(w) ==
    /\ pc[w] = "looked up"
    /\ m_running_thread_count' = m_running_thread_count + 1
    /\ m_starting_thread_count' = m_starting_thread_count - 1
    /\ Goto(w, "started")
    /\ UNCHANGED <<m_state, requested, m_paused_thread_count, store, waits,
                   threads>>

NotifyStarted(w) ==
    /\ pc[w] = "started"
    /\ NotifyState
    /\ Goto(w, "make reader")
    /\ UNCHANGED <<m_state, requested, counters, store, m_state_mutex, threads>>

MakeReader(w) ==
    /\ pc[w] = "make reader"
    /\ Goto(w, IF w \notin prepared_item_to_slice THEN "crashed"
               ELSE IF Needs[w[1]] = NoSlice THEN "loop" ELSE "fetch")
    /\ UNCHANGED others

CountPaused ==
    /\ m_paused_thread_count' = m_paused_thread_count + 1
    /\ m_running_thread_count' = m_running_thread_count - 1

\* A slip: the worker runs again and is not counted.
CountRunningNowhere ==
    /\ m_paused_thread_count' = m_paused_thread_count - 1
    /\ UNCHANGED m_running_thread_count

CountRunning ==
    /\ m_paused_thread_count' = m_paused_thread_count - 1
    /\ m_running_thread_count' = m_running_thread_count + 1

\* The counters change, and the signal is given, without m_state_mutex.
PauseWorker(w) ==
    /\ pc[w] = "loop"
    /\ slices_requested[w] # {}
    /\ m_state = "paused"
    /\ CountPaused
    /\ Goto(w, "pausing")
    /\ UNCHANGED <<m_state, requested, m_starting_thread_count, store, waits,
                   threads>>

NotifyPaused(w) ==
    /\ pc[w] = "pausing"
    /\ NotifyState
    /\ Goto(w, "paused")
    /\ UNCHANGED <<m_state, requested, counters, store, m_state_mutex, threads>>

StayPaused(w) ==
    /\ TestInVain(w, "paused")
    /\ m_state = "paused"
    /\ UNCHANGED <<m_state, requested, counters, store, m_state_cv, pc,
                   threads>>

Unpause(w) ==
    /\ CanTest(w, "paused")
    /\ m_state # "paused"
    /\ CountRunning
    /\ Goto(w, "unpaused")
    /\ UNCHANGED <<m_state, requested, m_starting_thread_count, store, waits,
                   threads>>

KeepsRunning(w) ==
    /\ pc[w] = "loop"
    /\ slices_requested[w] # {}
    /\ m_state # "paused"
    /\ Goto(w, "unpaused")
    /\ UNCHANGED others

GoesOn(w) ==
    /\ pc[w] = "unpaused"
    /\ Goto(w, IF m_state = "cancelled" THEN "ended" ELSE "slice")
    /\ UNCHANGED others

EndWorker(w) ==
    /\ pc[w] = "loop"
    /\ slices_requested[w] = {}
    /\ Goto(w, "ended")
    /\ UNCHANGED others

\* The reader ends early, or the hash is not the slice's; the worker only
\* logs it.
SliceFails(w) ==
    /\ MayFail
    /\ pc[w] = "slice"
    /\ Goto(w, "failed")
    /\ UNCHANGED others

\* A slip: the slice is kept for one fetch only.
StoredOnce(left, count) == 1

\* insert() keeps an entry that is there.
Stored(left, count) == IF left > 0 THEN left ELSE count

\* The slices come in the order of their offsets.
Store(w) ==
    /\ pc[w] = "slice"
    /\ \E r \in slices_requested[w] :
          /\ \A q \in slices_requested[w] : r.offset <= q.offset
          /\ m_slice_item_request_counts[r.slice] > 0
          /\ m_stored_slices' =
                 [m_stored_slices EXCEPT
                     ![r.slice] = Stored(@, m_slice_item_request_counts[r.slice])]
          /\ m_slice_item_request_counts' =
                 [m_slice_item_request_counts EXCEPT ![r.slice] = 0]
          /\ slices_requested' = [slices_requested EXCEPT ![w] = @ \ {r}]
    /\ Goto(w, "stored")
    /\ UNCHANGED <<m_state, m_items_to_slices_requested,
                   m_item_to_slice_prepared, requests, counters, m_store_cv,
                   fetching, fetches, waits, round, prepared_item_to_slice,
                   canceller>>

\* A slip: nobody is told of the slice.
WakeNobody == UNCHANGED m_store_cv

WakeFetchers == m_store_cv' = {}

NotifyStored(w) ==
    /\ pc[w] = "stored"
    /\ WakeFetchers
    /\ Goto(w, "loop")
    /\ UNCHANGED <<m_state, requested, counters, m_stored_slices, fetching,
                   fetches, waits, threads>>

-----------------------------------------------------------------------------
Alive == \A w \in Workers : pc[w] # "crashed"

Worker(w) ==
    /\ Alive
    /\ \/ StartFails(w) \/ Admit(w) \/ Take(w) \/ LookUp(w) \/ Started(w)
       \/ NotifyStarted(w) \/ MakeReader(w) \/ InFetch(w)
       \/ PauseWorker(w) \/ NotifyPaused(w) \/ StayPaused(w) \/ FallAsleep(w)
       \/ Unpause(w) \/ KeepsRunning(w) \/ GoesOn(w) \/ EndWorker(w)
       \/ SliceFails(w) \/ Store(w) \/ NotifyStored(w)

InCall ==
    /\ Alive
    /\ \/ ResumeRuns \/ ResumeStarted \/ ResumeGoesOn \/ ResumeReturns
       \/ PauseStores \/ PauseReturns
       \/ ClientTestsInVain \/ FallAsleep(Client)
       \/ InFetch(Client)
       \/ DestroyNotifies \/ Join

Call ==
    /\ Alive
    /\ \/ \E r \in Offers : RequestSlice(r) \/ RequestAgain(r)
       \/ \E s \in Slices : Fetch(s)
       \/ Resume \/ Pause \/ Destroy

CancelSlicing == Alive /\ (Cancel \/ CancelNotifies)

Next ==
    \/ \E w \in Workers : Worker(w)
    \/ InCall \/ Call \/ CancelSlicing

\* Threads run, and calls that were made go on; nothing makes the client call.
Spec ==
    /\ Init /\ [][Next]_vars
    /\ \A w \in Workers : WF_vars(Worker(w))
    /\ WF_vars(InCall) /\ WF_vars(Alive /\ CancelNotifies)

-----------------------------------------------------------------------------
(* Correctness.                                                            *)

WorkerSteps ==
    {"none", "starting", "admitted", "taken", "looked up", "started",
     "make reader", "fetch", "await slice", "loop", "pausing", "paused",
     "unpaused", "slice", "stored", "ended", "failed", "crashed"}
ClientSteps ==
    {"idle", "resume", "await started", "cleared", "await unpaused", "pause",
     "await quiet", "fetch", "await slice", "cancelling", "join", "destroyed"}

TypeOK ==
    /\ m_state \in {"paused", "running", "cancelled"}
    /\ m_items_to_slices_requested \in [Items -> SUBSET Offers]
    /\ m_item_to_slice_prepared \subseteq Items
    /\ m_slice_item_request_counts \in [Slices -> Nat]
    /\ m_stored_slices \in [Slices -> Nat]
    /\ m_starting_thread_count \in Nat
    /\ m_paused_thread_count \in Nat
    /\ m_running_thread_count \in Nat
    /\ m_state_mutex \in Threads \union {Free}
    /\ m_state_cv \subseteq Threads
    /\ m_store_cv \subseteq Threads
    /\ DOMAIN pc = Threads
    /\ \A w \in Workers : pc[w] \in WorkerSteps
    /\ pc[Client] \in ClientSteps
    /\ round \in 0 .. MaxRounds
    /\ slices_requested \in [Workers -> SUBSET Offers]
    /\ fetching \in Slices \union {NoSlice}
    /\ prepared_item_to_slice \subseteq Workers
    /\ canceller \in {"idle", "notify"}
    /\ requests \in [Slices -> Nat]
    /\ fetches \in [Slices -> Nat]

In(steps) == {w \in Workers : pc[w] \in steps}
Starting == In({"starting", "admitted", "taken", "looked up"})
Active == In({"started", "make reader", "fetch", "await slice", "loop",
              "unpaused", "slice", "stored"})
AtRest == In({"pausing", "paused"})

\* What resume_slicing() and pause_slicing() wait for agrees with the threads:
\* the running count never falls below the workers that touch a reader or the
\* store.  It may exceed them: a worker that ends is not taken off.
CountersCover ==
    /\ m_starting_thread_count >= Cardinality(Starting)
    /\ m_paused_thread_count = Cardinality(AtRest)
    /\ m_running_thread_count >= Cardinality(Active)

\* When pause_slicing() or resume_slicing() has returned and slicing is paused,
\* no worker reads or stores, so that request_slice() may change what they
\* share without their mutex (slicer.cpp:55-64, 427).
PausedIsQuiet ==
    m_state = "paused" /\ pc[Client] = "idle" => Starting = {} /\ Active = {}

\* Where a requested slice waits: with its item, or with a worker.
Waiting(s) ==
    Cardinality({i \in Items : \E r \in m_items_to_slices_requested[i] : r.slice = s})
    + Cardinality({w \in Workers : \E r \in slices_requested[w] : r.slice = s})

\* A slice with a request count is waiting in exactly one place, and nothing
\* waits without a count: no worker meets "No requests for slice".
OneProducer ==
    \A s \in Slices : Waiting(s) = IF m_slice_item_request_counts[s] > 0 THEN 1 ELSE 0

Separate(asked) ==
    \A r \in asked : \A q \in asked \ {r} : Apart(r, q) /\ r.offset # q.offset

\* The neighbours that request_slice() looks at are enough: no two slices of
\* one pass overlap, and no two have the same offset.
NoOverlap ==
    /\ \A i \in Items : Separate(m_items_to_slices_requested[i])
    /\ \A w \in Workers : Separate(slices_requested[w])

\* Every request is still waiting, in the store, or was fetched.
NoRequestLost ==
    \A s \in Slices :
        requests[s] <= m_slice_item_request_counts[s] + m_stored_slices[s] + fetches[s]

\* A fetch of what was requested comes to its end.
FetchEnds == pc[Client] = "fetch" ~> pc[Client] = "idle"

\* ~slicer() comes to its end, unless a worker ends the process before: the
\* signal of cancel_slicing() reaches every worker, paused or about to be.
DestructorEnds == pc[Client] = "join" ~> pc[Client] = "destroyed" \/ ~Alive

\* "we can clear this as the working threads have already used this"
\* (slicer.cpp:277-278): a worker that makes its reader has found its item.
ItemFoundBeforeCleared ==
    \A w \in Workers : pc[w] = "make reader" => w \in prepared_item_to_slice
=============================================================================
