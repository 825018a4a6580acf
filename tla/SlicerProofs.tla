---------------------------- MODULE SlicerProofs ----------------------------
(***************************************************************************)
(* Theorems about Slicer.  What request_slice() accepts never overlaps,    *)
(* whatever the offsets and lengths, although it compares a new slice only *)
(* with its neighbours.  What resume_slicing() and pause_slicing() wait    *)
(* for covers the threads, though it is counted without the mutex, so a    *)
(* paused slicer is quiet.  A slice that is requested waits at one item or *)
(* in one pass, and until slicing is paused again no request of it is lost.*)
(***************************************************************************)
EXTENDS Slicer, FiniteSetTheorems, WellFoundedInduction, TLAPS

-----------------------------------------------------------------------------
(* What is requested of one pass.                                          *)

\* lower_bound() finds an entry when there is one.
LEMMA Least ==
  ASSUME NEW T, T \subseteq Nat, T # {}
  PROVE  \E m \in T : \A n \in T : m <= n
<1>1. PICK m \in T : \A n \in T : ~(<<n, m>> \in OpToRel(<, Nat))
  BY NatLessThanWellFounded, WFMin
<1>2. \A n \in T : ~(n < m) BY <1>1 DEF OpToRel
<1> QED BY <1>2

\* And so does the step back from it.
LEMMA Greatest ==
  ASSUME NEW T, T \subseteq Nat, T # {}, NEW b \in Nat, \A n \in T : n < b
  PROVE  \E m \in T : \A n \in T : n <= m
<1> DEFINE D == {b - n : n \in T}
<1>1. D \subseteq Nat /\ D # {}
  <2>1. \A n \in T : n \in Nat /\ n < b OBVIOUS
  <2>2. \A n \in T : b - n \in Nat BY <2>1
  <2> QED BY <2>2
<1>2. PICK d \in D : \A e \in D : d <= e BY <1>1, Least
<1>3. PICK m \in T : d = b - m OBVIOUS
<1>4. ASSUME NEW n \in T PROVE n <= m
  <2>1. b - m <= b - n BY <1>2, <1>3
  <2> QED BY <2>1
<1> QED BY <1>4

\* An offer has an offset, and its slice a size.
LEMMA Sizes ==
  ASSUME SlicerAssumption, NEW r \in Offers
  PROVE  r.offset \in Nat /\ SizeOf[r.slice] \in Nat /\ r.item \in Items
BY DEF SlicerAssumption

\* check_overlap() does not depend on the order of its arguments.
LEMMA ApartSymmetric ==
  ASSUME NEW r, NEW q, Apart(r, q)
  PROVE  Apart(q, r)
BY DEF Apart, Disjoint

\* A slice that is apart from its neighbours is apart from all that are asked
\* for (slicer.cpp:92-135).
LEMMA NeighboursSuffice ==
  ASSUME SlicerAssumption, NEW asked, asked \subseteq Offers, Separate(asked),
         NEW r \in Offers, \A q \in Neighbours(r, asked) : Apart(r, q),
         NEW q \in asked
  PROVE  Apart(r, q)
<1>1. /\ r.offset \in Nat /\ SizeOf[r.slice] \in Nat
      /\ q.offset \in Nat /\ SizeOf[q.slice] \in Nat
  BY Sizes
<1>2. CASE q.offset >= r.offset
  <2> DEFINE T == {p.offset : p \in {o \in asked : o.offset >= r.offset}}
  <2>1. T \subseteq Nat /\ T # {} BY <1>2, Sizes
  <2>2. PICK m \in T : \A n \in T : m <= n BY <2>1, Least
  <2>3. PICK p \in asked : p.offset >= r.offset /\ p.offset = m BY <2>2
  <2>4. \A o \in asked : o.offset >= r.offset => p.offset <= o.offset
    BY <2>2, <2>3
  <2>5. Apart(r, p) BY <2>3, <2>4 DEF Neighbours
  <2>6. p.offset \in Nat /\ SizeOf[p.slice] \in Nat BY Sizes
  <2>7. p = q \/ p.offset < q.offset
    BY <1>1, <1>2, <2>4, <2>6 DEF Separate
  <2> QED BY <1>1, <2>3, <2>5, <2>6, <2>7 DEF Apart, Disjoint
<1>3. CASE q.offset < r.offset
  <2> DEFINE T == {p.offset : p \in {o \in asked : o.offset < r.offset}}
  <2>1. T \subseteq Nat /\ T # {} BY <1>3, Sizes
  <2>0. \A n \in T : n < r.offset OBVIOUS
  <2> HIDE DEF T
  <2>2. PICK m \in T : \A n \in T : n <= m BY <1>1, <2>1, <2>0, Greatest
  <2> USE DEF T
  <2>3. PICK p \in asked : p.offset < r.offset /\ p.offset = m BY <2>2
  <2>4. \A o \in asked : o.offset < r.offset => p.offset >= o.offset
    <3>1. ASSUME NEW o \in asked, o.offset < r.offset PROVE o.offset <= p.offset
      BY <2>2, <2>3, <3>1
    <3>2. \A o \in asked : o.offset \in Nat BY Sizes
    <3> QED BY <2>3, <3>1, <3>2
  <2>5. Apart(r, p) BY <2>3, <2>4 DEF Neighbours
  <2>6. p.offset \in Nat /\ SizeOf[p.slice] \in Nat BY Sizes
  <2>7. p = q \/ (q.offset < p.offset /\ Apart(q, p))
    BY <1>1, <1>3, <2>4, <2>6 DEF Separate
  <2> QED BY <1>1, <2>3, <2>5, <2>6, <2>7 DEF Apart, Disjoint
<1> QED BY <1>1, <1>2, <1>3

\* Inserting an acceptable slice keeps what is asked for separate.
LEMMA InsertKeepsSeparate ==
  ASSUME SlicerAssumption, NEW asked, asked \subseteq Offers, Separate(asked),
         NEW r \in Offers, \A q \in Neighbours(r, asked) : Apart(r, q)
  PROVE  Inserted(r, asked) \subseteq Offers /\ Separate(Inserted(r, asked))
<1>1. \A q \in asked : Apart(r, q) /\ Apart(q, r)
  BY NeighboursSuffice, ApartSymmetric
<1> QED BY <1>1 DEF Inserted, Separate

\* The part of the state that NoOverlap is about.
Asked ==
    /\ m_items_to_slices_requested \in [Items -> SUBSET Offers]
    /\ slices_requested \in [Workers -> SUBSET Offers]
    /\ NoOverlap

\* request_slice() with a new slice.
LEMMA RequestKeepsAsked ==
  ASSUME SlicerAssumption, Asked, NEW r \in Offers, RequestSlice(r)
  PROVE  Asked'
<1> DEFINE asked == m_items_to_slices_requested[r.item]
<1>1. /\ slices_requested' = slices_requested
      /\ m_items_to_slices_requested' =
             [m_items_to_slices_requested EXCEPT ![r.item] = Inserted(r, asked)]
      /\ \A q \in Neighbours(r, asked) : Apart(r, q)
  BY DEF RequestSlice, Acceptable, threads, passes
<1>2. r.item \in Items BY Sizes
<1>3. asked \subseteq Offers /\ Separate(asked) BY <1>2 DEF Asked, NoOverlap
<1>4. Inserted(r, asked) \subseteq Offers /\ Separate(Inserted(r, asked))
  BY <1>1, <1>3, InsertKeepsSeparate
<1> HIDE DEF asked
<1>5. \A i \in Items : Separate(m_items_to_slices_requested'[i])
  BY <1>1, <1>2, <1>4 DEF Asked, NoOverlap
<1> QED BY <1>1, <1>2, <1>4, <1>5 DEF Asked, NoOverlap

\* A worker takes all that its item asks for.
LEMMA TakeKeepsAsked ==
  ASSUME Asked, NEW w \in Workers, Take(w)
  PROVE  Asked'
<1>1. /\ slices_requested' =
             [slices_requested EXCEPT ![w] = m_items_to_slices_requested[w[1]]]
      /\ m_items_to_slices_requested' =
             [m_items_to_slices_requested EXCEPT ![w[1]] = {}]
  BY DEF Take, EraseRequests
<1>2. w[1] \in Items BY DEF Workers
<1>3. Separate({}) BY DEF Separate
<1>4. \A i \in Items : Separate(m_items_to_slices_requested'[i])
  BY <1>1, <1>3 DEF Asked, NoOverlap
<1>5. \A v \in Workers : Separate(slices_requested'[v])
  BY <1>1, <1>2 DEF Asked, NoOverlap
<1> QED BY <1>1, <1>2, <1>4, <1>5 DEF Asked, NoOverlap

\* A worker stores one of its slices.
LEMMA StoreKeepsAsked ==
  ASSUME Asked, NEW w \in Workers, Store(w)
  PROVE  Asked'
<1>1. PICK r \in slices_requested[w] :
          slices_requested' = [slices_requested EXCEPT ![w] = @ \ {r}]
  BY DEF Store
<1>2. m_items_to_slices_requested' = m_items_to_slices_requested BY DEF Store
<1>3. Separate(slices_requested[w] \ {r}) BY DEF Asked, NoOverlap, Separate
<1>4. \A v \in Workers : Separate(slices_requested'[v])
  BY <1>1, <1>3 DEF Asked, NoOverlap
<1> QED BY <1>1, <1>2, <1>4 DEF Asked, NoOverlap

\* Nothing else changes what is asked for.
LEMMA OthersKeepAsked ==
  ASSUME Next
  PROVE  \/ \E r \in Offers : RequestSlice(r)
         \/ \E w \in Workers : Take(w) \/ Store(w)
         \/ UNCHANGED <<m_items_to_slices_requested, slices_requested>>
<1> USE DEF others, requested, threads, passes
<1>1. CASE InCall
  BY <1>1 DEF InCall, ResumeRuns, ResumeStarted, ResumeGoesOn, ResumeReturns,
     PauseStores, PauseReturns, ClientTestsInVain, FallAsleep, InFetch, FetchThrows, Consume, NotInStore,
     AwaitSlice, DestroyNotifies, Join
<1>2. CASE Call
  BY <1>2 DEF Call, RequestAgain, Fetch, Resume, Pause, Destroy
<1>3. CASE CancelSlicing BY <1>3 DEF CancelSlicing, Cancel, CancelNotifies
<1>4. CASE \E w \in Workers : Worker(w)
  BY <1>4 DEF Worker, StartFails, Admit, LookUp, Started, NotifyStarted,
     MakeReader, InFetch, FetchThrows, Consume, NotInStore, AwaitSlice,
     PauseWorker, NotifyPaused, StayPaused, FallAsleep, Unpause, KeepsRunning,
     GoesOn, EndWorker, SliceFails, NotifyStored
<1> QED BY <1>1, <1>2, <1>3, <1>4 DEF Next

\* No two slices that an item or a worker has still to read overlap
\* (slicer.cpp:34-139, 335-339): one pass from start to end finds them all.
THEOREM OnePass == Spec => []NoOverlap
<1>1. Init => Asked
  BY DEF Init, Asked, NoOverlap, Separate
<1>2. Asked /\ [Next]_vars => Asked'
  <2> SUFFICES ASSUME Asked, [Next]_vars PROVE Asked' OBVIOUS
  <2>1. CASE Next
    <3>1. CASE UNCHANGED <<m_items_to_slices_requested, slices_requested>>
      BY <3>1 DEF Asked, NoOverlap
    <3> QED BY <2>1, <3>1, SlicerAssumption, OthersKeepAsked,
               RequestKeepsAsked, TakeKeepsAsked, StoreKeepsAsked
  <2>2. CASE UNCHANGED vars
    BY <2>2 DEF vars, others, requested, threads, passes, Asked, NoOverlap
  <2> QED BY <2>1, <2>2
<1>3. Asked => NoOverlap BY DEF Asked
<1> QED BY <1>1, <1>2, <1>3, PTL DEF Spec

-----------------------------------------------------------------------------
(* The counters.                                                           *)

\* The calls of resume_slicing() to come have no threads yet.
Unstarted == \A w \in Workers : w[2] > round => pc[w] = "none"

\* A call that has found slicing not cancelled stores m_state whatever becomes
\* of it.
NotCancelled == m_state # "cancelled" \/ pc[Client] \in {"resume", "pause"}

\* resume_slicing() goes on only when every thread has started.
NoneStarting ==
    NotCancelled /\ pc[Client] # "await started" => m_starting_thread_count = 0

\* A paused slicer stays quiet whatever the client does but wait for it.
Quiet ==
    m_state = "paused" /\ pc[Client] # "await quiet"
        => Starting = {} /\ Active = {}

IInv ==
    /\ TypeOK
    /\ Unstarted
    /\ CountersCover
    /\ NoneStarting
    /\ Quiet

-----------------------------------------------------------------------------
(* Threads at their places.                                                *)

\* Finitely many threads are at any of the places.
LEMMA FiniteIn ==
  ASSUME NEW S
  PROVE  /\ IsFiniteSet(In(S))
         /\ Cardinality(In(S)) \in Nat
<1>1. IsFiniteSet(Items) /\ MaxRounds \in Nat BY SlicerAssumption DEF SlicerAssumption
<1>2. IsFiniteSet(Workers)
  <2>1. IsFiniteSet(1 .. MaxRounds) BY <1>1, FS_Interval
  <2> QED BY <1>1, <2>1, FS_Product DEF Workers
<1>3. In(S) \subseteq Workers BY DEF In
<1> QED BY <1>2, <1>3, FS_Subset, FS_CardinalityType

\* A worker that goes to another place leaves the one and enters the other.
LEMMA WorkerMoves ==
  ASSUME DOMAIN pc = Threads, NEW w \in Workers, NEW step, Goto(w, step), NEW S
  PROVE  In(S)' = IF step \in S THEN In(S) \union {w} ELSE In(S) \ {w}
<1>1. w \in Threads BY DEF Threads
<1>2. \A v \in Workers : pc'[v] = IF v = w THEN step ELSE pc[v]
  BY <1>1 DEF Goto, Threads
<1> QED BY <1>2 DEF In

\* The threads of workers do not move while all others do.
LEMMA WorkersStay ==
  ASSUME \A w \in Workers : pc'[w] = pc[w], NEW S
  PROVE  In(S)' = In(S)
BY DEF In

\* The client is no worker.
LEMMA ClientMoves ==
  ASSUME DOMAIN pc = Threads, NEW step, Goto(Client, step)
  PROVE  /\ \A w \in Workers : pc'[w] = pc[w]
         /\ pc'[Client] = step
BY ThreadAssumption DEF Goto, Threads

\* A set with a new element has one more, without one of its own one less.
LEMMA OneMore ==
  ASSUME NEW A, IsFiniteSet(A), NEW w
  PROVE  /\ w \notin A => Cardinality(A \union {w}) = Cardinality(A) + 1
         /\ w \in A => Cardinality(A \ {w}) = Cardinality(A) - 1
BY FS_AddElement, FS_RemoveElement, FS_CardinalityType

-----------------------------------------------------------------------------
(* What a step does to places and counters.                                *)

StartSteps == {"starting", "admitted", "taken", "looked up"}
ActiveSteps == {"started", "make reader", "fetch", "await slice", "loop",
                "unpaused", "slice", "stored"}
RestSteps == {"pausing", "paused"}

\* A worker goes on and is not counted differently.
GoesUncounted(w) ==
    /\ UNCHANGED <<counters, round, m_state>>
    /\ pc[w] # "none"
    /\ pc'[Client] = pc[Client]
    /\ \E step \in WorkerSteps :
          /\ Goto(w, step)
          /\ step # "none"
          /\ step \in StartSteps => pc[w] \in StartSteps
          /\ step \in ActiveSteps => pc[w] \in ActiveSteps
          /\ step \in RestSteps <=> pc[w] \in RestSteps

\* No worker goes anywhere and no counter changes.
ClientOnly ==
    /\ UNCHANGED <<counters, round>>
    /\ \A w \in Workers : pc'[w] = pc[w]

\* The places of the other threads.
LEMMA OthersStay ==
  ASSUME DOMAIN pc = Threads, NEW w \in Workers, NEW step, Goto(w, step)
  PROVE  /\ DOMAIN pc' = Threads
         /\ pc'[w] = step
         /\ \A t \in Threads : t # w => pc'[t] = pc[t]
         /\ pc'[Client] = pc[Client]
BY ThreadAssumption DEF Goto, Threads

\* A worker fetches the slice that it makes its reader of.
LEMMA FetchGoes ==
  ASSUME TypeOK, NEW w \in Workers, InFetch(w)
  PROVE  GoesUncounted(w) \/ (ClientOnly /\ UNCHANGED <<m_state, pc>>)
<1>0. w # Client BY ThreadAssumption
<1> USE DEF TypeOK, others, counters, threads, passes, WorkerSteps, StartSteps,
        ActiveSteps, RestSteps
<1>1. CASE FetchThrows(w)
  BY <1>0, <1>1, OthersStay DEF FetchThrows, FetchFailed, GoesUncounted
<1>2. CASE Consume(w)
  BY <1>0, <1>2, OthersStay DEF Consume, Fetched, GoesUncounted
<1>3. CASE NotInStore(w)
  BY <1>3, OthersStay DEF NotInStore, GoesUncounted
<1>4. CASE AwaitSlice(w)
  <2>1. CASE Goto(w, "fetch")
    BY <1>4, <2>1, OthersStay DEF AwaitSlice, GoesUncounted
  <2>2. CASE UNCHANGED pc BY <1>4, <2>2 DEF AwaitSlice, ClientOnly
  <2> QED BY <1>4, <2>1, <2>2 DEF AwaitSlice
<1> QED BY <1>1, <1>2, <1>3, <1>4 DEF InFetch

\* Every step of a worker is one of five kinds.
LEMMA WorkerGoes ==
  ASSUME TypeOK, NEW w \in Workers, Worker(w)
  PROVE  \/ GoesUncounted(w) \/ (ClientOnly /\ UNCHANGED <<m_state, pc>>)
         \/ Started(w) \/ PauseWorker(w) \/ Unpause(w)
<1> USE DEF TypeOK, others, counters, threads, passes, WorkerSteps, StartSteps,
        ActiveSteps, RestSteps
<1>1. CASE StartFails(w) BY <1>1, OthersStay DEF StartFails, GoesUncounted
<1>2. CASE Take(w) BY <1>2, OthersStay DEF Take, GoesUncounted
<1>3. CASE NotifyStarted(w) BY <1>3, OthersStay DEF NotifyStarted, GoesUncounted
<1>4. CASE MakeReader(w) BY <1>4, OthersStay DEF MakeReader, GoesUncounted
<1>5. CASE NotifyPaused(w) BY <1>5, OthersStay DEF NotifyPaused, GoesUncounted
<1>6. CASE GoesOn(w) BY <1>6, OthersStay DEF GoesOn, GoesUncounted
<1>7. CASE EndWorker(w) BY <1>7, OthersStay DEF EndWorker, GoesUncounted
<1>8. CASE SliceFails(w) BY <1>8, OthersStay DEF SliceFails, GoesUncounted
<1>9. CASE Store(w) BY <1>9, OthersStay DEF Store, GoesUncounted
<1>10. CASE NotifyStored(w) BY <1>10, OthersStay DEF NotifyStored, GoesUncounted
<1>11. CASE StayPaused(w) BY <1>11 DEF StayPaused, ClientOnly
<1>12. CASE FallAsleep(w) BY <1>12 DEF FallAsleep, ClientOnly
<1>13. CASE InFetch(w) BY <1>13, FetchGoes
<1>14. CASE Admit(w) BY <1>14, OthersStay DEF Admit, GoesUncounted
<1>15. CASE LookUp(w) BY <1>15, OthersStay DEF LookUp, GoesUncounted
<1>16. CASE KeepsRunning(w) BY <1>16, OthersStay DEF KeepsRunning, GoesUncounted
<1> QED
  BY <1>1, <1>2, <1>3, <1>4, <1>5, <1>6, <1>7, <1>8, <1>9, <1>10, <1>11,
     <1>12, <1>13, <1>14, <1>15, <1>16
  DEF Worker

\* No worker is started; the client ends its waits only for what they are for.
ClientGoes ==
    /\ ClientOnly
    /\ NotCancelled' => NotCancelled
    /\ pc[Client] = "await started" /\ pc'[Client] # "await started" => AllStarted
    /\ m_state' = "paused" /\ pc'[Client] # "await quiet"
          => m_state = "paused" /\ (pc[Client] = "await quiet" => NoneRunning)

\* Every step of the client, and of the thread that cancels, is one of two kinds.
LEMMA ClientStep ==
  ASSUME TypeOK, InCall \/ Call \/ CancelSlicing
  PROVE  ResumeRuns \/ ClientGoes
<1>0. DOMAIN pc = Threads BY DEF TypeOK
<1>1. ASSUME NEW step, Goto(Client, step),
             UNCHANGED <<counters, round, m_state>>,
             m_state # "cancelled" \/ step \notin {"resume", "pause"},
             pc[Client] = "await started" => AllStarted,
             pc[Client] = "await quiet" => NoneRunning
      PROVE  ClientGoes
  <2>1. pc'[Client] = step /\ \A w \in Workers : pc'[w] = pc[w]
    BY <1>0, <1>1, ClientMoves
  <2> QED BY <1>1, <2>1 DEF ClientGoes, ClientOnly, NotCancelled
<1>2. ASSUME UNCHANGED <<counters, round, m_state, pc>> PROVE ClientGoes
  BY <1>2 DEF ClientGoes, ClientOnly, NotCancelled
<1>3. ASSUME UNCHANGED <<counters, round>>, m_state' = "cancelled",
             pc' = pc \/ (pc[Client] = "idle" /\ Goto(Client, "cancelling"))
      PROVE  ClientGoes
  <2>1. /\ \A w \in Workers : pc'[w] = pc[w]
        /\ pc'[Client] \in {pc[Client], "cancelling"}
        /\ pc[Client] = "await started" => pc' = pc
    BY <1>0, <1>3, ClientMoves
  <2> QED BY <1>3, <2>1 DEF ClientGoes, ClientOnly, NotCancelled
<1> USE DEF others, threads
<1>4. CASE ResumeStarted BY <1>1, <1>4 DEF ResumeStarted, CanTest
<1>5. CASE ResumeGoesOn BY <1>1, <1>5 DEF ResumeGoesOn
<1>6. CASE ResumeReturns BY <1>1, <1>6 DEF ResumeReturns, CanTest
<1>7. CASE PauseStores
  <2>1. /\ pc[Client] = "pause" /\ m_state' = "paused"
        /\ UNCHANGED <<counters, round>>
        /\ Goto(Client, "await quiet")
    BY <1>7 DEF PauseStores
  <2>2. pc'[Client] = "await quiet" /\ \A w \in Workers : pc'[w] = pc[w]
    BY <1>0, <2>1, ClientMoves
  <2> QED BY <2>1, <2>2 DEF ClientGoes, ClientOnly, NotCancelled
<1>8. CASE PauseReturns BY <1>1, <1>8 DEF PauseReturns, CanTest
<1>9. CASE ClientTestsInVain \/ FallAsleep(Client)
  BY <1>2, <1>9 DEF ClientTestsInVain, FallAsleep
<1>10. CASE InFetch(Client)
  BY <1>1, <1>2, <1>10
  DEF InFetch, FetchThrows, FetchFailed, Consume, Fetched, NotInStore, AwaitSlice
<1>11. CASE DestroyNotifies \/ Join BY <1>1, <1>11 DEF DestroyNotifies, Join
<1>12. CASE \E r \in Offers : RequestSlice(r) \/ RequestAgain(r)
  BY <1>2, <1>12 DEF RequestSlice, RequestAgain
<1>13. CASE \E s \in Slices : Fetch(s) BY <1>1, <1>13 DEF Fetch
<1>14. CASE Resume BY <1>1, <1>14 DEF Resume
<1>15. CASE Pause
  <2>1. /\ pc[Client] = "idle" /\ m_state = "running"
        /\ UNCHANGED <<counters, round, m_state>>
        /\ Goto(Client, "pause")
    BY <1>15 DEF Pause
  <2> QED BY <1>1, <2>1
<1>16. CASE Destroy BY <1>3, <1>16 DEF Destroy
<1>17. CASE Cancel BY <1>3, <1>17 DEF Cancel
<1>18. CASE CancelNotifies BY <1>2, <1>18 DEF CancelNotifies
<1> QED
  BY <1>4, <1>5, <1>6, <1>7, <1>8, <1>9, <1>10, <1>11, <1>12, <1>13, <1>14,
     <1>15, <1>16, <1>17, <1>18
  DEF InCall, Call, CancelSlicing

-----------------------------------------------------------------------------
(* The counters cover the threads.                                         *)

Natural ==
    /\ m_starting_thread_count \in Nat
    /\ m_paused_thread_count \in Nat
    /\ m_running_thread_count \in Nat

\* The three groups by their places.
LEMMA Groups ==
  /\ Starting = In(StartSteps) /\ Active = In(ActiveSteps) /\ AtRest = In(RestSteps)
  /\ Starting' = In(StartSteps)' /\ Active' = In(ActiveSteps)' /\ AtRest' = In(RestSteps)'
  /\ \A w \in Workers : /\ w \in Starting <=> pc[w] \in StartSteps
                        /\ w \in Active <=> pc[w] \in ActiveSteps
                        /\ w \in AtRest <=> pc[w] \in RestSteps
BY DEF Starting, Active, AtRest, In, StartSteps, ActiveSteps, RestSteps

\* Cardinalities of the three groups are numbers, also after the step.
LEMMA GroupSizes ==
  /\ IsFiniteSet(Starting) /\ IsFiniteSet(Active) /\ IsFiniteSet(AtRest)
  /\ Cardinality(Starting) \in Nat /\ Cardinality(Active) \in Nat
  /\ Cardinality(AtRest) \in Nat
BY FiniteIn, Groups

\* Counters that do not change go on covering groups that do not grow.
LEMMA ShrinkCovered ==
  ASSUME Natural, CountersCover, UNCHANGED counters,
         Starting' \subseteq Starting, Active' \subseteq Active, AtRest' = AtRest
  PROVE  CountersCover' /\ Natural'
<1>1. /\ Cardinality(Starting') <= Cardinality(Starting)
      /\ Cardinality(Active') <= Cardinality(Active)
      /\ Cardinality(Starting') \in Nat /\ Cardinality(Active') \in Nat
  BY GroupSizes, FS_Subset, FS_CardinalityType
<1> QED BY <1>1, GroupSizes DEF CountersCover, Natural, counters

\* The groups of a worker that goes on and is not counted differently.
LEMMA UncountedGroups ==
  ASSUME TypeOK, NEW w \in Workers, GoesUncounted(w)
  PROVE  Starting' \subseteq Starting /\ Active' \subseteq Active /\ AtRest' = AtRest
<1>1. PICK step \in WorkerSteps :
          /\ Goto(w, step)
          /\ step \in StartSteps => pc[w] \in StartSteps
          /\ step \in ActiveSteps => pc[w] \in ActiveSteps
          /\ step \in RestSteps <=> pc[w] \in RestSteps
  BY DEF GoesUncounted
<1>2. DOMAIN pc = Threads BY DEF TypeOK
<1>3. Starting' \subseteq Starting BY <1>1, <1>2, WorkerMoves, Groups
<1>4. Active' \subseteq Active BY <1>1, <1>2, WorkerMoves, Groups
<1>5. AtRest' = AtRest
  <2>1. AtRest' = IF step \in RestSteps THEN AtRest \union {w} ELSE AtRest \ {w}
    BY <1>1, <1>2, WorkerMoves, Groups
  <2>2. step \in RestSteps <=> w \in AtRest BY <1>1, Groups
  <2> QED BY <2>1, <2>2
<1> QED BY <1>3, <1>4, <1>5

\* A worker that is not counted differently leaves the counters right.
LEMMA UncountedCovered ==
  ASSUME TypeOK, CountersCover, NEW w \in Workers, GoesUncounted(w)
  PROVE  CountersCover' /\ Natural'
BY UncountedGroups, ShrinkCovered DEF TypeOK, Natural, GoesUncounted

\* The client changes neither the groups nor the counters but in resume_slicing().
LEMMA ClientCovered ==
  ASSUME TypeOK, CountersCover, ClientOnly
  PROVE  CountersCover' /\ Natural' /\ Starting' = Starting /\ Active' = Active
<1>1. Starting' = Starting /\ Active' = Active /\ AtRest' = AtRest
  BY WorkersStay, Groups DEF ClientOnly
<1> QED BY <1>1, ShrinkCovered DEF TypeOK, Natural, ClientOnly

\* A worker has started (slicer.cpp:341-343).
LEMMA StartedCovered ==
  ASSUME TypeOK, CountersCover, NEW w \in Workers, Started(w)
  PROVE  CountersCover' /\ Natural'
<1>1. pc[w] = "looked up" /\ Goto(w, "started") /\ DOMAIN pc = Threads
  BY DEF Started, TypeOK
<1>2. w \in Starting /\ w \notin Active /\ w \notin AtRest
  BY <1>1, Groups DEF StartSteps, ActiveSteps, RestSteps
<1>3. /\ Starting' = Starting \ {w}
      /\ Active' = Active \union {w}
      /\ AtRest' = AtRest \ {w}
  <2>1. /\ "started" \notin StartSteps /\ "started" \in ActiveSteps
        /\ "started" \notin RestSteps
    BY DEF StartSteps, ActiveSteps, RestSteps
  <2> QED BY <1>1, <2>1, WorkerMoves, Groups
<1>4. /\ Cardinality(Starting') = Cardinality(Starting) - 1
      /\ Cardinality(Active') = Cardinality(Active) + 1
      /\ AtRest' = AtRest
  BY <1>2, <1>3, GroupSizes, OneMore
<1>5. Cardinality(Starting) >= 1 BY <1>2, GroupSizes, FS_EmptySet
<1>6. /\ m_running_thread_count' = m_running_thread_count + 1
      /\ m_starting_thread_count' = m_starting_thread_count - 1
      /\ m_paused_thread_count' = m_paused_thread_count
  BY DEF Started
<1>7. Natural BY DEF TypeOK, Natural
<1> QED BY <1>4, <1>5, <1>6, <1>7, GroupSizes DEF Natural, CountersCover

\* A worker pauses (slicer.cpp:353-357).
LEMMA PauseCovered ==
  ASSUME TypeOK, CountersCover, NEW w \in Workers, PauseWorker(w)
  PROVE  CountersCover' /\ Natural'
<1>1. pc[w] = "loop" /\ Goto(w, "pausing") /\ DOMAIN pc = Threads
  BY DEF PauseWorker, TypeOK
<1>2. w \notin Starting /\ w \in Active /\ w \notin AtRest
  BY <1>1, Groups DEF StartSteps, ActiveSteps, RestSteps
<1>3. /\ Starting' = Starting \ {w}
      /\ Active' = Active \ {w}
      /\ AtRest' = AtRest \union {w}
  <2>1. /\ "pausing" \notin StartSteps /\ "pausing" \notin ActiveSteps
        /\ "pausing" \in RestSteps
    BY DEF StartSteps, ActiveSteps, RestSteps
  <2> QED BY <1>1, <2>1, WorkerMoves, Groups
<1>4. /\ Starting' = Starting
      /\ Cardinality(Active') = Cardinality(Active) - 1
      /\ Cardinality(AtRest') = Cardinality(AtRest) + 1
  BY <1>2, <1>3, GroupSizes, OneMore
<1>5. Cardinality(Active) >= 1 BY <1>2, GroupSizes, FS_EmptySet
<1>6. /\ m_paused_thread_count' = m_paused_thread_count + 1
      /\ m_running_thread_count' = m_running_thread_count - 1
      /\ m_starting_thread_count' = m_starting_thread_count
  BY DEF PauseWorker, CountPaused
<1>7. Natural BY DEF TypeOK, Natural
<1> QED BY <1>4, <1>5, <1>6, <1>7, GroupSizes DEF Natural, CountersCover

\* A paused worker runs again (slicer.cpp:358-361).
LEMMA UnpauseCovered ==
  ASSUME TypeOK, CountersCover, NEW w \in Workers, Unpause(w)
  PROVE  CountersCover' /\ Natural'
<1>1. pc[w] = "paused" /\ Goto(w, "unpaused") /\ DOMAIN pc = Threads
  BY DEF Unpause, CanTest, TypeOK
<1>2. w \notin Starting /\ w \notin Active /\ w \in AtRest
  BY <1>1, Groups DEF StartSteps, ActiveSteps, RestSteps
<1>3. /\ Starting' = Starting \ {w}
      /\ Active' = Active \union {w}
      /\ AtRest' = AtRest \ {w}
  <2>1. /\ "unpaused" \notin StartSteps /\ "unpaused" \in ActiveSteps
        /\ "unpaused" \notin RestSteps
    BY DEF StartSteps, ActiveSteps, RestSteps
  <2> QED BY <1>1, <2>1, WorkerMoves, Groups
<1>4. /\ Starting' = Starting
      /\ Cardinality(Active') = Cardinality(Active) + 1
      /\ Cardinality(AtRest') = Cardinality(AtRest) - 1
  BY <1>2, <1>3, GroupSizes, OneMore
<1>5. Cardinality(AtRest) >= 1 BY <1>2, GroupSizes, FS_EmptySet
<1>6. /\ m_paused_thread_count' = m_paused_thread_count - 1
      /\ m_running_thread_count' = m_running_thread_count + 1
      /\ m_starting_thread_count' = m_starting_thread_count
  BY DEF Unpause, CountRunning
<1>7. Natural BY DEF TypeOK, Natural
<1> QED BY <1>4, <1>5, <1>6, <1>7, GroupSizes DEF Natural, CountersCover

\* resume_slicing() counts the threads it is about to start (slicer.cpp:251-266).
LEMMA ResumeCovered ==
  ASSUME TypeOK, CountersCover, Unstarted, ResumeRuns
  PROVE  CountersCover' /\ Natural'
<1> DEFINE new == m_item_to_slice_prepared \X {round + 1}
<1>1. /\ IsFiniteSet(m_item_to_slice_prepared)
      /\ round \in Nat /\ MaxRounds \in Nat /\ round < MaxRounds
      /\ round + 1 \in 1 .. MaxRounds
  <2>1. IsFiniteSet(Items) /\ MaxRounds \in Nat
    BY SlicerAssumption DEF SlicerAssumption
  <2>2. m_item_to_slice_prepared \subseteq Items /\ round \in 0 .. MaxRounds
    BY DEF TypeOK
  <2>3. round < MaxRounds BY DEF ResumeRuns
  <2> QED BY <2>1, <2>2, <2>3, FS_Subset
<1>2. /\ IsFiniteSet(new)
      /\ Cardinality(new) = Cardinality(m_item_to_slice_prepared)
      /\ Cardinality(new) \in Nat
  <2>1. IsFiniteSet({round + 1}) /\ Cardinality({round + 1}) = 1
    <3>1. {} \union {round + 1} = {round + 1} OBVIOUS
    <3> QED BY <3>1, FS_AddElement, FS_EmptySet
  <2>2. Cardinality(m_item_to_slice_prepared) \in Nat
    BY <1>1, FS_CardinalityType
  <2>3. /\ IsFiniteSet(new)
        /\ Cardinality(new)
             = Cardinality(m_item_to_slice_prepared) * Cardinality({round + 1})
    BY <1>1, <2>1, FS_Product
  <2> HIDE DEF new
  <2> QED BY <2>1, <2>2, <2>3
<1>3. new \subseteq Workers BY <1>1 DEF TypeOK, Workers
<1>4. \A w \in new : w[2] = round + 1 /\ pc[w] = "none"
  BY <1>1, <1>3 DEF Unstarted
<1>5. \A w \in Workers : pc'[w] = IF w \in new THEN "starting" ELSE pc[w]
  BY ThreadAssumption DEF ResumeRuns, Threads
<1> HIDE DEF new
<1>6. /\ Starting' = Starting \union new
      /\ Active' = Active /\ AtRest' = AtRest
  BY <1>3, <1>4, <1>5 DEF Starting, Active, AtRest, In
<1>7. Cardinality(Starting') <= Cardinality(Starting) + Cardinality(new)
  <2>1. Cardinality(Starting \intersect new) \in Nat
    <3>1. Starting \intersect new \in SUBSET new OBVIOUS
    <3> QED BY <1>2, <3>1, FS_Subset, FS_CardinalityType
  <2>2. Cardinality(Starting \union new) =
          Cardinality(Starting) + Cardinality(new) - Cardinality(Starting \intersect new)
    BY <1>2, GroupSizes, FS_Union
  <2> QED BY <1>2, <1>6, <2>1, <2>2, GroupSizes
<1>8. Cardinality(Starting') \in Nat
  BY <1>2, <1>6, GroupSizes, FS_Union, FS_CardinalityType
<1>9. /\ m_starting_thread_count' = m_starting_thread_count + Cardinality(new)
      /\ m_paused_thread_count' = m_paused_thread_count
      /\ m_running_thread_count' = m_running_thread_count
  BY <1>2 DEF ResumeRuns
<1>10. Natural BY DEF TypeOK, Natural
<1> QED
  BY <1>2, <1>6, <1>7, <1>8, <1>9, <1>10, GroupSizes DEF Natural, CountersCover

-----------------------------------------------------------------------------
(* Types.                                                                  *)

Places ==
    /\ DOMAIN pc = Threads
    /\ \A w \in Workers : pc[w] \in WorkerSteps
    /\ pc[Client] \in ClientSteps

Requested ==
    /\ m_items_to_slices_requested \in [Items -> SUBSET Offers]
    /\ m_item_to_slice_prepared \subseteq Items
    /\ m_slice_item_request_counts \in [Slices -> Nat]
    /\ slices_requested \in [Workers -> SUBSET Offers]
    /\ prepared_item_to_slice \subseteq Workers
    /\ requests \in [Slices -> Nat]

Fetching ==
    /\ m_stored_slices \in [Slices -> Nat]
    /\ m_store_cv \subseteq Threads
    /\ fetching \in Slices \union {NoSlice}
    /\ fetches \in [Slices -> Nat]

Control ==
    /\ m_state \in {"paused", "running", "cancelled"}
    /\ m_state_mutex \in Threads \union {Free}
    /\ m_state_cv \subseteq Threads
    /\ round \in 0 .. MaxRounds
    /\ canceller \in {"idle", "notify"}

\* The type invariant by what the actions change together.
LEMMA TypeParts == TypeOK <=> Places /\ Requested /\ Fetching /\ Control /\ Natural
BY DEF TypeOK, Places, Requested, Fetching, Control, Natural

\* A thread goes to a place of its own kind.
LEMMA GotoPlaces ==
  ASSUME Places, NEW t \in Threads, NEW step, Goto(t, step),
         IF t = Client THEN step \in ClientSteps ELSE step \in WorkerSteps
  PROVE  Places'
BY ThreadAssumption DEF Places, Goto, Threads

\* A thread in fetch_slice() goes to one of its places.
LEMMA FetchPlaces ==
  ASSUME Places, NEW t \in Threads, InFetch(t)
  PROVE  Places'
<1> USE ThreadAssumption, GotoPlaces DEF WorkerSteps, ClientSteps
<1>1. CASE FetchThrows(t) BY <1>1 DEF FetchThrows, FetchFailed
<1>2. CASE Consume(t) BY <1>2 DEF Consume, Fetched
<1>3. CASE NotInStore(t) BY <1>3 DEF NotInStore
<1>4. CASE AwaitSlice(t)
  <2>1. CASE Goto(t, "fetch") BY <2>1
  <2>2. CASE UNCHANGED pc BY <2>2 DEF Places
  <2> QED BY <1>4, <2>1, <2>2 DEF AwaitSlice
<1> QED BY <1>1, <1>2, <1>3, <1>4 DEF InFetch

\* A worker goes to one of its places.
LEMMA WorkerPlaces ==
  ASSUME Places, NEW w \in Workers, Worker(w)
  PROVE  Places'
<1>0. w \in Threads /\ w # Client BY ThreadAssumption DEF Threads
<1>1. CASE \E step \in WorkerSteps : Goto(w, step) BY <1>0, <1>1, GotoPlaces
<1>2. CASE UNCHANGED pc BY <1>2 DEF Places
<1>3. CASE InFetch(w) BY <1>0, <1>3, FetchPlaces
<1> QED
  <2> USE DEF WorkerSteps
  <2>1. CASE StartFails(w) BY <2>1, <1>1 DEF StartFails
  <2>2. CASE Take(w) BY <2>2, <1>1 DEF Take
  <2>3. CASE Started(w) BY <2>3, <1>1 DEF Started
  <2>4. CASE NotifyStarted(w) BY <2>4, <1>1 DEF NotifyStarted
  <2>5. CASE MakeReader(w) BY <2>5, <1>1 DEF MakeReader
  <2>6. CASE PauseWorker(w) BY <2>6, <1>1 DEF PauseWorker
  <2>7. CASE NotifyPaused(w) BY <2>7, <1>1 DEF NotifyPaused
  <2>8. CASE StayPaused(w) \/ FallAsleep(w) BY <2>8, <1>2 DEF StayPaused, FallAsleep
  <2>9. CASE Unpause(w) BY <2>9, <1>1 DEF Unpause
  <2>10. CASE GoesOn(w) BY <2>10, <1>1 DEF GoesOn
  <2>11. CASE EndWorker(w) BY <2>11, <1>1 DEF EndWorker
  <2>12. CASE SliceFails(w) BY <2>12, <1>1 DEF SliceFails
  <2>13. CASE Store(w) BY <2>13, <1>1 DEF Store
  <2>14. CASE NotifyStored(w) BY <2>14, <1>1 DEF NotifyStored
  <2>15. CASE Admit(w) BY <2>15, <1>1 DEF Admit
  <2>16. CASE LookUp(w) BY <2>16, <1>1 DEF LookUp
  <2>17. CASE KeepsRunning(w) BY <2>17, <1>1 DEF KeepsRunning
  <2> QED
    BY <1>3, <2>1, <2>2, <2>3, <2>4, <2>5, <2>6, <2>7, <2>8, <2>9, <2>10,
       <2>11, <2>12, <2>13, <2>14, <2>15, <2>16, <2>17 DEF Worker

\* The client, and whoever it starts, goes to one of its places.
LEMMA ClientPlaces ==
  ASSUME Places, InCall \/ Call \/ CancelSlicing
  PROVE  Places'
<1>0. Client \in Threads BY DEF Threads
<1>1. CASE \E step \in ClientSteps : Goto(Client, step) BY <1>0, <1>1, GotoPlaces
<1>2. CASE UNCHANGED pc BY <1>2 DEF Places
<1>3. CASE InFetch(Client) BY <1>0, <1>3, FetchPlaces
<1>4. CASE ResumeRuns
  <2>1. \A t \in Threads :
          pc'[t] = IF t = Client THEN "await started"
                   ELSE IF t \in m_item_to_slice_prepared \X {round + 1}
                   THEN "starting" ELSE pc[t]
    BY <1>4 DEF ResumeRuns
  <2>2. DOMAIN pc' = Threads BY <1>4 DEF ResumeRuns
  <2> QED BY <2>1, <2>2, ThreadAssumption
          DEF Places, Threads, WorkerSteps, ClientSteps
<1> QED
  <2> USE DEF ClientSteps, others
  <2>1. CASE ResumeStarted BY <2>1, <1>1 DEF ResumeStarted
  <2>2. CASE ResumeReturns BY <2>2, <1>1 DEF ResumeReturns
  <2>3. CASE PauseReturns BY <2>3, <1>1 DEF PauseReturns
  <2>4. CASE ClientTestsInVain \/ FallAsleep(Client)
    BY <2>4, <1>2 DEF ClientTestsInVain, FallAsleep
  <2>5. CASE DestroyNotifies BY <2>5, <1>1 DEF DestroyNotifies
  <2>6. CASE Join BY <2>6, <1>1 DEF Join
  <2>7. CASE \E r \in Offers : RequestSlice(r) \/ RequestAgain(r)
    BY <2>7, <1>2 DEF RequestSlice, RequestAgain
  <2>8. CASE \E s \in Slices : Fetch(s) BY <2>8, <1>1 DEF Fetch
  <2>9. CASE Pause
    <3>1. Goto(Client, "pause") BY <2>9 DEF Pause
    <3> QED BY <3>1, <1>1
  <2>10. CASE Destroy BY <2>10, <1>1 DEF Destroy
  <2>11. CASE CancelSlicing BY <2>11, <1>2 DEF CancelSlicing, Cancel, CancelNotifies
  <2>12. CASE Resume BY <2>12, <1>1 DEF Resume
  <2>13. CASE ResumeGoesOn BY <2>13, <1>1 DEF ResumeGoesOn
  <2>14. CASE PauseStores
    <3>1. Goto(Client, "await quiet") BY <2>14 DEF PauseStores
    <3> QED BY <3>1, <1>1
  <2> QED
    BY <1>3, <1>4, <2>1, <2>2, <2>3, <2>4, <2>5, <2>6, <2>7, <2>8, <2>9, <2>10,
       <2>11, <2>12, <2>13, <2>14 DEF InCall, Call

\* What is requested, and what the workers have still to slice.
LEMMA RequestedKept ==
  ASSUME Requested, Next
  PROVE  Requested'
<1> USE DEF requested, others, threads, passes
<1>1. CASE UNCHANGED <<requested, passes>> BY <1>1 DEF Requested
<1>2. ASSUME NEW s \in Slices, CountRequest(s)
      PROVE  /\ m_slice_item_request_counts' \in [Slices -> Nat]
             /\ requests' \in [Slices -> Nat]
  BY <1>2 DEF CountRequest, Requested
<1>3. ASSUME NEW r \in Offers, RequestSlice(r) \/ RequestAgain(r)
      PROVE  Requested'
  <2>1. r.item \in Items /\ r.slice \in Slices
    BY SlicerAssumption DEF SlicerAssumption
  <2>2. CASE RequestSlice(r)
    <3>1. Inserted(r, m_items_to_slices_requested[r.item]) \subseteq Offers
      BY <2>1 DEF Inserted, Requested
    <3> HIDE DEF Inserted
    <3>2. m_items_to_slices_requested' \in [Items -> SUBSET Offers]
      BY <2>1, <2>2, <3>1 DEF RequestSlice, Requested
    <3> QED BY <1>2, <2>1, <2>2, <3>2 DEF RequestSlice, Requested
  <2>3. CASE RequestAgain(r)
    BY <1>2, <2>1, <2>3 DEF RequestAgain, Requested
  <2> QED BY <1>3, <2>2, <2>3
<1>4. ASSUME NEW w \in Workers, Take(w) PROVE Requested'
  <2>1. w[1] \in Items BY DEF Workers
  <2> QED BY <1>4, <2>1 DEF Take, EraseRequests, Requested
<1>5. ASSUME NEW w \in Workers, Store(w) PROVE Requested'
  <2>1. PICK r \in slices_requested[w] :
          /\ m_slice_item_request_counts' =
                 [m_slice_item_request_counts EXCEPT ![r.slice] = 0]
          /\ slices_requested' = [slices_requested EXCEPT ![w] = @ \ {r}]
    BY <1>5 DEF Store
  <2>2. UNCHANGED <<m_items_to_slices_requested, m_item_to_slice_prepared, requests,
                    prepared_item_to_slice>>
    BY <1>5 DEF Store
  <2> QED BY <2>1, <2>2 DEF Requested
<1>6. CASE ResumeStarted BY <1>6 DEF ResumeStarted, Requested
<1>7. CASE ResumeRuns BY <1>7, <1>1 DEF ResumeRuns
<1>8. ASSUME NEW t, InFetch(t) PROVE Requested'
  BY <1>8, <1>1 DEF InFetch, FetchThrows, Consume, NotInStore, AwaitSlice
<1>9. ASSUME NEW w \in Workers, Worker(w) PROVE Requested'
  <2>1. CASE UNCHANGED <<requested, passes>> BY <2>1, <1>1
  <2>2. CASE LookUp(w)
    <3>1. w[1] \in Items BY DEF Workers
    <3> QED BY <2>2, <3>1 DEF LookUp, Requested
  <2> QED
    BY <1>4, <1>5, <1>8, <1>9, <2>1, <2>2
    DEF Worker, StartFails, Admit, Started, NotifyStarted, MakeReader,
        PauseWorker, NotifyPaused, StayPaused, FallAsleep, Unpause,
        KeepsRunning, GoesOn, EndWorker, SliceFails, NotifyStored
<1>10. CASE InCall
  BY <1>1, <1>6, <1>7, <1>8, <1>10
  DEF InCall, ResumeGoesOn, ResumeReturns, PauseStores, PauseReturns,
      ClientTestsInVain, FallAsleep, DestroyNotifies, Join
<1>11. CASE Call
  BY <1>1, <1>3, <1>11 DEF Call, Fetch, Resume, Pause, Destroy
<1>12. CASE CancelSlicing BY <1>1, <1>12 DEF CancelSlicing, Cancel, CancelNotifies
<1> QED BY <1>9, <1>10, <1>11, <1>12 DEF Next

\* What is stored, fetched and waited for.
LEMMA FetchingKept ==
  ASSUME Fetching, Requested, Next
  PROVE  Fetching'
<1> USE DEF requested, others, threads, passes, store
<1>1. CASE UNCHANGED store BY <1>1 DEF Fetching
<1>2. ASSUME NEW t \in Threads, InFetch(t) PROVE Fetching'
  <2>1. CASE Consume(t)
    <3>1. \A n \in Nat : LeftInStore(n) \in Nat BY DEF LeftInStore
    <3>2. PICK s : s = Wanted(t) OBVIOUS
    <3>3. /\ m_stored_slices' = [m_stored_slices EXCEPT ![s] = LeftInStore(@)]
          /\ fetches' = [fetches EXCEPT ![s] = @ + 1]
          /\ UNCHANGED <<m_store_cv, fetching>>
      BY <2>1, <3>2 DEF Consume
    <3>4. m_stored_slices' \in [Slices -> Nat]
      BY <3>1, <3>3 DEF Fetching
    <3>5. fetches' \in [Slices -> Nat]
      <4>1. fetches \in [Slices -> Nat] BY DEF Fetching
      <4>2. fetches' = [fetches EXCEPT ![s] = @ + 1] BY <3>3
      <4>3. \A x \in Slices : fetches'[x] \in Nat
        <5>1. \A x \in Slices : fetches[x] \in Nat BY <4>1
        <5> QED BY <4>1, <4>2, <5>1
      <4>4. fetches' = [x \in Slices |-> fetches'[x]] BY <4>1, <4>2
      <4> QED BY <4>3, <4>4
    <3> QED BY <3>3, <3>4, <3>5 DEF Fetching
  <2>2. CASE AwaitSlice(t) BY <2>2, <1>2 DEF AwaitSlice, Fetching
  <2>3. CASE FetchThrows(t) \/ NotInStore(t)
    BY <2>3, <1>1 DEF FetchThrows, NotInStore
  <2> QED BY <1>2, <2>1, <2>2, <2>3 DEF InFetch
<1>3. ASSUME NEW w \in Workers, Store(w) PROVE Fetching'
  <2>1. PICK r \in slices_requested[w] :
          m_stored_slices' =
              [m_stored_slices EXCEPT
                  ![r.slice] = Stored(@, m_slice_item_request_counts[r.slice])]
    BY <1>3 DEF Store
  <2>2. r.slice \in Slices
    <3>1. r \in Offers BY DEF Requested
    <3> QED BY <3>1, SlicerAssumption DEF SlicerAssumption
  <2>3. Stored(m_stored_slices[r.slice], m_slice_item_request_counts[r.slice]) \in Nat
    BY <2>2 DEF Stored, Fetching, Requested
  <2>4. m_stored_slices' \in [Slices -> Nat]
    BY <2>1, <2>2, <2>3 DEF Fetching
  <2>5. UNCHANGED <<m_store_cv, fetching, fetches>> BY <1>3 DEF Store
  <2> QED BY <2>4, <2>5 DEF Fetching
<1>4. ASSUME NEW w \in Workers, NotifyStored(w) PROVE Fetching'
  BY <1>4 DEF NotifyStored, WakeFetchers, Fetching
<1>5. ASSUME NEW w \in Workers, Worker(w) PROVE Fetching'
  <2>1. w \in Threads BY DEF Threads
  <2>2. CASE UNCHANGED store BY <2>2, <1>1
  <2> QED
    BY <1>2, <1>3, <1>4, <1>5, <2>1, <2>2
    DEF Worker, StartFails, Admit, Take, LookUp, Started, NotifyStarted,
        MakeReader, PauseWorker, NotifyPaused, StayPaused, FallAsleep, Unpause,
        KeepsRunning, GoesOn, EndWorker, SliceFails
<1>6. CASE InCall
  <2>1. Client \in Threads BY DEF Threads
  <2> QED
    BY <1>1, <1>2, <1>6, <2>1
    DEF InCall, ResumeRuns, ResumeStarted, ResumeGoesOn, ResumeReturns,
        PauseStores, PauseReturns, ClientTestsInVain, FallAsleep,
        DestroyNotifies, Join
<1>7. ASSUME NEW s \in Slices, Fetch(s) PROVE Fetching'
  BY <1>7 DEF Fetch, Fetching
<1>8. CASE Call
  BY <1>1, <1>7, <1>8 DEF Call, RequestSlice, RequestAgain, Resume, Pause, Destroy
<1>9. CASE CancelSlicing BY <1>1, <1>9 DEF CancelSlicing, Cancel, CancelNotifies
<1> QED BY <1>5, <1>6, <1>8, <1>9 DEF Next

\* The state, its mutex and its condition variable.
LEMMA ControlKept ==
  ASSUME Control, Next
  PROVE  Control'
<1> USE DEF others, threads, passes, waits
<1>1. CASE UNCHANGED <<m_state, waits, round, canceller>> BY <1>1 DEF Control
<1>2. ASSUME NEW t \in Threads, FallAsleep(t) PROVE Control'
  BY <1>2 DEF FallAsleep, Control
<1>3. ASSUME NEW t \in Threads, InFetch(t) PROVE Control'
  BY <1>1, <1>3 DEF InFetch, FetchThrows, Consume, NotInStore, AwaitSlice
<1>4. CASE NotifyState /\ UNCHANGED <<m_state, m_state_mutex, round, canceller>>
  BY <1>4 DEF NotifyState, Control
<1>5. ASSUME NEW w \in Workers, Worker(w) PROVE Control'
  <2>1. w \in Threads BY DEF Threads
  <2>2. CASE StayPaused(w) BY <2>1, <2>2 DEF StayPaused, TestInVain, Control
  <2>3. CASE NotifyStarted(w) \/ NotifyPaused(w)
    BY <1>4, <2>3 DEF NotifyStarted, NotifyPaused
  <2> QED
    BY <1>1, <1>2, <1>3, <1>5, <2>1, <2>2, <2>3
    DEF Worker, StartFails, Admit, Take, LookUp, Started, MakeReader,
        PauseWorker, Unpause, KeepsRunning, GoesOn, EndWorker, SliceFails,
        Store, NotifyStored
<1>6. CASE InCall
  <2>1. Client \in Threads BY DEF Threads
  <2>2. CASE ClientTestsInVain
    BY <2>1, <2>2 DEF ClientTestsInVain, TestInVain, Control
  <2>3. CASE DestroyNotifies BY <1>4, <2>3 DEF DestroyNotifies
  <2>4. CASE ResumeRuns
    <3>1. MaxRounds \in Nat BY SlicerAssumption DEF SlicerAssumption
    <3>2. /\ round < MaxRounds /\ round' = round + 1 /\ m_state' = "running"
          /\ UNCHANGED <<waits, canceller>>
      BY <2>4 DEF ResumeRuns
    <3>3. round' \in 0 .. MaxRounds BY <3>1, <3>2 DEF Control
    <3> QED BY <3>2, <3>3 DEF Control
  <2>5. CASE PauseStores BY <2>5 DEF PauseStores, Control
  <2> QED
    BY <1>1, <1>2, <1>3, <1>6, <2>1, <2>2, <2>3, <2>4, <2>5
    DEF InCall, ResumeStarted, ResumeGoesOn, ResumeReturns, PauseReturns, Join
<1>7. CASE Call
  <2>1. CASE Destroy BY <2>1 DEF Destroy, Control
  <2> QED
    BY <1>1, <1>7, <2>1
    DEF Call, RequestSlice, RequestAgain, Fetch, Resume, Pause
<1>8. CASE Cancel BY <1>8 DEF Cancel, Control
<1>9. CASE CancelNotifies BY <1>9 DEF CancelNotifies, NotifyState, Control
<1> QED BY <1>5, <1>6, <1>7, <1>8, <1>9 DEF Next, CancelSlicing

-----------------------------------------------------------------------------
(* The invariant.                                                          *)

\* At first no worker is anywhere.
LEMMA InitIInv == Init => IInv
<1> SUFFICES ASSUME Init PROVE IInv OBVIOUS
<1> USE ThreadAssumption
<1>1. \A w \in Workers : pc[w] = "none" BY DEF Init, Threads
<1>2. TypeOK
  <2>1. Places
    <3>1. DOMAIN pc = Threads /\ pc[Client] = "idle" BY DEF Init, Threads
    <3> QED BY <1>1, <3>1 DEF Places, WorkerSteps, ClientSteps
  <2>2. Requested BY DEF Init, Requested
  <2>3. Fetching BY DEF Init, Fetching
  <2>4. Control
    <3>1. MaxRounds \in Nat BY SlicerAssumption DEF SlicerAssumption
    <3> QED BY <3>1 DEF Init, Control
  <2>5. Natural BY DEF Init, Natural
  <2> QED BY <2>1, <2>2, <2>3, <2>4, <2>5, TypeParts
<1>3. Starting = {} /\ Active = {} /\ AtRest = {}
  BY <1>1 DEF Starting, Active, AtRest, In
<1> QED
  BY <1>1, <1>2, <1>3, FS_EmptySet
  DEF Init, IInv, Unstarted, CountersCover, NoneStarting, NotCancelled, Quiet

\* A thread of a later call of resume_slicing() is not started by this one.
LEMMA UnstartedKept ==
  ASSUME TypeOK, Unstarted, Next
  PROVE  Unstarted'
<1>0. DOMAIN pc = Threads /\ round \in Nat
  <2>1. MaxRounds \in Nat BY SlicerAssumption DEF SlicerAssumption
  <2> QED BY <2>1 DEF TypeOK
<1>1. CASE ClientOnly BY <1>1 DEF ClientOnly, Unstarted
<1>2. ASSUME NEW w \in Workers, NEW step, Goto(w, step), pc[w] # "none",
             UNCHANGED round
      PROVE  Unstarted'
  <2>1. \A v \in Workers : v # w => pc'[v] = pc[v]
    BY <1>0, <1>2, OthersStay DEF Threads
  <2> QED BY <1>2, <2>1 DEF Unstarted
<1>3. ASSUME NEW w \in Workers, Worker(w) PROVE Unstarted'
  <2>1. CASE GoesUncounted(w) BY <2>1, <1>2 DEF GoesUncounted
  <2>2. CASE Started(w) \/ PauseWorker(w) \/ Unpause(w)
    BY <2>2, <1>2 DEF Started, PauseWorker, Unpause, CanTest, threads
  <2> QED BY <1>1, <1>3, <2>1, <2>2, WorkerGoes
<1>4. CASE ResumeRuns
  <2>1. \A w \in Workers :
          w \notin m_item_to_slice_prepared \X {round + 1} => pc'[w] = pc[w]
    BY <1>4, ThreadAssumption DEF ResumeRuns, Threads
  <2>2. \A w \in Workers : w \in m_item_to_slice_prepared \X {round + 1}
                            => w[2] = round + 1
    OBVIOUS
  <2>3. \A w \in Workers : w[2] \in Nat
    BY SlicerAssumption DEF Workers, SlicerAssumption
  <2>4. round' = round + 1 BY <1>4 DEF ResumeRuns
  <2> QED BY <1>0, <2>1, <2>2, <2>3, <2>4 DEF Unstarted
<1> QED BY <1>1, <1>3, <1>4, ClientStep DEF Next, ClientGoes

\* A group that is counted as none has no thread.
LEMMA CountedEmpty ==
  ASSUME TypeOK, CountersCover
  PROVE  /\ m_starting_thread_count = 0 => Starting = {}
         /\ m_running_thread_count = 0 => Active = {}
<1>1. \A n \in Nat : 0 >= n => n = 0 OBVIOUS
<1> QED BY <1>1, GroupSizes, FS_EmptySet DEF CountersCover

\* The starting count is taken down to 0 before resume_slicing() goes on, and
\* is not counted up again before the next call of it.
LEMMA NoneStartingKept ==
  ASSUME TypeOK, CountersCover, NoneStarting, Next
  PROVE  NoneStarting'
<1>1. CASE /\ UNCHANGED <<m_starting_thread_count, m_state>>
           /\ pc'[Client] = pc[Client]
  BY <1>1 DEF NoneStarting, NotCancelled
<1>2. ASSUME NEW w \in Workers, Worker(w) PROVE NoneStarting'
  <2>1. DOMAIN pc = Threads BY DEF TypeOK
  <2>2. CASE GoesUncounted(w) BY <2>2, <1>1 DEF GoesUncounted, counters
  <2>3. CASE ClientOnly /\ UNCHANGED <<m_state, pc>>
    BY <2>3, <1>1 DEF ClientOnly, counters
  <2>4. CASE PauseWorker(w) \/ Unpause(w)
    BY <2>1, <2>4, <1>1, OthersStay
    DEF PauseWorker, CountPaused, Unpause, CountRunning
  <2>5. CASE Started(w)
    <3>1. w \in Starting BY <2>5, Groups DEF Started, StartSteps
    <3>2. m_starting_thread_count # 0 BY <3>1, CountedEmpty
    <3>3. UNCHANGED m_state /\ pc'[Client] = pc[Client]
      BY <2>1, <2>5, OthersStay DEF Started
    <3> QED BY <3>2, <3>3 DEF NoneStarting, NotCancelled
  <2> QED BY <1>2, <2>2, <2>3, <2>4, <2>5, WorkerGoes
<1>3. CASE ResumeRuns
  <2>1. pc'[Client] = "await started" BY <1>3 DEF ResumeRuns, Threads
  <2> QED BY <2>1 DEF NoneStarting
<1>4. CASE ClientGoes
  <2>1. UNCHANGED m_starting_thread_count
    BY <1>4 DEF ClientGoes, ClientOnly, counters
  <2>2. CASE pc[Client] # "await started"
    BY <1>4, <2>1, <2>2 DEF ClientGoes, NoneStarting
  <2>3. CASE pc[Client] = "await started"
    BY <1>4, <2>1, <2>3 DEF ClientGoes, AllStarted, NoneStarting, NotCancelled
  <2> QED BY <2>2, <2>3
<1> QED BY <1>2, <1>3, <1>4, ClientStep DEF Next

\* A worker at rest goes on only when slicing is not paused, and pause_slicing()
\* returns only when none runs.
LEMMA QuietKept ==
  ASSUME TypeOK, CountersCover, NoneStarting, Quiet, Next
  PROVE  Quiet'
<1>1. ASSUME NEW w \in Workers, Worker(w) PROVE Quiet'
  <2>1. DOMAIN pc = Threads BY DEF TypeOK
  <2>2. CASE GoesUncounted(w)
    <3>1. Starting' \subseteq Starting /\ Active' \subseteq Active
      BY <2>2, UncountedGroups
    <3>2. UNCHANGED m_state /\ pc'[Client] = pc[Client]
      BY <2>2 DEF GoesUncounted
    <3> QED BY <3>1, <3>2 DEF Quiet
  <2>3. CASE ClientOnly /\ UNCHANGED <<m_state, pc>>
    <3>1. Starting' = Starting /\ Active' = Active BY <2>3, ClientCovered
    <3> QED BY <2>3, <3>1 DEF Quiet
  <2>4. CASE Started(w) \/ PauseWorker(w)
    <3>1. w \in Starting \/ w \in Active
      BY <2>4, Groups DEF Started, PauseWorker, StartSteps, ActiveSteps
    <3>2. UNCHANGED m_state /\ pc'[Client] = pc[Client]
      BY <2>1, <2>4, OthersStay DEF Started, PauseWorker
    <3> QED BY <3>1, <3>2 DEF Quiet
  <2>5. CASE Unpause(w)
    BY <2>5 DEF Unpause, Quiet
  <2> QED BY <1>1, <2>2, <2>3, <2>4, <2>5, WorkerGoes
<1>2. CASE ResumeRuns BY <1>2 DEF ResumeRuns, Quiet
<1>3. CASE ClientGoes
  <2>1. Starting' = Starting /\ Active' = Active
    BY <1>3, ClientCovered DEF ClientGoes
  <2>2. ASSUME m_state' = "paused", pc'[Client] # "await quiet"
        PROVE  Starting = {} /\ Active = {}
    <3>1. m_state = "paused" /\ (pc[Client] = "await quiet" => NoneRunning)
      BY <1>3, <2>2 DEF ClientGoes
    <3>2. CASE pc[Client] # "await quiet" BY <3>1, <3>2 DEF Quiet
    <3>3. CASE pc[Client] = "await quiet"
      BY <3>1, <3>3, CountedEmpty DEF NoneRunning, NoneStarting, NotCancelled
    <3> QED BY <3>2, <3>3
  <2> QED BY <2>1, <2>2 DEF Quiet
<1> QED BY <1>1, <1>2, <1>3, ClientStep DEF Next

\* Every step leaves the counters covering the threads, and never below 0.
LEMMA CoveredKept ==
  ASSUME TypeOK, CountersCover, Unstarted, Next
  PROVE  CountersCover' /\ Natural'
<1>1. ASSUME NEW w \in Workers, Worker(w) PROVE CountersCover' /\ Natural'
  BY <1>1, WorkerGoes, UncountedCovered, ClientCovered, StartedCovered,
     PauseCovered, UnpauseCovered
<1> QED BY <1>1, ClientStep, ClientCovered, ResumeCovered DEF Next, ClientGoes

\* Every step keeps the types.
LEMMA TypeKept ==
  ASSUME TypeOK, CountersCover, Unstarted, Next
  PROVE  TypeOK'
<1>1. Places /\ Requested /\ Fetching /\ Control BY TypeParts
<1>2. Places' BY <1>1, WorkerPlaces, ClientPlaces DEF Next
<1>3. Requested' BY <1>1, RequestedKept
<1>4. Fetching' BY <1>1, FetchingKept
<1>5. Control' BY <1>1, ControlKept
<1>6. Natural' BY CoveredKept
<1>7. TypeOK' <=> Places' /\ Requested' /\ Fetching' /\ Control' /\ Natural'
  BY DEF TypeOK, Places, Requested, Fetching, Control, Natural
<1> QED BY <1>2, <1>3, <1>4, <1>5, <1>6, <1>7

\* The invariant of the counters holds in every state.
THEOREM Invariance == Spec => []IInv
<1>1. IInv /\ Next => IInv'
  BY TypeKept, CoveredKept, UnstartedKept, NoneStartingKept, QuietKept DEF IInv
<1>2. IInv /\ UNCHANGED vars => IInv'
  BY DEF vars, others, requested, counters, store, waits, threads, passes, IInv,
         TypeOK, WorkerSteps, ClientSteps, Unstarted, CountersCover, Starting,
         Active, AtRest, In, NoneStarting, NotCancelled, Quiet
<1>3. IInv /\ [Next]_vars => IInv' BY <1>1, <1>2
<1> QED BY <1>3, InitIInv, PTL DEF Spec

\* Every variable of the slicer has its type, for any items, offers and bounds.
THEOREM TypeCorrect == Spec => []TypeOK
<1>1. IInv => TypeOK BY DEF IInv
<1> QED BY <1>1, Invariance, PTL

\* The three counters cover the threads they stand for, though workers count
\* themselves without m_state_mutex (slicer.cpp:262, 341-361).
THEOREM CountersTrue == Spec => []CountersCover
<1>1. IInv => CountersCover BY DEF IInv
<1> QED BY <1>1, Invariance, PTL

\* While slicing is paused and no call is made, no worker reads, takes or stores
\* anything: request_slice() may change what they share (slicer.cpp:55-64, 427).
THEOREM PauseIsQuiet == Spec => []PausedIsQuiet
<1>1. IInv => PausedIsQuiet BY DEF IInv, Quiet, PausedIsQuiet
<1> QED BY <1>1, Invariance, PTL
-----------------------------------------------------------------------------
(* Where a requested slice waits.                                          *)

\* The items and the workers that have the slice still to come.
Asks(asked, s) == \E r \in asked : r.slice = s
ItemsWith(s) == {i \in Items : Asks(m_items_to_slices_requested[i], s)}
WorkersWith(s) == {w \in Workers : Asks(slices_requested[w], s)}

Nowhere(s) == ItemsWith(s) = {} /\ WorkersWith(s) = {}
AtOnePlace(s) ==
    \/ WorkersWith(s) = {} /\ \E i \in Items : ItemsWith(s) = {i}
    \/ ItemsWith(s) = {} /\ \E w \in Workers : WorkersWith(s) = {w}

\* No pass has a slice twice.
Single(asked) == \A r, q \in asked : r.slice = q.slice => r = q

\* A worker that has not looked at its item yet has nothing to slice.
Fresh == {"none", "starting", "admitted"}

PlacedInv ==
    /\ \A s \in Slices : IF m_slice_item_request_counts[s] > 0
                         THEN AtOnePlace(s) ELSE Nowhere(s)
    /\ \A i \in Items : Single(m_items_to_slices_requested[i])
    /\ \A w \in Workers : Single(slices_requested[w])
    /\ \A w \in Workers : pc[w] \in Fresh => slices_requested[w] = {}

\* What is offered has a length: of two empty slices with one offset only the
\* first would be requested.
LengthsPositive == \A r \in Offers : SizeOf[r.slice] > 0

\* An acceptable slice that has a length is inserted: an entry with its offset
\* would overlap it.
LEMMA AcceptableInserted ==
  ASSUME SlicerAssumption, LengthsPositive, Asked, NEW r \in Offers, Acceptable(r)
  PROVE  Inserted(r, m_items_to_slices_requested[r.item])
           = m_items_to_slices_requested[r.item] \union {r}
<1> DEFINE asked == m_items_to_slices_requested[r.item]
<1>1. asked \subseteq Offers /\ Separate(asked) /\ r.item \in Items
  BY Sizes DEF Asked, NoOverlap
<1>2. ASSUME NEW q \in asked, q.offset = r.offset PROVE FALSE
  <2>1. Apart(r, q) BY <1>1, NeighboursSuffice DEF Acceptable
  <2>2. /\ r.offset \in Nat /\ SizeOf[r.slice] \in Nat /\ SizeOf[r.slice] > 0
        /\ q.offset \in Nat /\ SizeOf[q.slice] \in Nat /\ SizeOf[q.slice] > 0
    BY <1>1, Sizes DEF LengthsPositive
  <2> QED BY <1>2, <2>1, <2>2 DEF Apart, Disjoint
<1> QED BY <1>2 DEF Inserted

\* A new slice waits with its item.
LEMMA RequestPlaced ==
  ASSUME SlicerAssumption, LengthsPositive, TypeOK, Asked, PlacedInv,
         NEW r \in Offers, RequestSlice(r)
  PROVE  PlacedInv'
<1> DEFINE i == r.item
           t == r.slice
<1>1. i \in Items /\ t \in Slices BY DEF SlicerAssumption
<1>2. /\ m_items_to_slices_requested' =
             [m_items_to_slices_requested EXCEPT ![i] = @ \union {r}]
      /\ slices_requested' = slices_requested /\ pc' = pc
      /\ m_slice_item_request_counts' = [m_slice_item_request_counts EXCEPT ![t] = @ + 1]
      /\ m_slice_item_request_counts[t] = 0
  BY AcceptableInserted DEF RequestSlice, CountRequest, threads, passes
<1>3. Nowhere(t) BY <1>1, <1>2 DEF PlacedInv
<1>4. /\ m_items_to_slices_requested'[i] = m_items_to_slices_requested[i] \union {r}
      /\ \A j \in Items : j # i =>
            m_items_to_slices_requested'[j] = m_items_to_slices_requested[j]
  BY <1>1, <1>2 DEF TypeOK
<1>5. AtOnePlace(t)'
  <2>1. ItemsWith(t)' = {i} BY <1>1, <1>3, <1>4 DEF Nowhere, ItemsWith, Asks
  <2>2. WorkersWith(t)' = {} BY <1>2, <1>3 DEF Nowhere, WorkersWith
  <2> QED BY <1>1, <2>1, <2>2 DEF AtOnePlace
<1>6. m_slice_item_request_counts'[t] > 0 BY <1>1, <1>2 DEF TypeOK
<1>7. ASSUME NEW s \in Slices, s # t
      PROVE  IF m_slice_item_request_counts'[s] > 0 THEN AtOnePlace(s)' ELSE Nowhere(s)'
  <2>1. m_slice_item_request_counts'[s] = m_slice_item_request_counts[s]
    BY <1>2, <1>7 DEF TypeOK
  <2>2. ItemsWith(s)' = ItemsWith(s) BY <1>4, <1>7 DEF ItemsWith, Asks
  <2>3. WorkersWith(s)' = WorkersWith(s) BY <1>2 DEF WorkersWith
  <2> QED BY <2>1, <2>2, <2>3 DEF PlacedInv, AtOnePlace, Nowhere
<1>8. ASSUME NEW j \in Items PROVE Single(m_items_to_slices_requested'[j])
  <2>1. CASE j # i BY <1>4, <2>1 DEF PlacedInv
  <2>2. CASE j = i
    <3>1. \A q \in m_items_to_slices_requested[i] : q.slice # t
      BY <1>1, <1>3 DEF Nowhere, ItemsWith, Asks
    <3>2. Single(m_items_to_slices_requested[i]) BY <1>1 DEF PlacedInv
    <3> QED BY <1>4, <2>2, <3>1, <3>2 DEF Single
  <2> QED BY <2>1, <2>2
<1>9. \A s \in Slices :
        IF m_slice_item_request_counts'[s] > 0 THEN AtOnePlace(s)' ELSE Nowhere(s)'
  BY <1>5, <1>6, <1>7
<1> QED BY <1>2, <1>8, <1>9 DEF PlacedInv

\* A worker that starts takes what waited with its item.
LEMMA TakePlaced ==
  ASSUME TypeOK, PlacedInv, NEW w \in Workers, Take(w)
  PROVE  PlacedInv'
<1> DEFINE i == w[1]
<1>1. i \in Items BY DEF Workers
<1>2. /\ slices_requested' =
             [slices_requested EXCEPT ![w] = m_items_to_slices_requested[i]]
      /\ m_items_to_slices_requested' =
             [m_items_to_slices_requested EXCEPT ![i] = {}]
      /\ m_slice_item_request_counts' = m_slice_item_request_counts
      /\ pc[w] = "admitted"
      /\ \E step \in {"failed", "taken"} : Goto(w, step)
  BY DEF Take, EraseRequests
<1>3. slices_requested[w] = {} BY <1>2 DEF PlacedInv, Fresh
<1>4. /\ slices_requested'[w] = m_items_to_slices_requested[i]
      /\ \A v \in Workers : v # w => slices_requested'[v] = slices_requested[v]
      /\ m_items_to_slices_requested'[i] = {}
      /\ \A j \in Items : j # i =>
            m_items_to_slices_requested'[j] = m_items_to_slices_requested[j]
  BY <1>1, <1>2 DEF TypeOK
<1>5. ASSUME NEW s \in Slices
      PROVE  IF m_slice_item_request_counts'[s] > 0 THEN AtOnePlace(s)' ELSE Nowhere(s)'
  <2>1. ItemsWith(s)' = ItemsWith(s) \ {i}
    BY <1>1, <1>4 DEF ItemsWith, Asks
  <2>2. w \notin WorkersWith(s) BY <1>3 DEF WorkersWith, Asks
  <2>3. WorkersWith(s)' = IF i \in ItemsWith(s) THEN WorkersWith(s) \union {w}
                                                ELSE WorkersWith(s)
    BY <1>1, <1>4, <2>2 DEF ItemsWith, WorkersWith, Asks
  <2>4. CASE m_slice_item_request_counts[s] > 0
    <3>1. AtOnePlace(s) BY <2>4 DEF PlacedInv
    <3>2. AtOnePlace(s)' BY <2>1, <2>3, <3>1 DEF AtOnePlace
    <3> QED BY <1>2, <2>4, <3>2
  <2>5. CASE ~(m_slice_item_request_counts[s] > 0)
    <3>1. Nowhere(s) BY <2>5 DEF PlacedInv
    <3>2. Nowhere(s)' BY <2>1, <2>3, <3>1 DEF Nowhere
    <3> QED BY <1>2, <2>5, <3>2
  <2> QED BY <2>4, <2>5
<1>6. \A j \in Items : Single(m_items_to_slices_requested'[j])
  BY <1>4 DEF PlacedInv, Single
<1>7. \A v \in Workers : Single(slices_requested'[v])
  BY <1>1, <1>4 DEF PlacedInv
<1>8. \A v \in Workers : pc'[v] \in Fresh => slices_requested'[v] = {}
  <2>1. w \in Threads /\ Workers \subseteq Threads BY DEF Threads
  <2>2. /\ pc'[w] \in {"failed", "taken"}
        /\ \A v \in Workers : v # w => pc'[v] = pc[v]
    BY <1>2, <2>1 DEF Goto, TypeOK
  <2> QED BY <1>4, <2>2 DEF PlacedInv, Fresh
<1> QED BY <1>5, <1>6, <1>7, <1>8 DEF PlacedInv

\* A worker that stores a slice was the only one that had it to come.
LEMMA StorePlaced ==
  ASSUME SlicerAssumption, TypeOK, PlacedInv, NEW w \in Workers, Store(w)
  PROVE  PlacedInv'
<1>1. PICK r \in slices_requested[w] :
        /\ m_slice_item_request_counts[r.slice] > 0
        /\ m_slice_item_request_counts' =
               [m_slice_item_request_counts EXCEPT ![r.slice] = 0]
        /\ slices_requested' = [slices_requested EXCEPT ![w] = @ \ {r}]
  BY DEF Store
<1> DEFINE t == r.slice
<1>2. r \in Offers /\ t \in Slices
  <2>1. r \in Offers BY <1>1 DEF TypeOK
  <2> QED BY <2>1 DEF SlicerAssumption
<1>3. /\ m_items_to_slices_requested' = m_items_to_slices_requested
      /\ pc[w] = "slice" /\ Goto(w, "stored")
  BY DEF Store
<1>4. /\ slices_requested'[w] = slices_requested[w] \ {r}
      /\ \A v \in Workers : v # w => slices_requested'[v] = slices_requested[v]
  BY <1>1 DEF TypeOK
<1>5. w \in WorkersWith(t) BY <1>1 DEF WorkersWith, Asks
<1>6. WorkersWith(t) = {w} /\ ItemsWith(t) = {}
  BY <1>1, <1>2, <1>5 DEF PlacedInv, AtOnePlace
<1>7. Nowhere(t)'
  <2>1. Single(slices_requested[w]) BY DEF PlacedInv
  <2>2. ~Asks(slices_requested[w] \ {r}, t) BY <1>1, <2>1 DEF Asks, Single
  <2>3. WorkersWith(t)' = {} BY <1>4, <1>6, <2>2 DEF WorkersWith, Asks
  <2>4. ItemsWith(t)' = {} BY <1>3, <1>6 DEF ItemsWith
  <2> QED BY <2>3, <2>4 DEF Nowhere
<1>8. m_slice_item_request_counts'[t] = 0 BY <1>1, <1>2 DEF TypeOK
<1>9. ASSUME NEW s \in Slices, s # t
      PROVE  IF m_slice_item_request_counts'[s] > 0 THEN AtOnePlace(s)' ELSE Nowhere(s)'
  <2>1. m_slice_item_request_counts'[s] = m_slice_item_request_counts[s]
    BY <1>1, <1>9 DEF TypeOK
  <2>2. ItemsWith(s)' = ItemsWith(s) BY <1>3 DEF ItemsWith
  <2>3. WorkersWith(s)' = WorkersWith(s)
    BY <1>4, <1>9 DEF WorkersWith, Asks
  <2> QED BY <2>1, <2>2, <2>3 DEF PlacedInv, AtOnePlace, Nowhere
<1>10. \A s \in Slices :
        IF m_slice_item_request_counts'[s] > 0 THEN AtOnePlace(s)' ELSE Nowhere(s)'
  BY <1>7, <1>8, <1>9
<1>11. \A v \in Workers : Single(slices_requested'[v])
  BY <1>4 DEF PlacedInv, Single
<1>12. \A v \in Workers : pc'[v] \in Fresh => slices_requested'[v] = {}
  <2>1. w \in Threads /\ Workers \subseteq Threads BY DEF Threads
  <2>2. pc'[w] = "stored" /\ \A v \in Workers : v # w => pc'[v] = pc[v]
    BY <1>3, <2>1 DEF Goto, TypeOK
  <2> QED BY <1>4, <2>2 DEF PlacedInv, Fresh
<1> QED BY <1>3, <1>10, <1>11, <1>12 DEF PlacedInv

\* The other steps keep every count above 0, or at it.
LEMMA CountsStay ==
  ASSUME SlicerAssumption, TypeOK, Next,
         \A r \in Offers : ~RequestSlice(r), \A w \in Workers : ~Store(w)
  PROVE  \A s \in Slices : m_slice_item_request_counts'[s] > 0
                              <=> m_slice_item_request_counts[s] > 0
<1> USE DEF others, requested, threads, passes
<1>1. CASE InCall
  BY <1>1 DEF InCall, ResumeRuns, ResumeStarted, ResumeGoesOn, ResumeReturns,
     PauseStores, PauseReturns, ClientTestsInVain, FallAsleep, InFetch, FetchThrows, Consume, NotInStore,
     AwaitSlice, DestroyNotifies, Join
<1>2. ASSUME NEW r \in Offers, RequestAgain(r)
      PROVE  \A s \in Slices : m_slice_item_request_counts'[s] > 0
                                  <=> m_slice_item_request_counts[s] > 0
  <2>1. /\ m_slice_item_request_counts[r.slice] > 0
        /\ m_slice_item_request_counts' =
               [m_slice_item_request_counts EXCEPT ![r.slice] = @ + 1]
    BY <1>2 DEF RequestAgain, CountRequest
  <2>2. r.slice \in Slices BY DEF SlicerAssumption
  <2> QED BY <2>1, <2>2 DEF TypeOK
<1>3. CASE Call
  BY <1>2, <1>3 DEF Call, Fetch, Resume, Pause, Destroy
<1>4. CASE CancelSlicing BY <1>4 DEF CancelSlicing, Cancel, CancelNotifies
<1>5. CASE \E w \in Workers : Worker(w)
  BY <1>5 DEF Worker, StartFails, Admit, Take, LookUp, Started, NotifyStarted,
     MakeReader, InFetch, FetchThrows, Consume, NotInStore, AwaitSlice,
     PauseWorker, NotifyPaused, StayPaused, FallAsleep, Unpause, KeepsRunning,
     GoesOn, EndWorker, SliceFails, NotifyStored
<1> QED BY <1>1, <1>3, <1>4, <1>5 DEF Next

\* A thread is started once.
LEMMA StaysFresh ==
  ASSUME IInv, Next, NEW v \in Workers, pc'[v] \in Fresh
  PROVE  pc[v] \in Fresh
<1>0. v \in Threads /\ v # Client /\ Workers \subseteq Threads /\ TypeOK
  BY ThreadAssumption DEF Threads, IInv
<1> USE DEF others, Fresh
<1>1. ASSUME NEW t \in Threads, NEW step, Goto(t, step), step \notin Fresh
      PROVE  pc[v] \in Fresh
  BY <1>0, <1>1 DEF Goto, TypeOK
<1>2. CASE pc' = pc BY <1>2
<1>3. ASSUME NEW t \in Threads, InFetch(t) PROVE pc[v] \in Fresh
  BY <1>1, <1>2, <1>3 DEF InFetch, FetchThrows, FetchFailed, Consume, Fetched,
     NotInStore, AwaitSlice
<1>4. CASE ResumeRuns
  <2>1. pc'[v] = IF v \in m_item_to_slice_prepared \X {round + 1} THEN "starting"
                 ELSE pc[v]
    BY <1>0, <1>4 DEF ResumeRuns
  <2>2. v \in m_item_to_slice_prepared \X {round + 1} => v[2] > round
    <3>1. round \in Nat
      <4>1. MaxRounds \in Nat BY SlicerAssumption DEF SlicerAssumption
      <4> QED BY <1>0, <4>1 DEF TypeOK
    <3> QED BY <3>1
  <2> QED BY <2>1, <2>2 DEF IInv, Unstarted
<1>5. CASE InCall
  <2>1. Client \in Threads BY DEF Threads
  <2>2. CASE ResumeGoesOn
    <3>1. Goto(Client, "idle") \/ Goto(Client, "await unpaused")
      BY <2>2 DEF ResumeGoesOn
    <3> QED BY <1>1, <2>1, <3>1
  <2>3. CASE ResumeStarted \/ ResumeReturns \/ PauseStores \/ PauseReturns
    BY <1>1, <2>1, <2>3 DEF ResumeStarted, ResumeReturns, PauseStores, PauseReturns
  <2>4. CASE ClientTestsInVain \/ FallAsleep(Client)
    BY <1>2, <2>4 DEF ClientTestsInVain, FallAsleep
  <2>5. CASE DestroyNotifies \/ Join BY <1>1, <2>1, <2>5 DEF DestroyNotifies, Join
  <2> QED BY <1>3, <1>4, <1>5, <2>1, <2>2, <2>3, <2>4, <2>5 DEF InCall
<1>6. CASE Call
  <2>1. Client \in Threads BY DEF Threads
  <2>2. CASE \E r \in Offers : RequestSlice(r) \/ RequestAgain(r)
    BY <1>2, <2>2 DEF RequestSlice, RequestAgain
  <2>3. CASE \E s \in Slices : Fetch(s) BY <1>1, <2>1, <2>3 DEF Fetch
  <2>4. CASE Resume \/ Pause \/ Destroy
    BY <1>1, <2>1, <2>4 DEF Resume, Pause, Destroy
  <2> QED BY <1>6, <2>2, <2>3, <2>4 DEF Call
<1>7. CASE CancelSlicing BY <1>2, <1>7 DEF CancelSlicing, Cancel, CancelNotifies
<1>8. ASSUME NEW w \in Workers, Worker(w) PROVE pc[v] \in Fresh
  <2>1. w \in Threads BY <1>0
  <2>2. CASE StartFails(w) \/ LookUp(w) \/ Started(w) \/ NotifyStarted(w)
    BY <1>1, <2>1, <2>2 DEF StartFails, LookUp, Started, NotifyStarted
  <2>8. CASE Admit(w)
    <3>1. v = w \/ pc'[v] = pc[v] BY <1>0, <2>8 DEF Admit, Goto, TypeOK
    <3> QED BY <2>8, <3>1 DEF Admit
  <2>9. CASE Take(w)
    <3>1. PICK step \in {"failed", "taken"} : Goto(w, step) BY <2>9 DEF Take
    <3> QED BY <1>1, <2>1, <3>1
  <2>3. CASE MakeReader(w)
    <3>1. PICK step \in {"crashed", "loop", "fetch"} : Goto(w, step)
      BY <2>3 DEF MakeReader
    <3> QED BY <1>1, <2>1, <3>1
  <2>4. CASE PauseWorker(w) \/ NotifyPaused(w) \/ Unpause(w) \/ KeepsRunning(w)
    BY <1>1, <2>1, <2>4 DEF PauseWorker, NotifyPaused, Unpause, KeepsRunning
  <2>5. CASE StayPaused(w) \/ FallAsleep(w) BY <1>2, <2>5 DEF StayPaused, FallAsleep
  <2>6. CASE GoesOn(w)
    <3>1. PICK step \in {"ended", "slice"} : Goto(w, step) BY <2>6 DEF GoesOn
    <3> QED BY <1>1, <2>1, <3>1
  <2>7. CASE EndWorker(w) \/ SliceFails(w) \/ Store(w) \/ NotifyStored(w)
    BY <1>1, <2>1, <2>7 DEF EndWorker, SliceFails, Store, NotifyStored
  <2> QED
    BY <1>3, <1>8, <2>1, <2>2, <2>3, <2>4, <2>5, <2>6, <2>7, <2>8, <2>9
    DEF Worker
<1> QED BY <1>5, <1>6, <1>7, <1>8 DEF Next

\* What is asked for stays separate.
LEMMA AskedKept ==
  ASSUME SlicerAssumption, Asked, Next
  PROVE  Asked'
<1>1. CASE UNCHANGED <<m_items_to_slices_requested, slices_requested>>
  BY <1>1 DEF Asked, NoOverlap
<1> QED BY <1>1, OthersKeepAsked, RequestKeepsAsked, TakeKeepsAsked, StoreKeepsAsked

\* Every step leaves each slice in its one place.
LEMMA PlacedKept ==
  ASSUME SlicerAssumption, LengthsPositive, IInv, Asked, PlacedInv, Next
  PROVE  PlacedInv'
<1>1. TypeOK BY DEF IInv
<1>2. CASE \E r \in Offers : RequestSlice(r) BY <1>1, <1>2, RequestPlaced
<1>3. CASE \E w \in Workers : Take(w) BY <1>1, <1>3, TakePlaced
<1>4. CASE \E w \in Workers : Store(w) BY <1>1, <1>4, StorePlaced
<1>5. CASE /\ \A r \in Offers : ~RequestSlice(r)
           /\ \A w \in Workers : ~Take(w) /\ ~Store(w)
  <2>1. UNCHANGED <<m_items_to_slices_requested, slices_requested>>
    BY <1>5, OthersKeepAsked
  <2>2. \A s \in Slices : m_slice_item_request_counts'[s] > 0
                             <=> m_slice_item_request_counts[s] > 0
    BY <1>1, <1>5, CountsStay
  <2>3. \A w \in Workers : pc'[w] \in Fresh => pc[w] \in Fresh BY StaysFresh
  <2>4. \A s \in Slices : /\ AtOnePlace(s) => AtOnePlace(s)'
                          /\ Nowhere(s) => Nowhere(s)'
    BY <2>1 DEF AtOnePlace, Nowhere, ItemsWith, WorkersWith
  <2> QED BY <2>1, <2>2, <2>3, <2>4 DEF PlacedInv
<1> QED BY <1>2, <1>3, <1>4, <1>5

\* A slice that is requested waits in exactly one place until it is stored,
\* and nothing waits that is not (slicer.cpp:67-88, 336-337, 430-441): a pass
\* stores each requested slice once, and never finds one that nobody asked for.
THEOREM OneProducerOfEach ==
  ASSUME LengthsPositive
  PROVE  Spec => []OneProducer
<1>1. Init => Asked /\ PlacedInv
  BY DEF Init, Asked, NoOverlap, Separate, PlacedInv, Nowhere, ItemsWith,
     WorkersWith, Asks, Single
<1>2. IInv /\ Asked /\ PlacedInv /\ [Next]_vars => Asked' /\ PlacedInv'
  <2>1. ASSUME IInv, Asked, PlacedInv, Next PROVE Asked' /\ PlacedInv'
    BY <2>1, SlicerAssumption, AskedKept, PlacedKept
  <2>2. ASSUME Asked, PlacedInv, UNCHANGED vars PROVE Asked' /\ PlacedInv'
    BY <2>2 DEF vars, others, requested, threads, passes, Asked, NoOverlap, PlacedInv,
       AtOnePlace, Nowhere, ItemsWith, WorkersWith
  <2> QED BY <2>1, <2>2
<1>3. PlacedInv => OneProducer
  <2> SUFFICES ASSUME PlacedInv, NEW s \in Slices
               PROVE  Waiting(s) = IF m_slice_item_request_counts[s] > 0 THEN 1 ELSE 0
    BY DEF OneProducer
  <2>1. Waiting(s) = Cardinality(ItemsWith(s)) + Cardinality(WorkersWith(s))
    BY DEF Waiting, ItemsWith, WorkersWith, Asks
  <2>2. Cardinality({}) = 0 /\ \A e : Cardinality({e}) = 1
    BY FS_EmptySet, FS_Singleton
  <2>3. ASSUME AtOnePlace(s) PROVE Waiting(s) = 1
    <3>1. CASE WorkersWith(s) = {} /\ \E i \in Items : ItemsWith(s) = {i}
      <4>1. PICK i \in Items : ItemsWith(s) = {i} BY <3>1
      <4>2. Cardinality(ItemsWith(s)) = 1 BY <2>2, <4>1
      <4>3. Cardinality(WorkersWith(s)) = 0 BY <2>2, <3>1
      <4> QED BY <2>1, <4>2, <4>3
    <3>2. CASE ItemsWith(s) = {} /\ \E w \in Workers : WorkersWith(s) = {w}
      <4>1. PICK w \in Workers : WorkersWith(s) = {w} BY <3>2
      <4>2. Cardinality(WorkersWith(s)) = 1 BY <2>2, <4>1
      <4>3. Cardinality(ItemsWith(s)) = 0 BY <2>2, <3>2
      <4> QED BY <2>1, <4>2, <4>3
    <3> QED BY <2>3, <3>1, <3>2 DEF AtOnePlace
  <2>4. Nowhere(s) => Waiting(s) = 0 BY <2>1, <2>2 DEF Nowhere
  <2> QED BY <2>3, <2>4 DEF PlacedInv
<1> QED BY <1>1, <1>2, <1>3, Invariance, PTL DEF Spec

-----------------------------------------------------------------------------
(* Requests.                                                               *)

account == <<m_slice_item_request_counts, m_stored_slices, requests, fetches>>

\* Where slicing is never paused again: until it is resumed nothing is stored;
\* a slice that is still requested is not in the store yet.
AccountInv ==
    /\ pc[Client] # "pause"
    /\ m_state = "paused" => /\ \A w \in Workers : pc[w] = "none"
                             /\ \A s \in Slices : m_stored_slices[s] = 0
    /\ \A s \in Slices : m_slice_item_request_counts[s] > 0 => m_stored_slices[s] = 0
    /\ NoRequestLost

\* Only requests, passes and fetches change the account.
LEMMA AccountMoves ==
  ASSUME Next
  PROVE  \/ \E r \in Offers : RequestSlice(r) \/ RequestAgain(r)
         \/ \E w \in Workers : Store(w)
         \/ \E t \in Threads : Consume(t)
         \/ UNCHANGED account
<1> USE DEF others, requested, store, account
<1>1. ASSUME NEW t \in Threads, InFetch(t)
      PROVE  Consume(t) \/ UNCHANGED account
  BY <1>1 DEF InFetch, FetchThrows, NotInStore, AwaitSlice
<1>2. CASE InCall
  <2>1. Client \in Threads BY DEF Threads
  <2> QED BY <1>1, <1>2, <2>1 DEF InCall, ResumeRuns, ResumeStarted,
      ResumeGoesOn, ResumeReturns, PauseStores, PauseReturns,
      ClientTestsInVain, FallAsleep, DestroyNotifies, Join
<1>3. CASE Call BY <1>3 DEF Call, Fetch, Resume, Pause, Destroy
<1>4. CASE CancelSlicing BY <1>4 DEF CancelSlicing, Cancel, CancelNotifies
<1>5. ASSUME NEW w \in Workers, Worker(w)
      PROVE  Store(w) \/ (\E t \in Threads : Consume(t)) \/ UNCHANGED account
  <2>1. w \in Threads BY DEF Threads
  <2> QED BY <1>1, <1>5, <2>1 DEF Worker, StartFails, Admit, Take, LookUp,
      Started, NotifyStarted, MakeReader, PauseWorker, NotifyPaused,
      StayPaused, FallAsleep, Unpause, KeepsRunning, GoesOn, EndWorker,
      SliceFails, NotifyStored
<1> QED BY <1>2, <1>3, <1>4, <1>5 DEF Next

\* While slicing was never paused again, a paused slicer has no threads.
LEMMA PausedOnlyAtFirst ==
  ASSUME TypeOK, ~MayPause, AccountInv, Next, m_state' = "paused"
  PROVE  m_state = "paused" /\ \A w \in Workers : pc'[w] = "none"
<1>0. Workers \subseteq Threads /\ Client \notin Workers
  BY ThreadAssumption DEF Threads
<1> USE DEF others
<1>1. ASSUME NEW v \in Workers, Worker(v)
      PROVE  m_state = "paused" /\ pc' = pc
  <2>1. m_state = "paused"
    BY <1>1 DEF Worker, StartFails, Admit, Take, LookUp, Started,
       NotifyStarted, MakeReader, InFetch, FetchThrows, Consume, NotInStore,
       AwaitSlice, PauseWorker, NotifyPaused, StayPaused, FallAsleep, Unpause,
       KeepsRunning, GoesOn, EndWorker, SliceFails, Store, NotifyStored
  <2>2. pc[v] = "none" BY <2>1 DEF AccountInv
  <2> QED BY <1>1, <2>1, <2>2 DEF Worker, StartFails, Admit, Take, LookUp,
      Started, NotifyStarted, MakeReader, InFetch, FetchThrows, Consume,
      NotInStore, AwaitSlice, PauseWorker, NotifyPaused, StayPaused,
      TestInVain, CanTest, FallAsleep, Unpause, KeepsRunning, GoesOn,
      EndWorker, SliceFails, Store, NotifyStored
<1>2. ASSUME InCall \/ Call \/ CancelSlicing
      PROVE  m_state = "paused" /\ \A w \in Workers : pc'[w] = pc[w]
  <2>1. ~ResumeRuns /\ ~Pause /\ ~PauseStores /\ ~Destroy /\ ~Cancel
    BY <1>2 DEF ResumeRuns, Pause, PauseStores, Destroy, Cancel, AccountInv
  <2>2. m_state = "paused" /\ (pc' = pc \/ \E step \in ClientSteps : Goto(Client, step))
    <3>1. CASE InFetch(Client)
      BY <3>1 DEF InFetch, FetchThrows, FetchFailed, Consume, Fetched,
         NotInStore, AwaitSlice, ClientSteps
    <3>2. CASE ResumeStarted BY <3>2 DEF ResumeStarted, ClientSteps
    <3>3. CASE Resume \/ ResumeGoesOn \/ ResumeReturns \/ PauseReturns
      BY <3>3 DEF Resume, ResumeGoesOn, ResumeReturns, PauseReturns, ClientSteps
    <3>4. CASE ClientTestsInVain \/ FallAsleep(Client) \/ CancelNotifies
      BY <3>4 DEF ClientTestsInVain, FallAsleep, CancelNotifies
    <3>5. CASE DestroyNotifies \/ Join
      BY <3>5 DEF DestroyNotifies, Join, ClientSteps
    <3>6. CASE \E r \in Offers : RequestSlice(r) \/ RequestAgain(r)
      BY <3>6 DEF RequestSlice, RequestAgain
    <3>7. CASE \E s \in Slices : Fetch(s) BY <3>7 DEF Fetch, ClientSteps
    <3> QED BY <1>2, <2>1, <3>1, <3>2, <3>3, <3>4, <3>5, <3>6, <3>7
            DEF InCall, Call, CancelSlicing
  <2> QED BY <1>0, <2>2 DEF Goto, TypeOK
<1> QED BY <1>1, <1>2 DEF Next, AccountInv

\* Nor does the client ever enter pause_slicing().
LEMMA NeverPauses ==
  ASSUME TypeOK, ~MayPause, AccountInv, Next
  PROVE  pc'[Client] # "pause"
<1>0. Client \in Threads /\ Client \notin Workers /\ pc[Client] # "pause"
  BY ThreadAssumption DEF Threads, AccountInv
<1> USE DEF others
<1>1. ASSUME NEW t \in Threads, NEW step, Goto(t, step), step # "pause"
      PROVE  pc'[Client] # "pause"
  BY <1>0, <1>1 DEF Goto, TypeOK
<1>2. CASE pc' = pc BY <1>0, <1>2
<1>3. ASSUME NEW w \in Workers, Worker(w) PROVE pc'[Client] # "pause"
  <2>1. CASE GoesUncounted(w) BY <1>0, <2>1 DEF GoesUncounted
  <2>2. CASE Started(w) \/ PauseWorker(w) \/ Unpause(w)
    BY <1>1, <2>2 DEF Started, PauseWorker, Unpause, Threads
  <2> QED BY <1>2, <1>3, <2>1, <2>2, WorkerGoes
<1>4. ASSUME InFetch(Client) PROVE pc'[Client] # "pause"
  BY <1>0, <1>1, <1>2, <1>4
  DEF InFetch, FetchThrows, FetchFailed, Consume, Fetched, NotInStore, AwaitSlice
<1>5. CASE InCall
  <2>1. CASE ResumeRuns BY <1>0, <2>1 DEF ResumeRuns
  <2>2. CASE ResumeGoesOn
    <3>1. PICK step \in {"idle", "await unpaused"} : Goto(Client, step)
      BY <2>2 DEF ResumeGoesOn
    <3> QED BY <1>0, <1>1, <3>1
  <2>3. CASE ResumeStarted \/ ResumeReturns \/ PauseStores \/ PauseReturns
    BY <1>0, <1>1, <2>3 DEF ResumeStarted, ResumeReturns, PauseStores, PauseReturns
  <2>4. CASE ClientTestsInVain \/ FallAsleep(Client)
    BY <1>2, <2>4 DEF ClientTestsInVain, FallAsleep
  <2>5. CASE DestroyNotifies \/ Join
    BY <1>0, <1>1, <2>5 DEF DestroyNotifies, Join
  <2> QED BY <1>4, <1>5, <2>1, <2>2, <2>3, <2>4, <2>5 DEF InCall
<1>6. CASE Call
  <2>1. ~Pause BY DEF Pause
  <2>2. CASE \E r \in Offers : RequestSlice(r) \/ RequestAgain(r)
    BY <1>2, <2>2 DEF RequestSlice, RequestAgain
  <2>3. CASE (\E s \in Slices : Fetch(s)) \/ Resume \/ Destroy
    BY <1>0, <1>1, <2>3 DEF Fetch, Resume, Destroy
  <2> QED BY <1>6, <2>1, <2>2, <2>3 DEF Call
<1>7. CASE CancelSlicing BY <1>2, <1>7 DEF CancelSlicing, Cancel, CancelNotifies
<1> QED BY <1>3, <1>5, <1>6, <1>7 DEF Next

\* The account of each slice, step by step.
LEMMA AccountKept ==
  ASSUME SlicerAssumption, ~MayPause, TypeOK, AccountInv, Next
  PROVE  AccountInv'
<1>1. m_state' = "paused" => m_state = "paused" /\ \A w \in Workers : pc'[w] = "none"
  BY PausedOnlyAtFirst
<1>0. pc'[Client] # "pause" BY NeverPauses
<1>2. CASE UNCHANGED account
  BY <1>0, <1>1, <1>2 DEF account, AccountInv, NoRequestLost
<1>3. ASSUME NEW r \in Offers, RequestSlice(r) \/ RequestAgain(r)
      PROVE  AccountInv'
  <2> DEFINE t == r.slice
  <2>1. t \in Slices BY DEF SlicerAssumption
  <2>2. /\ m_slice_item_request_counts' = [m_slice_item_request_counts EXCEPT ![t] = @ + 1]
        /\ requests' = [requests EXCEPT ![t] = @ + 1]
        /\ m_stored_slices' = m_stored_slices /\ fetches' = fetches
        /\ m_state = "paused"
    BY <1>3 DEF RequestSlice, RequestAgain, CountRequest, MayRequest, store
  <2>3. \A s \in Slices : m_stored_slices'[s] = 0 BY <2>2 DEF AccountInv
  <2>4. NoRequestLost'
    <3> SUFFICES ASSUME NEW s \in Slices
                 PROVE  requests'[s] <= m_slice_item_request_counts'[s]
                                          + m_stored_slices'[s] + fetches'[s]
      BY DEF NoRequestLost
    <3>1. requests[s] <= m_slice_item_request_counts[s] + m_stored_slices[s] + fetches[s]
      BY DEF AccountInv, NoRequestLost
    <3>2. /\ requests[s] \in Nat /\ m_slice_item_request_counts[s] \in Nat
          /\ m_stored_slices[s] \in Nat /\ fetches[s] \in Nat
      BY DEF TypeOK
    <3>3. IF s = t
          THEN /\ requests'[s] = requests[s] + 1
               /\ m_slice_item_request_counts'[s] = m_slice_item_request_counts[s] + 1
          ELSE /\ requests'[s] = requests[s]
               /\ m_slice_item_request_counts'[s] = m_slice_item_request_counts[s]
      BY <2>1, <2>2 DEF TypeOK
    <3> QED BY <2>2, <3>1, <3>2, <3>3
  <2> QED BY <1>0, <1>1, <2>3, <2>4 DEF AccountInv
<1>4. ASSUME NEW w \in Workers, Store(w) PROVE AccountInv'
  <2>1. PICK r \in slices_requested[w] :
          /\ m_slice_item_request_counts[r.slice] > 0
          /\ m_stored_slices' = [m_stored_slices EXCEPT ![r.slice] =
                                    Stored(@, m_slice_item_request_counts[r.slice])]
          /\ m_slice_item_request_counts' =
                 [m_slice_item_request_counts EXCEPT ![r.slice] = 0]
    BY <1>4 DEF Store
  <2> DEFINE t == r.slice
  <2>2. t \in Slices
    <3>1. r \in Offers BY <2>1 DEF TypeOK
    <3> QED BY <3>1 DEF SlicerAssumption
  <2>3. requests' = requests /\ fetches' = fetches /\ m_state # "paused"
        /\ m_state' = m_state
    BY <1>4 DEF Store, AccountInv
  <2>4. m_stored_slices[t] = 0 BY <2>1, <2>2 DEF AccountInv
  <2>5. /\ m_stored_slices'[t] = m_slice_item_request_counts[t]
        /\ m_slice_item_request_counts'[t] = 0
        /\ \A s \in Slices : s # t =>
              /\ m_stored_slices'[s] = m_stored_slices[s]
              /\ m_slice_item_request_counts'[s] = m_slice_item_request_counts[s]
    BY <2>1, <2>2, <2>4 DEF TypeOK, Stored
  <2>6. ASSUME NEW s \in Slices
        PROVE  /\ m_slice_item_request_counts'[s] > 0 => m_stored_slices'[s] = 0
               /\ m_slice_item_request_counts'[s] + m_stored_slices'[s]
                    = m_slice_item_request_counts[s] + m_stored_slices[s]
    <3>1. m_slice_item_request_counts[s] \in Nat /\ m_stored_slices[s] \in Nat
      BY DEF TypeOK
    <3>2. CASE s = t BY <2>4, <2>5, <3>1, <3>2
    <3>3. CASE s # t BY <2>5, <3>1, <3>3 DEF AccountInv
    <3> QED BY <3>2, <3>3
  <2> QED BY <1>0, <2>3, <2>6 DEF AccountInv, NoRequestLost
<1>5. ASSUME NEW t \in Threads, Consume(t) PROVE AccountInv'
  <2> DEFINE u == Wanted(t)
  <2>1. /\ m_stored_slices[u] > 0
        /\ m_stored_slices' = [m_stored_slices EXCEPT ![u] = LeftInStore(@)]
        /\ fetches' = [fetches EXCEPT ![u] = @ + 1]
        /\ m_slice_item_request_counts' = m_slice_item_request_counts
        /\ requests' = requests /\ m_state # "paused" /\ m_state' = m_state
    BY <1>5 DEF Consume, requested
  <2> HIDE DEF u
  <2>2. ASSUME NEW s \in Slices
        PROVE  /\ m_slice_item_request_counts'[s] > 0 => m_stored_slices'[s] = 0
               /\ requests'[s] <= m_slice_item_request_counts'[s]
                                    + m_stored_slices'[s] + fetches'[s]
    <3>1. /\ m_slice_item_request_counts[s] \in Nat /\ m_stored_slices[s] \in Nat
          /\ requests[s] \in Nat /\ fetches[s] \in Nat
      BY DEF TypeOK
    <3>2. /\ requests[s] <= m_slice_item_request_counts[s] + m_stored_slices[s] + fetches[s]
          /\ m_slice_item_request_counts[s] > 0 => m_stored_slices[s] = 0
      BY DEF AccountInv, NoRequestLost
    <3>3. CASE s = u
      <4>1. /\ fetches'[s] = fetches[s] + 1
            /\ m_stored_slices'[s] = LeftInStore(m_stored_slices[s])
        BY <2>1, <3>3 DEF TypeOK
      <4>2. ~(m_slice_item_request_counts[s] > 0) BY <2>1, <3>1, <3>2, <3>3
      <4>3. m_stored_slices'[s] \in Nat /\ m_stored_slices'[s] >= m_stored_slices[s] - 1
        BY <3>1, <4>1 DEF LeftInStore
      <4>4. /\ m_slice_item_request_counts'[s] = m_slice_item_request_counts[s]
            /\ requests'[s] = requests[s]
        BY <2>1
      <4> QED BY <3>1, <3>2, <4>1, <4>2, <4>3, <4>4
    <3>4. CASE s # u
      <4>1. /\ fetches'[s] = fetches[s] /\ m_stored_slices'[s] = m_stored_slices[s]
        BY <2>1, <3>4 DEF TypeOK
      <4> QED BY <2>1, <3>2, <4>1
    <3> QED BY <3>3, <3>4
  <2> QED BY <1>0, <2>1, <2>2 DEF AccountInv, NoRequestLost
<1> QED BY <1>2, <1>3, <1>4, <1>5, AccountMoves

\* Where slicing is not paused again, every request of a slice is still
\* counted, or the slice is in the store often enough, or was fetched for it
\* (slicer.cpp:67-88, 137-173, 430-441).
THEOREM RequestsKept ==
  ASSUME ~MayPause
  PROVE  Spec => []NoRequestLost
<1>1. Init => AccountInv
  <2> SUFFICES ASSUME Init PROVE AccountInv OBVIOUS
  <2>1. pc[Client] = "idle" /\ \A w \in Workers : pc[w] = "none"
    BY ThreadAssumption DEF Init, Threads
  <2> QED BY <2>1 DEF Init, AccountInv, NoRequestLost
<1>2. IInv /\ AccountInv /\ [Next]_vars => AccountInv'
  <2>1. ASSUME IInv, AccountInv, Next PROVE AccountInv'
    BY <2>1, SlicerAssumption, AccountKept DEF IInv
  <2>2. ASSUME AccountInv, UNCHANGED vars PROVE AccountInv'
    BY <2>2 DEF vars, others, requested, store, AccountInv, NoRequestLost
  <2> QED BY <2>1, <2>2
<1>3. AccountInv => NoRequestLost BY DEF AccountInv
<1> QED BY <1>1, <1>2, <1>3, Invariance, PTL DEF Spec
=============================================================================
