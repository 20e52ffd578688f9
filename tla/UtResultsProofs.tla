-------------------------- MODULE UtResultsProofs --------------------------
(***************************************************************************)
(* The results of threads: whoever asks for one gets the right one, and no *)
(* thread is left waiting, proved for any number of threads and values.    *)
(***************************************************************************)
EXTENDS UtResults, SequenceTheorems, FiniteSetTheorems, WellFoundedInduction, TLAPS

-----------------------------------------------------------------------------
(***************************************************************************)
(* Queues without repetition.                                              *)
(***************************************************************************)

\* Appending an element that is not in a queue keeps its elements distinct.
LEMMA AppendDistinct ==
  ASSUME NEW S, NEW q \in Seq(S), NEW e \in S
  PROVE  /\ Append(q, e) \in Seq(S)
         /\ Range(Append(q, e)) = Range(q) \cup {e}
         /\ IsInjective(q) /\ e \notin Range(q) => IsInjective(Append(q, e))
<1>1. /\ Append(q, e) \in Seq(S)
      /\ Len(q) \in Nat
      /\ Len(Append(q, e)) = Len(q) + 1
      /\ \A i \in 1 .. Len(q) : Append(q, e)[i] = q[i]
      /\ Append(q, e)[Len(q) + 1] = e
  BY AppendProperties, LenProperties
<1>2. DOMAIN q = 1 .. Len(q) /\ DOMAIN Append(q, e) = 1 .. (Len(q) + 1)
  BY <1>1, LenProperties
<1>3. Range(Append(q, e)) = Range(q) \cup {e}
  BY <1>1, <1>2 DEF Range
<1>4. ASSUME IsInjective(q), e \notin Range(q)
      PROVE  IsInjective(Append(q, e))
  BY <1>1, <1>2, <1>4 DEF Range, IsInjective
<1>. QED BY <1>1, <1>3, <1>4

\* Removing the head of a queue of distinct elements removes that element.
LEMMA TailDistinct ==
  ASSUME NEW S, NEW q \in Seq(S), q # <<>>
  PROVE  /\ Head(q) \in S
         /\ Head(q) \in Range(q)
         /\ Tail(q) \in Seq(S)
         /\ Range(q) = Range(Tail(q)) \cup {Head(q)}
         /\ IsInjective(q) => IsInjective(Tail(q)) /\ Head(q) \notin Range(Tail(q))
<1>1. /\ Head(q) \in S
      /\ Head(q) = q[1]
      /\ Tail(q) \in Seq(S)
      /\ Len(Tail(q)) = Len(q) - 1
      /\ \A i \in 1 .. Len(Tail(q)) : Tail(q)[i] = q[i + 1]
  BY HeadTailProperties
<1>2. Len(q) \in Nat /\ Len(q) > 0 /\ DOMAIN q = 1 .. Len(q)
  BY EmptySeq, LenProperties
<1>3. DOMAIN Tail(q) = 1 .. (Len(q) - 1)
  BY <1>1, LenProperties
<1>4. Head(q) \in Range(q)
  BY <1>1, <1>2 DEF Range
<1>5. Range(q) = Range(Tail(q)) \cup {Head(q)}
  <2>1. ASSUME NEW i \in 1 .. Len(q)
        PROVE  q[i] \in Range(Tail(q)) \cup {Head(q)}
    <3>1. CASE i = 1
      BY <3>1, <1>1
    <3>2. CASE i # 1
      <4>1. i - 1 \in 1 .. (Len(q) - 1) /\ Tail(q)[i - 1] = q[i]
        BY <3>2, <1>1, <1>2
      <4>. QED BY <4>1, <1>3 DEF Range
    <3>. QED BY <3>1, <3>2
  <2>2. ASSUME NEW i \in 1 .. (Len(q) - 1)
        PROVE  Tail(q)[i] \in Range(q)
    <3>1. i + 1 \in 1 .. Len(q) /\ Tail(q)[i] = q[i + 1]
      BY <1>1, <1>2
    <3>. QED BY <3>1, <1>2 DEF Range
  <2>. QED BY <2>1, <2>2, <1>2, <1>3, <1>4 DEF Range
<1>6. ASSUME IsInjective(q)
      PROVE  IsInjective(Tail(q)) /\ Head(q) \notin Range(Tail(q))
  BY <1>1, <1>2, <1>3, <1>6 DEF IsInjective, Range
<1>. QED BY <1>1, <1>4, <1>5, <1>6

\* Two queues with distinct elements, and none in common, one after the other.
LEMMA ConcatDistinct ==
  ASSUME NEW S, NEW p \in Seq(S), NEW q \in Seq(S),
         IsInjective(p), IsInjective(q), Range(p) \cap Range(q) = {}
  PROVE  /\ p \o q \in Seq(S)
         /\ Range(p \o q) = Range(p) \cup Range(q)
         /\ IsInjective(p \o q)
<1>1. /\ p \o q \in Seq(S) /\ Len(p) \in Nat /\ Len(q) \in Nat
      /\ Len(p \o q) = Len(p) + Len(q)
      /\ \A i \in 1 .. Len(p) + Len(q) : (p \o q)[i] = IF i <= Len(p) THEN p[i] ELSE q[i - Len(p)]
  BY ConcatProperties, LenProperties
<1>2. /\ DOMAIN p = 1 .. Len(p) /\ DOMAIN q = 1 .. Len(q)
      /\ DOMAIN (p \o q) = 1 .. Len(p) + Len(q)
  BY <1>1, LenProperties
<1>3. Range(p \o q) = Range(p) \cup Range(q)
  BY RangeConcatenation
<1>4. ASSUME NEW i \in 1 .. Len(p) + Len(q), NEW j \in 1 .. Len(p) + Len(q), (p \o q)[i] = (p \o q)[j]
      PROVE  i = j
  <2>1. \A k \in 1 .. Len(p) + Len(q) : k > Len(p) => k - Len(p) \in 1 .. Len(q)
    BY <1>1
  <2>2. \A k \in 1 .. Len(p) + Len(q) : k <= Len(p) => k \in 1 .. Len(p)
    BY <1>1
  <2>3. CASE i <= Len(p) /\ j <= Len(p)
    BY <1>1, <1>2, <1>4, <2>2, <2>3 DEF IsInjective
  <2>4. CASE i > Len(p) /\ j > Len(p)
    <3>1. q[i - Len(p)] = q[j - Len(p)]
      BY <1>1, <1>4, <2>4
    <3>2. i - Len(p) \in DOMAIN q /\ j - Len(p) \in DOMAIN q
      BY <1>2, <2>1, <2>4
    <3>3. i - Len(p) = j - Len(p)
      BY <3>1, <3>2 DEF IsInjective
    <3>. QED BY <1>1, <3>3
  <2>5. CASE i <= Len(p) /\ j > Len(p)
    <3>1. p[i] = q[j - Len(p)]
      BY <1>1, <1>4, <2>5
    <3>2. p[i] \in Range(p) /\ q[j - Len(p)] \in Range(q)
      BY <1>2, <2>1, <2>2, <2>5 DEF Range
    <3>. QED BY <3>1, <3>2
  <2>6. CASE i > Len(p) /\ j <= Len(p)
    <3>1. q[i - Len(p)] = p[j]
      BY <1>1, <1>4, <2>6
    <3>2. q[i - Len(p)] \in Range(q) /\ p[j] \in Range(p)
      BY <1>2, <2>1, <2>2, <2>6 DEF Range
    <3>. QED BY <3>1, <3>2
  <2>. QED BY <1>1, <2>3, <2>4, <2>5, <2>6
<1>. QED BY <1>1, <1>2, <1>3, <1>4 DEF IsInjective

\* A queue without repetition has as many places as elements.
LEMMA DistinctCount ==
  ASSUME NEW S, NEW q \in Seq(S), IsInjective(q)
  PROVE  Cardinality(Range(q)) = Len(q)
<1>1. Len(q) \in Nat /\ DOMAIN q = 1 .. Len(q) /\ q \in [1 .. Len(q) -> Range(q)]
  BY LenProperties DEF Range
<1>2. q \in Injection(1 .. Len(q), Range(q)) /\ q \in Surjection(1 .. Len(q), Range(q))
  BY <1>1 DEF Injection, Surjection, Range
<1>3. IsFiniteSet(1 .. Len(q)) /\ Cardinality(1 .. Len(q)) = Len(q)
  BY <1>1, FS_Interval
<1>. QED BY <1>2, <1>3, FS_Surjection

\* The queue that is left, and the thread that runs, when a queue is scheduled.
LEMMA ScheduleDistinct ==
  ASSUME NEW q \in Seq(Threads), IsInjective(q)
  PROVE  /\ Rest(q) \in Seq(Threads) /\ IsInjective(Rest(q))
         /\ q = <<>> => ExtractNextReadyThread(q) = Main /\ Range(Rest(q)) = {} /\ Range(q) = {}
         /\ q # <<>> => /\ ExtractNextReadyThread(q) \in Threads
                        /\ Range(q) = Range(Rest(q)) \cup {ExtractNextReadyThread(q)}
                        /\ ExtractNextReadyThread(q) \notin Range(Rest(q))
<1>1. CASE q = <<>>
  BY <1>1 DEF ExtractNextReadyThread, Rest, Range
<1>2. CASE q # <<>>
  BY <1>2, TailDistinct DEF ExtractNextReadyThread, Rest
<1>. QED BY <1>1, <1>2

\* Among finitely many threads, not each one waits for one with a greater number.
LEMMA NoAscent ==
  ASSUME NEW L \in SUBSET Threads, NEW w, \A t \in L : w[t] \in L /\ t < w[t]
  PROVE  L = {}
<1>. DEFINE Above(t) == {u \in L : u > t}
            Aboves == {Above(t) : t \in L}
<1>. SUFFICES ASSUME L # {} PROVE FALSE
  OBVIOUS
<1>1. IsFiniteSet(L) /\ L \subseteq Nat
  BY UtResultsAssumption, FS_Subset
<1>2. Aboves # {} /\ Aboves \subseteq FiniteSubsetsOf(L)
  <2>1. \A t \in L : Above(t) \in SUBSET L /\ IsFiniteSet(Above(t))
    BY <1>1, FS_Subset
  <2>. QED BY <2>1 DEF FiniteSubsetsOf
<1>3. PICK A \in Aboves : \A B \in Aboves : <<B, A>> \notin StrictSubsetOrdering(L)
  <2>. HIDE DEF Aboves
  <2>. QED BY <1>2, WFMin, FS_StrictSubsetOrderingWellFounded
<1>4. PICK t \in L : A = Above(t)
  BY <1>3
<1>5. PICK u \in L : u = w[t] /\ u > t
  BY <1>1
<1>6. Above(u) \in Aboves /\ u \in Above(t) /\ u \notin Above(u)
  BY <1>1, <1>5
<1>7. Above(u) \subseteq Above(t)
  <2>. SUFFICES ASSUME NEW v \in L, v > u PROVE v > t
    OBVIOUS
  <2>. QED BY <1>1, <1>5
<1>8. Above(u) \in SUBSET L /\ Above(t) \in SUBSET L
  OBVIOUS
<1>. HIDE DEF Above, Aboves
<1>9. <<Above(u), A>> \in StrictSubsetOrdering(L)
  BY <1>4, <1>6, <1>7, <1>8 DEF StrictSubsetOrdering
<1>. QED BY <1>3, <1>6, <1>9

-----------------------------------------------------------------------------
(***************************************************************************)
(* The inductive invariant.                                                *)
(***************************************************************************)

Live == {t \in Threads : mem[t] = "live"}

ResTypes ==
  /\ ready_queue \in Seq(Threads)
  /\ running_thread \in Threads \cup {Main, NULL}
  /\ number_of_threads \in Nat
  /\ main \in {"creates", "runs", "takes"}
  /\ mem \in [Threads -> {"none", "live", "kept", "freed"}]
  /\ hasResult \in [Threads -> BOOLEAN]
  /\ res \in [Threads -> Values \cup {NULL}]
  /\ res_waiters \in [Threads -> Seq(Threads)]
  /\ waitsFor \in [Threads -> Threads \cup {NULL}]
  /\ block \in [Threads -> Values \cup {NULL}]
  /\ returned \in [Threads -> Values \cup {NULL}]

\* A live thread is ready, runs, or is linked once in the waiters of the one live
\* thread that it waits for.
Linked ==
  /\ IsInjective(ready_queue) /\ Range(ready_queue) \subseteq Live
  /\ running_thread \notin Range(ready_queue)
  /\ running_thread \in Threads => running_thread \in Live
  /\ \A t \in Live :
       \/ t \in Range(ready_queue) \/ t = running_thread
       \/ waitsFor[t] # NULL /\ t \in Range(res_waiters[waitsFor[t]])

WaitersLinked ==
  \A u \in Threads :
    /\ IsInjective(res_waiters[u])
    /\ \A t \in Range(res_waiters[u]) :
         /\ waitsFor[t] = u /\ t < u /\ t \in Live /\ u \in Live
         /\ t \notin Range(ready_queue) /\ t # running_thread

Counted == number_of_threads = Cardinality(Live)

\* Threads run inside UtRun only, which goes on when no thread is left.
MainLast ==
  /\ main # "runs" => running_thread = NULL
  /\ running_thread = Main => Live = {}

\* A thread that returned has left its result, unless it was taken.
ResultLeft ==
  \A u \in Threads :
    /\ hasResult[u] => mem[u] \in {"kept", "freed"}
    /\ mem[u] = "kept" => hasResult[u] /\ res[u] = returned[u]

\* A thread that waits does so in the queue, or has the result in its wait block.
Answered ==
  \A t \in Threads : waitsFor[t] # NULL =>
    /\ t \in Live
    /\ \/ t \in Range(res_waiters[waitsFor[t]])
       \/ mem[waitsFor[t]] = "freed" /\ block[t] = returned[waitsFor[t]]

\* A result that was given is that of a thread that is gone, for ever.
Given == \A g \in got : g.of \in Threads /\ mem[g.of] = "freed" /\ g.value = returned[g.of]

FreedTaken ==
  \A u \in Threads : mem[u] = "freed" =>
    \/ \E g \in got : g.of = u
    \/ \E t \in Threads : waitsFor[t] = u /\ block[t] = returned[u]

ResInv ==
  /\ ResTypes /\ Linked /\ WaitersLinked /\ Counted /\ MainLast
  /\ ResultLeft /\ Answered /\ Given /\ FreedTaken

LEMMA LiveFinite ==
  ASSUME NEW L \in SUBSET Threads
  PROVE  /\ IsFiniteSet(L) /\ Cardinality(L) \in Nat
         /\ \A t : t \notin L => Cardinality(L \cup {t}) = Cardinality(L) + 1
         /\ \A t \in L : Cardinality(L \ {t}) = Cardinality(L) - 1 /\ Cardinality(L) - 1 \in Nat
<1>1. IsFiniteSet(L)
  BY UtResultsAssumption, FS_Subset
<1>2. Cardinality(L) \in Nat
  BY <1>1, FS_CardinalityType
<1>3. \A t : t \notin L => Cardinality(L \cup {t}) = Cardinality(L) + 1
  BY <1>1, FS_AddElement
<1>4. ASSUME NEW t \in L
      PROVE  Cardinality(L \ {t}) = Cardinality(L) - 1 /\ Cardinality(L) - 1 \in Nat
  <2>1. IsFiniteSet(L \ {t}) /\ Cardinality(L \ {t}) = Cardinality(L) - 1
    BY <1>1, FS_RemoveElement
  <2>2. Cardinality(L \ {t}) \in Nat
    BY <2>1, FS_CardinalityType
  <2>. QED BY <2>1, <2>2
<1>. QED BY <1>1, <1>2, <1>3, <1>4

LEMMA ResInvInit == Init => ResInv
<1>. SUFFICES ASSUME Init PROVE ResInv
  OBVIOUS
<1>. USE UtResultsAssumption DEF Init
<1>1. ResTypes
  BY EmptySeq DEF ResTypes
<1>2. Live = {}
  BY DEF Live
<1>3. Range(<<>>) = {} /\ IsInjective(<<>>)
  BY DEF Range, IsInjective
<1>4. Linked /\ WaitersLinked /\ MainLast
  <2>1. Range(ready_queue) = {} /\ IsInjective(ready_queue)
    BY <1>3
  <2>2. \A u \in Threads : Range(res_waiters[u]) = {} /\ IsInjective(res_waiters[u])
    BY <1>3
  <2>. QED BY <1>2, <2>1, <2>2 DEF Linked, WaitersLinked, MainLast
<1>5. Counted
  BY <1>2, FS_EmptySet DEF Counted
<1>6. ResultLeft /\ Answered /\ Given /\ FreedTaken
  BY DEF ResultLeft, Answered, Given, FreedTaken
<1>. QED BY <1>1, <1>4, <1>5, <1>6 DEF ResInv

-----------------------------------------------------------------------------
(***************************************************************************)
(* The steps.                                                              *)
(***************************************************************************)

LEMMA UtCreateKeeps ==
  ASSUME ResInv, NEW t \in Threads, UtCreate(t)
  PROVE  ResInv'
<1>. USE UtResultsAssumption
<1>0. /\ ResTypes /\ Linked /\ WaitersLinked /\ Counted /\ MainLast
      /\ ResultLeft /\ Answered /\ Given /\ FreedTaken
  BY DEF ResInv
<1>1. /\ mem[t] = "none" /\ mem' = [mem EXCEPT ![t] = "live"]
      /\ number_of_threads' = number_of_threads + 1
      /\ ready_queue' = Append(ready_queue, t)
      /\ UNCHANGED <<running_thread, main, hasResult, res, res_waiters, waitsFor, block, returned, got>>
  BY DEF UtCreate, fields
<1>2. t \notin Live /\ Live' = Live \cup {t} /\ Live \in SUBSET Threads
  BY <1>0, <1>1 DEF ResTypes, Live
<1>3. /\ ready_queue' \in Seq(Threads) /\ Range(ready_queue') = Range(ready_queue) \cup {t}
      /\ IsInjective(ready_queue')
  BY <1>0, <1>1, <1>2, AppendDistinct DEF ResTypes, Linked
<1>4. ResTypes'
  BY <1>0, <1>1, <1>3 DEF ResTypes
<1>5. Linked'
  BY <1>0, <1>1, <1>2, <1>3 DEF Linked
<1>6. WaitersLinked'
  BY <1>0, <1>1, <1>2, <1>3 DEF WaitersLinked
<1>7. Counted'
  BY <1>0, <1>1, <1>2, LiveFinite DEF Counted
<1>8. MainLast'
  BY <1>0, <1>1 DEF MainLast, UtCreate, Runs
<1>9. \A u \in Threads : mem'[u] = IF u = t THEN "live" ELSE mem[u]
  BY <1>0, <1>1 DEF ResTypes
<1>10. ResultLeft'
  <2>. SUFFICES ASSUME NEW u \in Threads
                PROVE  /\ hasResult[u] => mem'[u] \in {"kept", "freed"}
                       /\ mem'[u] = "kept" => hasResult[u] /\ res[u] = returned[u]
    BY <1>1 DEF ResultLeft
  <2>1. CASE u = t
    BY <1>0, <1>1, <1>9, <2>1 DEF ResultLeft
  <2>2. CASE u # t
    BY <1>0, <1>9, <2>2 DEF ResultLeft
  <2>. QED BY <2>1, <2>2
<1>11. Answered'
  BY <1>0, <1>1, <1>2, <1>9 DEF Answered, ResTypes
<1>12. Given' /\ FreedTaken'
  BY <1>0, <1>1, <1>9 DEF Given, FreedTaken
<1>. QED BY <1>4, <1>5, <1>6, <1>7, <1>8, <1>10, <1>11, <1>12 DEF ResInv

\* The processor goes to another thread, or to the main program when none is ready;
\* then no thread is left, since each one left would wait for a greater one.
LEMMA Switches ==
  ASSUME NEW q \in Seq(Threads), IsInjective(q), Range(q) \subseteq Live', Schedule(q),
         ResTypes', WaitersLinked', main' = "runs",
         \A t \in Live' : \/ t \in Range(q)
                          \/ waitsFor'[t] # NULL /\ t \in Range(res_waiters'[waitsFor'[t]])
  PROVE  Linked' /\ MainLast'
<1>. USE UtResultsAssumption
<1>1. Live' \in SUBSET Threads
  BY DEF Live
<1>2. /\ ready_queue' = Rest(q) /\ running_thread' = ExtractNextReadyThread(q)
      /\ ready_queue' \in Seq(Threads) /\ IsInjective(ready_queue')
      /\ q = <<>> => running_thread' = Main /\ Range(ready_queue') = {} /\ Range(q) = {}
      /\ q # <<>> => /\ running_thread' \in Threads
                     /\ Range(q) = Range(ready_queue') \cup {running_thread'}
                     /\ running_thread' \notin Range(ready_queue')
  BY ScheduleDistinct DEF Schedule
<1>3. Linked'
  BY <1>1, <1>2 DEF Linked
<1>4. MainLast'
  <2>. SUFFICES ASSUME running_thread' = Main PROVE Live' = {}
    BY DEF MainLast
  <2>1. Range(q) = {}
    BY <1>2
  <2>2. \A t \in Live' : waitsFor'[t] \in Live' /\ t < waitsFor'[t]
    BY <1>1, <2>1 DEF WaitersLinked, ResTypes
  <2>. QED BY <1>1, <2>2, NoAscent
<1>. QED BY <1>3, <1>4

\* The types of what is scheduled.
LEMMA SwitchTypes ==
  ASSUME NEW q \in Seq(Threads), IsInjective(q), Schedule(q)
  PROVE  /\ ready_queue' \in Seq(Threads) /\ running_thread' \in Threads \cup {Main, NULL}
         /\ Range(ready_queue') \subseteq Range(q)
         /\ running_thread' \in Range(q) \/ running_thread' = Main
BY ScheduleDistinct DEF Schedule

LEMMA UtRunKeeps ==
  ASSUME ResInv, UtRun
  PROVE  ResInv'
<1>. USE UtResultsAssumption
<1>0. /\ ResTypes /\ Linked /\ WaitersLinked /\ Counted /\ MainLast
      /\ ResultLeft /\ Answered /\ Given /\ FreedTaken
  BY DEF ResInv
<1>1. /\ main = "creates" /\ ready_queue # <<>> /\ main' = "runs" /\ Schedule(ready_queue)
      /\ UNCHANGED <<number_of_threads, mem, hasResult, res, res_waiters, waitsFor, block, returned, got>>
  BY DEF UtRun, fields
<1>2. Live' = Live /\ running_thread = NULL
  BY <1>0, <1>1 DEF Live, MainLast
<1>3. ready_queue \in Seq(Threads) /\ IsInjective(ready_queue) /\ Range(ready_queue) \subseteq Live
  BY <1>0 DEF ResTypes, Linked
<1>4. ResTypes'
  BY <1>0, <1>1, <1>3, SwitchTypes DEF ResTypes
<1>5. WaitersLinked'
  <2>1. /\ Range(ready_queue') \subseteq Range(ready_queue)
        /\ running_thread' \in Range(ready_queue) \/ running_thread' = Main
    BY <1>1, <1>3, SwitchTypes
  <2>2. \A u \in Threads : \A w \in Range(res_waiters[u]) : w # Main /\ w \notin Range(ready_queue)
    BY <1>0, <1>1, <1>2, <1>3 DEF WaitersLinked, Live
  <2>. QED BY <1>0, <1>1, <1>2, <2>1, <2>2 DEF WaitersLinked
<1>6. \A t \in Live' : \/ t \in Range(ready_queue)
                       \/ waitsFor'[t] # NULL /\ t \in Range(res_waiters'[waitsFor'[t]])
  BY <1>0, <1>1, <1>2 DEF Linked, Live
<1>7. Linked' /\ MainLast'
  BY <1>1, <1>2, <1>3, <1>4, <1>5, <1>6, Switches
<1>8. Counted' /\ ResultLeft' /\ Answered' /\ Given' /\ FreedTaken'
  BY <1>0, <1>1, <1>2 DEF Counted, ResultLeft, Answered, Given, FreedTaken
<1>. QED BY <1>4, <1>5, <1>7, <1>8 DEF ResInv

LEMMA UtRunReturnsKeeps ==
  ASSUME ResInv, UtRunReturns
  PROVE  ResInv'
<1>. USE UtResultsAssumption
<1>0. /\ ResTypes /\ Linked /\ WaitersLinked /\ Counted /\ MainLast
      /\ ResultLeft /\ Answered /\ Given /\ FreedTaken
  BY DEF ResInv
<1>1. /\ running_thread = Main /\ main' = "takes" /\ running_thread' = NULL
      /\ UNCHANGED <<ready_queue, number_of_threads, mem, hasResult, res, res_waiters,
                     waitsFor, block, returned, got>>
  BY DEF UtRunReturns, fields
<1>2. Live' = {} /\ Live = {}
  BY <1>0, <1>1 DEF Live, MainLast
<1>3. ResTypes' /\ MainLast'
  BY <1>0, <1>1 DEF ResTypes, MainLast
<1>4. Linked' /\ WaitersLinked'
  BY <1>0, <1>1, <1>2 DEF Linked, WaitersLinked
<1>5. Counted' /\ ResultLeft' /\ Answered' /\ Given' /\ FreedTaken'
  BY <1>0, <1>1, <1>2 DEF Counted, ResultLeft, Answered, Given, FreedTaken
<1>. QED BY <1>3, <1>4, <1>5 DEF ResInv

LEMMA UtYieldKeeps ==
  ASSUME ResInv, NEW t \in Threads, UtYield(t)
  PROVE  ResInv'
<1>. USE UtResultsAssumption
<1>. DEFINE q == Append(ready_queue, t)
<1>0. /\ ResTypes /\ Linked /\ WaitersLinked /\ Counted /\ MainLast
      /\ ResultLeft /\ Answered /\ Given /\ FreedTaken
  BY DEF ResInv
<1>1. /\ running_thread = t /\ waitsFor[t] = NULL /\ Schedule(q)
      /\ UNCHANGED <<number_of_threads, main, mem, hasResult, res, res_waiters,
                     waitsFor, block, returned, got>>
  BY DEF UtYield, Runs, fields
<1>2. Live' = Live /\ t \in Live /\ main' = "runs"
  BY <1>0, <1>1 DEF Live, MainLast, Linked
<1>3. q \in Seq(Threads) /\ IsInjective(q) /\ Range(q) = Range(ready_queue) \cup {t}
  BY <1>0, <1>1, AppendDistinct DEF ResTypes, Linked
<1>. HIDE DEF q
<1>4. ResTypes'
  BY <1>0, <1>1, <1>3, SwitchTypes DEF ResTypes
<1>5. WaitersLinked'
  <2>1. /\ Range(ready_queue') \subseteq Range(q)
        /\ running_thread' \in Range(q) \/ running_thread' = Main
    BY <1>1, <1>3, SwitchTypes
  <2>2. \A u \in Threads : \A w \in Range(res_waiters[u]) : w # Main /\ w \notin Range(q)
    BY <1>0, <1>1, <1>2, <1>3 DEF WaitersLinked, Live
  <2>. QED BY <1>0, <1>1, <1>2, <2>1, <2>2 DEF WaitersLinked
<1>6. /\ Range(q) \subseteq Live'
      /\ \A u \in Live' : \/ u \in Range(q)
                          \/ waitsFor'[u] # NULL /\ u \in Range(res_waiters'[waitsFor'[u]])
  BY <1>0, <1>1, <1>2, <1>3 DEF Linked
<1>7. Linked' /\ MainLast'
  BY <1>1, <1>2, <1>3, <1>4, <1>5, <1>6, Switches
<1>8. Counted' /\ ResultLeft' /\ Answered' /\ Given' /\ FreedTaken'
  BY <1>0, <1>1, <1>2 DEF Counted, ResultLeft, Answered, Given, FreedTaken
<1>. QED BY <1>4, <1>5, <1>7, <1>8 DEF ResInv

LEMMA UtTryKeeps ==
  ASSUME ResInv, NEW t \in Users, NEW u \in Threads, UtTryGetThreadResult(t, u)
  PROVE  ResInv'
<1>. USE UtResultsAssumption
<1>0. /\ ResTypes /\ Linked /\ WaitersLinked /\ Counted /\ MainLast
      /\ ResultLeft /\ Answered /\ Given /\ FreedTaken
  BY DEF ResInv
<1>1. /\ mem[u] \in {"live", "kept"} /\ hasResult[u] /\ mem' = [mem EXCEPT ![u] = "freed"]
      /\ got' = got \cup {[by |-> t, of |-> u, value |-> res[u]]}
      /\ UNCHANGED <<ready_queue, running_thread, number_of_threads, main, hasResult, res,
                     res_waiters, waitsFor, block, returned>>
  BY DEF UtTryGetThreadResult, MayAsk, fields
<1>2. mem[u] = "kept" /\ res[u] = returned[u]
  BY <1>0, <1>1 DEF ResultLeft
<1>3. \A v \in Threads : mem'[v] = IF v = u THEN "freed" ELSE mem[v]
  BY <1>0, <1>1 DEF ResTypes
<1>4. Live' = Live
  BY <1>2, <1>3 DEF Live
<1>5. ResTypes'
  BY <1>0, <1>1 DEF ResTypes
<1>6. Linked' /\ WaitersLinked' /\ Counted' /\ MainLast'
  BY <1>0, <1>1, <1>4 DEF Linked, WaitersLinked, Counted, MainLast
<1>7. ResultLeft'
  <2>. SUFFICES ASSUME NEW v \in Threads
                PROVE  /\ hasResult[v] => mem'[v] \in {"kept", "freed"}
                       /\ mem'[v] = "kept" => hasResult[v] /\ res[v] = returned[v]
    BY <1>1 DEF ResultLeft
  <2>1. CASE v = u
    BY <1>3, <2>1
  <2>2. CASE v # u
    BY <1>0, <1>3, <2>2 DEF ResultLeft
  <2>. QED BY <2>1, <2>2
<1>8. Answered'
  <2>. SUFFICES ASSUME NEW v \in Threads, waitsFor[v] # NULL
                PROVE  /\ v \in Live
                       /\ \/ v \in Range(res_waiters[waitsFor[v]])
                          \/ mem'[waitsFor[v]] = "freed" /\ block[v] = returned[waitsFor[v]]
    BY <1>1, <1>4 DEF Answered
  <2>. QED BY <1>0, <1>3 DEF Answered, ResTypes
<1>9. Given'
  BY <1>0, <1>1, <1>2, <1>3 DEF Given
<1>10. FreedTaken'
  <2>. DEFINE g == [by |-> t, of |-> u, value |-> res[u]]
  <2>1. g \in got' /\ g.of = u /\ got \subseteq got'
    BY <1>1
  <2>. HIDE DEF g
  <2>. SUFFICES ASSUME NEW v \in Threads, v # u, mem[v] = "freed"
                PROVE  \/ \E h \in got' : h.of = v
                       \/ \E w \in Threads : waitsFor[w] = v /\ block[w] = returned[v]
    BY <1>1, <1>3, <2>1 DEF FreedTaken
  <2>. QED BY <1>0, <2>1 DEF FreedTaken
<1>. QED BY <1>5, <1>6, <1>7, <1>8, <1>9, <1>10 DEF ResInv

LEMMA UtGetKeeps ==
  ASSUME ResInv, NEW t \in Users, NEW u \in Threads, UtGetThreadResult(t, u)
  PROVE  ResInv'
<1>. USE UtResultsAssumption
<1>0. /\ ResTypes /\ Linked /\ WaitersLinked /\ Counted /\ MainLast
      /\ ResultLeft /\ Answered /\ Given /\ FreedTaken
  BY DEF ResInv
<1>1. /\ t \in Threads /\ running_thread = t /\ waitsFor[t] = NULL /\ u > t
      /\ mem[u] \in {"live", "kept"} /\ ~hasResult[u]
      /\ res_waiters' = [res_waiters EXCEPT ![u] = Append(@, t)]
      /\ waitsFor' = [waitsFor EXCEPT ![t] = u]
      /\ Schedule(ready_queue)
      /\ UNCHANGED <<number_of_threads, main, mem, hasResult, res, block, returned, got>>
  BY DEF UtGetThreadResult, MayAsk, Runs
<1>2. Live' = Live /\ u \in Live /\ t \in Live /\ main' = "runs" /\ t < u /\ t # u
  BY <1>0, <1>1 DEF Live, ResultLeft, Linked, MainLast
<1>3. ready_queue \in Seq(Threads) /\ IsInjective(ready_queue) /\ Range(ready_queue) \subseteq Live
  BY <1>0 DEF ResTypes, Linked
<1>4. /\ \A v \in Threads : v # u => res_waiters'[v] = res_waiters[v]
      /\ \A v \in Threads : v # t => waitsFor'[v] = waitsFor[v]
      /\ waitsFor'[t] = u /\ res_waiters'[u] = Append(res_waiters[u], t)
  BY <1>0, <1>1 DEF ResTypes
<1>5. \A v \in Threads : t \notin Range(res_waiters[v])
  BY <1>0, <1>1 DEF WaitersLinked
<1>6. /\ res_waiters'[u] \in Seq(Threads) /\ IsInjective(res_waiters'[u])
      /\ Range(res_waiters'[u]) = Range(res_waiters[u]) \cup {t}
  <2>1. res_waiters[u] \in Seq(Threads) /\ IsInjective(res_waiters[u])
    BY <1>0 DEF ResTypes, WaitersLinked
  <2>. QED BY <1>1, <1>4, <1>5, <2>1, AppendDistinct
<1>7. ResTypes'
  <2>1. res_waiters' \in [Threads -> Seq(Threads)]
    BY <1>0, <1>1, <1>4, <1>6 DEF ResTypes
  <2>. QED BY <1>0, <1>1, <1>3, <2>1, SwitchTypes DEF ResTypes
<1>8. WaitersLinked'
  <2>1. /\ Range(ready_queue') \subseteq Range(ready_queue)
        /\ running_thread' \in Range(ready_queue) \/ running_thread' = Main
    BY <1>1, <1>3, SwitchTypes
  <2>2. \A v \in Threads : \A w \in Range(res_waiters'[v]) :
          w # Main /\ w \notin Range(ready_queue) /\ w \in Live /\ v \in Live
    BY <1>0, <1>1, <1>2, <1>4, <1>6 DEF WaitersLinked, Linked, Live
  <2>3. \A v \in Threads : \A w \in Range(res_waiters'[v]) : waitsFor'[w] = v /\ w < v
    <3>. SUFFICES ASSUME NEW v \in Threads, NEW w \in Range(res_waiters'[v])
                  PROVE  waitsFor'[w] = v /\ w < v
      OBVIOUS
    <3>1. CASE w = t
      <4>1. v = u
        BY <1>4, <1>5, <3>1
      <4>. QED BY <1>2, <1>4, <3>1, <4>1
    <3>2. CASE w # t
      <4>1. w \in Range(res_waiters[v])
        BY <1>4, <1>6, <3>2
      <4>2. w \in Threads
        BY <2>2 DEF Live
      <4>. QED BY <1>0, <1>4, <3>2, <4>1, <4>2 DEF WaitersLinked
    <3>. QED BY <3>1, <3>2
  <2>4. \A v \in Threads : IsInjective(res_waiters'[v])
    BY <1>0, <1>4, <1>6 DEF WaitersLinked
  <2>. QED BY <1>2, <2>1, <2>2, <2>3, <2>4 DEF WaitersLinked
<1>9. \A v \in Live' : \/ v \in Range(ready_queue)
                       \/ waitsFor'[v] # NULL /\ v \in Range(res_waiters'[waitsFor'[v]])
  <2>. SUFFICES ASSUME NEW v \in Threads, v \in Live, v \notin Range(ready_queue)
                PROVE  waitsFor'[v] # NULL /\ v \in Range(res_waiters'[waitsFor'[v]])
    BY <1>2 DEF Live
  <2>1. CASE v = t
    BY <1>4, <1>6, <2>1
  <2>2. CASE v # t
    <3>1. waitsFor[v] # NULL /\ v \in Range(res_waiters[waitsFor[v]]) /\ waitsFor[v] \in Threads
      BY <1>0, <1>1, <2>2 DEF Linked, ResTypes
    <3>. QED BY <1>4, <1>6, <2>2, <3>1
  <2>. QED BY <2>1, <2>2
<1>10. Linked' /\ MainLast'
  BY <1>1, <1>2, <1>3, <1>7, <1>8, <1>9, Switches
<1>11. Counted' /\ ResultLeft' /\ Given'
  BY <1>0, <1>1, <1>2 DEF Counted, ResultLeft, Given
<1>12. Answered'
  <2>. SUFFICES ASSUME NEW v \in Threads, waitsFor'[v] # NULL
                PROVE  /\ v \in Live
                       /\ \/ v \in Range(res_waiters'[waitsFor'[v]])
                          \/ mem[waitsFor'[v]] = "freed" /\ block[v] = returned[waitsFor'[v]]
    BY <1>1, <1>2 DEF Answered
  <2>1. CASE v = t
    BY <1>2, <1>4, <1>6, <2>1
  <2>2. CASE v # t
    <3>1. waitsFor'[v] = waitsFor[v] /\ waitsFor[v] \in Threads
      BY <1>0, <1>4, <2>2 DEF ResTypes
    <3>2. Range(res_waiters[waitsFor[v]]) \subseteq Range(res_waiters'[waitsFor[v]])
      BY <1>4, <1>6, <3>1
    <3>. QED BY <1>0, <3>1, <3>2 DEF Answered
  <2>. QED BY <2>1, <2>2
<1>13. FreedTaken'
  <2>1. \A v, w \in Threads : waitsFor[w] = v => w # t
    BY <1>1
  <2>. QED BY <1>0, <1>1, <1>4, <2>1 DEF FreedTaken
<1>. QED BY <1>7, <1>8, <1>10, <1>11, <1>12, <1>13 DEF ResInv

LEMMA UtGetReturnsKeeps ==
  ASSUME ResInv, NEW t \in Threads, UtGetThreadResultReturns(t)
  PROVE  ResInv'
<1>. USE UtResultsAssumption
<1>0. /\ ResTypes /\ Linked /\ WaitersLinked /\ Counted /\ MainLast
      /\ ResultLeft /\ Answered /\ Given /\ FreedTaken
  BY DEF ResInv
<1>1. /\ running_thread = t /\ waitsFor[t] # NULL
      /\ got' = got \cup {[by |-> t, of |-> waitsFor[t], value |-> block[t]]}
      /\ waitsFor' = [waitsFor EXCEPT ![t] = NULL] /\ block' = [block EXCEPT ![t] = NULL]
      /\ UNCHANGED <<ready_queue, running_thread, number_of_threads, main, mem, hasResult, res,
                     res_waiters, returned>>
  BY DEF UtGetThreadResultReturns, fields
<1>2. Live' = Live
  BY <1>1 DEF Live
<1>3. \A v \in Threads : v # t => waitsFor'[v] = waitsFor[v] /\ block'[v] = block[v]
  BY <1>0, <1>1 DEF ResTypes
<1>4. waitsFor'[t] = NULL
  BY <1>0, <1>1 DEF ResTypes
<1>5. waitsFor[t] \in Threads /\ mem[waitsFor[t]] = "freed" /\ block[t] = returned[waitsFor[t]]
  <2>1. waitsFor[t] \in Threads
    BY <1>0, <1>1 DEF ResTypes
  <2>2. t \notin Range(res_waiters[waitsFor[t]])
    BY <1>0, <1>1, <2>1 DEF WaitersLinked
  <2>. QED BY <1>0, <1>1, <2>1, <2>2 DEF Answered
<1>6. ResTypes'
  BY <1>0, <1>1 DEF ResTypes
<1>7. \A u \in Threads : t \notin Range(res_waiters[u])
  BY <1>0, <1>1 DEF WaitersLinked
<1>8. Linked'
  <2>1. \A v \in Live : v # t => waitsFor'[v] = waitsFor[v]
    BY <1>3 DEF Live
  <2>. QED BY <1>0, <1>1, <1>2, <2>1 DEF Linked
<1>9. WaitersLinked'
  <2>1. \A u \in Threads : \A w \in Range(res_waiters[u]) : waitsFor'[w] = waitsFor[w]
    <3>. SUFFICES ASSUME NEW u \in Threads, NEW w \in Range(res_waiters[u])
                  PROVE  waitsFor'[w] = waitsFor[w]
      OBVIOUS
    <3>1. w \in Live /\ w # t
      BY <1>0, <1>7 DEF WaitersLinked
    <3>. QED BY <1>3, <3>1 DEF Live
  <2>. QED BY <1>0, <1>1, <1>2, <2>1 DEF WaitersLinked
<1>10. Counted' /\ MainLast' /\ ResultLeft'
  BY <1>0, <1>1, <1>2 DEF Counted, MainLast, ResultLeft
<1>11. Answered'
  BY <1>0, <1>1, <1>2, <1>3, <1>4 DEF Answered
<1>12. Given'
  BY <1>0, <1>1, <1>5 DEF Given
<1>13. FreedTaken'
  <2>. SUFFICES ASSUME NEW u \in Threads, mem[u] = "freed"
                PROVE  \/ \E g \in got' : g.of = u
                       \/ \E v \in Threads : waitsFor'[v] = u /\ block'[v] = returned[u]
    BY <1>1 DEF FreedTaken
  <2>1. CASE u = waitsFor[t]
    <3>. DEFINE g == [by |-> t, of |-> waitsFor[t], value |-> block[t]]
    <3>1. g \in got' /\ g.of = u
      BY <1>1, <2>1
    <3>. QED BY <3>1
  <2>2. CASE u # waitsFor[t]
    <3>1. CASE \E g \in got : g.of = u
      BY <1>1, <3>1
    <3>2. CASE \E v \in Threads : waitsFor[v] = u /\ block[v] = returned[u]
      BY <1>3, <2>2, <3>2
    <3>. QED BY <1>0, <3>1, <3>2 DEF FreedTaken
  <2>. QED BY <2>1, <2>2
<1>. QED BY <1>6, <1>8, <1>9, <1>10, <1>11, <1>12, <1>13 DEF ResInv

LEMMA UtExitKeepsInv ==
  ASSUME ResInv, NEW t \in Threads, UtExit(t)
  PROVE  ResInv'
<1>. USE UtResultsAssumption
<1>. DEFINE w == res_waiters[t]
            q == ready_queue \o w
<1>0. /\ ResTypes /\ Linked /\ WaitersLinked /\ Counted /\ MainLast
      /\ ResultLeft /\ Answered /\ Given /\ FreedTaken
  BY DEF ResInv
<1>1. PICK v \in Values :
      /\ running_thread = t /\ waitsFor[t] = NULL
      /\ number_of_threads' = number_of_threads - 1
      /\ returned' = [returned EXCEPT ![t] = v]
      /\ hasResult' = [hasResult EXCEPT ![t] = w = <<>>]
      /\ res' = [res EXCEPT ![t] = IF w = <<>> THEN v ELSE @]
      /\ block' = [u \in Threads |-> IF \E i \in 1..Len(w) : w[i] = u THEN v ELSE block[u]]
      /\ res_waiters' = [res_waiters EXCEPT ![t] = <<>>]
      /\ mem' = [mem EXCEPT ![t] = IF w = <<>> THEN "kept" ELSE "freed"]
      /\ Schedule(q)
      /\ UNCHANGED <<main, waitsFor, got>>
  BY DEF UtExit, Runs
<1>2. w \in Seq(Threads) /\ IsInjective(w) /\ Len(w) \in Nat /\ DOMAIN w = 1..Len(w)
  BY <1>0, LenProperties DEF ResTypes, WaitersLinked
<1>3. \A u \in Threads : (\E i \in 1..Len(w) : w[i] = u) <=> u \in Range(w)
  BY <1>2 DEF Range
<1>4. Range(w) = {} <=> w = <<>>
  <2>1. ASSUME w # <<>> PROVE w[1] \in Range(w)
    <3>1. 1 \in DOMAIN w
      BY <1>2, <2>1, EmptySeq
    <3>. QED BY <3>1 DEF Range
  <2>2. w = <<>> => Range(w) = {}
    BY DEF Range
  <2>. QED BY <2>1, <2>2
<1>5. q \in Seq(Threads) /\ IsInjective(q) /\ Range(q) = Range(ready_queue) \cup Range(w)
  <2>1. Range(ready_queue) \cap Range(w) = {}
    BY <1>0 DEF WaitersLinked
  <2>. QED BY <1>0, <1>2, <2>1, ConcatDistinct DEF ResTypes, Linked
<1>6. /\ t \in Live /\ main' = "runs" /\ mem[t] = "live" /\ ~hasResult[t]
      /\ t \notin Range(ready_queue) /\ t \notin Range(w)
  BY <1>0, <1>1 DEF Live, Linked, WaitersLinked, MainLast, ResultLeft
<1>7. /\ \A u \in Threads : block'[u] = IF u \in Range(w) THEN v ELSE block[u]
      /\ \A u \in Threads : u # t => /\ mem'[u] = mem[u] /\ hasResult'[u] = hasResult[u]
                                     /\ res'[u] = res[u] /\ res_waiters'[u] = res_waiters[u]
                                     /\ returned'[u] = returned[u]
      /\ returned'[t] = v /\ res_waiters'[t] = <<>>
      /\ w = <<>> => mem'[t] = "kept" /\ hasResult'[t] /\ res'[t] = v
      /\ w # <<>> => mem'[t] = "freed" /\ ~hasResult'[t]
  BY <1>0, <1>1, <1>3 DEF ResTypes
<1>. HIDE DEF q
<1>8. Live' = Live \ {t}
  BY <1>6, <1>7 DEF Live
<1>9. Range(res_waiters'[t]) = {} /\ IsInjective(res_waiters'[t]) /\ res_waiters'[t] \in Seq(Threads)
  BY <1>7, EmptySeq DEF Range, IsInjective
<1>10. number_of_threads' \in Nat /\ Counted'
  <2>1. Live \in SUBSET Threads
    BY DEF Live
  <2>. QED BY <1>0, <1>1, <1>6, <1>8, <2>1, LiveFinite DEF Counted
<1>11. ResTypes'
  <2>1. res_waiters' \in [Threads -> Seq(Threads)]
    BY <1>0, <1>1, <1>9 DEF ResTypes
  <2>2. ready_queue' \in Seq(Threads) /\ running_thread' \in Threads \cup {Main, NULL}
    BY <1>1, <1>5, SwitchTypes
  <2>3. block' \in [Threads -> Values \cup {NULL}]
    BY <1>0, <1>1 DEF ResTypes
  <2>. QED BY <1>0, <1>1, <1>10, <2>1, <2>2, <2>3 DEF ResTypes
<1>12. WaitersLinked'
  <2>1. Range(ready_queue') \subseteq Range(q) /\ (running_thread' \in Range(q) \/ running_thread' = Main)
    BY <1>1, <1>5, SwitchTypes
  <2>2. ASSUME NEW u \in Threads, u # t, NEW x \in Range(res_waiters[u])
        PROVE  /\ waitsFor[x] = u /\ x < u /\ x \in Live \ {t} /\ u \in Live \ {t}
               /\ x \notin Range(q) /\ x # Main
    <3>1. /\ waitsFor[x] = u /\ x < u /\ x \in Live /\ u \in Live
          /\ x \notin Range(ready_queue) /\ x # t
      BY <1>0, <1>1, <2>2 DEF WaitersLinked
    <3>2. x \notin Range(w)
      BY <1>0, <2>2, <3>1 DEF WaitersLinked
    <3>. QED BY <1>5, <2>2, <3>1, <3>2 DEF Live
  <2>. QED BY <1>0, <1>1, <1>7, <1>8, <1>9, <2>1, <2>2 DEF WaitersLinked
<1>13. Range(q) \subseteq Live'
  BY <1>0, <1>5, <1>6, <1>8 DEF Linked, WaitersLinked
<1>14. \A u \in Live' : \/ u \in Range(q)
                        \/ waitsFor'[u] # NULL /\ u \in Range(res_waiters'[waitsFor'[u]])
  <2>. SUFFICES ASSUME NEW u \in Threads, u \in Live, u # t, u \notin Range(q)
                PROVE  waitsFor[u] # NULL /\ u \in Range(res_waiters'[waitsFor[u]])
    BY <1>1, <1>8 DEF Live
  <2>1. waitsFor[u] # NULL /\ u \in Range(res_waiters[waitsFor[u]]) /\ waitsFor[u] \in Threads
    BY <1>0, <1>1, <1>5 DEF Linked, ResTypes
  <2>2. waitsFor[u] # t
    BY <1>5, <2>1
  <2>. QED BY <1>7, <2>1, <2>2
<1>15. Linked' /\ MainLast'
  BY <1>1, <1>5, <1>6, <1>11, <1>12, <1>13, <1>14, Switches
<1>16. ResultLeft'
  <2>. SUFFICES ASSUME NEW u \in Threads
                PROVE  /\ hasResult'[u] => mem'[u] \in {"kept", "freed"}
                       /\ mem'[u] = "kept" => hasResult'[u] /\ res'[u] = returned'[u]
    BY DEF ResultLeft
  <2>1. CASE u = t
    BY <1>7, <2>1
  <2>2. CASE u # t
    BY <1>0, <1>7, <2>2 DEF ResultLeft
  <2>. QED BY <2>1, <2>2
<1>17. Answered'
  <2>. SUFFICES ASSUME NEW u \in Threads, waitsFor[u] # NULL
                PROVE  /\ u \in Live'
                       /\ \/ u \in Range(res_waiters'[waitsFor[u]])
                          \/ mem'[waitsFor[u]] = "freed" /\ block'[u] = returned'[waitsFor[u]]
    BY <1>1 DEF Answered
  <2>1. u \in Live' /\ waitsFor[u] \in Threads
    BY <1>0, <1>1, <1>8 DEF Answered, ResTypes
  <2>2. CASE u \in Range(w)
    <3>1. waitsFor[u] = t /\ w # <<>>
      BY <1>0, <1>4, <2>2 DEF WaitersLinked
    <3>. QED BY <1>7, <2>1, <2>2, <3>1
  <2>3. CASE u \notin Range(w) /\ waitsFor[u] = t
    <3>1. mem[t] = "freed"
      BY <1>0, <2>3 DEF Answered
    <3>. QED BY <1>6, <3>1
  <2>4. CASE u \notin Range(w) /\ waitsFor[u] # t
    <3>1. \/ u \in Range(res_waiters[waitsFor[u]])
          \/ mem[waitsFor[u]] = "freed" /\ block[u] = returned[waitsFor[u]]
      BY <1>0 DEF Answered
    <3>. QED BY <1>7, <2>1, <2>4, <3>1
  <2>. QED BY <2>2, <2>3, <2>4
<1>18. Given'
  <2>1. \A g \in got : g.of \in Threads /\ g.of # t
    BY <1>0, <1>6 DEF Given
  <2>. QED BY <1>0, <1>1, <1>7, <2>1 DEF Given
<1>19. FreedTaken'
  <2>. SUFFICES ASSUME NEW u \in Threads, mem'[u] = "freed"
                PROVE  \/ \E g \in got : g.of = u
                       \/ \E x \in Threads : waitsFor[x] = u /\ block'[x] = returned'[u]
    BY <1>1 DEF FreedTaken
  <2>1. CASE u = t
    <3>1. PICK x \in Range(w) : TRUE
      BY <1>4, <1>7, <2>1
    <3>2. x \in Threads /\ waitsFor[x] = t
      BY <1>0 DEF WaitersLinked, Live
    <3>. QED BY <1>7, <2>1, <3>1, <3>2
  <2>2. CASE u # t
    <3>1. CASE \E g \in got : g.of = u
      BY <3>1
    <3>2. CASE \E x \in Threads : waitsFor[x] = u /\ block[x] = returned[u]
      <4>1. PICK x \in Threads : waitsFor[x] = u /\ block[x] = returned[u]
        BY <3>2
      <4>2. x \notin Range(w)
        BY <1>0, <2>2, <4>1 DEF WaitersLinked
      <4>. QED BY <1>7, <2>2, <4>1, <4>2
    <3>. QED BY <1>0, <1>7, <2>2, <3>1, <3>2 DEF FreedTaken
  <2>. QED BY <2>1, <2>2
<1>. QED BY <1>10, <1>11, <1>12, <1>15, <1>16, <1>17, <1>18, <1>19 DEF ResInv

LEMMA ResInvStutter ==
  ASSUME ResInv, UNCHANGED vars
  PROVE  ResInv'
BY DEF ResInv, vars, fields, ResTypes, Linked, WaitersLinked, Counted, MainLast, ResultLeft,
       Answered, Given, FreedTaken, Live

LEMMA ResInvNext == ResInv /\ [Next]_vars => ResInv'
<1>. SUFFICES ASSUME ResInv, [Next]_vars PROVE ResInv'
  OBVIOUS
<1>1. CASE UtRun
  BY <1>1, UtRunKeeps
<1>2. CASE UtRunReturns
  BY <1>2, UtRunReturnsKeeps
<1>3. CASE Ended
  BY <1>3, ResInvStutter DEF Ended
<1>4. ASSUME NEW t \in Threads,
             UtCreate(t) \/ UtYield(t) \/ UtExit(t) \/ UtGetThreadResultReturns(t)
      PROVE  ResInv'
  BY <1>4, UtCreateKeeps, UtYieldKeeps, UtExitKeepsInv, UtGetReturnsKeeps
<1>5. ASSUME NEW t \in Users, NEW u \in Threads,
             UtTryGetThreadResult(t, u) \/ UtGetThreadResult(t, u)
      PROVE  ResInv'
  BY <1>5, UtTryKeeps, UtGetKeeps
<1>6. CASE UNCHANGED vars
  BY <1>6, ResInvStutter
<1>. QED BY <1>1, <1>2, <1>3, <1>4, <1>5, <1>6 DEF Next

-----------------------------------------------------------------------------
(***************************************************************************)
(* The theorems.                                                           *)
(***************************************************************************)

\* The places of a queue, as the properties write its elements.
LEMMA Places ==
  ASSUME NEW q \in Seq(Threads), IsInjective(q)
  PROVE  {q[i] : i \in 1..Len(q)} = Range(q) /\ Cardinality(Range(q)) = Len(q)
BY RangeEquality, DistinctCount

LEMMA InvResultsSound == ResInv => ResultsSound
<1>. SUFFICES ASSUME ResInv PROVE ResultsSound
  OBVIOUS
<1>. USE UtResultsAssumption
<1>. DEFINE waiting == UNION {WaitersOf(u) : u \in Threads}
<1>0. /\ ResTypes /\ Linked /\ WaitersLinked /\ Counted /\ MainLast /\ ResultLeft
  BY DEF ResInv
<1>1. InQueue = Range(ready_queue) /\ Cardinality(InQueue) = Len(ready_queue)
  BY <1>0, Places DEF InQueue, ResTypes, Linked
<1>2. \A u \in Threads : WaitersOf(u) = Range(res_waiters[u])
                         /\ Cardinality(WaitersOf(u)) = Len(res_waiters[u])
  BY <1>0, Places DEF WaitersOf, ResTypes, WaitersLinked
<1>3. \A t \in waiting : /\ t \in Live /\ t \notin Range(ready_queue) /\ t # running_thread
  BY <1>0, <1>2 DEF WaitersLinked
<1>4. \A t \in Live : t \in Range(ready_queue) \/ t = running_thread \/ t \in waiting
  <2>. SUFFICES ASSUME NEW t \in Live, t \notin Range(ready_queue), t # running_thread
                PROVE  t \in waiting
    OBVIOUS
  <2>1. waitsFor[t] \in Threads /\ t \in Range(res_waiters[waitsFor[t]])
    BY <1>0 DEF Linked, ResTypes, Live
  <2>. QED BY <1>2, <2>1
<1>5. InQueue \cup waiting \cup ({running_thread} \cap Threads) = Live
  BY <1>0, <1>1, <1>3, <1>4 DEF Linked, Live
<1>6. \A u \in Threads : /\ WaitersOf(u) # {} => mem[u] = "live"
                         /\ hasResult[u] => mem[u] \in {"kept", "freed"}
  BY <1>0, <1>2 DEF WaitersLinked, ResultLeft, Live
<1>7. InQueue \cap waiting = {} /\ running_thread \notin InQueue \cup waiting
  BY <1>0, <1>1, <1>3 DEF Linked
<1>8. Cardinality(Live) = number_of_threads /\ (running_thread = Main => Live = {})
  BY <1>0 DEF Counted, MainLast
<1>. QED BY <1>1, <1>2, <1>5, <1>6, <1>7, <1>8 DEF ResultsSound, Live

\* Each live thread is linked exactly once, in the ready queue or in the waiters of
\* the thread it waits for, none waits for a thread that has returned, and when UtRun
\* returns no thread is left: the assertions of UtRun (uthread.c of aula-04-29), for
\* any number of threads that ask for each other's results.
THEOREM ResultsAreSound == Spec => []ResultsSound
BY ResInvInit, ResInvNext, InvResultsSound, PTL DEF Spec

LEMMA InvRightResults == ResInv => RightResults
BY DEF ResInv, Given, FreedTaken, RightResults

\* Whoever asks for a result gets what the thread's function returned, before its end
\* or after it, and a descriptor is freed only when its result was taken or is in
\* the wait blocks of all who asked.
THEOREM ResultsAreRight == Spec => []RightResults
BY ResInvInit, ResInvNext, InvRightResults, PTL DEF Spec
=============================================================================
