-------------------------- MODULE ThreadQueueProofs --------------------------
(* What holds of thread_queue for every number of slots and runnables.     *)
EXTENDS ThreadQueue, SequenceTheorems, TLAPS

\* Taking the head of q and appending it to p moves it from one to the other.
LEMMA MoveHead ==
    ASSUME NEW S, NEW p \in Seq(S), NEW q \in Seq(S), q # << >>
    PROVE  Append(p, Head(q)) \o Tail(q) = p \o q
<1>1. /\ Head(q) \in S
      /\ Tail(q) \in Seq(S)
      /\ Len(Tail(q)) = Len(q) - 1
      /\ \A i \in 1 .. Len(Tail(q)) : Tail(q)[i] = q[i + 1]
  BY HeadTailProperties
<1>2. Len(q) \in Nat \ {0} /\ Len(p) \in Nat /\ Head(q) = q[1]
  BY EmptySeq, LenProperties
<1> DEFINE l == Append(p, Head(q)) \o Tail(q)
           r == p \o q
           a == Append(p, Head(q))
<1>3. /\ a \in Seq(S)
      /\ Len(a) = Len(p) + 1
      /\ \A i \in 1 .. Len(p) : a[i] = p[i]
      /\ a[Len(p) + 1] = q[1]
  BY <1>1, <1>2, AppendProperties
<1>4. /\ l \in Seq(S)
      /\ Len(l) = Len(p) + Len(q)
      /\ \A i \in 1 .. Len(p) + Len(q) :
            l[i] = IF i <= Len(p) + 1 THEN a[i] ELSE Tail(q)[i - (Len(p) + 1)]
  <2>1. /\ l \in Seq(S)
        /\ Len(l) = Len(a) + Len(Tail(q))
        /\ \A i \in 1 .. Len(a) + Len(Tail(q)) :
              l[i] = IF i <= Len(a) THEN a[i] ELSE Tail(q)[i - Len(a)]
    BY <1>1, <1>3, ConcatProperties
  <2> QED  BY <2>1, <1>1, <1>2, <1>3
<1>5. /\ r \in Seq(S)
      /\ Len(r) = Len(p) + Len(q)
      /\ \A i \in 1 .. Len(p) + Len(q) :
            r[i] = IF i <= Len(p) THEN p[i] ELSE q[i - Len(p)]
  BY ConcatProperties
<1>6. ASSUME NEW i \in 1 .. Len(l)  PROVE  l[i] = r[i]
  <2>0. i \in 1 .. Len(p) + Len(q)
    BY <1>4, <1>6
  <2>1. CASE i <= Len(p)
    BY <2>0, <2>1, <1>2, <1>3, <1>4, <1>5
  <2>2. CASE i = Len(p) + 1
    BY <2>0, <2>2, <1>2, <1>3, <1>4, <1>5
  <2>3. CASE i > Len(p) + 1
    <3>1. i - (Len(p) + 1) \in 1 .. Len(Tail(q))
      BY <2>0, <2>3, <1>1, <1>2
    <3>2. Tail(q)[i - (Len(p) + 1)] = q[i - Len(p)]
      BY <3>1, <1>1, <1>2, <2>0
    <3> QED  BY <3>2, <2>0, <2>3, <1>2, <1>4, <1>5
  <2> QED  BY <2>0, <2>1, <2>2, <2>3, <1>2
<1> QED  BY <1>4, <1>5, <1>6, SeqEqual

-----------------------------------------------------------------------------

LEMMA FrontIsPosition == 0 \in 0 .. ThreadCount
  BY ThreadCountAssumption

LEMMA TypeInit == Init => TypeOK
<1> SUFFICES ASSUME Init  PROVE TypeOK
  OBVIOUS
<1>1. slot \in [Slots -> {"null"} \cup Live \cup Broken]
  BY DEF Init, Live, Broken
<1>2. queue \in Seq(Runnables) /\ pushed \in Seq(Runnables) /\ popped \in Seq(Runnables)
  BY EmptySeq DEF Init
<1>3. at \in 0 .. ThreadCount
  BY FrontIsPosition DEF Init
<1>4. current \in BOOLEAN /\ late \in BOOLEAN
  BY DEF Init
<1> QED  BY <1>1, <1>2, <1>3, <1>4 DEF Init, TypeOK, Idle

LEMMA TypePush ==
    ASSUME TypeOK, NEW r \in Runnables, Push(r)
    PROVE  TypeOK'
<1>1. PICK made \in [Slots -> Created] :
        slot' = [i \in Slots |-> IF slot[i] = "null" THEN made[i] ELSE slot[i]]
  BY DEF Push
<1>2. slot' \in [Slots -> {"null"} \cup Live \cup Broken]
  BY <1>1, SlotFaultsAssumption DEF TypeOK, Created, Live, Broken
<1>3. queue' \in Seq(Runnables) /\ pushed' \in Seq(Runnables)
  BY AppendProperties DEF Push, TypeOK
<1> QED  BY <1>2, <1>3 DEF Push, TypeOK, joinVars

LEMMA TypeStep == TypeOK /\ [Next]_vars => TypeOK'
<1> SUFFICES ASSUME TypeOK, [Next]_vars  PROVE TypeOK'
  OBVIOUS
<1> USE FrontIsPosition, ThreadCountAssumption DEF joinVars, history
<1>1. ASSUME NEW r \in Runnables, OwnerPush(r)  PROVE TypeOK'
  BY <1>1, TypePush DEF OwnerPush
<1>2. ASSUME NEW i \in Slots, NEW r \in Runnables, NestedPush(i, r)  PROVE TypeOK'
  BY <1>2, TypePush DEF NestedPush
<1>3. ASSUME NEW i \in Slots, Pop(i)  PROVE TypeOK'
  <2>1. CASE queue # << >>
    <3>1. Head(queue) \in Runnables /\ Tail(queue) \in Seq(Runnables)
      BY <2>1, HeadTailProperties DEF TypeOK
    <3>2. Append(popped, Head(queue)) \in Seq(Runnables)
      BY <3>1, AppendProperties DEF TypeOK
    <3> QED  BY <1>3, <2>1, <3>1, <3>2 DEF Pop, TypeOK, Live
  <2>2. CASE queue = << >>
    BY <1>3, <2>2 DEF Pop, TypeOK, Live
  <2> QED  BY <2>1, <2>2
<1>4. ASSUME NEW i \in Slots, Finish(i)  PROVE TypeOK'
  BY <1>4 DEF Finish, TypeOK, Live
<1>5. ASSUME NEW i \in Slots, Leave(i)  PROVE TypeOK'
  <2>1. slot' \in [Slots -> {"null"} \cup Live \cup Broken]
    BY <1>5 DEF Leave, TypeOK
  <2>2. pc' \in Idle \cup InJoin \cup Ended /\ current' \in BOOLEAN
    BY <1>5 DEF Leave, TypeOK, Ended
  <2> QED  BY <1>5, <2>1, <2>2 DEF Leave, TypeOK
<1>6. CASE OwnerPop
  <2>1. Head(queue) \in Runnables /\ Tail(queue) \in Seq(Runnables)
    BY <1>6, HeadTailProperties DEF TypeOK, OwnerPop
  <2>2. Append(popped, Head(queue)) \in Seq(Runnables)
    BY <2>1, AppendProperties DEF TypeOK
  <2> QED  BY <1>6, <2>1, <2>2 DEF OwnerPop, TypeOK
<1>7. CASE JoinBegin
  BY <1>7 DEF JoinBegin, TypeOK, InJoin
<1>8. CASE JoinScan
  <2>1. at' \in 0 .. ThreadCount
    BY <1>8 DEF JoinScan, TypeOK
  <2>2. pc' \in Idle \cup InJoin \cup Ended
    BY <1>8 DEF JoinScan, TypeOK, InJoin
  <2>3. current' \in BOOLEAN
    BY <1>8 DEF JoinScan, TypeOK
  <2> QED  BY <1>8, <2>1, <2>2, <2>3 DEF JoinScan, TypeOK
<1>9. CASE JoinReturn
  BY <1>9 DEF JoinReturn, TypeOK, Idle
<1>10. CASE JoinValid
  BY <1>10 DEF JoinValid, TypeOK, InJoin
<1>11. CASE JoinStale
  BY <1>11 DEF JoinStale, Rescan, TypeOK, InJoin
<1>12. ASSUME NEW j \in Slots, JoinRecycled(j)  PROVE TypeOK'
  BY <1>12 DEF JoinRecycled, TypeOK, InJoin, Slots
<1>13. CASE JoinCrash
  BY <1>13 DEF JoinCrash, TypeOK, Ended
<1>14. CASE JoinRefused
  BY <1>14 DEF JoinRefused, Rescan, TypeOK, InJoin
<1>15. CASE JoinWait
  BY <1>15 DEF JoinWait, Rescan, TypeOK, InJoin
<1>16. CASE DestroyStuck
  BY <1>16 DEF DestroyStuck, TypeOK, Ended
<1>17. CASE DestroyDone
  <2>1. popped' \in Seq(Runnables)
    BY <1>17, ConcatProperties DEF DestroyDone, TypeOK
  <2>2. queue' \in Seq(Runnables)
    BY <1>17, EmptySeq DEF DestroyDone
  <2> QED  BY <1>17, <2>1, <2>2 DEF DestroyDone, TypeOK, Ended
<1>18. CASE UNCHANGED vars
  BY <1>18 DEF vars, TypeOK
<1> QED
  BY <1>1, <1>2, <1>3, <1>4, <1>5, <1>6, <1>7, <1>8, <1>9, <1>10, <1>11, <1>12,
     <1>13, <1>14, <1>15, <1>16, <1>17, <1>18
  DEF Next, OwnerCall, JoinStep, Worker

\* The variables always hold values of their types.
THEOREM TypeCorrect == Spec => []TypeOK
<1> QED  BY TypeInit, TypeStep, PTL DEF Spec

-----------------------------------------------------------------------------
(* First in, first out.                                                    *)

LEMMA FifoStep == TypeOK /\ FifoOrder /\ [Next]_vars => FifoOrder'
<1> SUFFICES ASSUME TypeOK, FifoOrder, [Next]_vars  PROVE FifoOrder'
  OBVIOUS
<1>0. queue \in Seq(Runnables) /\ popped \in Seq(Runnables)
  BY DEF TypeOK
<1>1. ASSUME NEW r \in Runnables, Push(r)  PROVE FifoOrder'
  <2>1. Append(pushed, r) = pushed \o <<r>> /\ Append(queue, r) = queue \o <<r>>
    BY AppendIsConcat DEF TypeOK
  <2>2. (popped \o queue) \o <<r>> = popped \o (queue \o <<r>>)
    BY <1>0, ConcatAssociative
  <2> QED  BY <1>1, <2>1, <2>2 DEF Push, FifoOrder
<1>2. ASSUME queue # << >>, popped' = Append(popped, Head(queue)),
             queue' = Tail(queue), pushed' = pushed
      PROVE  FifoOrder'
  BY <1>0, <1>2, MoveHead DEF FifoOrder
<1>3. ASSUME NEW i \in Slots, Pop(i)  PROVE FifoOrder'
  BY <1>2, <1>3 DEF Pop, FifoOrder
<1>4. CASE OwnerPop
  BY <1>2, <1>4 DEF OwnerPop
<1>5. CASE DestroyDone
  <2>1. (popped \o queue) \o << >> = popped \o queue
    BY <1>0, ConcatProperties, ConcatEmptySeq
  <2> QED  BY <1>5, <2>1 DEF DestroyDone, FifoOrder
<1>6. ASSUME UNCHANGED <<queue, pushed, popped>>  PROVE FifoOrder'
  BY <1>6 DEF FifoOrder
<1>7. ASSUME NEW i \in Slots, Finish(i) \/ Leave(i)  PROVE FifoOrder'
  BY <1>6, <1>7 DEF Finish, Leave, history
<1>8. CASE JoinStep \/ JoinBegin \/ DestroyStuck \/ UNCHANGED vars
  BY <1>6, <1>8
  DEF JoinStep, JoinBegin, DestroyStuck, JoinScan, JoinReturn, JoinValid, JoinStale,
      JoinRecycled, JoinCrash, JoinRefused, JoinWait, history, vars
<1> QED
  BY <1>1, <1>3, <1>4, <1>5, <1>7, <1>8
  DEF Next, OwnerCall, OwnerPush, NestedPush, Worker

\* Runnables leave the queue in the order in which push queued them, whichever
\* worker, client or destructor takes them out, and none gets lost.
THEOREM Fifo == Spec => []FifoOrder
<1>1. Init => FifoOrder
  BY ConcatEmptySeq, EmptySeq DEF Init, FifoOrder
<1> QED  BY <1>1, FifoStep, TypeCorrect, PTL DEF Spec

-----------------------------------------------------------------------------
(* One home for every runnable.                                            *)

LEMMA AppendIndex ==
    ASSUME NEW S, NEW q \in Seq(S), NEW e \in S
    PROVE  /\ DOMAIN q = 1 .. Len(q) /\ Len(q) \in Nat
           /\ DOMAIN Append(q, e) = 1 .. Len(q) + 1
           /\ \A k \in 1 .. Len(q) : Append(q, e)[k] = q[k]
           /\ Append(q, e)[Len(q) + 1] = e
  BY AppendProperties, LenProperties

LEMMA TailIndex ==
    ASSUME NEW S, NEW q \in Seq(S), q # << >>
    PROVE  /\ DOMAIN q = 1 .. Len(q) /\ Len(q) \in Nat \ {0}
           /\ DOMAIN Tail(q) = 1 .. Len(q) - 1
           /\ \A k \in 1 .. Len(q) - 1 : Tail(q)[k] = q[k + 1]
           /\ Head(q) = q[1] /\ Head(q) \in S
<1>1. /\ Tail(q) \in Seq(S) /\ Head(q) \in S
      /\ Len(Tail(q)) = Len(q) - 1
      /\ \A i \in 1 .. Len(Tail(q)) : Tail(q)[i] = q[i + 1]
  BY HeadTailProperties
<1>2. DOMAIN q = 1 .. Len(q) /\ Len(q) \in Nat \ {0}
  BY LenProperties, EmptySeq
<1>3. DOMAIN Tail(q) = 1 .. Len(Tail(q))
  BY <1>1, LenProperties
<1> QED  BY <1>1, <1>2, <1>3

\* A worker has a runnable in its hands exactly while it runs it.
HoldsWhileRunning ==
    \A i \in Slots : holding[i] # None <=> slot[i] = "running"

HomeInv == AtMostOneHome /\ HoldsWhileRunning

LEMMA HomePush ==
    ASSUME TypeOK, HomeInv, NEW r \in Runnables, Push(r)
    PROVE  HomeInv'
<1>1. /\ DOMAIN queue = 1 .. Len(queue) /\ Len(queue) \in Nat
      /\ DOMAIN queue' = 1 .. Len(queue) + 1
      /\ \A k \in 1 .. Len(queue) : queue'[k] = queue[k]
      /\ queue'[Len(queue) + 1] = r
  BY AppendIndex DEF Push, TypeOK
<1>2. Fresh(r) /\ holding' = holding /\ outcome' = outcome
  BY DEF Push
<1>3. ASSUME NEW t \in Runnables
      PROVE  Queued(t)' <=> Queued(t) \/ t = r
  BY <1>1 DEF Queued
<1>4. ASSUME NEW t \in Runnables  PROVE Held(t)' <=> Held(t)
  BY <1>2 DEF Held
<1>5. ASSUME NEW t \in Runnables, NEW j \in DOMAIN queue', NEW k \in DOMAIN queue',
             queue'[j] = t, queue'[k] = t
      PROVE  j = k
  BY <1>1, <1>2, <1>5 DEF HomeInv, AtMostOneHome, Fresh, Queued
<1>6. AtMostOneHome'
  <2> SUFFICES ASSUME NEW t \in Runnables
               PROVE /\ \A i, j \in Slots : holding'[i] = t /\ holding'[j] = t => i = j
                     /\ ~(Queued(t)' /\ Held(t)')
                     /\ Queued(t)' \/ Held(t)' => outcome'[t] = "none"
    BY <1>5 DEF AtMostOneHome
  <2> QED  BY <1>2, <1>3, <1>4 DEF HomeInv, AtMostOneHome, Fresh
<1>7. HoldsWhileRunning'
  <2>1. PICK made \in [Slots -> Created] :
          slot' = [i \in Slots |-> IF slot[i] = "null" THEN made[i] ELSE slot[i]]
    BY DEF Push
  <2>2. ASSUME NEW i \in Slots  PROVE slot'[i] = "running" <=> slot[i] = "running"
    BY <2>1 DEF Created
  <2> QED  BY <1>2, <2>2 DEF HomeInv, HoldsWhileRunning
<1> QED  BY <1>6, <1>7 DEF HomeInv

\* What the queue looks like once its head is gone.
LEMMA HomeDequeue ==
    ASSUME TypeOK, AtMostOneHome, queue # << >>, queue' = Tail(queue)
    PROVE  /\ Head(queue) \in Runnables /\ Queued(Head(queue))
           /\ \A t \in Runnables : Queued(t)' => Queued(t) /\ t # Head(queue)
           /\ \A t \in Runnables : \A j, k \in DOMAIN queue' :
                 queue'[j] = t /\ queue'[k] = t => j = k
<1>1. /\ DOMAIN queue = 1 .. Len(queue) /\ Len(queue) \in Nat \ {0}
      /\ DOMAIN queue' = 1 .. Len(queue) - 1
      /\ \A k \in 1 .. Len(queue) - 1 : queue'[k] = queue[k + 1]
      /\ Head(queue) = queue[1] /\ Head(queue) \in Runnables
  BY TailIndex DEF TypeOK
<1>2. \A t \in Runnables : \A j, k \in DOMAIN queue : queue[j] = t /\ queue[k] = t => j = k
  BY DEF AtMostOneHome
<1>3. \A k \in DOMAIN queue' : k + 1 \in DOMAIN queue /\ k + 1 # 1 /\ queue'[k] = queue[k + 1]
  BY <1>1
<1>4. 1 \in DOMAIN queue
  BY <1>1
<1>5. ASSUME NEW t \in Runnables, t = Head(queue)  PROVE ~Queued(t)'
  <2> SUFFICES ASSUME NEW k \in DOMAIN queue', queue'[k] = Head(queue)  PROVE FALSE
    BY <1>5 DEF Queued
  <2>1. queue[k + 1] = Head(queue) /\ queue[1] = Head(queue)
    BY <1>1, <1>3
  <2> QED  BY <2>1, <1>1, <1>2, <1>3, <1>4
<1>6. \A t \in Runnables : Queued(t)' => Queued(t)
  BY <1>3 DEF Queued
<1>7. ASSUME NEW t \in Runnables, NEW j \in DOMAIN queue', NEW k \in DOMAIN queue',
             queue'[j] = t, queue'[k] = t
      PROVE  j = k
  <2>1. j + 1 = k + 1
    BY <1>2, <1>3, <1>7
  <2> QED  BY <1>1, <2>1
<1>8. Queued(Head(queue))
  BY <1>1, <1>4 DEF Queued
<1> QED  BY <1>1, <1>5, <1>6, <1>7, <1>8

LEMMA HomeStep == TypeOK /\ HomeInv /\ [Next]_vars => HomeInv'
<1> SUFFICES ASSUME TypeOK, HomeInv, [Next]_vars  PROVE HomeInv'
  OBVIOUS
<1> USE DEF HomeInv
<1>0. slot \in [Slots -> {"null"} \cup Live \cup Broken]
      /\ holding \in [Slots -> Runnables \cup {None}]
      /\ outcome \in [Runnables -> {"none", "executed", "taken", "discarded"}]
  BY DEF TypeOK
<1>1. ASSUME NEW i \in Slots, Pop(i), queue # << >>  PROVE HomeInv'
  <2> DEFINE h == Head(queue)
  <2>1. /\ h \in Runnables /\ Queued(h)
        /\ \A t \in Runnables : Queued(t)' => Queued(t) /\ t # h
        /\ \A t \in Runnables : \A j, k \in DOMAIN queue' :
              queue'[j] = t /\ queue'[k] = t => j = k
    BY <1>1, HomeDequeue DEF Pop
  <2>2. /\ holding' = [holding EXCEPT ![i] = h]
        /\ slot' = [slot EXCEPT ![i] = "running"]
        /\ outcome' = outcome
    BY <1>1 DEF Pop
  <2>3. ~Held(h) /\ outcome[h] = "none"
    BY <2>1 DEF AtMostOneHome
  <2>4. ASSUME NEW t \in Runnables, t # h  PROVE Held(t)' => Held(t)
    BY <1>0, <2>2, <2>4 DEF Held
  <2>5. ASSUME NEW t \in Runnables, NEW j \in Slots, NEW k \in Slots,
               holding'[j] = t, holding'[k] = t
        PROVE  j = k
    BY <1>0, <2>2, <2>3, <2>5 DEF AtMostOneHome, Held
  <2>6. ASSUME NEW t \in Runnables
        PROVE  /\ ~(Queued(t)' /\ Held(t)')
               /\ Queued(t)' \/ Held(t)' => outcome'[t] = "none"
    BY <2>1, <2>2, <2>3, <2>4 DEF AtMostOneHome
  <2>7. AtMostOneHome'
    BY <2>1, <2>5, <2>6 DEF AtMostOneHome
  <2>8. HoldsWhileRunning'
    BY <1>0, <2>1, <2>2, NoneAssumption DEF HoldsWhileRunning
  <2> QED  BY <2>7, <2>8
<1>2. ASSUME NEW i \in Slots, Pop(i), queue = << >>  PROVE HomeInv'
  <2>1. /\ UNCHANGED <<queue, holding, outcome>>
        /\ slot[i] = "ready" /\ slot' = [slot EXCEPT ![i] = "leaving"]
    BY <1>2 DEF Pop
  <2>2. HoldsWhileRunning'
    BY <1>0, <2>1 DEF HoldsWhileRunning
  <2> QED  BY <2>1, <2>2 DEF AtMostOneHome, Queued, Held
<1>3. ASSUME NEW i \in Slots, Finish(i)  PROVE HomeInv'
  <2> DEFINE h == holding[i]
  <2>1. /\ slot[i] = "running" /\ slot' = [slot EXCEPT ![i] = "ready"]
        /\ holding' = [holding EXCEPT ![i] = None]
        /\ outcome' = [outcome EXCEPT ![h] = "executed"]
        /\ queue' = queue
    BY <1>3 DEF Finish
  <2>2. h \in Runnables /\ Held(h)
    BY <1>0, <2>1 DEF HoldsWhileRunning, Held
  <2>3. ASSUME NEW t \in Runnables  PROVE (Queued(t)' <=> Queued(t)) /\ (Held(t)' => Held(t) /\ t # h)
    BY <1>0, <2>1, <2>2, NoneAssumption DEF Queued, Held, AtMostOneHome
  <2>4. ASSUME NEW t \in Runnables, NEW j \in Slots, NEW k \in Slots,
               holding'[j] = t, holding'[k] = t
        PROVE  j = k
    BY <1>0, <2>1, <2>4, NoneAssumption DEF AtMostOneHome
  <2>5. ASSUME NEW t \in Runnables
        PROVE  /\ ~(Queued(t)' /\ Held(t)')
               /\ Queued(t)' \/ Held(t)' => outcome'[t] = "none"
    BY <1>0, <2>1, <2>2, <2>3 DEF AtMostOneHome
  <2>6. AtMostOneHome'
    BY <2>1, <2>4, <2>5 DEF AtMostOneHome
  <2>7. HoldsWhileRunning'
    BY <1>0, <2>1 DEF HoldsWhileRunning
  <2> QED  BY <2>6, <2>7
<1>4. ASSUME NEW i \in Slots, Leave(i)  PROVE HomeInv'
  <2>1. UNCHANGED <<queue, holding, outcome>>
    BY <1>4 DEF Leave, history
  <2>2. HoldsWhileRunning'
    BY <1>0, <1>4, <2>1 DEF Leave, HoldsWhileRunning
  <2> QED  BY <2>1, <2>2 DEF AtMostOneHome, Queued, Held
<1>5. CASE OwnerPop
  <2> DEFINE h == Head(queue)
  <2>1. /\ h \in Runnables /\ Queued(h)
        /\ \A t \in Runnables : Queued(t)' => Queued(t) /\ t # h
        /\ \A t \in Runnables : \A j, k \in DOMAIN queue' :
              queue'[j] = t /\ queue'[k] = t => j = k
    BY <1>5, HomeDequeue DEF OwnerPop
  <2>2. /\ UNCHANGED <<slot, holding>>
        /\ outcome' = [outcome EXCEPT ![h] = "taken"]
    BY <1>5 DEF OwnerPop
  <2>3. ~Held(h)
    BY <2>1 DEF AtMostOneHome
  <2>4. ASSUME NEW t \in Runnables
        PROVE  /\ ~(Queued(t)' /\ Held(t)')
               /\ Queued(t)' \/ Held(t)' => outcome'[t] = "none"
    BY <1>0, <2>1, <2>2, <2>3 DEF AtMostOneHome, Held
  <2>5. AtMostOneHome'
    BY <2>1, <2>2, <2>4 DEF AtMostOneHome
  <2> QED  BY <2>2, <2>5 DEF HoldsWhileRunning
<1>6. CASE DestroyDone
  <2>1. queue' = << >> /\ UNCHANGED <<slot, holding>> /\ \A i \in Slots : slot[i] = "null"
    BY <1>6 DEF DestroyDone
  <2>2. \A t \in Runnables : ~Queued(t)' /\ ~Held(t)'
    BY <2>1, NoneAssumption DEF Queued, Held, HoldsWhileRunning
  <2> QED  BY <2>1, <2>2 DEF AtMostOneHome, HoldsWhileRunning
<1>7. ASSUME UNCHANGED <<queue, slot, holding, outcome>>  PROVE HomeInv'
  BY <1>7 DEF AtMostOneHome, HoldsWhileRunning, Queued, Held
<1>8. CASE JoinStep \/ JoinBegin \/ DestroyStuck \/ UNCHANGED vars
  BY <1>7, <1>8
  DEF JoinStep, JoinBegin, DestroyStuck, JoinScan, JoinReturn, JoinValid, JoinStale,
      JoinRecycled, JoinCrash, JoinRefused, JoinWait, history, vars
<1> QED
  BY <1>1, <1>2, <1>3, <1>4, <1>5, <1>6, <1>8, HomePush
  DEF Next, OwnerCall, OwnerPush, NestedPush, Worker

LEMMA HomeInvariant == Spec => [](TypeOK /\ HomeInv)
<1>1. Init => HomeInv
  BY NoneAssumption DEF Init, HomeInv, AtMostOneHome, HoldsWhileRunning, Queued, Held
<1> QED  BY <1>1, HomeStep, TypeCorrect, PTL DEF Spec

\* What the queue loses with its head is the head only.
LEMMA DequeuedOnly ==
    ASSUME TypeOK, queue # << >>, queue' = Tail(queue), NEW t \in Runnables, Queued(t)
    PROVE  Queued(t)' \/ t = Head(queue)
<1>1. /\ DOMAIN queue = 1 .. Len(queue) /\ Len(queue) \in Nat \ {0}
      /\ DOMAIN queue' = 1 .. Len(queue) - 1
      /\ \A k \in 1 .. Len(queue) - 1 : queue'[k] = queue[k + 1]
      /\ Head(queue) = queue[1]
  BY TailIndex DEF TypeOK
<1>2. PICK k \in DOMAIN queue : queue[k] = t
  BY DEF Queued
<1>3. CASE k = 1
  BY <1>1, <1>2, <1>3
<1>4. CASE k # 1
  <2>1. k - 1 \in DOMAIN queue' /\ queue'[k - 1] = t
    BY <1>1, <1>2, <1>4
  <2> QED  BY <2>1 DEF Queued
<1> QED  BY <1>3, <1>4

\* A step that leaves what was pushed alone keeps every runnable at home if none
\* leaves its place but for another, and none appears.
LEMMA StaysAtHome ==
    ASSUME NoneAstray, pushed' = pushed,
           \A t \in Runnables :
               Queued(t) \/ Held(t) \/ outcome[t] # "none"
               <=> Queued(t)' \/ Held(t)' \/ outcome'[t] # "none"
    PROVE  NoneAstray'
  BY DEF NoneAstray, Pushed

LEMMA AstrayPush ==
    ASSUME TypeOK, NoneAstray, NEW r \in Runnables, Push(r)
    PROVE  NoneAstray'
<1>1. /\ DOMAIN queue = 1 .. Len(queue) /\ Len(queue) \in Nat
      /\ DOMAIN queue' = 1 .. Len(queue) + 1
      /\ \A k \in 1 .. Len(queue) : queue'[k] = queue[k]
      /\ queue'[Len(queue) + 1] = r
  BY AppendIndex DEF Push, TypeOK
<1>2. /\ DOMAIN pushed = 1 .. Len(pushed) /\ Len(pushed) \in Nat
      /\ DOMAIN pushed' = 1 .. Len(pushed) + 1
      /\ \A k \in 1 .. Len(pushed) : pushed'[k] = pushed[k]
      /\ pushed'[Len(pushed) + 1] = r
  BY AppendIndex DEF Push, TypeOK
<1>3. holding' = holding /\ outcome' = outcome
  BY DEF Push
<1> SUFFICES ASSUME NEW t \in Runnables
             PROVE  Pushed(t)' <=> Queued(t)' \/ Held(t)' \/ outcome'[t] # "none"
  BY DEF NoneAstray
<1>4. Queued(t)' <=> Queued(t) \/ t = r
  BY <1>1 DEF Queued
<1>5. Pushed(t)' <=> Pushed(t) \/ t = r
  BY <1>2 DEF Pushed
<1>6. Held(t)' <=> Held(t)
  BY <1>3 DEF Held
<1> QED  BY <1>3, <1>4, <1>5, <1>6 DEF NoneAstray

LEMMA AstrayStep == TypeOK /\ HomeInv /\ NoneAstray /\ [Next]_vars => NoneAstray'
<1> SUFFICES ASSUME TypeOK, HomeInv, NoneAstray, [Next]_vars  PROVE NoneAstray'
  OBVIOUS
<1>0. /\ slot \in [Slots -> {"null"} \cup Live \cup Broken]
      /\ holding \in [Slots -> Runnables \cup {None}]
      /\ outcome \in [Runnables -> {"none", "executed", "taken", "discarded"}]
      /\ AtMostOneHome /\ HoldsWhileRunning
  BY DEF TypeOK, HomeInv
<1>1. ASSUME NEW i \in Slots, Pop(i), queue # << >>  PROVE NoneAstray'
  <2>1. /\ Head(queue) \in Runnables /\ Queued(Head(queue))
        /\ \A t \in Runnables : Queued(t)' => Queued(t)
    BY <1>0, <1>1, HomeDequeue DEF Pop
  <2>2. /\ holding' = [holding EXCEPT ![i] = Head(queue)]
        /\ slot[i] = "ready" /\ queue' = Tail(queue)
        /\ outcome' = outcome /\ pushed' = pushed
    BY <1>1 DEF Pop
  <2>3. holding[i] = None
    BY <1>0, <2>2 DEF HoldsWhileRunning
  <2>4. ASSUME NEW t \in Runnables  PROVE Held(t)' <=> Held(t) \/ t = Head(queue)
    BY <1>0, <2>2, <2>3, NoneAssumption DEF Held
  <2>5. ASSUME NEW t \in Runnables  PROVE Queued(t) => Queued(t)' \/ t = Head(queue)
    BY <1>1, <2>2, DequeuedOnly
  <2> QED  BY <2>1, <2>2, <2>4, <2>5, StaysAtHome
<1>2. ASSUME NEW i \in Slots, Pop(i), queue = << >>  PROVE NoneAstray'
  <2>1. UNCHANGED <<queue, holding, outcome, pushed>>
    BY <1>2 DEF Pop
  <2> QED  BY <2>1, StaysAtHome DEF Queued, Held
<1>3. ASSUME NEW i \in Slots, Finish(i)  PROVE NoneAstray'
  <2>1. /\ slot[i] = "running"
        /\ holding' = [holding EXCEPT ![i] = None]
        /\ outcome' = [outcome EXCEPT ![holding[i]] = "executed"]
        /\ queue' = queue /\ pushed' = pushed
    BY <1>3 DEF Finish
  <2>2. holding[i] \in Runnables /\ Held(holding[i])
    BY <1>0, <2>1 DEF HoldsWhileRunning, Held
  <2>3. ASSUME NEW t \in Runnables, t # holding[i]
        PROVE  (Held(t)' <=> Held(t)) /\ outcome'[t] = outcome[t]
    BY <1>0, <2>1, <2>2, <2>3, NoneAssumption DEF Held
  <2>4. outcome'[holding[i]] # "none"
    BY <1>0, <2>1, <2>2
  <2>5. ASSUME NEW t \in Runnables  PROVE Queued(t)' <=> Queued(t)
    BY <2>1 DEF Queued
  <2> QED  BY <2>1, <2>2, <2>3, <2>4, <2>5, StaysAtHome
<1>4. CASE OwnerPop
  <2>1. /\ Head(queue) \in Runnables /\ Queued(Head(queue))
        /\ \A t \in Runnables : Queued(t)' => Queued(t)
    BY <1>0, <1>4, HomeDequeue DEF OwnerPop
  <2>2. /\ queue # << >> /\ queue' = Tail(queue)
        /\ UNCHANGED <<holding, pushed>>
        /\ outcome' = [outcome EXCEPT ![Head(queue)] = "taken"]
    BY <1>4 DEF OwnerPop
  <2>3. ASSUME NEW t \in Runnables  PROVE Queued(t) => Queued(t)' \/ t = Head(queue)
    BY <2>2, DequeuedOnly
  <2>4. ASSUME NEW t \in Runnables  PROVE Held(t)' <=> Held(t)
    BY <2>2 DEF Held
  <2>5. outcome'[Head(queue)] # "none"
    BY <1>0, <2>1, <2>2
  <2>6. ASSUME NEW t \in Runnables, t # Head(queue)  PROVE outcome'[t] = outcome[t]
    BY <1>0, <2>1, <2>2, <2>6
  <2> QED  BY <2>1, <2>2, <2>3, <2>4, <2>5, <2>6, StaysAtHome
<1>5. CASE DestroyDone
  <2>1. /\ queue' = << >> /\ UNCHANGED <<holding, pushed>>
        /\ outcome' = [t \in Runnables |-> IF Queued(t) THEN "discarded" ELSE outcome[t]]
    BY <1>5 DEF DestroyDone
  <2>2. ASSUME NEW t \in Runnables  PROVE ~Queued(t)' /\ (Held(t)' <=> Held(t))
    BY <2>1 DEF Queued, Held
  <2> QED  BY <2>1, <2>2, StaysAtHome
<1>6. ASSUME UNCHANGED <<queue, holding, outcome, pushed>>  PROVE NoneAstray'
  BY <1>6, StaysAtHome DEF Queued, Held
<1>7. ASSUME NEW i \in Slots, Leave(i)  PROVE NoneAstray'
  BY <1>6, <1>7 DEF Leave, history
<1>8. CASE JoinStep \/ JoinBegin \/ DestroyStuck \/ UNCHANGED vars
  BY <1>6, <1>8
  DEF JoinStep, JoinBegin, DestroyStuck, JoinScan, JoinReturn, JoinValid, JoinStale,
      JoinRecycled, JoinCrash, JoinRefused, JoinWait, history, vars
<1> QED
  BY <1>1, <1>2, <1>3, <1>4, <1>5, <1>7, <1>8, AstrayPush
  DEF Next, OwnerCall, OwnerPush, NestedPush, Worker

\* A pushed runnable is in the queue once, or with one worker, or ended, and
\* nothing else is: it is never run or deleted a second time, and never lost.
THEOREM OneHome == Spec => []RunnableHasOneHome
<1>1. Init => NoneAstray
  BY NoneAssumption DEF Init, NoneAstray, Pushed, Queued, Held
<1> QED  BY <1>1, HomeInvariant, AstrayStep, PTL DEF Spec, HomeInv, RunnableHasOneHome
-----------------------------------------------------------------------------
(* join sees every worker.                                                 *)

\* The slots the scan has passed stay 0 as long as nobody pushes.
ScanInv == pc = "scan" /\ ~late => \A i \in Slots : i < at => slot[i] = "null"

QuiescenceInv == ScanInv /\ JoinQuiesces

LEMMA QuiescenceStep == TypeOK /\ QuiescenceInv /\ [Next]_vars => QuiescenceInv'
<1> SUFFICES ASSUME TypeOK, QuiescenceInv, [Next]_vars  PROVE QuiescenceInv'
  OBVIOUS
<1> USE DEF QuiescenceInv, ScanInv, JoinQuiesces
<1>0. /\ \A i \in Slots : i \in Int /\ 0 <= i /\ i < ThreadCount
      /\ at \in Int /\ ThreadCount \in Int
      /\ slot \in [Slots -> {"null"} \cup Live \cup Broken]
  BY ThreadCountAssumption DEF TypeOK, Slots
<1>1. ASSUME NEW r \in Runnables, Push(r)  PROVE QuiescenceInv'
  BY <1>1 DEF Push
<1>2. ASSUME UNCHANGED <<pc, at, late>>,
             \A i \in Slots : slot[i] = "null" => slot'[i] = "null"
      PROVE  QuiescenceInv'
  BY <1>2
<1>3. ASSUME NEW i \in Slots, Pop(i)  PROVE QuiescenceInv'
  <2>1. \A j \in Slots : slot[j] = "null" => slot'[j] = "null"
    BY <1>0, <1>3 DEF Pop
  <2> QED  BY <1>2, <1>3, <2>1 DEF Pop, joinVars
<1>4. ASSUME NEW i \in Slots, Finish(i)  PROVE QuiescenceInv'
  <2>1. \A j \in Slots : slot[j] = "null" => slot'[j] = "null"
    BY <1>0, <1>4 DEF Finish
  <2> QED  BY <1>2, <1>4, <2>1 DEF Finish, joinVars
<1>5. ASSUME NEW i \in Slots, Leave(i)  PROVE QuiescenceInv'
  <2>1. CASE pc' = "crashed"
    BY <2>1
  <2>2. CASE UNCHANGED pc /\ slot' = [slot EXCEPT ![i] = "null"]
    <3>1. \A j \in Slots : slot[j] = "null" => slot'[j] = "null"
      BY <1>0, <2>2
    <3> QED  BY <1>2, <1>5, <2>2, <3>1 DEF Leave
  <2> QED  BY <1>5, <2>1, <2>2 DEF Leave
<1>6. CASE OwnerPop
  BY <1>2, <1>6 DEF OwnerPop, joinVars
<1>7. CASE JoinBegin
  BY <1>0, <1>7 DEF JoinBegin
<1>8. CASE JoinScan
  <2>1. CASE slot[at] = "null" /\ at' = at + 1
    <3>1. \A i \in Slots : i < at + 1 => i < at \/ i = at
      BY <1>0
    <3> QED  BY <1>8, <2>1, <3>1 DEF JoinScan
  <2>2. CASE pc' = "deref"
    BY <2>2
  <2> QED  BY <1>8, <2>1, <2>2 DEF JoinScan
<1>9. CASE JoinReturn
  <2>1. pc = "scan" /\ at = ThreadCount /\ pc' = "joined" /\ UNCHANGED <<slot, late>>
    BY <1>9 DEF JoinReturn
  <2>2. \A i \in Slots : i < at
    BY <1>0, <2>1
  <2> QED  BY <2>1, <2>2
<1>10. CASE JoinStale \/ JoinRefused \/ JoinWait
  <2>1. pc' = "scan" /\ at' = 0
    BY <1>10 DEF JoinStale, JoinRefused, JoinWait, Rescan
  <2> QED  BY <1>0, <2>1
<1>11. CASE JoinValid \/ JoinCrash \/ DestroyStuck \/ DestroyDone
  <2>1. pc' \in {"wait", "crashed", "stuck", "gone"}
    BY <1>11 DEF JoinValid, JoinCrash, DestroyStuck, DestroyDone
  <2> QED  BY <2>1
<1>12. ASSUME NEW j \in Slots, JoinRecycled(j)  PROVE QuiescenceInv'
  BY <1>12 DEF JoinRecycled
<1>13. CASE UNCHANGED vars
  BY <1>2, <1>13 DEF vars
<1> QED
  BY <1>1, <1>3, <1>4, <1>5, <1>6, <1>7, <1>8, <1>9, <1>10, <1>11, <1>12, <1>13
  DEF Next, OwnerCall, OwnerPush, NestedPush, JoinStep, Worker

\* join returns only when every worker has left, if nobody pushed meanwhile.
THEOREM Quiescence == Spec => []JoinQuiesces
<1>1. Init => QuiescenceInv
  BY DEF Init, QuiescenceInv, ScanInv, JoinQuiesces
<1>2. Spec => []QuiescenceInv
  BY <1>1, QuiescenceStep, TypeCorrect, PTL DEF Spec
<1> QED  BY <1>2, PTL DEF QuiescenceInv

-----------------------------------------------------------------------------
(* Implementation of the task pool.                                        *)

LEMMA PoolInit == Init => Pool!Init
  BY DEF Init, Pool!Init

LEMMA PoolStep ==
    TypeOK /\ HomeInv /\ [Next]_vars => [Pool!Next]_(Pool!vars)
<1> SUFFICES ASSUME TypeOK, HomeInv, [Next]_vars  PROVE [Pool!Next]_(Pool!vars)
  OBVIOUS
<1> USE DEF Pool!vars
<1>0. /\ \A i \in Slots : slot[i] # "running" => holding[i] = None
      /\ \A i \in Slots : slot[i] = "running" => holding[i] # None
  BY DEF HomeInv, HoldsWhileRunning
<1>1. ASSUME NEW r \in Runnables, Push(r)  PROVE Pool!Next
  <2>1. Pool!Submit(r)
    BY <1>1 DEF Push, MutexFree, Ended, Fresh, Queued, Held, joinVars,
                Pool!Submit, Pool!Submitted
  <2> QED  BY <1>1, <2>1 DEF Pool!Next
<1>2. ASSUME NEW i \in Slots, Pop(i)  PROVE [Pool!Next]_(Pool!vars)
  <2>1. CASE queue # << >>
    <3>1. Pool!Start(i)
      BY <1>0, <1>2, <2>1 DEF Pop, joinVars, Pool!Start
    <3> QED  BY <3>1 DEF Pool!Next
  <2>2. CASE queue = << >>
    BY <1>2, <2>2 DEF Pop, joinVars
  <2> QED  BY <2>1, <2>2
<1>3. ASSUME NEW i \in Slots, Finish(i)  PROVE Pool!Next
  <2>1. Pool!Complete(i)
    BY <1>0, <1>3 DEF Finish, joinVars, Pool!Complete
  <2> QED  BY <2>1 DEF Pool!Next
<1>4. CASE OwnerPop
  <2>1. Pool!Withdraw
    BY <1>4 DEF OwnerPop, joinVars, Pool!Withdraw
  <2> QED  BY <2>1 DEF Pool!Next
<1>5. CASE DestroyDone
  <2>1. Pool!Close
    BY <1>0, <1>5 DEF DestroyDone, Idle, Queued, Pool!Close
  <2> QED  BY <2>1 DEF Pool!Next
<1>6. ASSUME UNCHANGED <<queue, holding, outcome>>, pc # "gone", pc' # "gone"
      PROVE  UNCHANGED Pool!vars
  BY <1>6
<1>7. ASSUME NEW i \in Slots, Leave(i)  PROVE UNCHANGED Pool!vars
  BY <1>6, <1>7 DEF Leave, MutexFree, Ended, history
<1>8. CASE JoinStep \/ JoinBegin \/ DestroyStuck
  <2>1. UNCHANGED <<queue, holding, outcome>>
    BY <1>8
    DEF JoinStep, JoinBegin, DestroyStuck, JoinScan, JoinReturn, JoinValid, JoinStale,
        JoinRecycled, JoinCrash, JoinRefused, JoinWait, history
  <2>2. pc # "gone" /\ pc' # "gone"
    BY <1>8
    DEF JoinStep, JoinBegin, DestroyStuck, JoinScan, JoinReturn, JoinValid, JoinStale,
        JoinRecycled, JoinCrash, JoinRefused, JoinWait, Rescan, Idle
  <2> QED  BY <1>6, <2>1, <2>2
<1>9. CASE UNCHANGED vars
  BY <1>9 DEF vars
<1> QED
  BY <1>1, <1>2, <1>3, <1>4, <1>5, <1>7, <1>8, <1>9
  DEF Next, OwnerCall, OwnerPush, NestedPush, Worker

\* thread_queue behaves as the task pool: tasks start in order, each at most
\* once and one per slot, and a destroyed queue runs nothing more.
THEOREM Implementation == Spec => ImplementsTaskPool
<1> QED  BY HomeInvariant, PoolInit, PoolStep, PTL DEF Spec, ImplementsTaskPool, Pool!Spec
=============================================================================
