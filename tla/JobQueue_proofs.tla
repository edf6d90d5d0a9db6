--------------------------- MODULE JobQueue_proofs ---------------------------
(***************************************************************************)
(* Proofs about JobQueue for every set of queue names and server keys and  *)
(* every bound: the inductive invariant IInv and what follows from it, that*)
(* the queue implements the job ledger, and that AdminApi, which adds no   *)
(* assumption to those of JobQueue, implements the queue.                  *)
(***************************************************************************)
EXTENDS AdminApi, SequenceTheorems, TLAPS

(***************************************************************************)
(* Facts about the three list operations of the scripts: RPUSH, LPOP and   *)
(* LPUSH.                                                                  *)
(***************************************************************************)

\* RPUSH: positions keep their elements and one is added at the end.
LEMMA AppendFacts ==
  ASSUME NEW S, NEW s \in Seq(S), NEW e \in S
  PROVE  /\ Append(s, e) \in Seq(S)
         /\ Append(s, e) # <<>>
         /\ DOMAIN Append(s, e) = 1 .. Len(s) + 1
         /\ DOMAIN s = 1 .. Len(s)
         /\ \A i \in DOMAIN s : Append(s, e)[i] = s[i]
         /\ Append(s, e)[Len(s) + 1] = e
         /\ Range(Append(s, e)) = Range(s) \cup {e}
<1>1. /\ Append(s, e) \in Seq(S)
      /\ Append(s, e) # <<>>
      /\ Len(Append(s, e)) = Len(s) + 1
      /\ \A i \in 1 .. Len(s) : Append(s, e)[i] = s[i]
      /\ Append(s, e)[Len(s) + 1] = e
  BY AppendProperties
<1>2. DOMAIN Append(s, e) = 1 .. Len(s) + 1 /\ DOMAIN s = 1 .. Len(s)
  BY <1>1, LenProperties
<1>3. Len(s) \in Nat
  BY LenProperties
<1>4. DOMAIN Append(s, e) = DOMAIN s \cup {Len(s) + 1}
  BY <1>2, <1>3
<1>5. Range(Append(s, e)) = Range(s) \cup {e}
  BY <1>1, <1>2, <1>3, <1>4 DEF Range
<1>6. QED
  BY <1>1, <1>2, <1>5

\* LPOP: every position but the first moves down by one.
LEMMA TailFacts ==
  ASSUME NEW S, NEW s \in Seq(S), s # <<>>
  PROVE  /\ Head(s) \in S
         /\ Head(s) = s[1]
         /\ Len(s) \in Nat \ {0}
         /\ DOMAIN s = 1 .. Len(s)
         /\ Tail(s) \in Seq(S)
         /\ DOMAIN Tail(s) = 1 .. Len(s) - 1
         /\ \A i \in DOMAIN Tail(s) : Tail(s)[i] = s[i + 1]
         /\ Range(s) = Range(Tail(s)) \cup {Head(s)}
<1>1. /\ Head(s) \in S
      /\ Tail(s) \in Seq(S)
      /\ Len(Tail(s)) = Len(s) - 1
      /\ \A i \in 1 .. Len(Tail(s)) : Tail(s)[i] = s[i + 1]
  BY HeadTailProperties
<1>2. /\ DOMAIN s = 1 .. Len(s)
      /\ Len(s) \in Nat
      /\ DOMAIN Tail(s) = 1 .. Len(s) - 1
  BY <1>1, LenProperties
<1>3. Head(s) = s[1] /\ Len(s) # 0
  BY EmptySeq
<1>4. Range(s) = Range(Tail(s)) \cup {Head(s)}
  <2>1. ASSUME NEW x \in Range(s)
        PROVE  x \in Range(Tail(s)) \cup {Head(s)}
    <3>1. PICK i \in 1 .. Len(s) : x = s[i]
      BY <2>1, <1>2 DEF Range
    <3>2. CASE i = 1
      BY <3>1, <3>2, <1>3
    <3>3. CASE i # 1
      <4>1. i - 1 \in DOMAIN Tail(s) /\ Tail(s)[i - 1] = s[i]
        BY <3>1, <3>3, <1>1, <1>2
      <4>2. QED
        BY <4>1, <3>1 DEF Range
    <3>4. QED
      BY <3>2, <3>3
  <2>2. ASSUME NEW x \in Range(Tail(s)) \cup {Head(s)}
        PROVE  x \in Range(s)
    <3>1. CASE x = Head(s)
      <4>1. 1 \in DOMAIN s
        BY <1>2, <1>3
      <4>2. QED
        BY <3>1, <4>1, <1>3 DEF Range
    <3>2. CASE x \in Range(Tail(s))
      <4>1. PICK i \in 1 .. Len(s) - 1 : x = Tail(s)[i]
        BY <3>2, <1>2 DEF Range
      <4>2. i + 1 \in DOMAIN s /\ x = s[i + 1]
        BY <4>1, <1>1, <1>2
      <4>3. QED
        BY <4>2 DEF Range
    <3>3. QED
      BY <2>2, <3>1, <3>2
  <2>3. QED
    BY <2>1, <2>2
<1>5. QED
  BY <1>1, <1>2, <1>3, <1>4

\* LPUSH: every position moves up by one and the new element is the first.
LEMMA PrependFacts ==
  ASSUME NEW S, NEW s \in Seq(S), NEW e \in S
  PROVE  /\ <<e>> \o s \in Seq(S)
         /\ <<e>> \o s # <<>>
         /\ Len(s) \in Nat
         /\ DOMAIN s = 1 .. Len(s)
         /\ DOMAIN (<<e>> \o s) = 1 .. Len(s) + 1
         /\ (<<e>> \o s)[1] = e
         /\ \A i \in 2 .. Len(s) + 1 : (<<e>> \o s)[i] = s[i - 1]
         /\ Range(<<e>> \o s) = Range(s) \cup {e}
<1> DEFINE t == <<e>> \o s
<1>0. /\ <<e>> \in Seq(S)
      /\ Len(<<e>>) = 1
      /\ <<e>>[1] = e
      /\ DOMAIN <<e>> = {1}
  OBVIOUS
<1>1. /\ t \in Seq(S)
      /\ Len(t) = 1 + Len(s)
      /\ \A i \in 1 .. 1 + Len(s) : t[i] = IF i <= 1 THEN <<e>>[i] ELSE s[i - 1]
  BY <1>0, ConcatProperties
<1>2. Len(s) \in Nat /\ DOMAIN s = 1 .. Len(s) /\ DOMAIN t = 1 .. 1 + Len(s)
  BY <1>1, LenProperties
<1>3. t[1] = e
  BY <1>0, <1>1, <1>2
<1>4. \A i \in 2 .. Len(s) + 1 : t[i] = s[i - 1]
  BY <1>1, <1>2
<1>5. t # <<>>
  BY <1>1, <1>2, EmptySeq
<1>6. Range(t) = Range(s) \cup {e}
  <2>1. Range(<<e>>) = {e}
    BY <1>0 DEF Range
  <2>2. Range(<<e>> \o s) = Range(<<e>>) \cup Range(s)
    BY <1>0, RangeConcatenation, ZenonT(30)
  <2>3. QED
    BY <2>1, <2>2
<1>7. QED
  BY <1>1, <1>2, <1>3, <1>4, <1>5, <1>6

-----------------------------------------------------------------------------

(***************************************************************************)
(* The inductive invariant, one lemma per successful operation.            *)
(***************************************************************************)

LEMMA InitIInv == Init => IInv
<1> SUFFICES ASSUME Init PROVE IInv
  OBVIOUS
<1>1. Job = {} /\ Len(pushes) = 0
  BY DEF Init, Job
<1>2. TypeOK
  BY <1>1 DEF Init, TypeOK, Replies
<1>3. \A n \in QueueName : queue[n] = <<>> /\ DOMAIN queue[n] = {} /\ Range(queue[n]) = {}
  BY DEF Init, Range
<1>4. DOMAIN inprogress = {}
  BY DEF Init
<1>5. NoJobLost /\ NoJobDuplicated
  BY <1>1, <1>3, <1>4
  DEF Init, NoJobLost, NoJobDuplicated, OnePosition, OneJobId, OneState
<1>6. NoOrphanList /\ HomeQueue /\ FreshJobsInOrder /\ OnlyPoppedJobsLeft
  BY <1>3, <1>4
  DEF Init, NoOrphanList, HomeQueue, FreshJobsInOrder, OnlyPoppedJobsLeft
<1>7. QED
  BY <1>2, <1>5, <1>6 DEF IInv

\* A call that raises, or a stuttering step, keeps the invariant.
LEMMA UnchangedIInv ==
  ASSUME IInv, reply' \in Replies, UNCHANGED <<redis, history>>
  PROVE  IInv'
<1>1. UNCHANGED <<queues, queue, jobid, inprogress,
                  pushes, popped, completed, returned, requeues>>
  BY DEF redis, history
<1>2. /\ UNCHANGED Job
      /\ \A j : (Queued(j)' <=> Queued(j)) /\ (Running(j)' <=> Running(j))
  BY <1>1 DEF Job, Queued, Running
<1>3. TypeOK'
  BY <1>1, <1>2 DEF IInv, TypeOK
<1>4. NoJobLost' /\ NoJobDuplicated'
  BY <1>1, <1>2
  DEF IInv, NoJobLost, NoJobDuplicated, OnePosition, OneJobId, OneState
<1>5. NoOrphanList' /\ HomeQueue' /\ FreshJobsInOrder' /\ OnlyPoppedJobsLeft'
  BY <1>1, <1>2
  DEF IInv, NoOrphanList, HomeQueue, FreshJobsInOrder, OnlyPoppedJobsLeft
<1>6. QED
  BY <1>3, <1>4, <1>5 DEF IInv

LEMMA CreateQueueIInv ==
  ASSUME IInv, NEW n \in QueueName, CreateQueue(n)
  PROVE  IInv'
<1>1. CASE Raise("Exception")
  BY <1>1, UnchangedIInv DEF Raise, Replies
<1>2. CASE /\ queues' = queues \cup {n}
           /\ reply' = "ok"
           /\ UNCHANGED <<queue, jobid, inprogress, history>>
  <2>1. UNCHANGED <<queue, jobid, inprogress,
                    pushes, popped, completed, returned, requeues>>
    BY <1>2 DEF history
  <2>2. /\ UNCHANGED Job
        /\ \A j : (Queued(j)' <=> Queued(j)) /\ (Running(j)' <=> Running(j))
    BY <2>1 DEF Job, Queued, Running
  <2>3. TypeOK'
    BY <1>2, <2>1, <2>2 DEF IInv, TypeOK, Replies
  <2>4. NoJobLost' /\ NoJobDuplicated'
    BY <2>1, <2>2
    DEF IInv, NoJobLost, NoJobDuplicated, OnePosition, OneJobId, OneState
  <2>5. NoOrphanList' /\ HomeQueue' /\ FreshJobsInOrder' /\ OnlyPoppedJobsLeft'
    BY <1>2, <2>1, <2>2
    DEF IInv, NoOrphanList, HomeQueue, FreshJobsInOrder, OnlyPoppedJobsLeft
  <2>6. QED
    BY <2>3, <2>4, <2>5 DEF IInv
<1>3. QED
  BY <1>1, <1>2 DEF CreateQueue

LEMMA DeleteQueueIInv ==
  ASSUME IInv, NEW n \in QueueName, DeleteQueue(n)
  PROVE  IInv'
<1>1. CASE Raise("QueueDoesNotExist")
  BY <1>1, UnchangedIInv DEF Raise, Replies
<1>2. CASE /\ n \in queues
           /\ queues' = queues \ {n}
           /\ returned' = returned \cup Range(queue[n])
           /\ queue' = [queue EXCEPT ![n] = <<>>]
           /\ reply' = "ok"
           /\ UNCHANGED <<jobid, inprogress, pushes, popped, completed, requeues>>
  <2>1. \A m \in QueueName : queue'[m] = IF m = n THEN <<>> ELSE queue[m]
    BY <1>2 DEF IInv, TypeOK
  <2>2. DOMAIN queue'[n] = {} /\ Range(queue'[n]) = {} /\ queue'[n] = <<>>
    BY <2>1 DEF Range
  <2>3. Range(queue[n]) \subseteq Job
    BY DEF IInv, HomeQueue
  <2>4. \A j : Running(j)' <=> Running(j)
    BY <1>2 DEF Running
  <2>5. \A j : Queued(j)' <=> Queued(j) /\ j \notin Range(queue[n])
    <3>1. \A m \in QueueName \ {n} : Range(queue[m]) \cap Range(queue[n]) = {}
      BY DEF IInv, NoJobDuplicated, OnePosition, Range
    <3>2. QED
      BY <2>1, <2>2, <3>1 DEF Queued
  <2>6. UNCHANGED Job
    BY <1>2 DEF Job
  <2>7. TypeOK'
    <3>1. queue' \in [QueueName -> Seq(Nat \ {0})]
      BY <1>2 DEF IInv, TypeOK
    <3>2. QED
      BY <1>2, <2>3, <2>6, <3>1 DEF IInv, TypeOK, Replies
  <2>8. NoJobLost'
    BY <1>2, <2>4, <2>5, <2>6 DEF IInv, NoJobLost
  <2>9. OnePosition'
    BY <2>1, <2>2 DEF IInv, NoJobDuplicated, OnePosition
  <2>10. OneJobId'
    BY <1>2 DEF IInv, NoJobDuplicated, OneJobId
  <2>11. OneState'
    <3>1. \A j \in Range(queue[n]) : Queued(j)
      BY DEF Queued
    <3>2. QED
      BY <1>2, <2>4, <2>5, <2>6, <3>1 DEF IInv, NoJobDuplicated, OneState
  <2>12. NoOrphanList' /\ FreshJobsInOrder'
    BY <1>2, <2>1, <2>2 DEF IInv, NoOrphanList, FreshJobsInOrder
  <2>13. HomeQueue' /\ OnlyPoppedJobsLeft'
    BY <1>2, <2>1, <2>2, <2>6 DEF IInv, HomeQueue, OnlyPoppedJobsLeft
  <2>14. QED
    BY <2>7, <2>8, <2>9, <2>10, <2>11, <2>12, <2>13 DEF IInv, NoJobDuplicated
<1>3. QED
  BY <1>1, <1>2 DEF DeleteQueue

LEMMA PushIInv ==
  ASSUME IInv, NEW n \in QueueName, NEW k, Push(n, k)
  PROVE  IInv'
<1>1. CASE Raise("Exception") \/ Raise("QueueDoesNotExist")
  BY <1>1, UnchangedIInv DEF Raise, Replies
<1>2. CASE /\ n \in queues
           /\ queue' = [queue EXCEPT ![n] = Append(@, Len(pushes) + 1)]
           /\ pushes' = Append(pushes, n)
           /\ reply' = "ok"
           /\ UNCHANGED <<queues, jobid, inprogress,
                          popped, completed, returned, requeues>>
  <2> DEFINE new == Len(pushes) + 1
  <2>1. /\ Len(pushes) \in Nat
        /\ pushes' \in Seq(QueueName)
        /\ DOMAIN pushes = 1 .. Len(pushes)
        /\ DOMAIN pushes' = 1 .. new
        /\ Len(pushes') = new
        /\ \A j \in Job : pushes'[j] = pushes[j]
        /\ pushes'[new] = n
    BY <1>2, AppendFacts, AppendProperties, LenProperties DEF IInv, TypeOK, Job
  <2>2. Job' = Job \cup {new} /\ new \notin Job /\ new \in Nat \ {0}
    BY <2>1 DEF Job
  <2>3. \A j \in Job : j < new
    BY <2>1 DEF Job
  <2>4. queue[n] \in Seq(Nat \ {0})
    BY DEF IInv, TypeOK
  <2>5. /\ Append(queue[n], new) \in Seq(Nat \ {0})
        /\ DOMAIN Append(queue[n], new) = 1 .. Len(queue[n]) + 1
        /\ DOMAIN queue[n] = 1 .. Len(queue[n])
        /\ \A i \in DOMAIN queue[n] : Append(queue[n], new)[i] = queue[n][i]
        /\ Append(queue[n], new)[Len(queue[n]) + 1] = new
        /\ Range(Append(queue[n], new)) = Range(queue[n]) \cup {new}
    BY <2>2, <2>4, AppendFacts, SMTT(30)
  <2>6. \A m \in QueueName :
            queue'[m] = IF m = n THEN Append(queue[n], new) ELSE queue[m]
    BY <1>2 DEF IInv, TypeOK
  <2>7. Len(queue[n]) \in Nat
    BY <2>4, LenProperties
  <2>8. \A m \in QueueName : Range(queue[m]) \subseteq Job
    BY DEF IInv, HomeQueue
  \* A position of the new lists is an old one, or the new one at the end.
  <2>9. ASSUME NEW m \in QueueName, NEW i \in DOMAIN queue'[m]
        PROVE  \/ i \in DOMAIN queue[m] /\ queue'[m][i] = queue[m][i]
                  /\ queue'[m][i] \in Job
               \/ m = n /\ i = Len(queue[n]) + 1 /\ queue'[m][i] = new
    <3>1. CASE m # n
      BY <3>1, <2>6, <2>8 DEF Range
    <3>2. CASE m = n
      <4>1. queue'[m] = Append(queue[n], new) /\ i \in 1 .. Len(queue[n]) + 1
        BY <3>2, <2>5, <2>6
      <4>2. CASE i = Len(queue[n]) + 1
        BY <3>2, <4>1, <4>2, <2>5
      <4>3. CASE i # Len(queue[n]) + 1
        <5>1. i \in DOMAIN queue[n]
          BY <4>1, <4>3, <2>5, <2>7
        <5>2. queue'[m][i] = queue[n][i] /\ queue[n][i] \in Job
          BY <5>1, <4>1, <2>5, <2>8 DEF Range
        <5>3. QED
          BY <3>2, <5>1, <5>2
      <4>4. QED
        BY <4>2, <4>3
    <3>3. QED
      BY <3>1, <3>2
  <2>10. \A j : Queued(j)' <=> Queued(j) \/ j = new
    BY <2>5, <2>6 DEF Queued
  <2>11. \A j : Running(j)' <=> Running(j)
    BY <1>2 DEF Running
  <2>12. \A j : Queued(j) \/ Running(j) => j \in Job
    BY <2>8 DEF IInv, HomeQueue, Queued, Running
  <2>13. TypeOK'
    <3>1. queue' \in [QueueName -> Seq(Nat \ {0})]
      BY <1>2, <2>5 DEF IInv, TypeOK
    <3>2. QED
      BY <1>2, <2>1, <2>2, <3>1 DEF IInv, TypeOK, Replies
  <2>14. NoJobLost'
    BY <1>2, <2>2, <2>10, <2>11 DEF IInv, NoJobLost
  <2>15. OnePosition'
    <3> SUFFICES ASSUME NEW a \in QueueName, NEW b \in QueueName,
                        NEW i \in DOMAIN queue'[a], NEW l \in DOMAIN queue'[b],
                        queue'[a][i] = queue'[b][l]
                 PROVE  a = b /\ i = l
      BY DEF OnePosition
    <3>1. CASE queue'[a][i] = new
      <4>1. queue'[a][i] \notin Job /\ queue'[b][l] \notin Job
        BY <3>1, <2>2
      <4>2. a = n /\ i = Len(queue[n]) + 1 /\ b = n /\ l = Len(queue[n]) + 1
        BY <4>1, <2>9
      <4>3. QED
        BY <4>2
    <3>2. CASE queue'[a][i] # new
      <4>1. /\ i \in DOMAIN queue[a] /\ queue'[a][i] = queue[a][i]
            /\ l \in DOMAIN queue[b] /\ queue'[b][l] = queue[b][l]
        BY <3>2, <2>9
      <4>2. queue[a][i] = queue[b][l]
        BY <4>1
      <4>3. QED
        BY <4>1, <4>2 DEF IInv, NoJobDuplicated, OnePosition
    <3>3. QED
      BY <3>1, <3>2
  <2>16. OneJobId'
    BY <1>2 DEF IInv, NoJobDuplicated, OneJobId
  <2>17. OneState'
    <3>1. new \notin completed \cup returned
      BY <2>2 DEF IInv, TypeOK
    <3>2. QED
      BY <1>2, <2>2, <2>10, <2>11, <2>12, <3>1
      DEF IInv, NoJobDuplicated, OneState
  <2>18. NoOrphanList'
    BY <1>2, <2>6 DEF IInv, NoOrphanList
  <2>19. HomeQueue'
    <3>1. \A m \in QueueName : \A j \in Range(queue'[m]) :
              j \in Job' /\ pushes'[j] = m
      <4> SUFFICES ASSUME NEW m \in QueueName, NEW j \in Range(queue'[m])
                   PROVE  j \in Job' /\ pushes'[j] = m
        OBVIOUS
      <4>1. CASE j \in Range(queue[m])
        BY <4>1, <2>1, <2>2 DEF IInv, HomeQueue
      <4>2. CASE j \notin Range(queue[m])
        BY <4>2, <2>1, <2>2, <2>5, <2>6
      <4>3. QED
        BY <4>1, <4>2
    <3>2. HomeQueue
      BY DEF IInv
    <3>3. \A h \in DOMAIN inprogress' :
              /\ inprogress'[h].job \in Job'
              /\ pushes'[inprogress'[h].job] = inprogress'[h].queue
      BY ONLY <1>2, <2>1, <2>2, <3>2 DEF HomeQueue
    <3>4. QED
      BY <3>1, <3>3 DEF HomeQueue
  <2>20. FreshJobsInOrder'
    <3> SUFFICES ASSUME NEW m \in QueueName,
                        NEW i \in DOMAIN queue'[m], NEW l \in DOMAIN queue'[m],
                        i < l, queue'[m][i] \notin popped'
                 PROVE  queue'[m][l] \notin popped' /\ queue'[m][i] < queue'[m][l]
      BY DEF FreshJobsInOrder
    <3>1. CASE l \in DOMAIN queue[m] /\ queue'[m][l] = queue[m][l]
      <4>1. i \in DOMAIN queue[m] /\ queue'[m][i] = queue[m][i]
        BY <3>1, <2>5, <2>7, <2>9
      <4>2. QED
        BY <1>2, <3>1, <4>1 DEF IInv, FreshJobsInOrder
    <3>2. CASE m = n /\ l = Len(queue[n]) + 1 /\ queue'[m][l] = new
      <4>1. queue'[m][i] \in Job
        BY <3>2, <2>7, <2>9
      <4>2. new \notin popped
        BY <2>2 DEF IInv, TypeOK
      <4>3. QED
        BY <1>2, <3>2, <4>1, <4>2, <2>3
    <3>3. QED
      BY <2>9, <3>1, <3>2
  <2>21. OnlyPoppedJobsLeft'
    BY <1>2 DEF IInv, OnlyPoppedJobsLeft
  <2>22. QED
    BY <2>13, <2>14, <2>15, <2>16, <2>17, <2>18, <2>19, <2>20, <2>21
    DEF IInv, NoJobDuplicated
<1>3. QED
  BY <1>1, <1>2 DEF Push

LEMMA PopIInv ==
  ASSUME IInv, NEW n \in QueueName, NEW s \in ServerKey, Pop(n, s)
  PROVE  IInv'
<1>1. CASE Raise("QueueDoesNotExist") \/ Raise("EmptyJobQueue")
  BY <1>1, UnchangedIInv DEF Raise, Replies
<1>2. CASE /\ n \in queues
           /\ queue[n] # <<>>
           /\ queue' = [queue EXCEPT ![n] = Tail(@)]
           /\ jobid' = jobid + 1
           /\ inprogress' = HSet(inprogress, jobid + 1,
                                 [queue  |-> n,
                                  server |-> s,
                                  job    |-> Head(queue[n])])
           /\ popped' = popped \cup {Head(queue[n])}
           /\ reply' = "ok"
           /\ UNCHANGED <<queues, pushes, completed, returned, requeues>>
  <2> DEFINE j0  == Head(queue[n])
             id0 == jobid + 1
  <2>1. queue[n] \in Seq(Nat \ {0})
    BY DEF IInv, TypeOK
  <2>2. /\ j0 \in Nat \ {0}
        /\ j0 = queue[n][1]
        /\ Len(queue[n]) \in Nat \ {0}
        /\ DOMAIN queue[n] = 1 .. Len(queue[n])
        /\ Tail(queue[n]) \in Seq(Nat \ {0})
        /\ DOMAIN Tail(queue[n]) = 1 .. Len(queue[n]) - 1
        /\ \A i \in DOMAIN Tail(queue[n]) : Tail(queue[n])[i] = queue[n][i + 1]
        /\ Range(queue[n]) = Range(Tail(queue[n])) \cup {j0}
    BY <1>2, <2>1, TailFacts
  <2>3. \A m \in QueueName :
            queue'[m] = IF m = n THEN Tail(queue[n]) ELSE queue[m]
    BY <1>2 DEF IInv, TypeOK
  <2>4. 1 \in DOMAIN queue[n]
    BY <2>2
  <2>5. /\ j0 \in Job /\ pushes[j0] = n /\ Queued(j0)
        /\ ~Running(j0) /\ j0 \notin completed \cup returned
    <3>1. j0 \in Range(queue[n])
      BY <2>2
    <3>2. j0 \in Job /\ pushes[j0] = n /\ Queued(j0)
      BY <3>1 DEF IInv, HomeQueue, Queued
    <3>3. QED
      BY <3>2 DEF IInv, NoJobDuplicated, OneState
  <2>6. UNCHANGED Job
    BY <1>2 DEF Job
  \* A position of the new lists is an old one, one higher up in list n.
  <2>7. ASSUME NEW m \in QueueName, NEW i \in DOMAIN queue'[m]
        PROVE  LET o == IF m = n THEN i + 1 ELSE i
               IN  /\ o \in DOMAIN queue[m]
                   /\ queue'[m][i] = queue[m][o]
                   /\ queue[m][o] # j0
    <3>1. CASE m # n
      <4>1. i \in DOMAIN queue[m] /\ queue'[m][i] = queue[m][i]
        BY <3>1, <2>3
      <4>2. queue[m][i] # queue[n][1]
        BY <3>1, <2>4, <4>1 DEF IInv, NoJobDuplicated, OnePosition
      <4>3. QED
        BY <3>1, <4>1, <4>2, <2>2
    <3>2. CASE m = n
      <4>0. queue'[m] = Tail(queue[n]) /\ i \in DOMAIN Tail(queue[n])
        BY <3>2, <2>3
      <4>1. /\ i \in 1 .. Len(queue[n]) - 1
            /\ i + 1 \in DOMAIN queue[n]
            /\ i + 1 # 1
            /\ queue'[m][i] = queue[n][i + 1]
        BY <4>0, <2>2
      <4>2. queue[n][i + 1] # queue[n][1]
        BY <2>4, <4>1 DEF IInv, NoJobDuplicated, OnePosition
      <4>3. QED
        BY <3>2, <4>1, <4>2, <2>2
    <3>3. QED
      BY <3>1, <3>2
  <2>8. \A j : Queued(j)' <=> Queued(j) /\ j # j0
    <3>1. \A m \in QueueName : j0 \notin Range(queue'[m])
      BY <2>7 DEF Range
    <3>2. \A m \in QueueName : \A j : j # j0 =>
              (j \in Range(queue'[m]) <=> j \in Range(queue[m]))
      BY <2>2, <2>3
    <3>3. QED
      BY <3>1, <3>2 DEF Queued
  <2>9. /\ jobid \in Nat /\ id0 \notin DOMAIN inprogress
        /\ DOMAIN inprogress' = DOMAIN inprogress \cup {id0}
        /\ \A id \in DOMAIN inprogress : inprogress'[id] = inprogress[id]
        /\ inprogress'[id0] = [queue |-> n, server |-> s, job |-> j0]
    BY <1>2 DEF IInv, TypeOK, HSet
  <2>10. \A j : Running(j)' <=> Running(j) \/ j = j0
    BY <2>9 DEF Running
  <2>11. TypeOK'
    <3>1. queue' \in [QueueName -> Seq(Nat \ {0})]
      BY <1>2, <2>2 DEF IInv, TypeOK
    <3>2. DOMAIN inprogress' \subseteq 1 .. jobid'
      BY <1>2, <2>9 DEF IInv, TypeOK
    <3>3. inprogress' \in [DOMAIN inprogress' -> InProgressJob]
      <4>1. inprogress'[id0] \in InProgressJob
        BY <2>2, <2>9 DEF InProgressJob
      <4>2. \A id \in DOMAIN inprogress' : inprogress'[id] \in InProgressJob
        BY <2>9, <4>1 DEF IInv, TypeOK
      <4>3. inprogress' = [id \in DOMAIN inprogress' |-> inprogress'[id]]
        BY <1>2 DEF HSet
      <4>4. QED
        BY <4>2, <4>3
    <3>4. QED
      BY <1>2, <2>5, <2>6, <3>1, <3>2, <3>3 DEF IInv, TypeOK, Replies
  <2>12. NoJobLost'
    BY <1>2, <2>6, <2>8, <2>10 DEF IInv, NoJobLost
  <2>13. OnePosition'
    <3> SUFFICES ASSUME NEW a \in QueueName, NEW b \in QueueName,
                        NEW i \in DOMAIN queue'[a], NEW l \in DOMAIN queue'[b],
                        queue'[a][i] = queue'[b][l]
                 PROVE  a = b /\ i = l
      BY DEF OnePosition
    <3> DEFINE oi == IF a = n THEN i + 1 ELSE i
               ol == IF b = n THEN l + 1 ELSE l
    <3>1. /\ oi \in DOMAIN queue[a] /\ queue'[a][i] = queue[a][oi]
          /\ ol \in DOMAIN queue[b] /\ queue'[b][l] = queue[b][ol]
      BY <2>7
    <3>2. a = b /\ oi = ol
      <4> HIDE DEF oi, ol
      <4>1. queue[a][oi] = queue[b][ol]
        BY <3>1
      <4>2. QED
        BY <3>1, <4>1 DEF IInv, NoJobDuplicated, OnePosition
    <3>3. CASE a = n
      <4>1. queue'[a] = Tail(queue[n]) /\ queue'[b] = Tail(queue[n])
        BY <2>3, <3>2, <3>3
      <4>2. i \in 1 .. Len(queue[n]) - 1 /\ l \in 1 .. Len(queue[n]) - 1
        BY <2>2, <4>1
      <4>3. QED
        BY <2>2, <3>2, <3>3, <4>2
    <3>4. CASE a # n
      BY <3>2, <3>4
    <3>5. QED
      BY <3>3, <3>4
  <2>14. OneJobId'
    BY <2>5, <2>9 DEF IInv, NoJobDuplicated, OneJobId, Running
  <2>15. OneState'
    BY <1>2, <2>5, <2>6, <2>8, <2>10 DEF IInv, NoJobDuplicated, OneState
  <2>16. NoOrphanList'
    BY <1>2, <2>3 DEF IInv, NoOrphanList
  <2>17. HomeQueue'
    <3>1. \A m \in QueueName : Range(queue'[m]) \subseteq Range(queue[m])
      BY <2>2, <2>3
    <3>2. QED
      BY <1>2, <2>5, <2>6, <2>9, <3>1 DEF IInv, HomeQueue
  <2>18. FreshJobsInOrder'
    <3> SUFFICES ASSUME NEW m \in QueueName,
                        NEW i \in DOMAIN queue'[m], NEW l \in DOMAIN queue'[m],
                        i < l, queue'[m][i] \notin popped'
                 PROVE  queue'[m][l] \notin popped' /\ queue'[m][i] < queue'[m][l]
      BY DEF FreshJobsInOrder
    <3> DEFINE oi == IF m = n THEN i + 1 ELSE i
               ol == IF m = n THEN l + 1 ELSE l
    <3>1. /\ oi \in DOMAIN queue[m] /\ queue'[m][i] = queue[m][oi]
          /\ ol \in DOMAIN queue[m] /\ queue'[m][l] = queue[m][ol]
          /\ queue[m][ol] # j0
      BY <2>7
    <3>2. oi < ol
      <4>1. CASE m = n
        <5>1. queue'[m] = Tail(queue[n])
          BY <2>3, <4>1
        <5>2. i \in 1 .. Len(queue[n]) - 1 /\ l \in 1 .. Len(queue[n]) - 1
          BY <2>2, <5>1
        <5>3. QED
          BY <2>2, <4>1, <5>2
      <4>2. CASE m # n
        BY <4>2
      <4>3. QED
        BY <4>1, <4>2
    <3>3. queue[m][ol] \notin popped /\ queue[m][oi] < queue[m][ol]
      <4> HIDE DEF oi, ol
      <4>1. queue[m][oi] \notin popped
        BY <1>2, <3>1
      <4>2. QED
        BY <3>1, <3>2, <4>1 DEF IInv, FreshJobsInOrder
    <3>4. QED
      BY <1>2, <3>1, <3>3
  <2>19. OnlyPoppedJobsLeft'
    BY <1>2, <2>9 DEF IInv, OnlyPoppedJobsLeft
  <2>20. QED
    BY <2>11, <2>12, <2>13, <2>14, <2>15, <2>16, <2>17, <2>18, <2>19
    DEF IInv, NoJobDuplicated
<1>3. QED
  BY <1>1, <1>2 DEF Pop

LEMMA NoSuchJobIInv ==
  ASSUME IInv, NEW id, NoSuchJob(id)
  PROVE  IInv'
BY UnchangedIInv DEF NoSuchJob, Raise, Replies

\* HDEL: the other entries stay as they are.
LEMMA HDelFacts ==
  ASSUME NEW hash, NEW key \in DOMAIN hash
  PROVE  /\ DOMAIN HDel(hash, key) = DOMAIN hash \ {key}
         /\ \A k \in DOMAIN hash \ {key} : HDel(hash, key)[k] = hash[k]
         /\ \A T : hash \in [DOMAIN hash -> T] =>
                       HDel(hash, key) \in [DOMAIN hash \ {key} -> T]
BY DEF HDel, Restrict

LEMMA RemoveInProgressIInv ==
  ASSUME IInv, NEW id \in Int, RemoveInProgress(id)
  PROVE  IInv'
<1>1. CASE NoSuchJob(id)
  BY <1>1, NoSuchJobIInv
<1>2. CASE /\ id \in DOMAIN inprogress
           /\ completed' = completed \cup {inprogress[id].job}
           /\ inprogress' = HDel(inprogress, id)
           /\ reply' = "ok"
           /\ UNCHANGED <<queues, queue, jobid, pushes, popped, returned, requeues>>
  <2> DEFINE j0 == inprogress[id].job
  <2>1. /\ DOMAIN inprogress' = DOMAIN inprogress \ {id}
        /\ \A k \in DOMAIN inprogress \ {id} : inprogress'[k] = inprogress[k]
        /\ inprogress' \in [DOMAIN inprogress' -> InProgressJob]
    BY <1>2, HDelFacts DEF IInv, TypeOK
  <2>2. /\ j0 \in Job /\ j0 \in popped /\ Running(j0)
        /\ ~Queued(j0) /\ j0 \notin completed \cup returned
    BY <1>2 DEF IInv, HomeQueue, OnlyPoppedJobsLeft, NoJobDuplicated, OneState,
                Running
  <2>3. UNCHANGED Job /\ \A j : Queued(j)' <=> Queued(j)
    BY <1>2 DEF Job, Queued
  <2>4. \A j : Running(j)' <=> Running(j) /\ j # j0
    BY <1>2, <2>1 DEF IInv, NoJobDuplicated, OneJobId, Running
  <2>5. TypeOK'
    BY <1>2, <2>1, <2>2, <2>3 DEF IInv, TypeOK, Replies
  <2>6. NoJobLost'
    BY <1>2, <2>3, <2>4 DEF IInv, NoJobLost
  <2>7. OnePosition' /\ OneJobId'
    BY <1>2, <2>1 DEF IInv, NoJobDuplicated, OnePosition, OneJobId
  <2>8. OneState'
    BY <1>2, <2>2, <2>3, <2>4 DEF IInv, NoJobDuplicated, OneState
  <2>9. NoOrphanList' /\ FreshJobsInOrder'
    BY <1>2 DEF IInv, NoOrphanList, FreshJobsInOrder
  <2>10. HomeQueue' /\ OnlyPoppedJobsLeft'
    BY <1>2, <2>1, <2>2, <2>3 DEF IInv, HomeQueue, OnlyPoppedJobsLeft
  <2>11. QED
    BY <2>5, <2>6, <2>7, <2>8, <2>9, <2>10 DEF IInv, NoJobDuplicated
<1>3. QED
  BY <1>1, <1>2 DEF RemoveInProgress

LEMMA RequeueInProgressIInv ==
  ASSUME IInv, NEW id \in Int, RequeueInProgress(id)
  PROVE  IInv'
<1>1. CASE NoSuchJob(id) \/ Raise("QueueDoesNotExist")
  BY <1>1, NoSuchJobIInv, UnchangedIInv DEF Raise, Replies
<1>2. CASE /\ id \in DOMAIN inprogress
           /\ inprogress[id].queue \in queues
           /\ queue' = [queue EXCEPT ![inprogress[id].queue] =
                                         <<inprogress[id].job>> \o @]
           /\ inprogress' = HDel(inprogress, id)
           /\ requeues' = requeues + 1
           /\ reply' = "ok"
           /\ UNCHANGED <<queues, jobid, pushes, popped, completed, returned>>
  <2> DEFINE j0 == inprogress[id].job
             n  == inprogress[id].queue
  <2>1. /\ DOMAIN inprogress' = DOMAIN inprogress \ {id}
        /\ \A k \in DOMAIN inprogress \ {id} : inprogress'[k] = inprogress[k]
        /\ inprogress' \in [DOMAIN inprogress' -> InProgressJob]
    BY <1>2, HDelFacts DEF IInv, TypeOK
  <2>2. /\ j0 \in Job /\ j0 \in popped /\ Running(j0) /\ pushes[j0] = n
        /\ ~Queued(j0) /\ j0 \notin completed \cup returned
    BY <1>2 DEF IInv, HomeQueue, OnlyPoppedJobsLeft, NoJobDuplicated, OneState,
                Running
  <2>3. n \in QueueName /\ n \in queues /\ j0 \in Nat \ {0}
    BY <1>2 DEF IInv, TypeOK, InProgressJob
  <2>4. queue[n] \in Seq(Nat \ {0})
    BY <2>3 DEF IInv, TypeOK
  <2> HIDE DEF j0, n
  <2>5. /\ <<j0>> \o queue[n] \in Seq(Nat \ {0})
        /\ Len(queue[n]) \in Nat
        /\ DOMAIN queue[n] = 1 .. Len(queue[n])
        /\ DOMAIN (<<j0>> \o queue[n]) = 1 .. Len(queue[n]) + 1
        /\ (<<j0>> \o queue[n])[1] = j0
        /\ \A i \in 2 .. Len(queue[n]) + 1 :
               (<<j0>> \o queue[n])[i] = queue[n][i - 1]
        /\ Range(<<j0>> \o queue[n]) = Range(queue[n]) \cup {j0}
    BY <2>3, <2>4, PrependFacts
  <2>6. \A m \in QueueName :
            queue'[m] = IF m = n THEN <<j0>> \o queue[n] ELSE queue[m]
    BY <1>2 DEF IInv, TypeOK, j0, n
  \* A position of the new lists is the first of list n, or an old one, in
  \* list n one lower down.
  <2>7. ASSUME NEW m \in QueueName, NEW i \in DOMAIN queue'[m]
        PROVE  \/ m = n /\ i = 1 /\ queue'[m][i] = j0
               \/ LET o == IF m = n THEN i - 1 ELSE i
                  IN  /\ m = n => i \in 2 .. Len(queue[n]) + 1
                      /\ o \in DOMAIN queue[m]
                      /\ queue'[m][i] = queue[m][o]
                      /\ queue[m][o] # j0
    <3>1. \A o \in DOMAIN queue[m] : queue[m][o] # j0
      BY <2>2 DEF Queued, Range
    <3>2. CASE m # n
      BY <3>1, <3>2, <2>6
    <3>3. CASE m = n
      <4>1. queue'[m] = <<j0>> \o queue[n] /\ i \in 1 .. Len(queue[n]) + 1
        BY <3>3, <2>5, <2>6
      <4>2. CASE i = 1
        BY <3>3, <4>1, <4>2, <2>5
      <4>3. CASE i # 1
        <5>1. i \in 2 .. Len(queue[n]) + 1 /\ i - 1 \in DOMAIN queue[n]
          BY <4>1, <4>3, <2>5
        <5>2. queue'[m][i] = queue[n][i - 1]
          BY <5>1, <4>1, <2>5
        <5>3. QED
          BY <3>1, <3>3, <5>1, <5>2
      <4>4. QED
        BY <4>2, <4>3
    <3>4. QED
      BY <3>2, <3>3
  <2>8. UNCHANGED Job
    BY <1>2 DEF Job
  <2>9. \A j : Queued(j)' <=> Queued(j) \/ j = j0
    BY <2>3, <2>5, <2>6 DEF Queued
  <2>10. \A j : Running(j)' <=> Running(j) /\ j # j0
    BY <1>2, <2>1 DEF IInv, NoJobDuplicated, OneJobId, Running, j0
  <2>11. TypeOK'
    <3>1. queue' \in [QueueName -> Seq(Nat \ {0})]
      BY <1>2, <2>3, <2>5 DEF IInv, TypeOK, j0, n
    <3>2. QED
      BY <1>2, <2>1, <2>8, <3>1 DEF IInv, TypeOK, Replies
  <2>12. NoJobLost'
    BY <1>2, <2>8, <2>9, <2>10 DEF IInv, NoJobLost
  <2>13. OnePosition'
    <3> SUFFICES ASSUME NEW a \in QueueName, NEW b \in QueueName,
                        NEW i \in DOMAIN queue'[a], NEW l \in DOMAIN queue'[b],
                        queue'[a][i] = queue'[b][l]
                 PROVE  a = b /\ i = l
      BY DEF OnePosition
    <3>1. CASE queue'[a][i] = j0
      <4>1. a = n /\ i = 1
        BY <3>1, <2>7
      <4>2. queue'[b][l] = j0
        BY <3>1
      <4>3. b = n /\ l = 1
        BY <4>2, <2>7
      <4>4. QED
        BY <4>1, <4>3
    <3>2. CASE queue'[a][i] # j0
      <4> DEFINE oi == IF a = n THEN i - 1 ELSE i
                 ol == IF b = n THEN l - 1 ELSE l
      <4>1. /\ oi \in DOMAIN queue[a] /\ queue'[a][i] = queue[a][oi]
            /\ ol \in DOMAIN queue[b] /\ queue'[b][l] = queue[b][ol]
            /\ a = n => i \in 2 .. Len(queue[n]) + 1
            /\ b = n => l \in 2 .. Len(queue[n]) + 1
        BY <3>2, <2>7
      <4>2. a = b /\ oi = ol
        <5> HIDE DEF oi, ol
        <5>1. queue[a][oi] = queue[b][ol]
          BY <4>1
        <5>2. QED
          BY <4>1, <5>1 DEF IInv, NoJobDuplicated, OnePosition
      <4>3. QED
        BY <4>1, <4>2, <2>5
    <3>3. QED
      BY <3>1, <3>2
  <2>14. OneJobId'
    BY <2>1 DEF IInv, NoJobDuplicated, OneJobId
  <2>15. OneState'
    BY <1>2, <2>2, <2>8, <2>9, <2>10 DEF IInv, NoJobDuplicated, OneState
  <2>16. NoOrphanList'
    BY <1>2, <2>3, <2>6 DEF IInv, NoOrphanList
  <2>17. HomeQueue'
    <3>1. \A m \in QueueName : \A j \in Range(queue'[m]) :
              j \in Range(queue[m]) \/ (m = n /\ j = j0)
      BY <2>5, <2>6
    <3>2. HomeQueue
      BY DEF IInv
    <3>3. \A m \in QueueName : \A j \in Range(queue'[m]) :
              j \in Job' /\ pushes'[j] = m
      BY ONLY <1>2, <2>2, <2>8, <3>1, <3>2 DEF HomeQueue
    <3>4. \A k \in DOMAIN inprogress' :
              /\ inprogress'[k].job \in Job'
              /\ pushes'[inprogress'[k].job] = inprogress'[k].queue
      BY ONLY <1>2, <2>1, <2>8, <3>2 DEF HomeQueue
    <3>5. QED
      BY <3>3, <3>4 DEF HomeQueue
  <2>18. FreshJobsInOrder'
    <3> SUFFICES ASSUME NEW m \in QueueName,
                        NEW i \in DOMAIN queue'[m], NEW l \in DOMAIN queue'[m],
                        i < l, queue'[m][i] \notin popped'
                 PROVE  queue'[m][l] \notin popped' /\ queue'[m][i] < queue'[m][l]
      BY DEF FreshJobsInOrder
    <3> DEFINE oi == IF m = n THEN i - 1 ELSE i
               ol == IF m = n THEN l - 1 ELSE l
    <3>1. /\ oi \in DOMAIN queue[m] /\ queue'[m][i] = queue[m][oi]
          /\ m = n => i \in 2 .. Len(queue[n]) + 1
      BY <1>2, <2>2, <2>7
    <3>2. /\ ol \in DOMAIN queue[m] /\ queue'[m][l] = queue[m][ol]
          /\ m = n => l \in 2 .. Len(queue[n]) + 1
      <4>1. CASE m = n /\ l = 1
        BY <3>1, <4>1, <2>5
      <4>2. CASE ~(m = n /\ l = 1)
        BY <4>2, <2>7
      <4>3. QED
        BY <4>1, <4>2
    <3>3. oi < ol
      BY <3>1, <3>2, <2>5
    <3>4. queue[m][ol] \notin popped /\ queue[m][oi] < queue[m][ol]
      <4> HIDE DEF oi, ol
      <4>1. queue[m][oi] \notin popped
        BY <1>2, <3>1
      <4>2. QED
        BY <3>1, <3>2, <3>3, <4>1 DEF IInv, FreshJobsInOrder
    <3>5. QED
      BY <1>2, <3>1, <3>2, <3>4
  <2>19. OnlyPoppedJobsLeft'
    BY <1>2, <2>1 DEF IInv, OnlyPoppedJobsLeft
  <2>20. QED
    BY <2>11, <2>12, <2>13, <2>14, <2>15, <2>16, <2>17, <2>18, <2>19
    DEF IInv, NoJobDuplicated
<1>3. QED
  BY <1>1, <1>2 DEF RequeueInProgress

-----------------------------------------------------------------------------

LEMMA NextIInv == IInv /\ [Next]_queueVars => IInv'
<1> SUFFICES ASSUME IInv, [Next]_queueVars PROVE IInv'
  OBVIOUS
<1>1. ASSUME NEW n \in QueueName, CreateQueue(n) PROVE IInv'
  BY <1>1, CreateQueueIInv
<1>2. ASSUME NEW n \in QueueName, DeleteQueue(n) PROVE IInv'
  BY <1>2, DeleteQueueIInv
<1>3. CASE ClientPush
  BY <1>3, PushIInv DEF ClientPush
<1>4. ASSUME NEW n \in QueueName, NEW s \in ServerKey, Pop(n, s) PROVE IInv'
  BY <1>4, PopIInv
<1>5. CASE ClientRequeue
  <2>1. JobIdArg \subseteq Int
    BY BoundsAreNat DEF JobIdArg
  <2>2. QED
    BY <1>5, <2>1, RequeueInProgressIInv DEF ClientRequeue
<1>6. ASSUME NEW id \in JobIdArg, RemoveInProgress(id) PROVE IInv'
  <2>1. id \in Int
    BY BoundsAreNat DEF JobIdArg
  <2>2. QED
    BY <1>6, <2>1, RemoveInProgressIInv
<1>7. CASE UNCHANGED queueVars
  <2>1. reply' \in Replies /\ UNCHANGED <<redis, history>>
    BY <1>7 DEF queueVars, IInv, TypeOK
  <2>2. QED
    BY <2>1, UnchangedIInv
<1>8. QED
  BY <1>1, <1>2, <1>3, <1>4, <1>5, <1>6, <1>7 DEF Next

\* The inductive invariant holds in every reachable state of the queue.
THEOREM Invariance == Spec => []IInv
BY InitIInv, NextIInv, PTL DEF Spec

\* The Redis keys of the queue keep their types.
THEOREM TypeCorrect == Spec => []TypeOK
<1>1. IInv => TypeOK
  BY DEF IInv
<1>2. QED
  BY <1>1, Invariance, PTL

\* A pushed job is always somewhere: queued, in progress, completed, or
\* returned to whoever deleted its queue.
THEOREM JobsAreNotLost == Spec => []NoJobLost
<1>1. IInv => NoJobLost
  BY DEF IInv
<1>2. QED
  BY <1>1, Invariance, PTL

\* A pushed job is never in two places at a time.
THEOREM JobsAreNotDuplicated == Spec => []NoJobDuplicated
<1>1. IInv => NoJobDuplicated
  BY DEF IInv
<1>2. QED
  BY <1>1, Invariance, PTL

\* Jobs never popped leave in the order of their pushes, after those put back.
THEOREM QueueOrder == Spec => []FreshJobsInOrder
<1>1. IInv => FreshJobsInOrder
  BY DEF IInv
<1>2. QED
  BY <1>1, Invariance, PTL

\* No list survives the deletion of its queue.
THEOREM NoListWithoutQueue == Spec => []NoOrphanList
<1>1. IInv => NoOrphanList
  BY DEF IInv
<1>2. QED
  BY <1>1, Invariance, PTL

\* A job is queued only where it was pushed to.
THEOREM JobsStayHome == Spec => []HomeQueue
<1>1. IInv => HomeQueue
  BY DEF IInv
<1>2. QED
  BY <1>1, Invariance, PTL

\* A step keeps the entries it leaves, and enters new ones under new ids.
NewIdsOnly == \A id \in DOMAIN inprogress' :
                  IF id \in DOMAIN inprogress
                  THEN inprogress'[id] = inprogress[id]
                  ELSE id > jobid /\ id <= jobid'

LEMMA IdsStep ==
  ASSUME IInv, [Next]_queueVars
  PROVE  NewIdsOnly
<1> USE DEF NewIdsOnly
<1>0. CASE UNCHANGED queueVars
  BY <1>0 DEF queueVars, redis
<1>1. jobid \in Nat
  BY DEF IInv, TypeOK
<1>2. CASE inprogress' = inprogress
  BY <1>2
<1>3. ASSUME NEW id, inprogress' = HDel(inprogress, id) PROVE NewIdsOnly
  BY <1>3 DEF HDel, Restrict
<1>4. ASSUME NEW job, jobid' = jobid + 1,
             inprogress' = HSet(inprogress, jobid + 1, job),
             jobid + 1 \notin DOMAIN inprogress
      PROVE  NewIdsOnly
  BY <1>1, <1>4 DEF HSet
<1>5. jobid + 1 \notin DOMAIN inprogress
  BY <1>1 DEF IInv, TypeOK
<1>6. ASSUME NEW n \in QueueName, NEW s \in ServerKey, Pop(n, s) PROVE NewIdsOnly
  BY <1>2, <1>4, <1>5, <1>6 DEF Pop, Raise, redis
<1>7. CASE ClientPush
  BY <1>2, <1>7 DEF ClientPush, Push, Raise, redis
<1>8. CASE ClientRequeue
  BY <1>2, <1>3, <1>8 DEF ClientRequeue, RequeueInProgress, NoSuchJob, Raise, redis
<1>9. ASSUME NEW id \in JobIdArg, RemoveInProgress(id) PROVE NewIdsOnly
  BY <1>2, <1>3, <1>9 DEF RemoveInProgress, NoSuchJob, Raise, redis
<1>10. ASSUME NEW n \in QueueName, CreateQueue(n) \/ DeleteQueue(n) PROVE NewIdsOnly
  BY <1>2, <1>10 DEF CreateQueue, DeleteQueue, Raise, redis
<1>11. QED
  BY <1>0, <1>6, <1>7, <1>8, <1>9, <1>10 DEF Next

\* Job ids are handed out once, and what they name does not change.
THEOREM UniqueJobIds == Spec => JobIdsAreUnique
<1>1. IInv /\ [Next]_queueVars => [NewIdsOnly]_queueVars
  BY IdsStep
<1>2. QED
  BY <1>1, Invariance, PTL DEF Spec, JobIdsAreUnique, NewIdsOnly

\* A call that raises leaves the Redis keys as they were.
THEOREM FailuresChangeNothing == Spec => FailedCallChangesNothing
<1> DEFINE A == reply' # "ok" => UNCHANGED redis
<1>1. [Next]_queueVars => [A]_queueVars
  BY DEF Next, ClientPush, ClientRequeue, CreateQueue, DeleteQueue, Push, Pop,
         RequeueInProgress, RemoveInProgress, NoSuchJob, Raise
<1>2. QED
  BY <1>1, PTL DEF Spec, FailedCallChangesNothing

-----------------------------------------------------------------------------
(***************************************************************************)
(* JobQueue implements JobLedger: every step of the queue is a step of the *)
(* ledger LedgerView, or leaves it unchanged.                              *)
(***************************************************************************)

LEMMA ViewFacts ==
  /\ DOMAIN LedgerView = Job
  /\ \A j \in Job : /\ LedgerView[j] = LineOf(j)
                    /\ LedgerView[j].queue = pushes[j]
                    /\ LedgerView[j].status = StatusOf(j)
                    /\ LedgerView[j].fresh = (j \notin popped)
BY DEF LedgerView, LineOf

\* Where a job is decides its status.
LEMMA StatusFacts ==
  ASSUME IInv, NEW j \in Job
  PROVE  /\ StatusOf(j) = "queued" <=> Queued(j)
         /\ StatusOf(j) = "running" <=> Running(j)
         /\ StatusOf(j) = "completed" <=> j \in completed
         /\ StatusOf(j) = "returned" <=> j \in returned
<1>1. Queued(j) \/ Running(j) \/ j \in completed \/ j \in returned
  BY DEF IInv, NoJobLost
<1>2. /\ Queued(j) => ~Running(j) /\ j \notin completed \cup returned
      /\ Running(j) => j \notin completed \cup returned
      /\ j \in completed => j \notin returned
  BY DEF IInv, NoJobDuplicated, OneState
<1>3. QED
  BY <1>1, <1>2 DEF StatusOf

\* Two views are equal when they give every job the same line.
LEMMA SameView ==
  ASSUME UNCHANGED <<pushes, popped, completed>>,
         \A j \in Job : (Queued(j)' <=> Queued(j)) /\ (Running(j)' <=> Running(j))
  PROVE  UNCHANGED LedgerView
<1>1. UNCHANGED Job
  BY DEF Job
<1>2. \A j \in Job : UNCHANGED LineOf(j)
  BY DEF LineOf, StatusOf
<1>3. QED
  BY <1>1, <1>2 DEF LedgerView

LEMMA UnchangedView ==
  ASSUME UNCHANGED <<redis, history>>
  PROVE  UNCHANGED LedgerView
<1>1. UNCHANGED <<queue, inprogress, pushes, popped, completed>>
  BY DEF redis, history
<1>2. \A j : (Queued(j)' <=> Queued(j)) /\ (Running(j)' <=> Running(j))
  BY <1>1 DEF Queued, Running
<1>3. QED
  BY <1>1, <1>2, SameView

LEMMA CreateQueueStep ==
  ASSUME NEW n \in QueueName, CreateQueue(n)
  PROVE  UNCHANGED LedgerView
<1>1. UNCHANGED <<queue, inprogress, pushes, popped, completed>>
  BY DEF CreateQueue, Raise, redis, history
<1>2. \A j : (Queued(j)' <=> Queued(j)) /\ (Running(j)' <=> Running(j))
  BY <1>1 DEF Queued, Running
<1>3. QED
  BY <1>1, <1>2, SameView

\* When one job alone changes its place, the ledger moves its line.
LEMMA MovedJob ==
  ASSUME NEW j0 \in Job, NEW status,
         StatusOf(j0)' = status, j0 \in popped',
         UNCHANGED <<pushes, completed>>,
         \A j \in Job \ {j0} : /\ (Queued(j)' <=> Queued(j))
                               /\ (Running(j)' <=> Running(j))
                               /\ (j \in popped') <=> (j \in popped)
  PROVE  Ledger!MoveTo(j0, status)
<1>1. UNCHANGED Job
  BY DEF Job
<1>2. ASSUME NEW j \in Job \ {j0}
      PROVE  LineOf(j)' = LineOf(j)
  <2>1. StatusOf(j)' = StatusOf(j)
    BY DEF StatusOf
  <2>2. (j \notin popped)' = (j \notin popped)
    OBVIOUS
  <2>3. pushes'[j] = pushes[j]
    OBVIOUS
  <2>4. QED
    BY <2>1, <2>2, <2>3, Zenon DEF LineOf
<1>3. LineOf(j0)' = [queue  |-> LedgerView[j0].queue,
                     status |-> status,
                     fresh  |-> FALSE]
  BY ViewFacts DEF LineOf
<1>4. QED
  BY <1>1, <1>2, <1>3 DEF LedgerView, Ledger!MoveTo

LEMMA PopStep ==
  ASSUME IInv, IInv', NEW n \in QueueName, NEW s \in ServerKey, Pop(n, s)
  PROVE  (\E j \in DOMAIN LedgerView : Ledger!Start(j)) \/ UNCHANGED LedgerView
<1>1. CASE UNCHANGED <<redis, history>>
  BY <1>1, UnchangedView
<1>2. CASE /\ queue[n] # <<>>
           /\ queue' = [queue EXCEPT ![n] = Tail(@)]
           /\ inprogress' = HSet(inprogress, jobid + 1,
                                 [queue  |-> n,
                                  server |-> s,
                                  job    |-> Head(queue[n])])
           /\ popped' = popped \cup {Head(queue[n])}
           /\ UNCHANGED <<queues, pushes, completed, returned, requeues>>
  <2>0. PICK j0 : j0 = Head(queue[n])
    OBVIOUS
  <2>1. /\ j0 = queue[n][1]
        /\ 1 \in DOMAIN queue[n]
        /\ DOMAIN queue[n] = 1 .. Len(queue[n])
        /\ Len(queue[n]) \in Nat
        /\ Range(queue[n]) = Range(Tail(queue[n])) \cup {j0}
    <3>1. queue[n] \in Seq(Nat \ {0})
      BY DEF IInv, TypeOK
    <3>2. QED
      BY <1>2, <2>0, <3>1, TailFacts
  <2>2. \A m \in QueueName :
            queue'[m] = IF m = n THEN Tail(queue[n]) ELSE queue[m]
    BY <1>2 DEF IInv, TypeOK
  <2>3. j0 \in Job /\ Queued(j0) /\ pushes[j0] = n
    BY <2>1 DEF IInv, HomeQueue, Queued
  <2>4. /\ jobid + 1 \notin DOMAIN inprogress
        /\ \A j : Running(j)' <=> Running(j) \/ j = j0
    <3>1. /\ jobid + 1 \notin DOMAIN inprogress
          /\ DOMAIN inprogress' = DOMAIN inprogress \cup {jobid + 1}
          /\ inprogress'[jobid + 1].job = j0
          /\ \A id \in DOMAIN inprogress : inprogress'[id] = inprogress[id]
      BY <1>2, <2>0 DEF IInv, TypeOK, HSet
    <3>2. QED
      BY <3>1 DEF Running
  <2>5. UNCHANGED Job
    BY <1>2 DEF Job
  <2>6. \A j \in Job : Queued(j)' <=> Queued(j) /\ j # j0
    <3>1. ~Queued(j0)'
      BY <2>3, <2>4, <2>5 DEF IInv, NoJobDuplicated, OneState
    <3>2. \A j : j # j0 => (Queued(j)' <=> Queued(j))
      BY <2>1, <2>2 DEF Queued
    <3>3. QED
      BY <3>1, <3>2
  <2>7. /\ LedgerView[j0].status = "queued"
        /\ LedgerView[j0].queue = n
        /\ LedgerView[j0].fresh = (j0 \notin popped)
    BY <2>3, ViewFacts, StatusFacts
  <2>8. Ledger!IsNext(j0)
    <3> SUFFICES ASSUME j0 \notin popped, NEW i \in Ledger!Waiting(n)
                 PROVE  LedgerView[i].fresh /\ j0 <= i
      BY <2>7 DEF Ledger!IsNext
    <3>1. i \in Job /\ pushes[i] = n /\ StatusOf(i) = "queued"
      BY ViewFacts DEF Ledger!Waiting
    <3>2. i \in Range(queue[n])
      BY <3>1, StatusFacts DEF IInv, HomeQueue, Queued
    <3>3. PICK k \in DOMAIN queue[n] : queue[n][k] = i
      BY <3>2 DEF Range
    <3>4. i \notin popped /\ j0 <= i
      <4>1. CASE k = 1
        <5>1. i = j0
          BY <2>1, <3>3, <4>1
        <5>2. j0 \in Nat
          BY <2>3 DEF Job
        <5>3. QED
          BY <5>1, <5>2
      <4>2. CASE k # 1
        <5>1. 1 < k
          BY <2>1, <3>3, <4>2
        <5>2. queue[n][1] \notin popped
          BY <2>1
        <5>3. i \notin popped /\ queue[n][1] < queue[n][k]
          BY <2>1, <3>3, <5>1, <5>2 DEF IInv, FreshJobsInOrder
        <5>4. j0 \in Nat /\ i \in Nat
          BY <2>3, <3>1 DEF Job
        <5>5. QED
          BY <2>1, <3>3, <5>3, <5>4
      <4>3. QED
        BY <4>1, <4>2
    <3>5. QED
      BY <3>1, <3>4, ViewFacts
  <2>9. Ledger!MoveTo(j0, "running")
    <3>1. \A j \in Job \ {j0} : (Queued(j)' <=> Queued(j))
                              /\ (Running(j)' <=> Running(j))
      BY <2>4, <2>6
    <3>2. ~Queued(j0)' /\ Running(j0)'
      BY <2>3, <2>4, <2>6
    <3>3. StatusOf(j0)' = "running"
      BY <3>2 DEF StatusOf
    <3>4. QED
      BY <1>2, <2>0, <2>3, <3>1, <3>3, MovedJob
  <2>10. Ledger!Start(j0)
    BY <2>7, <2>8, <2>9 DEF Ledger!Start
  <2>11. QED
    BY <2>3, <2>10, ViewFacts
<1>3. QED
  BY <1>1, <1>2 DEF Pop, Raise

\* A function on 1 .. n is a sequence of length n.
LEMMA SequenceFromFunction ==
  ASSUME NEW S, NEW n \in Nat, NEW f \in [1 .. n -> S]
  PROVE  f \in Seq(S) /\ Len(f) = n
<1>1. f \in Seq(S)
  OBVIOUS
<1>2. DOMAIN f = 1 .. Len(f) /\ DOMAIN f = 1 .. n /\ Len(f) \in Nat
  BY <1>1, LenProperties
<1>3. QED
  BY <1>1, <1>2

LEMMA PushStep ==
  ASSUME IInv, IInv', NEW n \in QueueName, NEW k \in 0 .. 2, Push(n, k)
  PROVE  Ledger!Submit(n) \/ UNCHANGED LedgerView
<1>1. CASE UNCHANGED <<redis, history>>
  BY <1>1, UnchangedView
<1>2. CASE /\ queue' = [queue EXCEPT ![n] = Append(@, Len(pushes) + 1)]
           /\ pushes' = Append(pushes, n)
           /\ UNCHANGED <<queues, jobid, inprogress,
                          popped, completed, returned, requeues>>
  <2>0. PICK j0 : j0 = Len(pushes) + 1
    OBVIOUS
  <2>1. /\ Len(pushes) \in Nat
        /\ pushes \in Seq(QueueName)
        /\ Job' = Job \cup {j0}
        /\ j0 \notin Job
        /\ DOMAIN pushes = Job
        /\ \A j \in Job : pushes'[j] = pushes[j]
        /\ pushes'[j0] = n
    BY <1>2, <2>0, AppendProperties, LenProperties DEF IInv, TypeOK, Job
  <2>2. \A m \in QueueName :
            Range(queue'[m]) = IF m = n THEN Range(queue[n]) \cup {j0}
                                        ELSE Range(queue[m])
    <3>1. queue[n] \in Seq(Nat \ {0}) /\ j0 \in Nat \ {0}
      BY <2>0, <2>1 DEF IInv, TypeOK
    <3>2. Range(Append(queue[n], j0)) = Range(queue[n]) \cup {j0}
      BY <3>1, AppendFacts
    <3>3. QED
      BY <1>2, <2>0, <3>2 DEF IInv, TypeOK
  <2>3. \A j \in Job : /\ Queued(j)' <=> Queued(j)
                       /\ Running(j)' <=> Running(j)
    BY <1>2, <2>1, <2>2 DEF Queued, Running
  <2>4. Queued(j0)' /\ j0 \notin popped
    BY <2>1, <2>2 DEF Queued, IInv, TypeOK
  <2>5. ASSUME NEW j \in Job
        PROVE  LineOf(j)' = LineOf(j)
    <3>1. StatusOf(j)' = StatusOf(j)
      BY <1>2, <2>3 DEF StatusOf
    <3>2. (j \notin popped)' = (j \notin popped)
      BY <1>2
    <3>3. pushes'[j] = pushes[j]
      BY <2>1
    <3>4. QED
      BY <3>1, <3>2, <3>3, Zenon DEF LineOf
  <2>6. LineOf(j0)' = [queue |-> n, status |-> "queued", fresh |-> TRUE]
    BY <1>2, <2>1, <2>4 DEF LineOf, StatusOf
  <2>7. PICK new : new = [queue |-> n, status |-> "queued", fresh |-> TRUE]
    OBVIOUS
  <2>8. PICK S : S = {LineOf(j) : j \in Job} \cup {new}
    OBVIOUS
  <2>9. LedgerView \in Seq(S) /\ Len(LedgerView) = Len(pushes)
    <3>1. LedgerView \in [1 .. Len(pushes) -> S]
      BY <2>8 DEF LedgerView, Job
    <3>2. QED
      BY <2>1, <3>1, SequenceFromFunction
  <2>10. /\ LedgerView' \in Seq(S)
         /\ Len(LedgerView') = j0
         /\ \A i \in 1 .. j0 : LedgerView'[i] = IF i = j0 THEN new ELSE LineOf(i)
    <3>1. j0 \in Nat /\ Job' = 1 .. j0 /\ Job = 1 .. j0 - 1
      BY <2>0, <2>1 DEF Job
    <3>2. LedgerView' = [i \in 1 .. j0 |-> IF i = j0 THEN new ELSE LineOf(i)]
      BY <2>1, <2>5, <2>6, <2>7, <3>1 DEF LedgerView
    <3>3. LedgerView' \in [1 .. j0 -> S]
      BY <2>8, <3>1, <3>2
    <3>4. QED
      BY <3>1, <3>2, <3>3, SequenceFromFunction
  <2>11. /\ Append(LedgerView, new) \in Seq(S)
         /\ Len(Append(LedgerView, new)) = j0
         /\ \A i \in 1 .. j0 :
                Append(LedgerView, new)[i] = IF i = j0 THEN new ELSE LineOf(i)
    <3>1. new \in S
      BY <2>8
    <3>2. /\ Append(LedgerView, new) \in Seq(S)
          /\ Len(Append(LedgerView, new)) = Len(LedgerView) + 1
          /\ \A i \in 1 .. Len(LedgerView) :
                 Append(LedgerView, new)[i] = LedgerView[i]
          /\ Append(LedgerView, new)[Len(LedgerView) + 1] = new
      BY <2>9, <3>1, AppendProperties
    <3>3. \A i \in 1 .. Len(pushes) : LedgerView[i] = LineOf(i)
      BY ViewFacts DEF Job
    <3>4. QED
      BY <2>0, <2>1, <2>9, <3>2, <3>3
  <2>12. LedgerView' = Append(LedgerView, new)
    <3>1. \A i \in 1 .. j0 : LedgerView'[i] = Append(LedgerView, new)[i]
      BY <2>10, <2>11
    <3>2. QED
      BY <2>10, <2>11, <3>1, SeqEqual
  <2>13. QED
    BY <2>7, <2>12 DEF Ledger!Submit
<1>3. QED
  BY <1>1, <1>2 DEF Push, Raise

LEMMA RequeueStep ==
  ASSUME IInv, IInv', NEW id \in Int, RequeueInProgress(id)
  PROVE  (\E j \in DOMAIN LedgerView : Ledger!PutBack(j)) \/ UNCHANGED LedgerView
<1>1. CASE UNCHANGED <<redis, history>>
  BY <1>1, UnchangedView
<1>2. CASE /\ id \in DOMAIN inprogress
           /\ queue' = [queue EXCEPT ![inprogress[id].queue] =
                                         <<inprogress[id].job>> \o @]
           /\ inprogress' = HDel(inprogress, id)
           /\ UNCHANGED <<pushes, popped, completed, returned>>
  <2>0. PICK j0, n : j0 = inprogress[id].job /\ n = inprogress[id].queue
    OBVIOUS
  <2>1. n \in QueueName /\ j0 \in Nat \ {0} /\ queue[n] \in Seq(Nat \ {0})
    BY <1>2, <2>0 DEF IInv, TypeOK, InProgressJob
  <2>2. j0 \in Job /\ j0 \in popped /\ Running(j0) /\ ~Queued(j0)
    BY <1>2, <2>0 DEF IInv, HomeQueue, OnlyPoppedJobsLeft, NoJobDuplicated,
                      OneState, Running
  <2>3. \A m \in QueueName :
            Range(queue'[m]) = IF m = n THEN Range(queue[n]) \cup {j0}
                                        ELSE Range(queue[m])
    <3>1. Range(<<j0>> \o queue[n]) = Range(queue[n]) \cup {j0}
      BY <2>1, PrependFacts
    <3>2. QED
      BY <1>2, <2>0, <3>1 DEF IInv, TypeOK
  <2>4. \A j : Queued(j)' <=> Queued(j) \/ j = j0
    BY <2>1, <2>3 DEF Queued
  <2>5. \A j : j # j0 => (Running(j)' <=> Running(j))
    <3>1. /\ DOMAIN inprogress' = DOMAIN inprogress \ {id}
          /\ \A k \in DOMAIN inprogress \ {id} : inprogress'[k] = inprogress[k]
      BY <1>2, HDelFacts
    <3>2. QED
      BY <2>0, <3>1 DEF Running
  <2>6. StatusOf(j0)' = "queued"
    BY <2>4 DEF StatusOf
  <2>7. LedgerView[j0].status = "running"
    BY <2>2, ViewFacts, StatusFacts
  <2>8. Ledger!MoveTo(j0, "queued")
    <3>1. \A j \in Job \ {j0} : (Queued(j)' <=> Queued(j)) /\ (Running(j)' <=> Running(j))
      BY <2>4, <2>5
    <3>2. QED
      BY <1>2, <2>2, <2>6, <3>1, MovedJob
  <2>9. QED
    BY <2>2, <2>7, <2>8, ViewFacts DEF Ledger!PutBack
<1>3. QED
  BY <1>1, <1>2 DEF RequeueInProgress, NoSuchJob, Raise

LEMMA RemoveStep ==
  ASSUME IInv, IInv', NEW id \in Int, RemoveInProgress(id)
  PROVE  (\E j \in DOMAIN LedgerView : Ledger!Complete(j)) \/ UNCHANGED LedgerView
<1>1. CASE UNCHANGED <<redis, history>>
  BY <1>1, UnchangedView
<1>2. CASE /\ id \in DOMAIN inprogress
           /\ completed' = completed \cup {inprogress[id].job}
           /\ inprogress' = HDel(inprogress, id)
           /\ UNCHANGED <<queue, pushes, popped, returned>>
  <2>0. PICK j0 : j0 = inprogress[id].job
    OBVIOUS
  <2>1. j0 \in Job /\ j0 \in popped /\ Running(j0)
    BY <1>2, <2>0 DEF IInv, HomeQueue, OnlyPoppedJobsLeft, Running
  <2>2. \A j : Queued(j)' <=> Queued(j)
    BY <1>2 DEF Queued
  <2>3. \A j : j # j0 => (Running(j)' <=> Running(j))
    <3>1. /\ DOMAIN inprogress' = DOMAIN inprogress \ {id}
          /\ \A k \in DOMAIN inprogress \ {id} : inprogress'[k] = inprogress[k]
      BY <1>2, HDelFacts
    <3>2. QED
      BY <2>0, <3>1 DEF Running
  <2>4. UNCHANGED Job
    BY <1>2 DEF Job
  <2>5. StatusOf(j0)' = "completed"
    <3>1. j0 \in Job' /\ j0 \in completed'
      BY <1>2, <2>0, <2>1, <2>4
    <3>2. ~Queued(j0)' /\ ~Running(j0)'
      BY <3>1 DEF IInv, NoJobDuplicated, OneState
    <3>3. QED
      BY <3>1, <3>2 DEF StatusOf
  <2>6. \A j \in Job \ {j0} : LineOf(j)' = LineOf(j)
    <3> SUFFICES ASSUME NEW j \in Job \ {j0} PROVE LineOf(j)' = LineOf(j)
      OBVIOUS
    <3>1. StatusOf(j)' = StatusOf(j)
      BY <1>2, <2>0, <2>2, <2>3 DEF StatusOf
    <3>2. (j \notin popped)' = (j \notin popped)
      BY <1>2
    <3>3. pushes'[j] = pushes[j]
      BY <1>2
    <3>4. QED
      BY <3>1, <3>2, <3>3, Zenon DEF LineOf
  <2>7. LineOf(j0)' = [queue  |-> LedgerView[j0].queue,
                       status |-> "completed",
                       fresh  |-> FALSE]
    BY <1>2, <2>1, <2>5, ViewFacts DEF LineOf
  <2>8. Ledger!MoveTo(j0, "completed")
    BY <2>1, <2>4, <2>6, <2>7 DEF LedgerView, Ledger!MoveTo
  <2>9. LedgerView[j0].status = "running"
    BY <2>1, ViewFacts, StatusFacts
  <2>10. QED
    BY <2>1, <2>8, <2>9, ViewFacts DEF Ledger!Complete
<1>3. QED
  BY <1>1, <1>2 DEF RemoveInProgress, NoSuchJob, Raise

LEMMA DeleteQueueStep ==
  ASSUME IInv, IInv', NEW n \in QueueName, DeleteQueue(n)
  PROVE  Ledger!HandBack(n) \/ UNCHANGED LedgerView
<1>1. CASE UNCHANGED <<redis, history>>
  BY <1>1, UnchangedView
<1>2. CASE /\ returned' = returned \cup Range(queue[n])
           /\ queue' = [queue EXCEPT ![n] = <<>>]
           /\ UNCHANGED <<inprogress, pushes, popped, completed>>
  <2>1. UNCHANGED Job
    BY <1>2 DEF Job
  <2>2. Ledger!Waiting(n) = Range(queue[n])
    <3>1. ASSUME NEW j \in Range(queue[n]) PROVE j \in Ledger!Waiting(n)
      <4>1. j \in Job /\ pushes[j] = n /\ Queued(j)
        BY <3>1 DEF IInv, HomeQueue, Queued
      <4>2. QED
        BY <4>1, ViewFacts, StatusFacts DEF Ledger!Waiting
    <3>2. ASSUME NEW j \in Ledger!Waiting(n) PROVE j \in Range(queue[n])
      <4>1. j \in Job /\ pushes[j] = n /\ StatusOf(j) = "queued"
        BY <3>2, ViewFacts DEF Ledger!Waiting
      <4>2. QED
        BY <4>1, StatusFacts DEF IInv, HomeQueue, Queued
    <3>3. QED
      BY <3>1, <3>2
  <2>3. ASSUME NEW j \in Job, j \notin Range(queue[n])
        PROVE  LineOf(j)' = LineOf(j)
    <3>1. (Queued(j)' <=> Queued(j)) /\ (Running(j)' <=> Running(j))
      <4>1. \A m \in QueueName : queue'[m] = IF m = n THEN <<>> ELSE queue[m]
        BY <1>2 DEF IInv, TypeOK
      <4>2. Range(<<>>) = {}
        BY DEF Range
      <4>3. QED
        BY <1>2, <2>3, <4>1, <4>2 DEF Queued, Running
    <3>2. StatusOf(j)' = StatusOf(j)
      BY <1>2, <3>1 DEF StatusOf
    <3>3. (j \notin popped)' = (j \notin popped)
      BY <1>2
    <3>4. pushes'[j] = pushes[j]
      BY <1>2
    <3>5. QED
      BY <3>2, <3>3, <3>4, Zenon DEF LineOf
  <2>4. ASSUME NEW j \in Job, j \in Range(queue[n])
        PROVE  LineOf(j)' = [queue  |-> LedgerView[j].queue,
                             status |-> "returned",
                             fresh  |-> LedgerView[j].fresh]
    <3>1. StatusOf(j)' = "returned"
      <4>1. j \in Job' /\ j \in returned'
        BY <1>2, <2>1, <2>4
      <4>2. ~Queued(j)' /\ ~Running(j)' /\ j \notin completed'
        BY <4>1 DEF IInv, NoJobDuplicated, OneState
      <4>3. QED
        BY <4>2 DEF StatusOf
    <3>2. (j \notin popped)' = LedgerView[j].fresh
      BY <1>2, ViewFacts
    <3>3. pushes'[j] = LedgerView[j].queue
      BY <1>2, ViewFacts
    <3>4. QED
      BY <3>1, <3>2, <3>3, Zenon DEF LineOf
  <2>5. QED
    BY <2>1, <2>2, <2>3, <2>4 DEF LedgerView, Ledger!HandBack
<1>3. QED
  BY <1>1, <1>2 DEF DeleteQueue, Raise

\* A step of the queue is one step of the ledger, or none.
LEMMA LedgerStep ==
  ASSUME IInv, IInv', [Next]_queueVars
  PROVE  [Ledger!Next]_LedgerView
<1>1. DOMAIN LedgerView = Job
  BY ViewFacts
<1>2. ASSUME NEW n \in QueueName, CreateQueue(n) PROVE UNCHANGED LedgerView
  BY <1>2, CreateQueueStep
<1>3. ASSUME NEW n \in QueueName, DeleteQueue(n)
      PROVE  [Ledger!Next]_LedgerView
  BY <1>3, DeleteQueueStep DEF Ledger!Next
<1>4. CASE ClientPush
  BY <1>4, PushStep DEF ClientPush, Ledger!Next
<1>5. ASSUME NEW n \in QueueName, NEW s \in ServerKey, Pop(n, s)
      PROVE  [Ledger!Next]_LedgerView
  BY <1>5, PopStep DEF Ledger!Next
<1>6. JobIdArg \subseteq Int
  BY BoundsAreNat DEF JobIdArg
<1>7. CASE ClientRequeue
  BY <1>6, <1>7, RequeueStep DEF ClientRequeue, Ledger!Next
<1>8. ASSUME NEW id \in JobIdArg, RemoveInProgress(id)
      PROVE  [Ledger!Next]_LedgerView
  BY <1>6, <1>8, RemoveStep DEF Ledger!Next
<1>9. CASE UNCHANGED queueVars
  BY <1>9, UnchangedView DEF queueVars
<1>10. QED
  BY <1>2, <1>3, <1>4, <1>5, <1>7, <1>8, <1>9 DEF Next

LEMMA LedgerInit == Init => Ledger!Init
<1> SUFFICES ASSUME Init PROVE LedgerView = <<>>
  BY DEF Ledger!Init
<1>1. Job = {}
  BY DEF Init, Job
<1>2. LedgerView \in [1 .. 0 -> {}]
  BY <1>1 DEF LedgerView
<1>3. QED
  BY <1>2

\* The queue implements the ledger: whatever its clients do, jobs are
\* submitted, started, put back, completed and handed back as the ledger says.
THEOREM QueueIsALedger == Spec => ImplementsLedger
<1>1. IInv /\ IInv' /\ [Next]_queueVars => [Ledger!Next]_LedgerView
  BY LedgerStep
<1>2. QED
  BY <1>1, LedgerInit, Invariance, PTL DEF Spec, ImplementsLedger, Ledger!Spec

-----------------------------------------------------------------------------
(***************************************************************************)
(* Behind the REST API and the workers the queue is the queue of JobQueue, *)
(* so its theorems carry over.                                             *)
(***************************************************************************)

WorkQueuesOK == workQueues \subseteq QueueName

\* Every request and every worker step is a step of the queue, or leaves it.
LEMMA ApiStep ==
  ASSUME WorkQueuesOK, [ApiNext]_apiVars
  PROVE  [Next]_queueVars /\ WorkQueuesOK'
<1>1. ASSUME NEW n \in QueueName, NEW k \in 0 .. 2,
             Len(pushes) < MaxPushes, AddQueueJob(n, k)
      PROVE  [Next]_queueVars /\ WorkQueuesOK'
  BY <1>1 DEF AddQueueJob, ReplyLost, ClientPush, Next, WorkQueuesOK
<1>2. ASSUME NEW n \in QueueName, CreateNewJobQueue(n) \/ DeleteJobQueue(n)
      PROVE  [Next]_queueVars /\ WorkQueuesOK'
  BY <1>2 DEF CreateNewJobQueue, DeleteJobQueue, ReplyLost, Next, WorkQueuesOK
<1>3. ASSUME NEW n \in QueueName,
             SetServerQueueProperties(n) \/ DeleteServerQueue(n)
      PROVE  UNCHANGED queueVars /\ WorkQueuesOK'
  BY <1>3 DEF SetServerQueueProperties, DeleteServerQueue, WorkQueuesOK
<1>4. ASSUME NEW id \in JobIdArg, NEW entry, requeues < MaxRequeues,
             RequeueFor(entry, id)
      PROVE  [Next]_queueVars /\ WorkQueuesOK'
  BY <1>4 DEF RequeueFor, ReplyLost, ClientRequeue, Next, WorkQueuesOK
<1>5. ASSUME NEW s \in ServerKey, WorkerTakesJob(s)
      PROVE  Next /\ WorkQueuesOK'
  BY <1>5 DEF WorkerTakesJob, Next, WorkQueuesOK
<1>6. ASSUME NEW id \in JobIdArg, WorkerEndsJob(id)
      PROVE  Next /\ WorkQueuesOK'
  BY <1>6 DEF WorkerEndsJob, Next, WorkQueuesOK
<1>7. CASE UNCHANGED apiVars
  BY <1>7 DEF apiVars, WorkQueuesOK
<1>8. QED
  BY <1>1, <1>2, <1>3, <1>4, <1>5, <1>6, <1>7
     DEF ApiNext, RequeueInProgressJob, RemoveInProgressJob

LEMMA ApiInitFacts == ApiInit => Init /\ WorkQueuesOK
BY DEF ApiInit, WorkQueuesOK

\* Whatever requests arrive, the queue behind the API behaves as JobQueue
\* specifies.
THEOREM ApiUsesTheQueue == ApiSpec => ImplementsQueue
<1>1. WorkQueuesOK /\ [ApiNext]_apiVars => [Next]_queueVars /\ WorkQueuesOK'
  BY ApiStep
<1>2. QED
  BY <1>1, ApiInitFacts, PTL DEF ApiSpec, Spec, ImplementsQueue

AnswerOK == response.status \in Status /\ settled \subseteq JobIdArg

\* Every handler answers with a status the API knows, and a request is about an
\* id the API accepts.
LEMMA ApiAnswers ==
  ASSUME AnswerOK, [ApiNext]_apiVars
  PROVE  AnswerOK'
<1> USE DEF AnswerOK
<1>0. UNCHANGED JobIdArg
  BY DEF JobIdArg
<1>1. CASE UNCHANGED apiVars
  BY <1>0, <1>1 DEF apiVars
<1>2. CASE ApiNext
  <2>1. ASSUME NEW n \in QueueName, NEW k \in 0 .. 2, AddQueueJob(n, k)
        PROVE  AnswerOK'
    BY <1>0, <2>1 DEF AddQueueJob, Respond, Status
  <2>2. ASSUME NEW n \in QueueName, CreateNewJobQueue(n) \/ DeleteJobQueue(n)
        PROVE  AnswerOK'
    BY <1>0, <2>2 DEF CreateNewJobQueue, DeleteJobQueue, Respond, Status
  <2>3. ASSUME NEW n \in QueueName,
               SetServerQueueProperties(n) \/ DeleteServerQueue(n)
        PROVE  AnswerOK'
    BY <1>0, <2>3 DEF SetServerQueueProperties, DeleteServerQueue, Respond, Status
  <2>4. ASSUME NEW id \in JobIdArg, NEW entry, RequeueFor(entry, id)
        PROVE  AnswerOK'
    BY <1>0, <2>4 DEF RequeueFor, Respond, Status
  <2>5. ASSUME response' = NoRequest, UNCHANGED settled PROVE AnswerOK'
    BY <1>0, <2>5 DEF NoRequest, Status
  <2>6. QED
    BY <1>2, <2>1, <2>2, <2>3, <2>4, <2>5
       DEF ApiNext, WorkerTakesJob, WorkerEndsJob,
           RequeueInProgressJob, RemoveInProgressJob
<1>3. QED
  BY <1>1, <1>2

\* The types hold of the API's state and of the queue behind it.
THEOREM ApiTypeCorrect == ApiSpec => []ApiTypeOK
<1>1. ApiInit => WorkQueuesOK /\ AnswerOK
  BY ApiInitFacts DEF ApiInit, NoRequest, Status, AnswerOK
<1>2. WorkQueuesOK /\ AnswerOK /\ [ApiNext]_apiVars => WorkQueuesOK' /\ AnswerOK'
  BY ApiStep, ApiAnswers
<1>3. TypeOK /\ WorkQueuesOK /\ AnswerOK => ApiTypeOK
  BY DEF ApiTypeOK, WorkQueuesOK, AnswerOK
<1>4. QED
  BY <1>1, <1>2, <1>3, ApiUsesTheQueue, TypeCorrect, PTL
     DEF ApiSpec, ImplementsQueue

\* So no job is lost or duplicated behind the API, and the rest of the queue's
\* inductive invariant holds there too.
THEOREM ApiKeepsTheJobs == ApiSpec => [](NoJobLost /\ NoJobDuplicated /\ IInv)
<1>1. IInv => NoJobLost /\ NoJobDuplicated
  BY DEF IInv
<1>2. QED
  BY <1>1, ApiUsesTheQueue, Invariance, PTL DEF ImplementsQueue

\* What makes repeated requests harmless: an id whose request took effect was
\* handed out, and names no entry any more.
SettledOK == settled \subseteq 1 .. jobid \ DOMAIN inprogress

\* A requeue that changes Redis finds the entry and takes it out.
LEMMA RequeueTakesEntry ==
  ASSUME NEW id, RequeueInProgress(id), ~UNCHANGED redis
  PROVE  /\ id \in DOMAIN inprogress
         /\ id \notin DOMAIN inprogress'
         /\ jobid' = jobid
BY DEF RequeueInProgress, NoSuchJob, Raise, redis, HDel, Restrict

\* Only a requeue or remove request about the id itself settles an id.
LEMMA SettledBy ==
  ASSUME [ApiNext]_apiVars, NEW id \in settled', id \notin settled
  PROVE  RequeueInProgress(id) /\ ~UNCHANGED redis
<1>1. ASSUME NEW i, NEW entry, RequeueFor(entry, i)
      PROVE  RequeueInProgress(id) /\ ~UNCHANGED redis
  <2>1. ~UNCHANGED redis /\ id = i
    BY <1>1 DEF RequeueFor
  <2>2. QED
    BY <1>1, <2>1 DEF RequeueFor, ReplyLost, queueVars
<1>2. ~UNCHANGED settled
  OBVIOUS
<1>3. QED
  BY <1>1, <1>2 DEF ApiNext, AddQueueJob, CreateNewJobQueue, DeleteJobQueue,
         SetServerQueueProperties, DeleteServerQueue, WorkerTakesJob,
         WorkerEndsJob, RequeueInProgressJob, RemoveInProgressJob, apiVars

LEMMA SettledStep ==
  ASSUME IInv, IInv', WorkQueuesOK, SettledOK, [ApiNext]_apiVars
  PROVE  SettledOK'
<1>1. /\ jobid \in Nat /\ jobid' \in Nat
      /\ DOMAIN inprogress \subseteq 1 .. jobid
  BY DEF IInv, TypeOK
<1>2. NewIdsOnly /\ jobid' >= jobid
  <2>1. [Next]_queueVars
    BY ApiStep
  <2>2. jobid' = jobid \/ jobid' = jobid + 1
    BY <2>1 DEF Next, ClientPush, ClientRequeue, CreateQueue, DeleteQueue, Push,
           Pop, RequeueInProgress, RemoveInProgress, NoSuchJob, Raise,
           queueVars, redis
  <2>3. QED
    BY <1>1, <2>1, <2>2, IdsStep
<1>3. ASSUME NEW id \in settled'
      PROVE  id \in 1 .. jobid' /\ id \notin DOMAIN inprogress'
  <2>1. CASE id \in settled
    BY <1>1, <1>2, <2>1 DEF SettledOK, NewIdsOnly
  <2>2. CASE id \notin settled
    BY <1>1, <2>2, SettledBy, RequeueTakesEntry
  <2>3. QED
    BY <2>1, <2>2
<1>4. QED
  BY <1>3 DEF SettledOK

\* A requeue or remove request has an effect at most once, answered or not.
THEOREM RepetitionIsHarmless == ApiSpec => RepeatedRequestIsHarmless
<1> DEFINE A == \A id \in settled :
                    RequeueInProgressJob(id) \/ RemoveInProgressJob(id)
                        => UNCHANGED redis
<1>1. SettledOK => A
  <2>1. ASSUME NEW id \in settled, NEW entry, RequeueFor(entry, id), SettledOK
        PROVE  UNCHANGED redis
    BY <2>1, RequeueTakesEntry DEF SettledOK, RequeueFor, ReplyLost, queueVars
  <2>2. QED
    BY <2>1 DEF RequeueInProgressJob, RemoveInProgressJob
<1>2. ApiInit => WorkQueuesOK /\ SettledOK
  BY ApiInitFacts DEF ApiInit, SettledOK
<1>3. IInv /\ IInv' /\ WorkQueuesOK /\ SettledOK /\ [ApiNext]_apiVars
          => WorkQueuesOK' /\ SettledOK'
  BY ApiStep, SettledStep
<1>4. SettledOK => [A]_apiVars
  BY <1>1
<1>5. QED
  BY <1>2, <1>3, <1>4, ApiUsesTheQueue, Invariance, PTL
     DEF ApiSpec, ImplementsQueue, RepeatedRequestIsHarmless

\* A job handed back with its queue stays out of the queue for good.
THEOREM ReturnedJobsStayOut == ApiSpec => ReturnedJobsAreGone
<1> DEFINE A == \A j \in returned :
                    j \in returned' /\ ~Queued(j)' /\ ~Running(j)'
<1>1. IInv /\ IInv' /\ [Next]_queueVars => A
  <2> SUFFICES ASSUME IInv, IInv', [Next]_queueVars, NEW j \in returned
               PROVE  j \in returned' /\ ~Queued(j)' /\ ~Running(j)'
    OBVIOUS
  <2>1. j \in returned'
    BY DEF Next, ClientPush, ClientRequeue, CreateQueue, DeleteQueue, Push, Pop,
           RequeueInProgress, RemoveInProgress, NoSuchJob, Raise,
           queueVars, history
  <2>2. j \in Job'
    BY <2>1 DEF IInv, TypeOK
  <2>3. QED
    BY <2>1, <2>2 DEF IInv, NoJobDuplicated, OneState
<1>2. WorkQueuesOK /\ [ApiNext]_apiVars => [Next]_queueVars /\ WorkQueuesOK'
  BY ApiStep
<1>3. IInv /\ IInv' /\ WorkQueuesOK /\ [ApiNext]_apiVars => [A]_apiVars
  BY <1>1, <1>2
<1>4. QED
  BY <1>2, <1>3, ApiInitFacts, ApiUsesTheQueue, Invariance, PTL
     DEF ApiSpec, ReturnedJobsAreGone, ImplementsQueue
=============================================================================
